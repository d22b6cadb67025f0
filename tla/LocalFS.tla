------------------------------- MODULE LocalFS -------------------------------
(***************************************************************************)
(* LocalFS and LocalFile (lib/vfs/localfs.cpp): the part of POSIX the      *)
(* storage engine uses, as operators on a file system value.  A table is a *)
(* directory, a segment a file in it, named by its table and number; a     *)
(* name leads to a file, and a file that is unlinked lives on for as long  *)
(* as somebody has it open.                                                *)
(*                                                                         *)
(* A file is a sequence of pages.  A page is its first bytes, where page 0 *)
(* of a table keeps the table's metadata, and the rest; a file that ends   *)
(* after the first bytes of its last page has Short for the rest.          *)
(***************************************************************************)
EXTENDS Integers, Sequences, Functions

CONSTANTS FileIds,   \* what tells files apart, an inode number
          Zero,      \* bytes that were never written, or are padding
          Short      \* bytes past the end of the file

EmptyFS == [control |-> "absent", dirs |-> {}, names |-> <<>>, data |-> <<>>]

Page(head, body) == [head |-> head, body |-> body]
ZeroPage == Page(Zero, Zero)

\* pwrite of a whole page; the gap up to it reads as zeros.
WritePage(file, p, page) ==
    LET size == IF p < Len(file) THEN Len(file) ELSE p + 1
        Filled(i) == IF i < size /\ file[i].body = Short THEN Page(file[i].head, Zero)
                                                        ELSE file[i]
    IN  [i \in 1..size |-> IF i = p + 1 THEN page
                           ELSE IF i <= Len(file) THEN Filled(i) ELSE ZeroPage]

\* pwrite of the first bytes of the file.
WriteHead(file, h) ==
    IF file = <<>> THEN <<Page(h, Short)>>
                   ELSE [file EXCEPT ![1] = Page(h, file[1].body)]

\* pread of a page; past the end nothing is read, and nothing is reported.
ReadPage(file, p) == IF p < Len(file) THEN file[p + 1] ELSE Page(Short, Short)

\* filesize() in whole pages
FilePages(file) == IF file # <<>> /\ file[Len(file)].body = Short THEN Len(file) - 1
                                                                  ELSE Len(file)

dir_exists(fs, t) == t \in fs.dirs
seg_exists(fs, t, s) == <<t, s>> \in DOMAIN fs.names
ls(fs, t) == {s \in {n[2] : n \in DOMAIN fs.names} : seg_exists(fs, t, s)}

\* A file system with other directories, names or files.
WithDirs(fs, dirs) ==
    [control |-> fs.control, dirs |-> dirs, names |-> fs.names, data |-> fs.data]
WithFiles(fs, names, data) ==
    [control |-> fs.control, dirs |-> fs.dirs, names |-> names, data |-> data]

mkdir(fs, t) == WithDirs(fs, fs.dirs \cup {t})
rmdir(fs, t) == WithDirs(fs, fs.dirs \ {t})

\* open() creates the file it does not find (O_CREAT is always added).
NewFile(fs) == CHOOSE i \in FileIds : i \notin DOMAIN fs.data
OpenFile(fs, t, s) ==
    LET i == NewFile(fs)
    IN  IF seg_exists(fs, t, s) THEN fs
        ELSE WithFiles(fs,
                [n \in DOMAIN fs.names \cup {<<t, s>>} |-> IF n = <<t, s>> THEN i ELSE fs.names[n]],
                [j \in DOMAIN fs.data \cup {i} |-> IF j = i THEN <<>> ELSE fs.data[j]])

unlink(fs, t, S) ==
    WithFiles(fs, Restrict(fs.names, {n \in DOMAIN fs.names : n[1] # t \/ n[2] \notin S}), fs.data)

\* The operating system frees a file with no name that nobody has open.
Freed(fs, used) ==
    WithFiles(fs, fs.names, Restrict(fs.data,
        DOMAIN fs.data \cap (used \cup {fs.names[n] : n \in DOMAIN fs.names})))
=============================================================================
