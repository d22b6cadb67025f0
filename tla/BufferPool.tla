------------------------------ MODULE BufferPool ------------------------------
(***************************************************************************)
(* pager::BufferPoolManager, its frames and its page guards                *)
(* (lib/pager/bufferpool): threads take read and write guards on pages,    *)
(* the pool caches the pages in a fixed set of frames.                     *)
(*                                                                         *)
(* A step is what a thread does between two points where it may wait: for  *)
(* bpm_latch_, or for the shared_mutex of a frame.  A call that returns    *)
(* without changing anything (an empty guard, evict_page of a pinned page, *)
(* flush_page of an uncached one, get_pin_count) is no step.               *)
(*                                                                         *)
(* A thread of the model has at most one guard and calls the pool without  *)
(* one; a program thread that holds several guards, or calls the pool with *)
(* a guard in hand, is several threads here.                               *)
(***************************************************************************)
EXTENDS Integers, Sequences, FiniteSets, LRUKPolicy

CONSTANTS Threads,
          NumFrames,    \* num_frames_
          NumPages,     \* bound: pages the table can grow to
          Values,       \* page contents
          Zero,         \* an all-zero page
          PinModulus,   \* 2^64 in the code: size_t pins_ wraps there
          LateWriters,  \* threads that go on writing through a reference of
                        \* get_data_mut after they flushed
          NoThread, NoGuard

\* Frames, K (EVICTOR_K) and NoFrame are constants of LRUKPolicy.
Pages == 0 .. NumPages - 1

ASSUME SizesAssumption == NumFrames \in Nat \ {0} /\ NumPages \in Nat
ASSUME FramesAssumption == Frames = 0 .. NumFrames - 1
ASSUME ThreadsAssumption == IsFiniteSet(Threads) /\ Cardinality(Threads) < PinModulus
ASSUME ValuesAssumption == Zero \in Values
ASSUME KAssumption == K \in Nat \ {0}
ASSUME PinAssumption == PinModulus \in Nat \ {0, 1}
ASSUME ClientAssumption == LateWriters \subseteq Threads
ASSUME NullAssumption == /\ NoThread \notin Threads
                         /\ NoFrame \notin Frames

VARIABLES bpm_latch,     \* owner of bpm_latch_
          frame_table,   \* page -> frame, NoFrame when not cached
          free_list,
          evictor,       \* as in LRUKPolicy
          pins, dirty, data,   \* FrameHeader fields, by frame
          writer, readers,     \* owners of each frame's rwlatch_
          disk,          \* what StorageEngine::read_page returns
          num_pages,     \* pages 0 .. num_pages - 1 are allocated
          pc, guard,     \* of each thread
          todo,          \* pages a flush has still to write, by thread
          refs,          \* threads that write through a reference to their frame
          aborted        \* an assert failed

frameVars == <<pins, dirty, data>>
latchVars == <<writer, readers>>
poolVars == <<frame_table, free_list, evictor>>
storageVars == <<disk, num_pages>>
vars == <<bpm_latch, poolVars, frameVars, latchVars, storageVars,
          pc, guard, todo, refs, aborted>>

Mapped == {p \in Pages : frame_table[p] # NoFrame}
Allocated == 0 .. num_pages - 1
Guards == [page : Pages, frame : Frames, mode : {"read", "write"}]

Init == /\ bpm_latch = NoThread
        /\ frame_table = [p \in Pages |-> NoFrame]
        /\ free_list = [i \in 1 .. NumFrames |-> i - 1]
        /\ evictor = Untouched
        /\ pins = [f \in Frames |-> 0]
        /\ dirty = [f \in Frames |-> FALSE]
        /\ data = [f \in Frames |-> Zero]
        /\ writer = [f \in Frames |-> NoThread]
        /\ readers = [f \in Frames |-> {}]
        /\ num_pages \in 0 .. NumPages
        /\ disk \in {d \in [Pages -> Values] :
                         \A p \in Pages : p >= num_pages => d[p] = Zero}
        /\ pc = [t \in Threads |-> "idle"]
        /\ guard = [t \in Threads |-> NoGuard]
        /\ todo = [t \in Threads |-> {}]
        /\ refs = {}
        /\ aborted = FALSE
-----------------------------------------------------------------------------
(***************************************************************************)
(* ensure_free_frame: the frame a miss gets, the head of free_list_ or the *)
(* evictor's victim.  The victim goes on free_list_ and nothing else       *)
(* happens to it: its page stays in frame_table_, its data is not written. *)
(***************************************************************************)
ensure_free_frame == free_list # <<>> \/ evictor.evictable # {}

FreeList == IF free_list # <<>> THEN free_list ELSE <<Victim(evictor)>>

Evictor == IF free_list # <<>> THEN evictor ELSE Forget(evictor, Victim(evictor))

\* assert(free_list_.size() + frame_table_.size() == num_frames_) in size()
size_assert(list) == Len(list) + Cardinality(Mapped) = NumFrames

\* Mutants: the frame is filled with zeroes; it stays on free_list_.
insert_frame_mutant_blank(p, content, n) ==
    LET f == Head(FreeList)
    IN  /\ free_list' = Tail(FreeList)
        /\ frame_table' = [frame_table EXCEPT ![p] = f]
        /\ pins' = [pins EXCEPT ![f] = n]
        /\ dirty' = [dirty EXCEPT ![f] = FALSE]
        /\ data' = [data EXCEPT ![f] = Zero]

insert_frame_mutant_no_pop(p, content, n) ==
    LET f == Head(FreeList)
    IN  /\ free_list' = FreeList
        /\ frame_table' = [frame_table EXCEPT ![p] = f]
        /\ pins' = [pins EXCEPT ![f] = n]
        /\ dirty' = [dirty EXCEPT ![f] = FALSE]
        /\ data' = [data EXCEPT ![f] = content]

(***************************************************************************)
(* insert_frame: the page is read into the first free frame, which is      *)
(* reset first.  n is the frame's pin count once the caller's guard, if it *)
(* makes one, is built.                                                    *)
(***************************************************************************)
insert_frame(p, content, n) ==
    LET f == Head(FreeList)
    IN  /\ free_list' = Tail(FreeList)
        /\ frame_table' = [frame_table EXCEPT ![p] = f]
        /\ pins' = [pins EXCEPT ![f] = n]
        /\ dirty' = [dirty EXCEPT ![f] = FALSE]
        /\ data' = [data EXCEPT ![f] = content]

Inserted(f) == SetNotEvictable(RecordAccess(Evictor, f), f)

Locks(t) == pc[t] = "idle" /\ bpm_latch = NoThread

new_page(t) ==
    /\ Locks(t)
    /\ num_pages < NumPages
    /\ ensure_free_frame
    /\ IF size_assert(FreeList) /\ Cardinality(Mapped) < NumFrames
       THEN /\ num_pages' = num_pages + 1
            /\ disk' = [disk EXCEPT ![num_pages] = Zero]
            /\ insert_frame(num_pages, Zero, 0)
            /\ evictor' = Inserted(Head(FreeList))
            /\ UNCHANGED aborted
       ELSE /\ aborted' = TRUE
            /\ UNCHANGED <<poolVars, frameVars, storageVars>>
    /\ UNCHANGED <<bpm_latch, latchVars, pc, guard, todo, refs>>

(***************************************************************************)
(* read_page and write_page, up to the wait for the frame's latch in the   *)
(* guard's constructor, where bpm_latch_ is still held.                    *)
(***************************************************************************)
Construct(t, p, f, m) ==
    /\ bpm_latch' = t
    /\ guard' = [guard EXCEPT ![t] = [page |-> p, frame |-> f, mode |-> m]]
    /\ pc' = [pc EXCEPT ![t] = "latching"]

\* Mutants: the guard is not counted; the lookup's result is not tested.
Hit_mutant_no_pin(t, p, m) ==
    LET f == frame_table[p]
    IN  /\ p \in Mapped
        /\ evictor' = RecordAccess(SetNotEvictable(RecordAccess(evictor, f), f), f)
        /\ Construct(t, p, f, m)
        /\ UNCHANGED <<frame_table, free_list, frameVars, latchVars,
                       storageVars, todo, refs, aborted>>

Hit_mutant_untested(t, p, m) ==
    LET f == frame_table[p]
    IN  /\ evictor' = RecordAccess(SetNotEvictable(RecordAccess(evictor, f), f), f)
        /\ Construct(t, p, f, m)
        /\ UNCHANGED <<frame_table, free_list, frameVars, latchVars, storageVars,
                       todo, refs, aborted>>

Hit(t, p, m) ==
    LET f == frame_table[p]
    IN  /\ p \in Mapped
        /\ evictor' = RecordAccess(SetNotEvictable(RecordAccess(evictor, f), f), f)
        /\ pins' = [pins EXCEPT ![f] = (@ + 1) % PinModulus]
        /\ Construct(t, p, f, m)
        /\ UNCHANGED <<frame_table, free_list, dirty, data, latchVars,
                       storageVars, todo, refs, aborted>>

Miss(t, p, m) ==
    LET f == Head(FreeList)
    IN  /\ p \in Allocated \ Mapped
        /\ ensure_free_frame
        /\ insert_frame(p, disk[p], 1)
        /\ evictor' = RecordAccess(Inserted(f), f)
        /\ Construct(t, p, f, m)
        /\ UNCHANGED <<latchVars, storageVars, todo, refs, aborted>>

\* StorageEngine::read_page throws past the last page: the exception leaves
\* bpm_latch_ locked, nothing ever unlocks it.
MissThrows(t, p) ==
    /\ p \notin Allocated \cup Mapped
    /\ ensure_free_frame
    /\ free_list' = FreeList
    /\ evictor' = Evictor
    /\ bpm_latch' = t
    /\ pc' = [pc EXCEPT ![t] = "threw"]
    /\ UNCHANGED <<frame_table, frameVars, latchVars, storageVars, guard, todo, refs,
                   aborted>>

read_page(t, p) == /\ Locks(t)
                   /\ Hit(t, p, "read") \/ Miss(t, p, "read") \/ MissThrows(t, p)

write_page(t, p) == /\ Locks(t)
                    /\ Hit(t, p, "write") \/ Miss(t, p, "write") \/ MissThrows(t, p)

\* Mutant: a writer does not wait for readers.
WriteFreeMutantReaders(f) == writer[f] = NoThread

\* lock_read and lock_write of FrameHeader
ReadFree(f)  == writer[f] = NoThread
WriteFree(f) == writer[f] = NoThread /\ readers[f] = {}

\* Mutant: the call returns without unlocking bpm_latch_.
Latched_mutant_locked(t) ==
    LET f == guard[t].frame
    IN  /\ pc[t] = "latching"
        /\ \/ /\ guard[t].mode = "read"
              /\ ReadFree(f)
              /\ readers' = [readers EXCEPT ![f] = @ \cup {t}]
              /\ UNCHANGED writer
           \/ /\ guard[t].mode = "write"
              /\ WriteFree(f)
              /\ writer' = [writer EXCEPT ![f] = t]
              /\ UNCHANGED readers
        /\ pc' = [pc EXCEPT ![t] = "held"]
        /\ UNCHANGED <<bpm_latch, poolVars, frameVars, storageVars, guard, todo,
                       refs, aborted>>

\* The constructor gets the frame's latch; the call unlocks and returns.
Latched(t) ==
    LET f == guard[t].frame
    IN  /\ pc[t] = "latching"
        /\ \/ /\ guard[t].mode = "read"
              /\ ReadFree(f)
              /\ readers' = [readers EXCEPT ![f] = @ \cup {t}]
              /\ UNCHANGED writer
           \/ /\ guard[t].mode = "write"
              /\ WriteFree(f)
              /\ writer' = [writer EXCEPT ![f] = t]
              /\ UNCHANGED readers
        /\ bpm_latch' = NoThread
        /\ pc' = [pc EXCEPT ![t] = "held"]
        /\ UNCHANGED <<poolVars, frameVars, storageVars, guard, todo, refs, aborted>>
-----------------------------------------------------------------------------
\* Mutants: the page stays in frame_table_; the frame is not put on
\* free_list_; a pinned page is evicted as well.
evict_page_mutant_stale_entry(t, p) ==
    LET f == frame_table[p]
    IN  /\ Locks(t)
        /\ p \in Mapped
        /\ pins[f] = 0
        /\ dirty' = [dirty EXCEPT ![f] = FALSE]
        /\ data' = [data EXCEPT ![f] = Zero]
        /\ free_list' = Append(free_list, f)
        /\ evictor' = Forget(evictor, f)
        /\ UNCHANGED <<bpm_latch, frame_table, pins, latchVars, storageVars, pc,
                       guard, todo, refs, aborted>>

evict_page_mutant_lost_frame(t, p) ==
    LET f == frame_table[p]
    IN  /\ Locks(t)
        /\ p \in Mapped
        /\ pins[f] = 0
        /\ frame_table' = [frame_table EXCEPT ![p] = NoFrame]
        /\ dirty' = [dirty EXCEPT ![f] = FALSE]
        /\ data' = [data EXCEPT ![f] = Zero]
        /\ evictor' = Forget(evictor, f)
        /\ UNCHANGED <<bpm_latch, free_list, pins, latchVars, storageVars, pc,
                       guard, todo, refs, aborted>>

evict_page_mutant_pinned(t, p) ==
    LET f == frame_table[p]
    IN  /\ Locks(t)
        /\ p \in Mapped
        /\ frame_table' = [frame_table EXCEPT ![p] = NoFrame]
        /\ dirty' = [dirty EXCEPT ![f] = FALSE]
        /\ data' = [data EXCEPT ![f] = Zero]
        /\ pins' = [pins EXCEPT ![f] = 0]
        /\ free_list' = Append(free_list, f)
        /\ evictor' = Forget(evictor, f)
        /\ UNCHANGED <<bpm_latch, latchVars, storageVars, pc, guard, todo, refs, aborted>>

\* evict_page of a cached page nobody has pinned: dirty data is dropped.
evict_page(t, p) ==
    LET f == frame_table[p]
    IN  /\ Locks(t)
        /\ p \in Mapped
        /\ pins[f] = 0
        /\ frame_table' = [frame_table EXCEPT ![p] = NoFrame]
        /\ dirty' = [dirty EXCEPT ![f] = FALSE]
        /\ data' = [data EXCEPT ![f] = Zero]
        /\ pins' = [pins EXCEPT ![f] = 0]
        /\ free_list' = Append(free_list, f)
        /\ evictor' = Forget(evictor, f)
        /\ UNCHANGED <<bpm_latch, latchVars, storageVars, pc, guard, todo, refs, aborted>>

\* flush_page and flush_all_pages take bpm_latch_ and keep it while they wait
\* for the write latch of each frame in turn, in page order.
StartFlush(t, ps) ==
    /\ Locks(t)
    /\ ps # {}
    /\ bpm_latch' = t
    /\ pc' = [pc EXCEPT ![t] = "flushing"]
    /\ todo' = [todo EXCEPT ![t] = ps]
    /\ UNCHANGED <<poolVars, frameVars, latchVars, storageVars, guard, refs, aborted>>

flush_page(t, p) == p \in Mapped /\ StartFlush(t, {p})

flush_all_pages(t) == StartFlush(t, Mapped)

FlushOne(t) ==
    /\ pc[t] = "flushing"
    /\ \E p \in todo[t] :
           /\ \A q \in todo[t] : p <= q
           /\ WriteFree(frame_table[p])
           /\ disk' = [disk EXCEPT ![p] = data[frame_table[p]]]
           /\ dirty' = [dirty EXCEPT ![frame_table[p]] = FALSE]
           /\ todo' = [todo EXCEPT ![t] = @ \ {p}]
           /\ IF todo[t] = {p}
              THEN bpm_latch' = NoThread /\ pc' = [pc EXCEPT ![t] = "idle"]
              ELSE UNCHANGED <<bpm_latch, pc>>
    /\ UNCHANGED <<poolVars, pins, data, latchVars, num_pages, guard, refs, aborted>>
-----------------------------------------------------------------------------
(***************************************************************************)
(* What a thread does with a guard it holds.                               *)
(***************************************************************************)
Holds(t, m) == pc[t] = "held" /\ guard[t].mode = m

\* Mutant: dirty_ is not set.
get_data_mut_mutant_clean(t) ==
    /\ Holds(t, "write")
    /\ refs' = refs \cup {t}
    /\ UNCHANGED <<bpm_latch, poolVars, frameVars, latchVars, storageVars, pc,
                   guard, todo, aborted>>

\* WritePageGuard::get_data_mut: dirty_ is set, the caller gets a reference
\* to the frame's data.
get_data_mut(t) ==
    /\ Holds(t, "write")
    /\ dirty' = [dirty EXCEPT ![guard[t].frame] = TRUE]
    /\ refs' = refs \cup {t}
    /\ UNCHANGED <<bpm_latch, poolVars, pins, data, latchVars, storageVars, pc,
                   guard, todo, aborted>>

\* The caller writes through the reference; the guard does not see it.
write_data(t, v) ==
    /\ Holds(t, "write")
    /\ t \in refs
    /\ data' = [data EXCEPT ![guard[t].frame] = v]
    /\ UNCHANGED <<bpm_latch, poolVars, pins, dirty, latchVars, storageVars, pc,
                   guard, todo, refs, aborted>>

\* StorageEngine::write_page of the frame's data, then set_dirty(false).  The
\* thread has the frame's write latch throughout.
WriteBack(t) ==
    /\ disk' = [disk EXCEPT ![guard[t].page] = data[guard[t].frame]]
    /\ dirty' = [dirty EXCEPT ![guard[t].frame] = FALSE]
    /\ UNCHANGED <<bpm_latch, poolVars, pins, data, num_pages, guard, todo, aborted>>

\* The reference stays valid after flush(); whether the caller writes through
\* it again without another get_data_mut is up to the caller.
WriteGuardFlush(t) ==
    /\ Holds(t, "write")
    /\ WriteBack(t)
    /\ refs' = IF t \in LateWriters THEN refs ELSE refs \ {t}
    /\ UNCHANGED <<latchVars, pc>>

\* ReadPageGuard::flush gives its read latch up, takes the write latch for
\* the write-back, and comes back for the read latch.
ReadGuardFlush(t) ==
    /\ Holds(t, "read")
    /\ readers' = [readers EXCEPT ![guard[t].frame] = @ \ {t}]
    /\ pc' = [pc EXCEPT ![t] = "upgrading"]
    /\ UNCHANGED <<bpm_latch, poolVars, frameVars, writer, storageVars, guard,
                   todo, refs, aborted>>

Upgraded(t) ==
    /\ pc[t] = "upgrading"
    /\ WriteFree(guard[t].frame)
    /\ WriteBack(t)
    /\ pc' = [pc EXCEPT ![t] = "downgrading"]
    /\ UNCHANGED <<latchVars, refs>>

Downgraded(t) ==
    /\ pc[t] = "downgrading"
    /\ ReadFree(guard[t].frame)
    /\ readers' = [readers EXCEPT ![guard[t].frame] = @ \cup {t}]
    /\ pc' = [pc EXCEPT ![t] = "held"]
    /\ UNCHANGED <<bpm_latch, poolVars, frameVars, writer, storageVars, guard,
                   todo, refs, aborted>>

\* Mutant: the frame is made evictable at every drop.
drop_mutant_evictable(t) ==
    LET f == guard[t].frame
    IN  /\ pc[t] = "held"
        /\ bpm_latch = NoThread
        /\ pins' = [pins EXCEPT ![f] = (@ + PinModulus - 1) % PinModulus]
        /\ evictor' = SetEvictable(evictor, f)
        /\ refs' = refs \ {t}
        /\ pc' = [pc EXCEPT ![t] = "dropped"]
        /\ UNCHANGED <<bpm_latch, frame_table, free_list, dirty, data, latchVars,
                       storageVars, guard, todo, aborted>>

\* drop(), in its critical section; the frame's latch is released after it.
drop(t) ==
    LET f == guard[t].frame
    IN  /\ pc[t] = "held"
        /\ bpm_latch = NoThread
        /\ pins' = [pins EXCEPT ![f] = (@ + PinModulus - 1) % PinModulus]
        /\ evictor' = IF pins[f] = 1 THEN SetEvictable(evictor, f) ELSE evictor
        /\ refs' = refs \ {t}
        /\ pc' = [pc EXCEPT ![t] = "dropped"]
        /\ UNCHANGED <<bpm_latch, frame_table, free_list, dirty, data, latchVars,
                       storageVars, guard, todo, aborted>>

Unlatch(t) ==
    LET f == guard[t].frame
    IN  /\ pc[t] = "dropped"
        /\ writer' = [writer EXCEPT ![f] = IF @ = t THEN NoThread ELSE @]
        /\ readers' = [readers EXCEPT ![f] = @ \ {t}]
        /\ pc' = [pc EXCEPT ![t] = "idle"]
        /\ guard' = [guard EXCEPT ![t] = NoGuard]
        /\ UNCHANGED <<bpm_latch, poolVars, frameVars, storageVars, todo, refs, aborted>>
-----------------------------------------------------------------------------
\* What a client starts, and what the code then does by itself.
Call(t) == \/ new_page(t)
           \/ \E p \in Pages : \/ read_page(t, p)
                               \/ write_page(t, p)
                               \/ evict_page(t, p)
                               \/ flush_page(t, p)
           \/ flush_all_pages(t)
           \/ get_data_mut(t)
           \/ \E v \in Values : write_data(t, v)
           \/ WriteGuardFlush(t)
           \/ ReadGuardFlush(t)

Continue(t) == \/ Latched(t)
               \/ FlushOne(t)
               \/ Upgraded(t)
               \/ Downgraded(t)
               \/ drop(t)
               \/ Unlatch(t)

Next == ~aborted /\ \E t \in Threads : Call(t) \/ Continue(t)

Spec == Init /\ [][Next]_vars
-----------------------------------------------------------------------------
\* Types of the pool's fields, of the frames and of the threads.
TypeOK == /\ bpm_latch \in Threads \cup {NoThread}
          /\ frame_table \in [Pages -> Frames \cup {NoFrame}]
          /\ free_list \in Seq(Frames)
          /\ evictor.evictable \subseteq Frames
          /\ pins \in [Frames -> 0 .. PinModulus - 1]
          /\ dirty \in [Frames -> BOOLEAN]
          /\ data \in [Frames -> Values]
          /\ writer \in [Frames -> Threads \cup {NoThread}]
          /\ readers \in [Frames -> SUBSET Threads]
          /\ disk \in [Pages -> Values]
          /\ num_pages \in 0 .. NumPages
          /\ pc \in [Threads -> {"idle", "latching", "held", "dropped", "flushing",
                                 "upgrading", "downgrading", "threw"}]
          /\ guard \in [Threads -> Guards \cup {NoGuard}]
          /\ todo \in [Threads -> SUBSET Pages]
          /\ refs \subseteq Threads
          /\ aborted \in BOOLEAN

(***************************************************************************)
(* What holds whatever the clients do, the pool smaller than the table     *)
(* included.                                                               *)
(***************************************************************************)

\* t has the latch of its guard's frame, by its own account.
Inside(t) == pc[t] \in {"held", "dropped"}

\* A thread inside a write guard has the frame to itself (frameheader.cpp
\* 26-29; pageguard.cpp 16, 106, 61-74, 94, 180).
LatchExclusion ==
    \A t, u \in Threads :
        (t # u /\ Inside(t) /\ Inside(u) /\ guard[t].frame = guard[u].frame)
            => guard[t].mode = "read" /\ guard[u].mode = "read"

\* No frame is ever lost: each is free or caches some page
\* (bufferpool.cpp 25-54, 127-155).
NoFrameLost ==
    \A f \in Frames : \/ \E i \in DOMAIN free_list : free_list[i] = f
                      \/ \E p \in Pages : frame_table[p] = f

(***************************************************************************)
(* What holds while the table fits in the pool, NumPages <= NumFrames.     *)
(***************************************************************************)

\* The assertion of size(), and of new_page (bufferpool.cpp 21, 67).
SizeAssert == size_assert(free_list)

\* A frame is on free_list_ once or caches one page, never both: no page is
\* ever read through the frame of another (bufferpool.cpp 29-40, 147-149).
FramesNotShared ==
    /\ \A p, q \in Mapped : frame_table[p] = frame_table[q] => p = q
    /\ \A i \in DOMAIN free_list :
           /\ \A p \in Mapped : frame_table[p] # free_list[i]
           /\ \A j \in DOMAIN free_list : free_list[i] = free_list[j] => i = j

\* A guard exists, from its construction to its drop.
Live(t) == pc[t] \in {"latching", "held", "upgrading", "downgrading"}

\* pins_ counts the live guards of the frame, so it never wraps and
\* evict_page sees 0 only when there is none (pageguard.cpp 14, 89, 104, 175).
PinsExact ==
    \A f \in Frames :
        pins[f] = Cardinality({t \in Threads : Live(t) /\ guard[t].frame = f})

\* While a guard lives its page stays cached in its frame: eviction never
\* takes a frame from under a guard (bufferpool.cpp 142-150, 46-54).
GuardedPageStays ==
    \A t \in Threads : Live(t) => frame_table[guard[t].page] = guard[t].frame

\* The evictor may choose exactly the cached frames that have no guard and
\* had one before: a frame filled by new_page is not evictable before its
\* first guard is dropped (bufferpool.cpp 41-42, 84-85; pageguard.cpp 90-91).
EvictableExact ==
    \A f \in Frames :
        f \in evictor.evictable <=> /\ \E p \in Pages : frame_table[p] = f
                                   /\ pins[f] = 0
                                   /\ Accesses(evictor, f) > 1

\* A clean frame holds what is on disk: dirty_ is never cleared under a
\* change that was not written (pageguard.cpp 67-69, 148, 160-162;
\* bufferpool.cpp 175-177).  It takes callers that ask get_data_mut for a new
\* reference after a flush, LateWriters = {}: a write through the old one
\* leaves a clean frame that differs from the disk.
CleanOnDisk ==
    \A p \in Mapped : dirty[frame_table[p]] \/ data[frame_table[p]] = disk[p]

\* What the next guard on page p would show.
Content(p) == IF p \in Mapped THEN data[frame_table[p]] ELSE disk[p]

\* No operation but a write through a write guard of the page, or an
\* evict_page that drops a dirty frame, changes what a page reads as: not a
\* fill of another page, not a flush, not an eviction of a clean frame.
ContentStable ==
    [][\A p \in Pages : Content(p)' # Content(p) =>
           \/ \E t \in Threads : Holds(t, "write") /\ guard[t].page = p
           \/ p \in Mapped /\ p \notin Mapped' /\ dirty[frame_table[p]]]_vars
=============================================================================
