---------------------------- MODULE BufferPoolJoin ----------------------------
(***************************************************************************)
(* Threads that make a finite number of calls on the buffer pool and are   *)
(* then joined, as the threads of the repository's tests are.              *)
(*                                                                         *)
(* Fairness: a thread inside the pool's code, or holding a guard, takes    *)
(* its next step once that step stays possible (WF per thread): the        *)
(* operating system schedules every runnable thread, and a guard's scope   *)
(* ends.  std::mutex promises no more than that, so nothing stronger is    *)
(* assumed; the bound on calls is what keeps a thread from being overtaken *)
(* for ever.                                                               *)
(***************************************************************************)
EXTENDS BufferPool

CONSTANTS MaxCalls,    \* bound: calls a thread makes
          FirstPages   \* how many pages the table may have at the start

ASSUME MaxCallsAssumption == MaxCalls \in Nat
ASSUME FirstPagesAssumption == FirstPages \subseteq 0 .. NumPages

VARIABLE calls      \* calls made so far, by thread

joinVars == <<vars, calls>>

JoinInit == /\ Init
            /\ num_pages \in FirstPages
            /\ calls = [t \in Threads |-> 0]

MakeCall(t) == /\ calls[t] < MaxCalls
               /\ ~aborted
               /\ Call(t)
               /\ calls' = [calls EXCEPT ![t] = @ + 1]

Proceed(t) == ~aborted /\ Continue(t) /\ UNCHANGED calls

\* Every thread is back from its calls and has none left to make, or makes
\* no more.
Finished == (\A t \in Threads : pc[t] = "idle") /\ UNCHANGED joinVars

JoinNext == Finished \/ \E t \in Threads : MakeCall(t) \/ Proceed(t)

JoinSpec == /\ JoinInit
            /\ [][JoinNext]_joinVars
            /\ \A t \in Threads : WF_joinVars(Proceed(t))

\* Every call returns and every guard is dropped: join() of a thread comes
\* back (bufferpool.cpp 75-125, 157-202; pageguard.cpp 76-95, 165-181).
EveryThreadJoins == \A t \in Threads : pc[t] # "idle" ~> pc[t] = "idle"

\* t waits for a latch on frame f, in mode m, with bpm_latch_ in its hands.
Awaits(t, f, m) ==
    \/ pc[t] = "latching" /\ guard[t].frame = f /\ guard[t].mode = m
    \/ /\ pc[t] = "flushing" /\ m = "write"
       /\ \E p \in todo[t] : frame_table[p] = f /\ \A q \in todo[t] : p <= q

\* The owner of bpm_latch_ left it locked when storage threw, or waits for
\* the latch of a frame that a guard keeps: that guard cannot be dropped, for
\* drop() needs bpm_latch_.
LockedUp ==
    \E t \in Threads :
        /\ bpm_latch = t
        /\ \/ pc[t] = "threw"
           \/ \E u \in Threads \ {t} :
                  /\ pc[u] = "held"
                  /\ \E m \in {"read", "write"} :
                         /\ Awaits(t, guard[u].frame, m)
                         /\ "write" \in {m, guard[u].mode}

\* Nothing else keeps a thread from coming back: a thread that hangs does so
\* because bpm_latch_ stays locked for one of those two reasons, or the assert
\* of size() has ended the program, whatever calls the threads make
\* (bufferpool.cpp 20-23, 75-125, 127-202; pageguard.cpp 61-95, 157-181).
OnlyLockUpsHang == <>[](LockedUp \/ aborted) \/ EveryThreadJoins
=============================================================================
