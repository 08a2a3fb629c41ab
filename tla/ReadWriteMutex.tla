--------------------------- MODULE ReadWriteMutex ---------------------------
(***************************************************************************)
(* What a read-write lock promises its callers, with nothing of how it is  *)
(* built: a thread is let in as a reader while no writer is in, and as a   *)
(* writer while nobody is in.  RWLock.tla is shown to implement this.      *)
(***************************************************************************)
CONSTANT Threads

VARIABLES readers,   \* the threads inside `with lock.read()`
          writers    \* the threads inside `with lock.write()`

vars == <<readers, writers>>

Init == readers = {} /\ writers = {}

EnterRead(t)  == /\ t \notin readers
                 /\ writers = {}
                 /\ readers' = readers \cup {t}
                 /\ UNCHANGED writers

LeaveRead(t)  == /\ t \in readers
                 /\ readers' = readers \ {t}
                 /\ UNCHANGED writers

EnterWrite(t) == /\ readers = {}
                 /\ writers = {}
                 /\ writers' = {t}
                 /\ UNCHANGED readers

LeaveWrite(t) == /\ writers = {t}
                 /\ writers' = {}
                 /\ UNCHANGED readers

Next == \E t \in Threads :
           EnterRead(t) \/ LeaveRead(t) \/ EnterWrite(t) \/ LeaveWrite(t)

Spec == Init /\ [][Next]_vars
=============================================================================
