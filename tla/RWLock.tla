------------------------------- MODULE RWLock -------------------------------
(***************************************************************************)
(* The structural read-write lock of core/index.py (class RWLock): one     *)
(* threading.Condition over one mutex, a reader count and a writer flag.   *)
(*                                                                         *)
(* A reader holds the mutex only while it moves the count; a writer keeps  *)
(* it from acquire_write to release_write.  Every access to _readers and   *)
(* _writer_active is made with the mutex held, so the code between taking  *)
(* the mutex and giving it up (or sleeping) is one step.                   *)
(***************************************************************************)
EXTENDS Naturals, FiniteSets

CONSTANTS Threads,
          Nobody      \* the value of mutex while no thread holds it

ASSUME ThreadsAssumption == IsFiniteSet(Threads) /\ Nobody \notin Threads

VARIABLES mutex,          \* who holds the Condition's lock
          readers,        \* self._readers
          writerActive,   \* self._writer_active
          pc              \* where each thread stands in the lock's methods

vars == <<mutex, readers, writerActive, pc>>

(* idle, wanting the mutex in acquire_*, asleep in _read_ready.wait(), in. *)
Places == {"idle", "wantRead", "wantWrite", "sleepRead", "sleepWrite",
           "reading", "writing"}

Goto(t, place) == pc' = [pc EXCEPT ![t] = place]

(* The place a sleeper resumes at once it is notified: it must take the    *)
(* mutex again and re-evaluate the condition of its while loop.            *)
Awoken(place) == CASE place = "sleepRead"  -> "wantRead"
                   [] place = "sleepWrite" -> "wantWrite"
                   [] OTHER                -> place

(* _read_ready.notify_all() by thread t, which then goes back to idle.     *)
NotifyAllAndGo(t) ==
  pc' = [u \in Threads |-> IF u = t THEN "idle" ELSE Awoken(pc[u])]

TypeOK == /\ mutex \in Threads \cup {Nobody}
          /\ readers \in Nat
          /\ writerActive \in BOOLEAN
          /\ pc \in [Threads -> Places]

Init == /\ mutex = Nobody
        /\ readers = 0
        /\ writerActive = FALSE
        /\ pc = [t \in Threads |-> "idle"]

(* A caller reaches `with self.lock.read()` or `with self.lock.write()`.   *)
Request(t) == /\ pc[t] = "idle"
              /\ \E want \in {"wantRead", "wantWrite"} : Goto(t, want)
              /\ UNCHANGED <<mutex, readers, writerActive>>

(* Fault for the checks: acquire_write does not look at the reader count.  *)
MustWaitIgnoringReaders(place) == writerActive

(* The conditions of the two while loops.                                  *)
MustWait(place) == writerActive \/ (place = "wantWrite" /\ readers > 0)

AcquireRead(t) ==
  /\ pc[t] = "wantRead"
  /\ mutex = Nobody
  /\ ~ MustWait("wantRead")
  /\ readers' = readers + 1
  /\ Goto(t, "reading")
  /\ UNCHANGED <<mutex, writerActive>>

(* Faults for the checks: release_read without notify_all(), without the   *)
(* decrement, and with the decrement made twice.                           *)
LeaveReading(t, count) ==
  /\ pc[t] = "reading"
  /\ mutex = Nobody
  /\ readers' = count
  /\ UNCHANGED <<mutex, writerActive>>
ReleaseReadSilently(t)  == LeaveReading(t, readers - 1) /\ Goto(t, "idle")
ReleaseReadUncounted(t) == LeaveReading(t, readers) /\ NotifyAllAndGo(t)
ReleaseReadTwice(t)     == LeaveReading(t, readers - 2) /\ NotifyAllAndGo(t)

(* notify_all() only when the last reader leaves.                          *)
ReleaseRead(t) ==
  /\ pc[t] = "reading"
  /\ mutex = Nobody
  /\ readers' = readers - 1
  /\ IF readers' = 0 THEN NotifyAllAndGo(t) ELSE Goto(t, "idle")
  /\ UNCHANGED <<mutex, writerActive>>

AcquireWrite(t) ==
  /\ pc[t] = "wantWrite"
  /\ mutex = Nobody
  /\ ~ MustWait("wantWrite")
  /\ writerActive' = TRUE
  /\ mutex' = t
  /\ Goto(t, "writing")
  /\ UNCHANGED readers

(* _read_ready.wait(): gives the mutex up and sleeps until notified.       *)
Sleep(t) ==
  /\ pc[t] \in {"wantRead", "wantWrite"}
  /\ mutex = Nobody
  /\ MustWait(pc[t])
  /\ Goto(t, IF pc[t] = "wantRead" THEN "sleepRead" ELSE "sleepWrite")
  /\ UNCHANGED <<mutex, readers, writerActive>>

ReleaseWrite(t) ==
  /\ pc[t] = "writing"
  /\ writerActive' = FALSE
  /\ NotifyAllAndGo(t)
  /\ mutex' = Nobody
  /\ UNCHANGED readers

Acquire(t) == AcquireRead(t) \/ AcquireWrite(t)
Release(t) == ReleaseRead(t) \/ ReleaseWrite(t)

(* Everything a thread does by itself once it has asked for the lock.      *)
Proceed(t) == Acquire(t) \/ Sleep(t) \/ Release(t)

Next == \E t \in Threads : Request(t) \/ Proceed(t)

(* The operating system keeps running every runnable thread, and every     *)
(* critical section of the index ends: no thread asks for the lock out of  *)
(* duty, so Request is not fair.                                           *)
Fairness == \A t \in Threads : WF_vars(Proceed(t))

Spec == Init /\ [][Next]_vars
FairSpec == Spec /\ Fairness
-----------------------------------------------------------------------------
Reading == {t \in Threads : pc[t] = "reading"}
Writing == {t \in Threads : pc[t] = "writing"}
Asleep  == {t \in Threads : pc[t] \in {"sleepRead", "sleepWrite"}}
Waiting(t) == pc[t] \in {"wantRead", "wantWrite", "sleepRead", "sleepWrite"}
Inside(t)  == pc[t] \in {"reading", "writing"}

(* No thread is inside together with a writer: the structural metadata     *)
(* (nodes, entry_point, max_layer, the row array) has one writer at a time *)
(* and no reader beside it, whatever the order of acquires and releases.   *)
MutualExclusion == \A t \in Writing : Reading \cup Writing = {t}

(* A thread sleeps in wait() only while somebody who will notify it is     *)
(* inside as a reader; so no wake-up is lost and nobody sleeps on a free   *)
(* lock.  (A writer keeps the mutex, so nobody falls asleep under one: the *)
(* wait() of acquire_read is never reached.)                               *)
NoLostWakeup == Asleep # {} => readers > 0 /\ \A t \in Asleep : pc[t] # "sleepRead"

(* The count the writers test is the number of readers really inside.      *)
CountIsExact == readers = Cardinality(Reading)

(* A thread waits for the lock forever only if some other thread keeps     *)
(* coming back for it and getting in: nothing the others leave behind (the *)
(* count, the flag, the mutex, a missing notify) keeps a waiter out.  More *)
(* the code does not promise: readers that overlap forever starve a writer.*)
StarvationNeedsTraffic ==
  \A t \in Threads : <>[]Waiting(t) =>
     \E u \in Threads \ {t} : []<>Inside(u) /\ []<>(pc[u] = "idle")

(* The lock implements the abstract read-write mutex.                      *)
Mutex == INSTANCE ReadWriteMutex WITH readers <- Reading, writers <- Writing
ImplementsMutex == Mutex!Spec
=============================================================================
