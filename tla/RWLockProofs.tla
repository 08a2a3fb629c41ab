---------------------------- MODULE RWLockProofs ----------------------------
(***************************************************************************)
(* Proofs about RWLock, for every finite set of threads.                   *)
(*                                                                         *)
(* The inductive invariant: the mutex is held exactly while a writer is    *)
(* inside (by that writer), the flag says the same, the count is the       *)
(* number of readers inside, and whoever sleeps does so as a writer while  *)
(* a reader is inside.                                                     *)
(***************************************************************************)
EXTENDS RWLock, FiniteSetTheorems, TLAPS

(* The parts of the invariant, and all of it.                              *)
MutexIsWriter == \A t \in Threads : (mutex = t) <=> (pc[t] = "writing")
FlagIsMutex   == writerActive <=> mutex # Nobody

(* The inductive invariant.                                                *)
LockInv == /\ TypeOK
           /\ MutexIsWriter
           /\ FlagIsMutex
           /\ CountIsExact
           /\ readers > 0 => mutex = Nobody
           /\ NoLostWakeup

(* The readers inside form a finite set, so that counting them means       *)
(* something; and the count is positive exactly when there is one.         *)
LEMMA ReadingFinite ==
  /\ IsFiniteSet(Reading)
  /\ Cardinality(Reading) \in Nat
  /\ Cardinality(Reading) = 0 <=> Reading = {}
<1>1. IsFiniteSet(Reading)
  BY ThreadsAssumption, FS_Subset DEF Reading
<1>2. QED
  BY <1>1, FS_CardinalityType, FS_EmptySet

(* A step that moves one thread in or out of the readers moves the         *)
(* cardinality by one; a step that moves none leaves it.                   *)
LEMMA ReadingAfter ==
  ASSUME TypeOK
  PROVE  /\ Reading' = Reading => Cardinality(Reading') = Cardinality(Reading)
         /\ \A t \in Threads \ Reading : Reading' = Reading \cup {t}
              => Cardinality(Reading') = Cardinality(Reading) + 1
         /\ \A t \in Reading : Reading' = Reading \ {t}
              => Cardinality(Reading') = Cardinality(Reading) - 1
<1>1. ASSUME NEW t \in Threads \ Reading, Reading' = Reading \cup {t}
      PROVE  Cardinality(Reading') = Cardinality(Reading) + 1
  BY <1>1, ReadingFinite, FS_AddElement
<1>2. ASSUME NEW t \in Reading, Reading' = Reading \ {t}
      PROVE  Cardinality(Reading') = Cardinality(Reading) - 1
  BY <1>2, ReadingFinite, FS_RemoveElement
<1>3. QED
  BY <1>1, <1>2

(* It holds in the beginning, and every operation keeps it.                *)
LEMMA LockInvInit == Init => LockInv
<1> SUFFICES ASSUME Init PROVE LockInv
  OBVIOUS
<1>1. Reading = {}
  BY DEF Init, Reading
<1>2. CountIsExact
  BY <1>1, FS_EmptySet DEF Init, CountIsExact
<1>3. Asleep = {}
  BY DEF Init, Asleep
<1>4. QED
  BY <1>2, <1>3, ThreadsAssumption
     DEF Init, LockInv, TypeOK, Places, MutexIsWriter, FlagIsMutex, NoLostWakeup

(* The steps that leave the mutex, the count and the flag alone.           *)
LEMMA QuietStep ==
  ASSUME LockInv, NEW t \in Threads, Request(t) \/ Sleep(t)
  PROVE  LockInv'
<1> USE DEF LockInv
<1>1. TypeOK'
  BY DEF TypeOK, Request, Sleep, Goto, Places
<1>2. Reading' = Reading
  BY DEF TypeOK, Request, Sleep, Goto, Reading
<1>3. CountIsExact'
  BY <1>2, ReadingAfter DEF CountIsExact, Request, Sleep
<1>4. MutexIsWriter' /\ FlagIsMutex' /\ (readers > 0 => mutex = Nobody)'
  BY DEF TypeOK, MutexIsWriter, FlagIsMutex, Request, Sleep, Goto
<1>5. NoLostWakeup'
  <2>1. CASE Request(t)
    BY <2>1 DEF Request, Goto, TypeOK, NoLostWakeup, Asleep
  <2>2. CASE Sleep(t)
    <3>1. ~ writerActive
      BY <2>2 DEF Sleep, FlagIsMutex
    <3>2. pc[t] = "wantWrite" /\ readers > 0
      BY <2>2, <3>1 DEF Sleep, MustWait
    <3>3. QED
      BY <2>2, <3>2 DEF Sleep, Goto, TypeOK, NoLostWakeup, Asleep
  <2>3. QED
    BY <2>1, <2>2
<1>6. QED
  BY <1>1, <1>3, <1>4, <1>5

LEMMA AcquireReadStep ==
  ASSUME LockInv, NEW t \in Threads, AcquireRead(t)
  PROVE  LockInv'
<1> USE DEF LockInv
<1>1. TypeOK'
  BY DEF TypeOK, AcquireRead, Goto, Places
<1>2. t \in Threads \ Reading /\ Reading' = Reading \cup {t}
  BY DEF TypeOK, AcquireRead, Goto, Reading
<1>3. CountIsExact'
  BY <1>2, ReadingAfter DEF CountIsExact, AcquireRead
<1>4. MutexIsWriter' /\ FlagIsMutex' /\ (readers > 0 => mutex = Nobody)'
  BY DEF TypeOK, MutexIsWriter, FlagIsMutex, AcquireRead, Goto
<1>5. NoLostWakeup'
  BY DEF TypeOK, AcquireRead, Goto, NoLostWakeup, Asleep
<1>6. QED
  BY <1>1, <1>3, <1>4, <1>5

(* The last reader out wakes every sleeper, so none is left behind.        *)
LEMMA ReleaseReadStep ==
  ASSUME LockInv, NEW t \in Threads, ReleaseRead(t)
  PROVE  LockInv'
<1> USE DEF LockInv
<1>1. t \in Reading /\ Reading' = Reading \ {t}
  BY DEF TypeOK, ReleaseRead, Goto, NotifyAllAndGo, Awoken, Reading
<1>2. readers > 0
  BY <1>1, ReadingFinite DEF CountIsExact, TypeOK
<1>3. TypeOK'
  BY <1>2 DEF TypeOK, ReleaseRead, Goto, NotifyAllAndGo, Awoken, Places
<1>4. CountIsExact'
  BY <1>1, ReadingAfter DEF CountIsExact, ReleaseRead
<1>5. MutexIsWriter' /\ FlagIsMutex' /\ (readers > 0 => mutex = Nobody)'
  BY DEF TypeOK, MutexIsWriter, FlagIsMutex, ReleaseRead, Goto, NotifyAllAndGo, Awoken
<1>6. NoLostWakeup'
  BY <1>2 DEF TypeOK, ReleaseRead, Goto, NotifyAllAndGo, Awoken, NoLostWakeup, Asleep, Places
<1>7. QED
  BY <1>3, <1>4, <1>5, <1>6

LEMMA AcquireWriteStep ==
  ASSUME LockInv, NEW t \in Threads, AcquireWrite(t)
  PROVE  LockInv'
<1> USE DEF LockInv
<1>1. TypeOK'
  BY DEF TypeOK, AcquireWrite, Goto, Places
<1>2. Reading' = Reading
  BY DEF TypeOK, AcquireWrite, Goto, Reading
<1>3. CountIsExact'
  BY <1>2, ReadingAfter DEF CountIsExact, AcquireWrite
<1>4. readers = 0
  BY DEF AcquireWrite, MustWait, TypeOK
<1>5. MutexIsWriter' /\ FlagIsMutex' /\ (readers > 0 => mutex = Nobody)'
  BY <1>4, ThreadsAssumption DEF TypeOK, MutexIsWriter, FlagIsMutex, AcquireWrite, Goto
<1>6. NoLostWakeup'
  BY <1>4 DEF TypeOK, AcquireWrite, Goto, NoLostWakeup, Asleep
<1>7. QED
  BY <1>1, <1>3, <1>5, <1>6

LEMMA ReleaseWriteStep ==
  ASSUME LockInv, NEW t \in Threads, ReleaseWrite(t)
  PROVE  LockInv'
<1> USE DEF LockInv
<1>1. mutex = t /\ readers = 0
  BY ThreadsAssumption DEF ReleaseWrite, MutexIsWriter, TypeOK
<1>2. TypeOK'
  BY DEF TypeOK, ReleaseWrite, NotifyAllAndGo, Awoken, Places
<1>3. Reading' = Reading
  BY DEF TypeOK, ReleaseWrite, NotifyAllAndGo, Awoken, Reading
<1>4. CountIsExact'
  BY <1>3, ReadingAfter DEF CountIsExact, ReleaseWrite
<1>5. MutexIsWriter' /\ FlagIsMutex' /\ (readers > 0 => mutex = Nobody)'
  BY <1>1, ThreadsAssumption
     DEF TypeOK, MutexIsWriter, FlagIsMutex, ReleaseWrite, NotifyAllAndGo, Awoken
<1>6. NoLostWakeup'
  BY <1>1 DEF TypeOK, ReleaseWrite, NotifyAllAndGo, Awoken, NoLostWakeup, Asleep, Places
<1>7. QED
  BY <1>2, <1>4, <1>5, <1>6

LEMMA LockInvStep == LockInv /\ [Next]_vars => LockInv'
<1> SUFFICES ASSUME LockInv, [Next]_vars PROVE LockInv'
  OBVIOUS
<1>1. ASSUME NEW t \in Threads, Request(t) \/ Proceed(t) PROVE LockInv'
  BY <1>1, QuietStep, AcquireReadStep, ReleaseReadStep, AcquireWriteStep, ReleaseWriteStep
     DEF Proceed, Acquire, Release
<1>2. CASE UNCHANGED vars
  BY <1>2 DEF vars, LockInv, TypeOK, MutexIsWriter, FlagIsMutex, CountIsExact,
             NoLostWakeup, Reading, Asleep
<1>3. QED
  BY <1>1, <1>2 DEF Next

(* The inductive invariant: types, the exact reader count, and the mutex   *)
(* and the flag of the one writer (RWLock, index.py:31-87).                *)
THEOREM LockInvariant == Spec => []LockInv
  BY LockInvInit, LockInvStep, PTL DEF Spec

(* The mutex, the count, the flag and the places stay what they should be; *)
(* the count never goes below zero (release_read, index.py:56-60).         *)
THEOREM LockTypes == Spec => []TypeOK
<1>1. LockInv => TypeOK
  BY DEF LockInv
<1>2. QED
  BY <1>1, LockInvariant, PTL

(* self._readers is the number of threads inside as readers, whatever the  *)
(* order in which they come, sleep and leave.                              *)
THEOREM ReaderCountIsExact == Spec => []CountIsExact
<1>1. LockInv => CountIsExact
  BY DEF LockInv
<1>2. QED
  BY <1>1, LockInvariant, PTL

(* No writer is ever inside beside another thread (RWLock.acquire_write,   *)
(* acquire_read), for any finite number of threads.                        *)
LEMMA InvExcludes == LockInv => MutualExclusion
<1> SUFFICES ASSUME LockInv, NEW t \in Writing PROVE Reading \cup Writing = {t}
  BY DEF MutualExclusion
<1>1. mutex = t /\ t \in Threads
  BY DEF LockInv, MutexIsWriter, Writing
<1>2. Reading = {}
  BY <1>1, ReadingFinite, ThreadsAssumption DEF LockInv, CountIsExact, TypeOK
<1>3. \A u \in Writing : u = t
  BY <1>1 DEF LockInv, MutexIsWriter, Writing
<1>4. QED
  BY <1>2, <1>3

(* A writer is inside alone (core/index.py: _ReadWriteLock), for any       *)
(* finite set of threads.                                                  *)
THEOREM LockExcludes == Spec => []MutualExclusion
  BY LockInvariant, InvExcludes, PTL

(* A writer asleep in wait() has a reader inside that will wake it, and no *)
(* reader ever sleeps: release_read and release_write lose no wake-up.     *)
THEOREM NoWakeupIsLost == Spec => []NoLostWakeup
<1>1. LockInv => NoLostWakeup
  BY DEF LockInv
<1>2. QED
  BY <1>1, LockInvariant, PTL

(* Every step of the lock is a step of the abstract read-write mutex or    *)
(* leaves it alone: the refinement behind `with lock.read()/.write()`.     *)
LEMMA StepRefines ==
  ASSUME LockInv, LockInv', [Next]_vars
  PROVE  [Mutex!Next]_(Mutex!vars)
<1> USE DEF LockInv, TypeOK, Mutex!vars, Mutex!Next
<1>1. ASSUME NEW t \in Threads, Request(t) \/ Sleep(t)
      PROVE  UNCHANGED Mutex!vars
  BY <1>1 DEF Request, Sleep, Goto, Reading, Writing
<1>2. ASSUME NEW t \in Threads, AcquireRead(t)
      PROVE  Mutex!EnterRead(t)
  <2>1. Writing = {}
    BY <1>2, ThreadsAssumption DEF AcquireRead, MutexIsWriter, Writing
  <2>2. QED
    BY <1>2, <2>1 DEF AcquireRead, Goto, Reading, Writing, Mutex!EnterRead
<1>3. ASSUME NEW t \in Threads, ReleaseRead(t)
      PROVE  Mutex!LeaveRead(t)
  BY <1>3 DEF ReleaseRead, Goto, NotifyAllAndGo, Awoken, Reading, Writing, Mutex!LeaveRead
<1>4. ASSUME NEW t \in Threads, AcquireWrite(t)
      PROVE  Mutex!EnterWrite(t)
  <2>1. Writing = {}
    BY <1>4, ThreadsAssumption DEF AcquireWrite, MutexIsWriter, Writing
  <2>2. Reading = {}
    BY <1>4, ReadingFinite DEF AcquireWrite, MustWait, CountIsExact
  <2>3. QED
    BY <1>4, <2>1, <2>2 DEF AcquireWrite, Goto, Reading, Writing, Mutex!EnterWrite
<1>5. ASSUME NEW t \in Threads, ReleaseWrite(t)
      PROVE  Mutex!LeaveWrite(t)
  <2>1. t \in Writing /\ Writing = {t}
    BY <1>5, InvExcludes DEF ReleaseWrite, MutualExclusion, Writing
  <2>2. QED
    BY <1>5, <2>1 DEF ReleaseWrite, NotifyAllAndGo, Awoken, Reading, Writing, Mutex!LeaveWrite
<1>6. CASE UNCHANGED vars
  BY <1>6 DEF vars, Reading, Writing
<1>7. QED
  BY <1>1, <1>2, <1>3, <1>4, <1>5, <1>6 DEF Next, Proceed, Acquire, Release

(* The lock implements ReadWriteMutex: no step lets one in whom that does  *)
(* not let in.                                                             *)
THEOREM LockImplementsMutex == Spec => ImplementsMutex
<1>1. Init => Mutex!Init
  BY DEF Init, Mutex!Init, Reading, Writing
<1>2. LockInv /\ LockInv' /\ [Next]_vars => [Mutex!Next]_(Mutex!vars)
  BY StepRefines
<1>3. QED
  BY <1>1, <1>2, LockInvariant, PTL DEF Spec, ImplementsMutex, Mutex!Spec
=============================================================================
