-------------------------- MODULE CellThreadProofs --------------------------
(***************************************************************************)
(* Its semaphore first: the counters of CellSemaphore agree, no wakeup is  *)
(* lost, and the class implements a counting semaphore, for any finite set *)
(* of threads.                                                             *)
(* Then what owners of a CellThread can rely on, for any finite sets of    *)
(* owners and of worker incarnations: the semaphore's counts match the     *)
(* Close calls and the workers that ended (NoUnearnedJoin), a Close that   *)
(* waits has an answer coming (CloseHasAnswer), and a thread started once  *)
(* whose onRun has not called Exit is over when a Close ends (CloseJoins). *)
(***************************************************************************)
EXTENDS CellThread, FiniteSetTheorems, TLAPS

SemInv == SemTypeOK /\ CountersAgree /\ NoLostWakeup

\* Everything a step of the semaphore does to the invariant and to the two
\* sets of threads is about adding or removing one thread.
LEMMA Cardinalities ==
  ASSUME SemTypeOK
  PROVE  /\ IsFiniteSet(Blocked) /\ IsFiniteSet(notified) /\ IsFiniteSet(asleep)
         /\ Cardinality(Blocked) \in Nat /\ Cardinality(notified) \in Nat
         /\ \A t : t \notin Blocked => Cardinality(Blocked \cup {t}) = Cardinality(Blocked) + 1
         /\ \A t : t \notin notified => Cardinality(notified \cup {t}) = Cardinality(notified) + 1
         /\ \A t \in notified : /\ Cardinality(Blocked \ {t}) = Cardinality(Blocked) - 1
                                /\ Cardinality(notified \ {t}) = Cardinality(notified) - 1
                                /\ Cardinality(notified) > 0
         /\ asleep = {} => Cardinality(Blocked) = Cardinality(notified)
<1>1. /\ IsFiniteSet(Blocked) /\ IsFiniteSet(notified) /\ IsFiniteSet(asleep)
      /\ Cardinality(Blocked) \in Nat /\ Cardinality(notified) \in Nat
  <2>1. Blocked \in SUBSET Callers /\ notified \in SUBSET Callers /\ asleep \in SUBSET Callers
    BY DEF SemTypeOK, Blocked
  <2> QED BY <2>1, CallersFinite, FS_Subset, FS_CardinalityType
<1>2. \A t : t \notin Blocked => Cardinality(Blocked \cup {t}) = Cardinality(Blocked) + 1
  BY <1>1, FS_AddElement
<1>3. \A t : t \notin notified => Cardinality(notified \cup {t}) = Cardinality(notified) + 1
  BY <1>1, FS_AddElement
<1>4. \A t \in notified : /\ Cardinality(Blocked \ {t}) = Cardinality(Blocked) - 1
                          /\ Cardinality(notified \ {t}) = Cardinality(notified) - 1
                          /\ Cardinality(notified) > 0
  <2> TAKE t \in notified
  <2>1. t \in Blocked /\ notified # {}
    BY DEF Blocked
  <2>2. Cardinality(notified) # 0
    BY <1>1, <2>1, FS_EmptySet
  <2>3. Cardinality(Blocked \ {t}) = Cardinality(Blocked) - 1
    BY <1>1, <2>1, FS_RemoveElement
  <2>4. Cardinality(notified \ {t}) = Cardinality(notified) - 1
    BY <1>1, FS_RemoveElement
  <2> QED BY <1>1, <2>2, <2>3, <2>4
<1>5. asleep = {} => Cardinality(Blocked) = Cardinality(notified)
  BY DEF Blocked
<1> QED BY <1>1, <1>2, <1>3, <1>4, <1>5

\* What the operations do to the set of blocked threads.
WaitEffect(t) ==
  /\ semWait' = semWait - 1
  /\ \/ /\ Blocked' = Blocked
        /\ semWait + Cardinality(Blocked) > 0
     \/ /\ Blocked' = Blocked \cup {t}
        /\ Cardinality(Blocked') = Cardinality(Blocked) + 1
        /\ semWait <= 0 /\ semWakeup = 0

ResumeEffect(t) ==
  /\ t \in Blocked
  /\ Blocked' = Blocked \ {t}
  /\ Cardinality(Blocked') = Cardinality(Blocked) - 1
  /\ semWait' = semWait
  /\ semWait + Cardinality(Blocked) > 0

WakeupEffect ==
  /\ Blocked' = Blocked
  /\ semWait' = semWait + 1
  /\ semWait' > 0 \/ semWakeup' > 0

DozeEffect == Blocked' = Blocked /\ UNCHANGED <<semWait, semWakeup>>

LEMMA WaitStep ==
  ASSUME SemInv, NEW t \in Callers, Wait(t)
  PROVE  SemInv' /\ WaitEffect(t)
<1> USE Cardinalities DEF SemInv, WaitEffect
<1>1. CASE semWait' >= 0 /\ UNCHANGED <<semWakeup, asleep>>
  BY <1>1 DEF Wait, SemTypeOK, CountersAgree, NoLostWakeup, Blocked
<1>2. CASE semWait' < 0 /\ semWakeup > 0 /\ semWakeup' = semWakeup - 1 /\ UNCHANGED asleep
  BY <1>2 DEF Wait, SemTypeOK, CountersAgree, NoLostWakeup, Blocked
<1>3. CASE semWait' < 0 /\ semWakeup = 0 /\ asleep' = asleep \cup {t} /\ UNCHANGED semWakeup
  <2>1. Blocked' = Blocked \cup {t} /\ Cardinality(Blocked') = Cardinality(Blocked) + 1
    BY <1>3 DEF Wait, Blocked
  <2>2. SemTypeOK'
    BY <1>3 DEF Wait, SemTypeOK, Blocked
  <2>3. CountersAgree'
    BY <1>3, <2>1 DEF Wait, SemTypeOK, CountersAgree
  <2>4. NoLostWakeup' /\ semWait <= 0 /\ semWakeup = 0 /\ semWait' = semWait - 1
    BY <1>3 DEF Wait, SemTypeOK, NoLostWakeup
  <2> QED BY <2>1, <2>2, <2>3, <2>4
<1> QED BY <1>1, <1>2, <1>3 DEF Wait

LEMMA ResumeStep ==
  ASSUME SemInv, NEW t \in Callers, Resume(t)
  PROVE  SemInv' /\ ResumeEffect(t)
<1> USE Cardinalities DEF SemInv, ResumeEffect
<1>1. t \in Blocked /\ Blocked' = Blocked \ {t}
  BY DEF Resume, Blocked, SemTypeOK
<1>2. /\ Cardinality(Blocked') = Cardinality(Blocked) - 1
      /\ Cardinality(notified') = Cardinality(notified) - 1
  BY <1>1 DEF Resume
<1>3. SemTypeOK'
  BY DEF Resume, SemTypeOK
<1>4. CountersAgree' /\ semWait + Cardinality(Blocked) > 0
  BY <1>2 DEF Resume, SemTypeOK, CountersAgree
<1>5. NoLostWakeup'
  BY <1>2 DEF Resume, SemTypeOK, NoLostWakeup
<1> QED BY <1>1, <1>2, <1>3, <1>4, <1>5 DEF Resume

\* Going back to sleep, or waking up for nothing, changes no count.
LEMMA DozeStep ==
  ASSUME SemInv, NEW t \in Callers, SleepAgain(t) \/ SpuriousWakeup(t)
  PROVE  SemInv' /\ DozeEffect
<1> USE Cardinalities DEF SemInv, DozeEffect
<1>1. CASE SleepAgain(t)
  <2>1. Blocked' = Blocked /\ Cardinality(notified') = Cardinality(notified) - 1
    BY <1>1 DEF SleepAgain, Blocked
  <2>2. SemTypeOK'
    BY <1>1 DEF SleepAgain, SemTypeOK
  <2>3. CountersAgree' /\ UNCHANGED <<semWait, semWakeup>> /\ semWakeup = 0
    BY <1>1, <2>1 DEF SleepAgain, CountersAgree
  <2>4. Cardinality(notified) > 0
    BY <1>1 DEF SleepAgain
  <2>5. NoLostWakeup'
    BY <2>1, <2>3, <2>4 DEF NoLostWakeup
  <2> QED BY <2>1, <2>2, <2>3, <2>5
<1>2. CASE SpuriousWakeup(t)
  <2>1. Blocked' = Blocked /\ Cardinality(notified') = Cardinality(notified) + 1
    BY <1>2 DEF SpuriousWakeup, Blocked, SemTypeOK
  <2>2. SemTypeOK'
    BY <1>2 DEF SpuriousWakeup, SemTypeOK
  <2>3. CountersAgree' /\ NoLostWakeup'
    BY <1>2, <2>1 DEF SpuriousWakeup, SemTypeOK, CountersAgree, NoLostWakeup
  <2> QED BY <1>2, <2>1, <2>2, <2>3 DEF SpuriousWakeup
<1> QED BY <1>1, <1>2

LEMMA WakeupStep ==
  ASSUME SemInv, Wakeup
  PROVE  SemInv' /\ WakeupEffect
<1> USE Cardinalities DEF SemInv, WakeupEffect
<1>1. CASE semWait' > 0 /\ UNCHANGED <<semWakeup, asleep, notified>>
  BY <1>1 DEF Wakeup, SemTypeOK, CountersAgree, NoLostWakeup, Blocked
<1>2. CASE semWait' <= 0 /\ semWakeup' = semWakeup + 1 /\ NotifyOne
  <2>1. CASE asleep = {} /\ UNCHANGED <<asleep, notified>>
    BY <1>2, <2>1 DEF Wakeup, SemTypeOK, CountersAgree, NoLostWakeup, Blocked
  <2>2. ASSUME NEW t \in asleep, asleep' = asleep \ {t}, notified' = notified \cup {t}
        PROVE  SemInv' /\ Blocked' = Blocked
    <3>1. Blocked' = Blocked /\ Cardinality(notified') = Cardinality(notified) + 1
      BY <2>2 DEF Blocked, SemTypeOK
    <3>2. SemTypeOK'
      BY <1>2, <2>2 DEF Wakeup, SemTypeOK
    <3>3. CountersAgree'
      BY <1>2, <3>1 DEF Wakeup, SemTypeOK, CountersAgree
    <3>4. NoLostWakeup'
      BY <1>2, <3>1 DEF Wakeup, SemTypeOK, NoLostWakeup
    <3> QED BY <3>1, <3>2, <3>3, <3>4
  <2>3. SemInv' /\ Blocked' = Blocked
    BY <1>2, <2>1, <2>2 DEF NotifyOne, Blocked
  <2> QED BY <1>2, <2>3 DEF Wakeup, SemTypeOK
<1> QED BY <1>1, <1>2 DEF Wakeup

LEMMA SemInvPreserved == SemInv /\ [SemNext]_semVars => SemInv'
<1> SUFFICES ASSUME SemInv, [SemNext]_semVars PROVE SemInv'
  OBVIOUS
<1>1. CASE Wakeup
  BY <1>1, WakeupStep
<1>2. ASSUME NEW t \in Callers, Wait(t) PROVE SemInv'
  BY <1>2, WaitStep
<1>3. ASSUME NEW t \in Callers, Resume(t) PROVE SemInv'
  BY <1>3, ResumeStep
<1>4. ASSUME NEW t \in Callers, SleepAgain(t) \/ SpuriousWakeup(t) PROVE SemInv'
  BY <1>4, DozeStep
<1>5. CASE UNCHANGED semVars
  BY <1>5 DEF semVars, SemInv, SemTypeOK, CountersAgree, NoLostWakeup, Blocked
<1> QED BY <1>1, <1>2, <1>3, <1>4, <1>5 DEF SemNext, CallerNext

LEMMA SemInvInvariant == SemInit /\ [][SemNext]_semVars => []SemInv
<1>1. SemInit => SemInv
  BY FS_EmptySet DEF SemInit, SemInv, SemTypeOK, CountersAgree, NoLostWakeup, Blocked
<1> QED BY <1>1, SemInvPreserved, PTL

\* The two counters of the class agree with the threads blocked in wait(),
\* and every granted wakeup has an awake thread to take it: wakeup() and
\* wait() of CellSemaphore.hpp lose none.
THEOREM CountersCorrect == SemSpec => [](CountersAgree /\ NoLostWakeup)
<1>1. SemInv => CountersAgree /\ NoLostWakeup
  BY DEF SemInv
<1> QED BY <1>1, SemInvInvariant, PTL DEF SemSpec

\* CellSemaphore implements a counting semaphore whose tokens are the
\* wakeup() calls that no returned wait() has used: every step takes or
\* releases one token, blocks one thread, or changes nothing.  (The liveness
\* half of IsSemaphore is left to TLC.)
THEOREM ImplementsSemaphore == SemSpec => Counting!Safe
<1>1. SemInit => Counting!Init
  BY FS_EmptySet DEF SemInit, Counting!Init, Blocked
<1>2. SemInv /\ [SemNext]_semVars => [Counting!Next]_(Counting!vars)
  <2> SUFFICES ASSUME SemInv, [SemNext]_semVars PROVE [Counting!Next]_(Counting!vars)
    OBVIOUS
  <2> USE Cardinalities DEF SemInv
  <2>1. CASE Wakeup
    <3>1. Counting!Release
      BY <2>1, WakeupStep DEF WakeupEffect, Counting!Release, SemTypeOK
    <3> QED BY <3>1 DEF Counting!Next
  <2>2. ASSUME NEW t \in Callers, Wait(t) PROVE Counting!TakeNow(t) \/ Counting!Block(t)
    <3>1. CASE Blocked' = Blocked /\ semWait + Cardinality(Blocked) > 0
      BY <2>2, <3>1 DEF Wait, Counting!TakeNow, SemTypeOK
    <3>2. CASE Blocked' = Blocked \cup {t} /\ Cardinality(Blocked') = Cardinality(Blocked) + 1
      <4>1. t \notin Blocked /\ semWait' = semWait - 1 /\ semWait \in Int
        BY <2>2 DEF Wait, SemTypeOK
      <4>2. semWait' + Cardinality(Blocked') = semWait + Cardinality(Blocked)
        BY <3>2, <4>1
      <4> QED BY <3>2, <4>1, <4>2 DEF Counting!Block
    <3> QED BY <2>2, <3>1, <3>2, WaitStep DEF WaitEffect
  <2>3. ASSUME NEW t \in Callers, Resume(t) PROVE Counting!Take(t)
    BY <2>3, ResumeStep DEF ResumeEffect, Counting!Take, Resume, SemTypeOK
  <2>4. ASSUME NEW t \in Callers, SleepAgain(t) \/ SpuriousWakeup(t)
        PROVE  UNCHANGED Counting!vars
    BY <2>4, DozeStep DEF DozeEffect, Counting!vars
  <2>5. CASE UNCHANGED semVars
    BY <2>5 DEF semVars, Blocked, Counting!vars
  <2> QED BY <2>1, <2>2, <2>3, <2>4, <2>5 DEF SemNext, CallerNext, Counting!Next
<1> QED BY <1>1, <1>2, SemInvInvariant, PTL DEF SemSpec, Counting!Safe
-----------------------------------------------------------------------------
(* The thread.                                                             *)

IInv == ThreadTypeOK /\ SemInv /\ ThreadInv /\ CloseHasAnswer

LEMMA SignalledFinite ==
  ASSUME ThreadTypeOK
  PROVE  /\ IsFiniteSet(Signalled) /\ Cardinality(Signalled) \in Nat
         /\ IsFiniteSet(Blocked) /\ Cardinality(Blocked) \in Nat
<1>1. Signalled \in SUBSET Workers
  BY DEF Signalled
<1>2. IsFiniteSet(Signalled) /\ Cardinality(Signalled) \in Nat
  BY <1>1, WorkersFinite, FS_Subset, FS_CardinalityType
<1> QED BY <1>2, Cardinalities DEF ThreadTypeOK

\* The steps of owners that do not touch the semaphore.
LEMMA StartStep ==
  ASSUME IInv, NEW o \in Callers, Start(o)
  PROVE  IInv'
<1> USE DEF IInv, Start
<1>1. PICK w \in Workers : /\ workerPc[w] = "none"
                           /\ workerPc' = [workerPc EXCEPT ![w] = "create"]
  OBVIOUS
<1>2. ThreadTypeOK' /\ SemInv'
  BY <1>1 DEF ThreadTypeOK, semVars, SemInv, SemTypeOK, CountersAgree, NoLostWakeup, Blocked
<1>3. Signalled' = Signalled /\ Blocked' = Blocked
  BY <1>1 DEF Signalled, ThreadTypeOK, Blocked, semVars
<1>4. RunningHasWorker'
  BY <1>1 DEF RunningHasWorker, InOnRun, ThreadTypeOK
<1>5. MutexHeld' /\ SemHeld' /\ JoinsCounted'
  BY <1>3 DEF ThreadInv, MutexHeld, SemHeld, JoinsCounted, semVars
<1>6. CloseHasAnswer'
  BY NoOneIsNoCaller DEF CloseHasAnswer
<1> QED BY <1>2, <1>4, <1>5, <1>6 DEF ThreadInv

LEMMA CallStep ==
  ASSUME IInv, NEW o \in Callers, CallClose(o) \/ CloseStopped(o) \/ CloseRunning(o)
  PROVE  IInv'
<1> USE DEF IInv, CallClose, CloseStopped, CloseRunning
<1>1. ThreadTypeOK' /\ SemInv'
  BY DEF ThreadTypeOK, semVars, SemInv, SemTypeOK, CountersAgree, NoLostWakeup, Blocked
<1>2. Signalled' = Signalled /\ Blocked' = Blocked
  BY DEF Signalled, Blocked, semVars
<1>3. RunningHasWorker' /\ JoinsCounted'
  BY <1>2 DEF ThreadInv, RunningHasWorker, InOnRun, JoinsCounted, semVars
<1>4. MutexHeld'
  BY NoOneIsNoCaller DEF ThreadInv, MutexHeld, ThreadTypeOK
<1>5. SemHeld'
  BY <1>2 DEF ThreadInv, SemHeld, ThreadTypeOK
<1>6. CloseHasAnswer'
  BY DEF ThreadInv, CloseHasAnswer, RunningHasWorker, InOnRun, semVars
<1> QED BY <1>1, <1>3, <1>4, <1>5, <1>6 DEF ThreadInv

\* The steps of Close on the semaphore.  A Close that returns leaves _mutex
\* free, so only one that blocks must have an answer coming.
LEMMA CloseWaitStep ==
  ASSUME IInv, NEW o \in Callers, CloseWait(o)
  PROVE  IInv'
<1> USE SignalledFinite DEF IInv
<1>1. SemInv' /\ WaitEffect(o) /\ o \notin Blocked
  BY WaitStep DEF CloseWait, Wait
<1>2. Signalled' = Signalled
  BY DEF Signalled, CloseWait
<1>3. mutex = o /\ o # NoOne /\ \A p \in Callers : p # o => ownerPc[p] \notin {"flagged", "blocked"}
  BY NoOneIsNoCaller DEF CloseWait, ThreadInv, MutexHeld
<1>4. RunningHasWorker'
  BY DEF CloseWait, ThreadInv, RunningHasWorker, InOnRun
<1>5. CASE o \notin asleep' /\ CloseReturns(o)
  <2>1. Blocked' = Blocked
    BY <1>1, <1>5 DEF CloseWait, Wait, Blocked
  <2>2. ThreadTypeOK'
    BY <1>1, <1>5 DEF CloseWait, CloseReturns, ThreadTypeOK, SemInv
  <2>3. JoinsCounted'
    BY <1>1, <1>2, <1>5, <2>1 DEF WaitEffect, CloseReturns, ThreadInv, JoinsCounted, ThreadTypeOK, SemTypeOK
  <2>4. MutexHeld' /\ SemHeld' /\ CloseHasAnswer'
    BY <1>3, <1>5, <2>1, NoOneIsNoCaller
       DEF CloseWait, CloseReturns, ThreadInv, MutexHeld, SemHeld, CloseHasAnswer, ThreadTypeOK
  <2> QED BY <1>1, <1>4, <2>2, <2>3, <2>4 DEF ThreadInv
<1>6. CASE /\ o \in asleep'
           /\ ownerPc' = [ownerPc EXCEPT ![o] = "blocked"]
           /\ UNCHANGED <<mutex, joins>>
  <2>1. /\ Blocked' = Blocked \cup {o}
        /\ Cardinality(Blocked') = Cardinality(Blocked) + 1
        /\ semWait <= 0 /\ semWakeup = 0
    BY <1>1, <1>6 DEF WaitEffect, Blocked
  <2>2. ThreadTypeOK'
    BY <1>1, <1>6 DEF CloseWait, ThreadTypeOK, SemInv
  <2>3. JoinsCounted'
    BY <1>1, <1>2, <1>6, <2>1 DEF WaitEffect, ThreadInv, JoinsCounted, ThreadTypeOK, SemTypeOK
  <2>4. MutexHeld' /\ SemHeld'
    BY <1>3, <1>6, <2>1 DEF CloseWait, ThreadInv, MutexHeld, SemHeld, ThreadTypeOK
  <2>5. CloseHasAnswer'
    BY <1>3, <2>1 DEF CloseWait, CloseHasAnswer, ThreadTypeOK, SemTypeOK
  <2> QED BY <1>1, <1>4, <2>2, <2>3, <2>4, <2>5 DEF ThreadInv
<1> QED BY <1>5, <1>6 DEF CloseWait

LEMMA CloseResumeStep ==
  ASSUME IInv, NEW o \in Callers, CloseResume(o)
  PROVE  IInv'
<1> USE SignalledFinite DEF IInv
<1>1. SemInv' /\ ResumeEffect(o)
  BY ResumeStep DEF CloseResume
<1>2. Signalled' = Signalled
  BY DEF Signalled, CloseResume
<1>3. mutex = o /\ \A p \in Callers : p # o => ownerPc[p] \notin {"flagged", "blocked"}
  BY DEF CloseResume, ThreadInv, MutexHeld
<1>4. RunningHasWorker' /\ ThreadTypeOK'
  BY <1>1 DEF CloseResume, CloseReturns, ThreadInv, RunningHasWorker, InOnRun, ThreadTypeOK, SemInv
<1>5. JoinsCounted'
  BY <1>1, <1>2 DEF CloseResume, CloseReturns, ResumeEffect, ThreadInv, JoinsCounted, ThreadTypeOK, SemTypeOK
<1>6. MutexHeld' /\ SemHeld' /\ CloseHasAnswer'
  BY <1>1, <1>3, NoOneIsNoCaller
     DEF CloseResume, CloseReturns, ResumeEffect, ThreadInv, MutexHeld, SemHeld, CloseHasAnswer, ThreadTypeOK
<1> QED BY <1>1, <1>4, <1>5, <1>6 DEF ThreadInv

LEMMA CloseDozesStep ==
  ASSUME IInv, NEW o \in Callers, CloseDozes(o)
  PROVE  IInv'
<1>1. SemInv' /\ DozeEffect
  BY DozeStep DEF CloseDozes, IInv
<1>2. Signalled' = Signalled
  BY DEF Signalled, CloseDozes
<1>3. ThreadTypeOK'
  BY <1>1 DEF CloseDozes, IInv, ThreadTypeOK, SemInv
<1>4. ThreadInv' /\ CloseHasAnswer'
  BY <1>1, <1>2 DEF CloseDozes, DozeEffect, IInv, ThreadInv, MutexHeld, SemHeld,
                    RunningHasWorker, InOnRun, JoinsCounted, CloseHasAnswer
<1> QED BY <1>1, <1>3, <1>4 DEF IInv

\* The steps of workers.
LEMMA WorkerPlainStep ==
  ASSUME IInv, NEW w \in Workers,
         OnCreate(w) \/ OnRun(w) \/ CallExit(w) \/ Exit(w) \/ OnDestory(w) \/ ClearIsRun(w)
  PROVE  IInv'
<1> USE DEF IInv, OnCreate, OnRun, LeaveOnRun, CallExit, Exit, OnDestory, ClearIsRun, WorkerAt
<1>1. ThreadTypeOK' /\ SemInv'
  BY DEF ThreadTypeOK, semVars, SemInv, SemTypeOK, CountersAgree, NoLostWakeup, Blocked
<1>2. Blocked' = Blocked
  BY DEF Blocked, semVars
<1>3. Signalled' = Signalled
  BY DEF Signalled, ThreadTypeOK
<1>4. RunningHasWorker'
  BY DEF ThreadInv, RunningHasWorker, InOnRun, ThreadTypeOK
<1>5. MutexHeld' /\ SemHeld' /\ JoinsCounted'
  BY <1>2, <1>3 DEF ThreadInv, MutexHeld, SemHeld, JoinsCounted, semVars
<1>6. CloseHasAnswer'
  BY DEF CloseHasAnswer, ThreadTypeOK, semVars
<1> QED BY <1>1, <1>4, <1>5, <1>6 DEF ThreadInv

LEMMA SignalEndStep ==
  ASSUME IInv, NEW w \in Workers, SignalEnd(w)
  PROVE  IInv'
<1> USE SignalledFinite DEF IInv
<1>1. SemInv' /\ WakeupEffect
  BY WakeupStep DEF SignalEnd
<1>2. Signalled' = Signalled \cup {w} /\ w \notin Signalled
  BY DEF SignalEnd, WorkerAt, Signalled, ThreadTypeOK
<1>3. Cardinality(Signalled') = Cardinality(Signalled) + 1
  BY <1>2, FS_AddElement
<1>4. ThreadTypeOK'
  BY <1>1 DEF SignalEnd, WorkerAt, ThreadTypeOK, SemInv
<1>5. JoinsCounted'
  BY <1>1, <1>3 DEF SignalEnd, WakeupEffect, ThreadInv, JoinsCounted, ThreadTypeOK, SemTypeOK
<1>6. RunningHasWorker'
  BY DEF SignalEnd, WorkerAt, ThreadInv, RunningHasWorker, InOnRun, ThreadTypeOK
<1>7. MutexHeld' /\ SemHeld'
  BY <1>1 DEF SignalEnd, WakeupEffect, ThreadInv, MutexHeld, SemHeld
<1>8. CloseHasAnswer'
  BY <1>1 DEF WakeupEffect, CloseHasAnswer
<1> QED BY <1>1, <1>4, <1>5, <1>6, <1>7, <1>8 DEF ThreadInv

LEMMA IInvInit == ThreadInit => IInv
<1> SUFFICES ASSUME ThreadInit PROVE IInv
  OBVIOUS
<1>1. Blocked = {} /\ Signalled = {} /\ Cardinality({}) = 0
  BY FS_EmptySet DEF ThreadInit, SemInit, Blocked, Signalled
<1>2. SemInv
  BY <1>1 DEF ThreadInit, SemInit, SemInv, SemTypeOK, CountersAgree, NoLostWakeup
<1>3. ThreadTypeOK
  BY <1>2 DEF ThreadInit, ThreadTypeOK, SemInv
<1>4. ThreadInv /\ CloseHasAnswer
  BY <1>1, NoOneIsNoCaller
     DEF ThreadInit, SemInit, ThreadInv, MutexHeld, SemHeld, RunningHasWorker, JoinsCounted, CloseHasAnswer
<1> QED BY <1>2, <1>3, <1>4 DEF IInv

LEMMA IInvPreserved == IInv /\ [ThreadNext]_threadVars => IInv'
<1> SUFFICES ASSUME IInv, [ThreadNext]_threadVars PROVE IInv'
  OBVIOUS
<1>1. ASSUME NEW o \in Callers, OwnerNext(o) PROVE IInv'
  BY <1>1, StartStep, CallStep, CloseWaitStep, CloseResumeStep, CloseDozesStep
     DEF OwnerNext, CloseStep
<1>2. ASSUME NEW w \in Workers, WorkerNext(w) PROVE IInv'
  BY <1>2, WorkerPlainStep, SignalEndStep DEF WorkerNext, OnWorkStep
<1>3. CASE UNCHANGED threadVars
  BY <1>3 DEF threadVars, semVars, IInv, ThreadTypeOK, SemInv, SemTypeOK, CountersAgree, NoLostWakeup,
              Blocked, Signalled, ThreadInv, MutexHeld, SemHeld, RunningHasWorker, InOnRun,
              JoinsCounted, CloseHasAnswer
<1> QED BY <1>1, <1>2, <1>3 DEF ThreadNext

LEMMA IInvInvariant == ThreadSafeSpec => []IInv
  BY IInvInit, IInvPreserved, PTL DEF ThreadSafeSpec

\* The variables of a CellThread keep their types.
THEOREM TypeCorrect == ThreadSafeSpec => []ThreadTypeOK
<1>1. IInv => ThreadTypeOK
  BY DEF IInv
<1> QED BY <1>1, IInvInvariant, PTL

\* The _mutex is held by the one owner that is stopping the thread, a set
\* _isRun means that a worker has not left onRun, and the semaphore counts
\* the workers that signalled minus the Close calls they answered.
THEOREM ThreadCorrect == ThreadSafeSpec => []ThreadInv
<1>1. IInv => ThreadInv
  BY DEF IInv
<1> QED BY <1>1, IInvInvariant, PTL

\* Close calls never return from their wait more often than workers end.
THEOREM JoinsEarned == ThreadSafeSpec => []NoUnearnedJoin
<1>1. ASSUME IInv PROVE NoUnearnedJoin
  <2>1. joins = Cardinality(Signalled) - (semWait + Cardinality(Blocked))
    BY <1>1, SignalledFinite DEF IInv, ThreadInv, JoinsCounted, ThreadTypeOK, SemTypeOK
  <2>2. semWait + Cardinality(Blocked) >= 0
    BY <1>1, SignalledFinite DEF IInv, SemInv, CountersAgree, SemTypeOK, ThreadTypeOK
  <2> QED BY <1>1, <2>1, <2>2, SignalledFinite DEF NoUnearnedJoin, IInv, SemInv, SemTypeOK, ThreadTypeOK
<1> QED BY <1>1, IInvInvariant, PTL

\* A Close that holds _mutex has a token to take, or a worker that will
\* still signal, even after restarts and after Exit.
THEOREM AnswerComing == ThreadSafeSpec => []CloseHasAnswer
<1>1. IInv => CloseHasAnswer
  BY DEF IInv
<1> QED BY <1>1, IInvInvariant, PTL
-----------------------------------------------------------------------------
(***************************************************************************)
(* While no onRun has called Exit: as long as the worker of the only start *)
(* has not signalled, _isRun is set or a Close holds _mutex, so no other Close can *)
(* get the lock, find _isRun cleared and leave early.                      *)
(***************************************************************************)
Ended(w) == workerPc[w] \in {"none", "clear", "gone"}

JoinInv ==
  ~exited =>
    /\ \A w \in Workers : workerPc[w] # "exit"
    /\ StartedOnce => \A w \in Workers : ~Ended(w) => isRun \/ mutex # NoOne

\* A token can only be taken when the worker has signalled.
LEMMA TokenMeansEnded ==
  ASSUME StartedOnce, IInv, semWait + Cardinality(Blocked) > 0
  PROVE  \A w \in Workers : Ended(w)
<1>1. Cardinality(Signalled) > 0
  BY SignalledFinite DEF IInv, ThreadInv, JoinsCounted, ThreadTypeOK, SemTypeOK
<1>2. PICK w \in Workers : w \in Signalled
  BY <1>1, FS_EmptySet DEF Signalled
<1> QED BY <1>2 DEF StartedOnce, Signalled, Ended

LEMMA CloseWaitReturns ==
  ASSUME StartedOnce, IInv, NEW o \in Callers, CloseWait(o) \/ CloseResume(o), mutex' # o
  PROVE  \A w \in Workers : Ended(w)
<1>1. CASE CloseWait(o)
  <2>1. mutex = o /\ o \notin asleep'
    BY <1>1 DEF CloseWait, IInv, ThreadInv, MutexHeld
  <2>2. Blocked' = Blocked
    BY <1>1, <2>1 DEF CloseWait, Wait, Blocked
  <2>3. semWait + Cardinality(Blocked) > 0
    BY <1>1, <2>2, WaitStep, SignalledFinite DEF CloseWait, IInv, WaitEffect
  <2> QED BY <2>3, TokenMeansEnded
<1>2. CASE CloseResume(o)
  BY <1>2, ResumeStep, TokenMeansEnded DEF CloseResume, IInv, ResumeEffect
<1> QED BY <1>1, <1>2

LEMMA JoinInvPreserved ==
  ASSUME IInv, JoinInv, [ThreadNext]_threadVars
  PROVE  JoinInv'
<1> USE DEF JoinInv, StartedOnce, Ended
<1>1. ASSUME NEW o \in Callers, Start(o) PROVE JoinInv'
  BY <1>1 DEF Start, IInv, ThreadTypeOK
<1>2. ASSUME NEW o \in Callers, CallClose(o) \/ CloseStopped(o) \/ CloseRunning(o) PROVE JoinInv'
  BY <1>2, NoOneIsNoCaller DEF CallClose, CloseStopped, CloseRunning
<1>3. ASSUME NEW o \in Callers, CloseWait(o) \/ CloseResume(o) PROVE JoinInv'
  <2>1. workerPc' = workerPc /\ isRun' = isRun /\ exited' = exited
    BY <1>3 DEF CloseWait, CloseResume
  <2>2. CASE mutex' = o
    BY <1>3, <2>1, <2>2, NoOneIsNoCaller
  <2>3. CASE mutex' # o
    BY <1>3, <2>1, <2>3, CloseWaitReturns
  <2> QED BY <2>2, <2>3
<1>4. ASSUME NEW o \in Callers, CloseDozes(o) PROVE JoinInv'
  BY <1>4 DEF CloseDozes
<1>5. ASSUME NEW w \in Workers, WorkerNext(w) PROVE JoinInv'
  <2>1. /\ workerPc[w] # "none" /\ workerPc'[w] # "none" /\ mutex' = mutex
        /\ ~exited' => ~exited /\ workerPc'[w] # "exit"
    BY <1>5 DEF WorkerNext, OnWorkStep, OnCreate, OnRun, LeaveOnRun, CallExit, Exit, OnDestory,
                SignalEnd, ClearIsRun, WorkerAt, IInv, ThreadTypeOK
  <2>2. \A v \in Workers \ {w} : workerPc'[v] = workerPc[v]
    BY <1>5 DEF WorkerNext, OnWorkStep, OnCreate, OnRun, LeaveOnRun, CallExit, Exit, OnDestory,
                SignalEnd, ClearIsRun, WorkerAt, IInv, ThreadTypeOK
  <2>3. StartedOnce' => StartedOnce /\ \A v \in Workers \ {w} : Ended(v)'
    BY <2>1, <2>2
  <2>4. isRun' = isRun \/ workerPc[w] = "exit" \/ Ended(w)'
    BY <1>5 DEF WorkerNext, OnWorkStep, OnCreate, OnRun, LeaveOnRun, CallExit, Exit, OnDestory,
                SignalEnd, ClearIsRun, WorkerAt, IInv, ThreadTypeOK
  <2>5. Ended(w) => Ended(w)'
    BY <1>5 DEF WorkerNext, OnWorkStep, OnCreate, OnRun, LeaveOnRun, CallExit, Exit, OnDestory,
                SignalEnd, ClearIsRun, WorkerAt, IInv, ThreadTypeOK
  <2> QED BY <2>1, <2>2, <2>3, <2>4, <2>5
<1>6. CASE UNCHANGED threadVars
  BY <1>6 DEF threadVars
<1> QED BY <1>1, <1>2, <1>3, <1>4, <1>5, <1>6 DEF ThreadNext, OwnerNext, CloseStep

LEMMA CloseJoinsStep ==
  ASSUME StartedOnce, ~exited, IInv, JoinInv, [ThreadNext]_threadVars,
         NEW o \in Callers, ownerPc[o] # "idle", ownerPc'[o] = "idle"
  PROVE  \A w \in Workers : Ended(w)
<1>1. CloseStopped(o) \/ CloseWait(o) \/ CloseResume(o)
  <2>1. ASSUME NEW p \in Callers, OwnerNext(p) PROVE p = o /\ ~CallClose(o) /\ ~CloseRunning(o)
    BY <2>1 DEF OwnerNext, CloseStep, Start, CallClose, CloseStopped, CloseRunning, CloseWait,
                CloseResume, CloseDozes, CloseReturns, IInv, ThreadTypeOK
  <2>2. ASSUME NEW w \in Workers, WorkerNext(w) PROVE FALSE
    BY <2>2 DEF WorkerNext, OnWorkStep, OnCreate, OnRun, LeaveOnRun, CallExit, Exit, OnDestory,
                SignalEnd, ClearIsRun
  <2>3. CASE UNCHANGED threadVars
    BY <2>3 DEF threadVars
  <2> QED BY <2>1, <2>2, <2>3 DEF ThreadNext, OwnerNext, CloseStep, Start, CloseDozes
<1>2. CASE CloseStopped(o)
  BY <1>2 DEF CloseStopped, JoinInv
<1>3. CASE CloseWait(o) \/ CloseResume(o)
  <2>1. mutex' # o
    BY <1>3, NoOneIsNoCaller DEF CloseWait, CloseResume, CloseReturns, IInv, ThreadTypeOK
  <2> QED BY <1>3, <2>1, CloseWaitReturns
<1> QED BY <1>1, <1>2, <1>3

\* When any owner's Close ends, the worker of a thread started once whose
\* onRun has not called Exit has finished onRun and onDestory: the owner may
\* free what they use.
THEOREM CloseJoinsCorrect == ThreadSafeSpec => CloseJoins
<1>1. ThreadInit => JoinInv
  BY DEF ThreadInit, JoinInv, Ended
<1>2. IInv /\ JoinInv /\ [ThreadNext]_threadVars => JoinInv'
  BY JoinInvPreserved
<1>3. IInv /\ JoinInv /\ [ThreadNext]_threadVars =>
        [\A o \in Callers : ownerPc[o] # "idle" /\ ownerPc'[o] = "idle" /\ StartedOnce /\ ~exited =>
           \A w \in Workers : workerPc[w] \in {"none", "clear", "gone"}]_threadVars
  BY CloseJoinsStep DEF Ended
<1> QED BY <1>1, <1>2, <1>3, IInvInvariant, PTL DEF ThreadSafeSpec, CloseJoins
=============================================================================
