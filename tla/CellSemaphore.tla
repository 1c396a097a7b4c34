--------------------------- MODULE CellSemaphore ---------------------------
(***************************************************************************)
(* depends/include/CellSemaphore.hpp: a semaphore made of a mutex, a       *)
(* condition variable, a signed wait counter and a wakeup counter.  Both   *)
(* operations run under the semaphore's own mutex, so each critical        *)
(* section is one step; the condition variable's wait() releases the mutex *)
(* and is split there.                                                     *)
(***************************************************************************)
EXTENDS Integers, FiniteSets

CONSTANT Callers   \* the threads that may call wait()

ASSUME CallersFinite == IsFiniteSet(Callers)

VARIABLES
  semWait,    \* _wait: wakeup() calls minus wait() calls
  semWakeup,  \* _wakeup: wakeups granted to blocked threads, not yet taken
  asleep,     \* threads inside _cv.wait
  notified    \* threads woken by _cv, about to re-evaluate _wakeup > 0

semVars == <<semWait, semWakeup, asleep, notified>>

Blocked == asleep \cup notified

SemInit ==
  /\ semWait = 0
  /\ semWakeup = 0
  /\ asleep = {}
  /\ notified = {}

\* wait(), up to its return or to the first sleep in _cv.wait: the
\* predicate is evaluated before sleeping, so a late caller can take a
\* wakeup that was granted to a thread not yet rescheduled.
Wait(t) ==
  /\ t \notin Blocked
  /\ semWait' = semWait - 1
  /\ UNCHANGED notified
  /\ \/ /\ semWait' >= 0
        /\ UNCHANGED <<semWakeup, asleep>>
     \/ /\ semWait' < 0 /\ semWakeup > 0
        /\ semWakeup' = semWakeup - 1
        /\ UNCHANGED asleep
     \/ /\ semWait' < 0 /\ semWakeup = 0
        /\ asleep' = asleep \cup {t}
        /\ UNCHANGED semWakeup

\* Mutant of Resume: _cv.wait without a predicate.
ResumeUnchecked(t) ==
  /\ t \in notified
  /\ semWakeup' = semWakeup - 1
  /\ notified' = notified \ {t}
  /\ UNCHANGED <<semWait, asleep>>

\* A woken thread evaluates the predicate again, and returns from wait()
\* or goes back to sleep.
Resume(t) ==
  /\ t \in notified
  /\ semWakeup > 0
  /\ semWakeup' = semWakeup - 1
  /\ notified' = notified \ {t}
  /\ UNCHANGED <<semWait, asleep>>

SleepAgain(t) ==
  /\ t \in notified
  /\ semWakeup = 0
  /\ notified' = notified \ {t}
  /\ asleep' = asleep \cup {t}
  /\ UNCHANGED <<semWait, semWakeup>>

\* The C++ condition variable may wake a thread for no reason.
SpuriousWakeup(t) ==
  /\ t \in asleep
  /\ asleep' = asleep \ {t}
  /\ notified' = notified \cup {t}
  /\ UNCHANGED <<semWait, semWakeup>>

NotifyOne ==
  \/ asleep = {} /\ UNCHANGED <<asleep, notified>>
  \/ \E t \in asleep : /\ asleep' = asleep \ {t}
                       /\ notified' = notified \cup {t}

\* Mutants of Wakeup: the test is < 0; notify_one is not called.
WakeupBelowZero ==
  /\ semWait' = semWait + 1
  /\ \/ semWait' < 0 /\ semWakeup' = semWakeup + 1 /\ NotifyOne
     \/ semWait' >= 0 /\ UNCHANGED <<semWakeup, asleep, notified>>

WakeupSilent ==
  /\ semWait' = semWait + 1
  /\ semWakeup' = IF semWait' <= 0 THEN semWakeup + 1 ELSE semWakeup
  /\ UNCHANGED <<asleep, notified>>

Wakeup ==
  /\ semWait' = semWait + 1
  /\ \/ /\ semWait' <= 0
        /\ semWakeup' = semWakeup + 1
        /\ NotifyOne
     \/ /\ semWait' > 0
        /\ UNCHANGED <<semWakeup, asleep, notified>>

CallerNext(t) == Wait(t) \/ Resume(t) \/ SleepAgain(t) \/ SpuriousWakeup(t)

SemNext == Wakeup \/ \E t \in Callers : CallerNext(t)

\* A woken thread is scheduled and gets the semaphore's mutex back.
SemFairness == \A t \in Callers : WF_semVars(Resume(t) \/ SleepAgain(t))

SemSpec == SemInit /\ [][SemNext]_semVars /\ SemFairness
-----------------------------------------------------------------------------
SemTypeOK ==
  /\ semWait \in Int
  /\ semWakeup \in Nat
  /\ asleep \subseteq Callers
  /\ notified \subseteq Callers
  /\ asleep \cap notified = {}

\* The two counters agree: while _wait is negative it counts the blocked
\* threads that no wakeup was granted to, and otherwise every blocked
\* thread has one (wait() and wakeup() update them in separate branches).
CountersAgree ==
  semWakeup = Cardinality(Blocked) + (IF semWait < 0 THEN semWait ELSE 0)

\* No lost wakeup: for every granted wakeup there is a thread that is
\* already awake to take it, though notify_one is called once per wakeup()
\* and a late caller of wait() may have taken the wakeup it announced.
NoLostWakeup == semWakeup <= Cardinality(notified)

\* The class implements a counting semaphore: the tokens are the wakeup()
\* calls that no returned wait() has used.
Counting == INSTANCE Semaphore WITH
              Threads <- Callers,
              tokens <- semWait + Cardinality(Blocked),
              waiting <- Blocked

IsSemaphore == Counting!Spec
=============================================================================
