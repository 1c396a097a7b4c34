----------------------- MODULE EasyTcpServerLifeProofs -----------------------
(***************************************************************************)
(* What a closing server has waited for when it frees its cell servers,    *)
(* and what the places under the client limit stand for: for any number of *)
(* openings and either class of server.  A failed poll, and a start over   *)
(* an accept thread that has not ended, make Close wait for less; the      *)
(* theorem says for how much.                                              *)
(***************************************************************************)
EXTENDS EasyTcpServerLife, CellThreadProofs

WorkerPlaces == {"none", "create", "run", "exit", "destory", "wakeup", "clear", "gone"}
ServerPlaces == {"init", "bind", "start", "startThread", "serve", "closeThread", "delete", "closed",
                 "ended"}

\* Where the server is not accepting.
Away == {"init", "bind", "start", "startThread", "delete", "closed"}

PlacesTypeOK ==
  /\ serverPc \in ServerPlaces /\ stale \in BOOLEAN
  /\ waiting \in Nat /\ joined \in Nat /\ cleared \in Nat /\ clientAccept \in Int
  /\ accIsRun \in BOOLEAN /\ accMutex \in Callers \cup {NoOne}
  /\ accOwnerPc \in [Callers -> {"idle", "lock", "flagged", "blocked"}]
  /\ accWorkerPc \in [Accepters -> WorkerPlaces]
  /\ accSemWait \in Int /\ accSemWakeup \in Nat
  /\ accAsleep \subseteq Callers /\ accNotified \subseteq Callers /\ accAsleep \cap accNotified = {}
-----------------------------------------------------------------------------
(* The thread of the server object.                                        *)

\* Its one owner is inside Close only where Close of the server is, holds
\* the mutex while it waits, and waits for one wakeup.
AccOwnerInv ==
  /\ \A o \in Callers : /\ accOwnerPc[o] \in {"flagged", "blocked"} <=> accMutex = o
                        /\ accOwnerPc[o] = "blocked" <=> o \in Thread!Blocked
                        /\ accOwnerPc[o] # "idle" => serverPc = "closeThread"
  /\ Thread!Blocked = {} => accSemWait >= 0 /\ accSemWakeup = 0
  /\ Thread!Blocked # {} =>
       accSemWait >= -1 /\ accSemWakeup = (IF accSemWait < 0 THEN 0 ELSE 1)

\* The flag is set only while the server accepts.
AccFlagInv ==
  /\ accMutex # NoOne => ~accIsRun
  /\ serverPc \in Away => ~accIsRun

Live(a) == accWorkerPc[a] \notin {"none", "gone"}
InLoop(a) == accWorkerPc[a] \in {"create", "run"}

\* As long as no start met a predecessor: one accept thread is alive, and
\* while it is in its loop nothing tells its owner that it ended.
CurrentInv ==
  ~stale =>
    /\ \A a, b \in Accepters : Live(a) /\ Live(b) => a = b
    /\ \A a \in Accepters : InLoop(a) =>
         /\ accIsRun \/ accMutex # NoOne
         /\ accSemWait <= 0 /\ accSemWakeup = 0

AccInv == AccOwnerInv /\ AccFlagInv /\ CurrentInv
-----------------------------------------------------------------------------
(* The cell server.                                                        *)

\* ~CellServer (and ~CellSelectServer before it) has closed the thread.
ThreadClosed ==
  \/ deletePc \in {"members", "done"}
  \/ poller = "select" /\ deletePc \in {"derived", "baseClose"}

\* Where its owner and its worker are.
CellPlaceInv ==
  /\ \A o \in Callers : ownerPc[o] # "idle" => deletePc \in {"close", "baseClose"}
  /\ exited <=> loopPc = "exited"
  /\ \A w \in Workers :
       /\ workerPc[w] = "none" => deletePc = "none" /\ serverPc \in {"init", "bind", "start"}
       /\ workerPc[w] \in {"exit", "destory", "wakeup", "clear", "gone"} => loopPc \in {"left", "exited"}
       /\ serverPc \in {"startThread", "serve", "closeThread"} /\ ~exited =>
            isRun /\ workerPc[w] \in {"create", "run"}
  /\ serverPc \in {"init", "closed", "ended"} => ~sock
  /\ listening => sock

\* What is freed, and when.
FreeInv ==
  /\ ThreadClosed => exited \/ \A w \in Workers : Ended(w)
  /\ poller = "select" /\ ~pollerOpen => deletePc \in {"baseClose", "members", "done"}
  /\ class = "freed" => deletePc = "done"

\* After Clearclients nobody adds a client.
ClearedInv ==
  ~stale /\ ~exited /\ (\E w \in Workers : workerPc[w] \in {"wakeup", "clear", "gone"}) =>
    waiting = 0 /\ joined = 0

CellInv == IInv /\ JoinInv /\ CellPlaceInv /\ FreeInv /\ ClearedInv

ServerInv == PlacesTypeOK /\ AccInv /\ CellInv
-----------------------------------------------------------------------------
(* The thread of the server object: the steps of its owner.                *)

LEMMA OneCaller == ASSUME NEW o \in Callers PROVE Callers = {o} /\ o # NoOne
BY OneOwner, NoOneIsNoCaller

LEMMA AccTypes ==
  ASSUME PlacesTypeOK
  PROVE  /\ Thread!Blocked \subseteq Callers
         /\ \A o \in Callers : Thread!Blocked = {} \/ Thread!Blocked = {o}
BY OneCaller DEF PlacesTypeOK, Thread!Blocked

\* The accept thread is left alone and the owner does not go out of Close.
LEMMA AccKept ==
  ASSUME AccInv, UNCHANGED accVars, stale' = stale,
         \/ serverPc' = serverPc
         \/ serverPc # "closeThread" /\ (serverPc' \in Away => serverPc \in Away)
  PROVE  AccInv'
<1>1. /\ accIsRun' = accIsRun /\ accMutex' = accMutex /\ accOwnerPc' = accOwnerPc
      /\ accWorkerPc' = accWorkerPc /\ accSemWait' = accSemWait /\ accSemWakeup' = accSemWakeup
      /\ Thread!Blocked' = Thread!Blocked
  BY DEF accVars, accSemVars, Thread!Blocked
<1>2. AccOwnerInv'
  BY <1>1 DEF AccInv, AccOwnerInv
<1>3. AccFlagInv'
  BY <1>1 DEF AccInv, AccFlagInv
<1>4. CurrentInv'
  BY <1>1 DEF AccInv, CurrentInv, Live, InLoop
<1> QED BY <1>2, <1>3, <1>4 DEF AccInv

LEMMA AccStart ==
  ASSUME PlacesTypeOK, AccInv, NEW o \in Callers, StartThread(o)
  PROVE  PlacesTypeOK' /\ AccInv'
<1>1. PICK a \in Accepters :
        /\ accWorkerPc[a] = "none"
        /\ accWorkerPc' = [accWorkerPc EXCEPT ![a] = "create"]
  BY DEF StartThread, Thread!Start
<1>2. /\ serverPc = "startThread" /\ serverPc' = "serve"
      /\ accOwnerPc[o] = "idle" /\ accMutex = NoOne /\ accIsRun' = TRUE
      /\ accMutex' = accMutex /\ accOwnerPc' = accOwnerPc
      /\ accSemWait' = accSemWait /\ accSemWakeup' = accSemWakeup
      /\ accAsleep' = accAsleep /\ accNotified' = accNotified
      /\ waiting' = waiting /\ joined' = joined /\ cleared' = cleared
      /\ clientAccept' = clientAccept
  BY DEF StartThread, Thread!Start, Thread!semVars, Goto, lifeVars, clientVars
<1>3. ~stale' => /\ ~stale /\ accSemWait <= 0
                 /\ \A b \in Accepters : accWorkerPc[b] \in {"none", "gone"}
  <2>1. stale' = (stale \/ accSemWait > 0 \/ \E b \in Accepters : accWorkerPc[b] \notin {"none", "gone"})
    BY DEF StartThread
  <2>2. accSemWait \in Int
    BY DEF PlacesTypeOK
  <2>3. ~(accSemWait > 0) => accSemWait <= 0
    BY <2>2
  <2> QED BY <2>1, <2>3
<1>4. Thread!Blocked' = Thread!Blocked /\ Thread!Blocked = {}
  <2>1. Thread!Blocked' = Thread!Blocked
    BY <1>2 DEF Thread!Blocked
  <2>2. o \notin Thread!Blocked
    BY <1>2 DEF AccInv, AccOwnerInv
  <2> QED BY <2>1, <2>2, AccTypes
<1>5. PlacesTypeOK'
  <2>1. stale' \in BOOLEAN
    BY DEF StartThread, PlacesTypeOK
  <2> QED BY <1>1, <1>2, <2>1 DEF PlacesTypeOK, ServerPlaces, WorkerPlaces
<1>6. AccOwnerInv'
  <2>1. \A p \in Callers : accOwnerPc[p] = "idle"
    BY <1>2, OneCaller
  <2> QED BY <1>2, <1>4, <2>1 DEF AccInv, AccOwnerInv
<1>7. AccFlagInv'
  BY <1>2 DEF AccFlagInv, Away
<1>8. CurrentInv'
  <2> SUFFICES ASSUME ~stale'
               PROVE  /\ \A b, c \in Accepters : Live(b)' /\ Live(c)' => b = c
                      /\ accIsRun' /\ accSemWait' <= 0 /\ accSemWakeup' = 0
    BY DEF CurrentInv
  <2>1. \A b \in Accepters : Live(b)' => b = a
    BY <1>1, <1>3 DEF Live, PlacesTypeOK
  <2>2. accSemWakeup = 0
    BY <1>4 DEF AccInv, AccOwnerInv
  <2> QED BY <1>2, <1>3, <2>1, <2>2
<1> QED BY <1>5, <1>6, <1>7, <1>8 DEF AccInv

\* Close of the server calls Close of the thread.
LEMMA AccCall ==
  ASSUME PlacesTypeOK, AccInv, NEW o \in Callers, serverPc = "serve", serverPc' = "closeThread",
         Thread!CallClose(o), stale' = stale
  PROVE  AccInv' /\ accOwnerPc' \in [Callers -> {"idle", "lock", "flagged", "blocked"}]
<1>1. /\ accOwnerPc[o] = "idle" /\ accOwnerPc' = [accOwnerPc EXCEPT ![o] = "lock"]
      /\ accIsRun' = accIsRun /\ accMutex' = accMutex /\ accWorkerPc' = accWorkerPc
      /\ accSemWait' = accSemWait /\ accSemWakeup' = accSemWakeup
      /\ Thread!Blocked' = Thread!Blocked
  BY DEF Thread!CallClose, Thread!semVars, Thread!Blocked
<1>2. AccOwnerInv'
  BY <1>1 DEF AccInv, AccOwnerInv, PlacesTypeOK
<1>3. AccFlagInv'
  BY <1>1 DEF AccInv, AccFlagInv, Away
<1>4. CurrentInv'
  BY <1>1 DEF AccInv, CurrentInv, Live, InLoop
<1> QED BY <1>1, <1>2, <1>3, <1>4 DEF AccInv, PlacesTypeOK

AccCloseTypes ==
  /\ accIsRun' \in BOOLEAN /\ accMutex' \in Callers \cup {NoOne}
  /\ accOwnerPc' \in [Callers -> {"idle", "lock", "flagged", "blocked"}]
  /\ accSemWait' \in Int /\ accSemWakeup' \in Nat
  /\ accAsleep' \subseteq Callers /\ accNotified' \subseteq Callers
  /\ accAsleep' \cap accNotified' = {}

\* Close of the thread goes on, or is over: then the flag is clear, and no
\* accept thread is in its loop, or it would have no mutex to wait for.
LEMMA AccClose ==
  ASSUME PlacesTypeOK, AccInv, NEW o \in Callers, CloseThread(o)
  PROVE  AccInv' /\ AccCloseTypes
<1>1. /\ serverPc = "closeThread" /\ stale' = stale
      /\ serverPc' = IF accOwnerPc'[o] = "idle" THEN "delete" ELSE "closeThread"
      /\ Callers = {o} /\ o # NoOne
  BY OneCaller DEF CloseThread, Goto
<1>2. CASE Thread!CloseStopped(o)
  <2>1. /\ accOwnerPc[o] = "lock" /\ accMutex = NoOne /\ ~accIsRun
        /\ accOwnerPc' = [accOwnerPc EXCEPT ![o] = "idle"]
        /\ accIsRun' = accIsRun /\ accMutex' = accMutex /\ accWorkerPc' = accWorkerPc
        /\ accSemWait' = accSemWait /\ accSemWakeup' = accSemWakeup
        /\ accAsleep' = accAsleep /\ accNotified' = accNotified /\ Thread!Blocked' = Thread!Blocked
    BY <1>2 DEF Thread!CloseStopped, Thread!semVars, Thread!Blocked
  <2>2. AccOwnerInv'
    BY <1>1, <2>1 DEF AccInv, AccOwnerInv, PlacesTypeOK
  <2>3. AccFlagInv'
    BY <2>1 DEF AccFlagInv
  <2>4. CurrentInv'
    BY <1>1, <2>1 DEF AccInv, CurrentInv, Live, InLoop
  <2>5. AccCloseTypes
    BY <2>1 DEF PlacesTypeOK, AccCloseTypes
  <2> QED BY <2>2, <2>3, <2>4, <2>5 DEF AccInv
<1>3. CASE Thread!CloseRunning(o)
  <2>1. /\ accOwnerPc[o] = "lock" /\ accMutex = NoOne /\ accIsRun' = FALSE /\ accMutex' = o
        /\ accOwnerPc' = [accOwnerPc EXCEPT ![o] = "flagged"] /\ accWorkerPc' = accWorkerPc
        /\ accSemWait' = accSemWait /\ accSemWakeup' = accSemWakeup
        /\ accAsleep' = accAsleep /\ accNotified' = accNotified /\ Thread!Blocked' = Thread!Blocked
    BY <1>3 DEF Thread!CloseRunning, Thread!semVars, Thread!Blocked
  <2>2. AccOwnerInv'
    BY <1>1, <2>1 DEF AccInv, AccOwnerInv, PlacesTypeOK
  <2>3. AccFlagInv'
    BY <2>1 DEF AccFlagInv
  <2>4. CurrentInv'
    BY <1>1, <2>1 DEF AccInv, CurrentInv, Live, InLoop
  <2>5. AccCloseTypes
    BY <2>1 DEF PlacesTypeOK, AccCloseTypes
  <2> QED BY <2>2, <2>3, <2>4, <2>5 DEF AccInv
<1>4. CASE Thread!CloseWait(o)
  <2>1. /\ accOwnerPc[o] = "flagged" /\ accIsRun' = accIsRun /\ accWorkerPc' = accWorkerPc
        /\ Thread!Wait(o)
    BY <1>4 DEF Thread!CloseWait
  <2>2. /\ accMutex = o /\ Thread!Blocked = {} /\ ~accIsRun
        /\ accSemWait >= 0 /\ accSemWakeup = 0
    <3>1. accMutex = o /\ o \notin Thread!Blocked
      BY <2>1 DEF AccInv, AccOwnerInv
    <3>2. Thread!Blocked = {}
      BY <3>1, AccTypes
    <3> QED BY <1>1, <3>1, <3>2 DEF AccInv, AccOwnerInv, AccFlagInv
  <2>3. CASE accSemWait > 0
    <3>1. /\ accSemWait' = accSemWait - 1 /\ accSemWakeup' = accSemWakeup
          /\ accAsleep' = accAsleep /\ accNotified' = accNotified
      BY <2>1, <2>2, <2>3 DEF Thread!Wait, PlacesTypeOK
    <3>2. Thread!Blocked' = {} /\ accAsleep = {}
      BY <2>2, <3>1 DEF Thread!Blocked
    <3>3. accOwnerPc' = [accOwnerPc EXCEPT ![o] = "idle"] /\ accMutex' = NoOne
      BY <1>4, <3>1, <3>2 DEF Thread!CloseWait, Thread!CloseReturns
    <3>4. AccOwnerInv'
      BY <1>1, <2>2, <2>3, <3>1, <3>2, <3>3 DEF AccOwnerInv, PlacesTypeOK
    <3>5. AccFlagInv'
      BY <2>1, <2>2, <3>3 DEF AccFlagInv
    <3>6. ~stale => \A a \in Accepters : ~InLoop(a)
      BY <2>3 DEF AccInv, CurrentInv, PlacesTypeOK
    <3>7. CurrentInv'
      BY <1>1, <2>1, <3>6 DEF AccInv, CurrentInv, Live, InLoop
    <3>8. AccCloseTypes
      BY <2>1, <3>1, <3>3 DEF PlacesTypeOK, AccCloseTypes
    <3> QED BY <3>4, <3>5, <3>7, <3>8 DEF AccInv
  <2>4. CASE accSemWait = 0
    <3>1. /\ accSemWait' = -1 /\ accSemWakeup' = accSemWakeup
          /\ accAsleep' = accAsleep \cup {o} /\ accNotified' = accNotified
      BY <2>1, <2>2, <2>4 DEF Thread!Wait, PlacesTypeOK
    <3>2. Thread!Blocked' = {o} /\ accNotified = {}
      BY <2>2, <3>1 DEF Thread!Blocked
    <3>3. accOwnerPc' = [accOwnerPc EXCEPT ![o] = "blocked"] /\ accMutex' = accMutex
      BY <1>4, <3>1 DEF Thread!CloseWait
    <3>4. AccOwnerInv'
      BY <1>1, <2>2, <3>1, <3>2, <3>3 DEF AccOwnerInv, PlacesTypeOK
    <3>5. AccFlagInv'
      BY <1>1, <2>1, <2>2, <3>3 DEF AccFlagInv
    <3>6. CurrentInv'
      BY <1>1, <2>1, <2>2, <3>1, <3>3 DEF AccInv, CurrentInv, Live, InLoop
    <3>7. AccCloseTypes
      BY <2>1, <3>1, <3>2, <3>3 DEF PlacesTypeOK, AccCloseTypes
    <3> QED BY <3>4, <3>5, <3>6, <3>7 DEF AccInv
  <2> QED BY <2>2, <2>3, <2>4 DEF PlacesTypeOK
<1>5. CASE Thread!CloseResume(o)
  <2>1. /\ accOwnerPc[o] = "blocked" /\ accIsRun' = accIsRun /\ accWorkerPc' = accWorkerPc
        /\ o \in accNotified /\ accSemWakeup > 0 /\ accSemWakeup' = accSemWakeup - 1
        /\ accNotified' = accNotified \ {o} /\ accSemWait' = accSemWait /\ accAsleep' = accAsleep
        /\ accOwnerPc' = [accOwnerPc EXCEPT ![o] = "idle"] /\ accMutex' = NoOne
    BY <1>5 DEF Thread!CloseResume, Thread!Resume, Thread!CloseReturns
  <2>2. /\ accMutex = o /\ Thread!Blocked # {} /\ ~accIsRun
        /\ accSemWait >= 0 /\ accSemWakeup = 1
    <3>1. accMutex = o /\ Thread!Blocked # {}
      BY <2>1 DEF AccInv, AccOwnerInv, Thread!Blocked
    <3>2. accSemWait >= -1 /\ accSemWakeup = (IF accSemWait < 0 THEN 0 ELSE 1)
      BY <3>1 DEF AccInv, AccOwnerInv
    <3>3. accSemWait >= 0 /\ accSemWakeup = 1
      BY <2>1, <3>2 DEF PlacesTypeOK
    <3> QED BY <1>1, <3>1, <3>3 DEF AccInv, AccFlagInv
  <2>3. Thread!Blocked' = {} /\ accAsleep' = {} /\ accNotified' = {}
    BY <1>1, <2>1 DEF PlacesTypeOK, Thread!Blocked
  <2>4. AccOwnerInv'
    BY <1>1, <2>1, <2>2, <2>3 DEF AccOwnerInv, PlacesTypeOK
  <2>5. AccFlagInv'
    BY <2>1, <2>2 DEF AccFlagInv
  <2>6. ~stale => \A a \in Accepters : ~InLoop(a)
    BY <2>2 DEF AccInv, CurrentInv
  <2>7. CurrentInv'
    BY <1>1, <2>1, <2>6 DEF AccInv, CurrentInv, Live, InLoop
  <2>8. AccCloseTypes
    BY <2>1, <2>2, <2>3 DEF PlacesTypeOK, AccCloseTypes
  <2> QED BY <2>4, <2>5, <2>7, <2>8 DEF AccInv
<1>6. CASE Thread!CloseDozes(o)
  <2>1. /\ accIsRun' = accIsRun /\ accMutex' = accMutex /\ accOwnerPc' = accOwnerPc
        /\ accWorkerPc' = accWorkerPc /\ accSemWait' = accSemWait /\ accSemWakeup' = accSemWakeup
        /\ \/ o \in accAsleep /\ accAsleep' = accAsleep \ {o} /\ accNotified' = accNotified \cup {o}
           \/ o \in accNotified /\ accNotified' = accNotified \ {o} /\ accAsleep' = accAsleep \cup {o}
    BY <1>6 DEF Thread!CloseDozes, Thread!SpuriousWakeup, Thread!SleepAgain
  <2>2. Thread!Blocked' = Thread!Blocked /\ o \in Thread!Blocked
    BY <2>1 DEF Thread!Blocked
  <2>3. accOwnerPc[o] = "blocked"
    BY <2>2 DEF AccInv, AccOwnerInv
  <2>4. AccOwnerInv'
    BY <1>1, <2>1, <2>2, <2>3 DEF AccInv, AccOwnerInv
  <2>5. AccFlagInv'
    BY <1>1, <2>1, <2>3 DEF AccInv, AccFlagInv, Away
  <2>6. CurrentInv'
    BY <1>1, <2>1 DEF AccInv, CurrentInv, Live, InLoop
  <2>7. AccCloseTypes
    BY <2>1 DEF PlacesTypeOK, AccCloseTypes
  <2> QED BY <2>4, <2>5, <2>6, <2>7 DEF AccInv
<1> QED BY <1>2, <1>3, <1>4, <1>5, <1>6 DEF CloseThread, Thread!CloseStep
-----------------------------------------------------------------------------
(* The thread of the server object: the steps of the accept threads.       *)

\* A step of an accept thread that has no loop to go back to.
LEMMA AccWorker ==
  ASSUME PlacesTypeOK, AccInv, NEW a \in Accepters, AcceptThread(a)
  PROVE  PlacesTypeOK' /\ AccInv'
<1>1. /\ serverPc' = serverPc /\ stale' = stale
      /\ waiting' = waiting /\ joined' = joined /\ cleared' = cleared
      /\ clientAccept' = clientAccept
      /\ Thread!WorkerNext(a)
  BY DEF AcceptThread, serverVars, lifeVars, clientVars
<1>2. \A o \in Callers : Callers = {o}
  BY OneCaller
<1>3. /\ accMutex' = accMutex /\ accOwnerPc' = accOwnerPc
      /\ accWorkerPc' = [accWorkerPc EXCEPT ![a] = accWorkerPc'[a]]
      /\ accWorkerPc'[a] \in WorkerPlaces
      /\ accWorkerPc[a] # "none"
      /\ accIsRun' = accIsRun \/ (accIsRun' = FALSE /\ accWorkerPc[a] \in {"exit", "clear"})
      /\ InLoop(a)' => InLoop(a)
  BY <1>1 DEF Thread!WorkerNext, Thread!OnWorkStep, Thread!OnCreate, Thread!OnRun, Thread!LeaveOnRun,
              Thread!CallExit, Thread!Exit, Thread!OnDestory, Thread!SignalEnd, Thread!ClearIsRun,
              Thread!WorkerAt, PlacesTypeOK, WorkerPlaces, InLoop
<1>4. \/ UNCHANGED accSemVars
      \/ Thread!Wakeup /\ accWorkerPc[a] = "wakeup"
  BY <1>1 DEF Thread!WorkerNext, Thread!OnWorkStep, Thread!OnCreate, Thread!OnRun, Thread!LeaveOnRun,
              Thread!CallExit, Thread!Exit, Thread!OnDestory, Thread!SignalEnd, Thread!ClearIsRun,
              Thread!WorkerAt, Thread!semVars, accSemVars
<1>5. /\ accSemWait' \in Int /\ accSemWakeup' \in Nat
      /\ accAsleep' \subseteq Callers /\ accNotified' \subseteq Callers
      /\ accAsleep' \cap accNotified' = {} /\ Thread!Blocked' = Thread!Blocked
      /\ Thread!Blocked = {} => accSemWait' >= 0 /\ accSemWakeup' = 0
      /\ Thread!Blocked # {} =>
           accSemWait' >= -1 /\ accSemWakeup' = (IF accSemWait' < 0 THEN 0 ELSE 1)
  <2>1. CASE UNCHANGED accSemVars
    BY <2>1 DEF accSemVars, PlacesTypeOK, AccInv, AccOwnerInv, Thread!Blocked
  <2>2. CASE Thread!Wakeup
    <3>1. /\ accAsleep' \subseteq Callers /\ accNotified' \subseteq Callers
          /\ accAsleep' \cap accNotified' = {} /\ Thread!Blocked' = Thread!Blocked
      BY <2>2 DEF Thread!Wakeup, Thread!NotifyOne, Thread!Blocked, PlacesTypeOK
    <3>2. /\ accSemWait' = accSemWait + 1
          /\ \/ accSemWait' <= 0 /\ accSemWakeup' = accSemWakeup + 1
             \/ accSemWait' > 0 /\ accSemWakeup' = accSemWakeup
      BY <2>2 DEF Thread!Wakeup
    <3>3. accSemWait \in Int /\ accSemWakeup \in Nat
      BY DEF PlacesTypeOK
    <3>4. CASE Thread!Blocked = {}
      <4>1. accSemWait >= 0 /\ accSemWakeup = 0
        BY <3>4 DEF AccInv, AccOwnerInv
      <4> QED BY <3>1, <3>2, <3>3, <3>4, <4>1
    <3>5. CASE Thread!Blocked # {}
      <4>1. accSemWait >= -1 /\ accSemWakeup = (IF accSemWait < 0 THEN 0 ELSE 1)
        BY <3>5 DEF AccInv, AccOwnerInv
      <4>2. /\ accSemWait' \in Int /\ accSemWait' >= -1
            /\ accSemWakeup' = (IF accSemWait' < 0 THEN 0 ELSE 1)
        BY <3>2, <3>3, <4>1
      <4> QED BY <3>1, <3>2, <3>3, <3>5, <4>2
    <3> QED BY <3>4, <3>5
  <2> QED BY <1>4, <2>1, <2>2
<1>6. PlacesTypeOK'
  <2>1. accIsRun' \in BOOLEAN /\ accWorkerPc' \in [Accepters -> WorkerPlaces]
    BY <1>3 DEF PlacesTypeOK
  <2> QED BY <1>1, <1>3, <1>5, <2>1 DEF PlacesTypeOK
<1>7. AccOwnerInv'
  BY <1>1, <1>3, <1>5 DEF AccInv, AccOwnerInv
<1>8. AccFlagInv'
  BY <1>1, <1>3 DEF AccInv, AccFlagInv
<1>9. CurrentInv'
  <2> SUFFICES ASSUME ~stale
               PROVE  /\ \A b, c \in Accepters : Live(b)' /\ Live(c)' => b = c
                      /\ \A b \in Accepters : InLoop(b)' =>
                           /\ accIsRun' \/ accMutex' # NoOne
                           /\ accSemWait' <= 0 /\ accSemWakeup' = 0
    BY <1>1 DEF CurrentInv
  <2>1. \A b \in Accepters : /\ Live(b)' => Live(b)
                             /\ InLoop(b)' => InLoop(b)
    <3>1. \A b \in Accepters \ {a} : accWorkerPc'[b] = accWorkerPc[b]
      BY <1>3 DEF PlacesTypeOK
    <3>2. Live(a)' => Live(a)
      BY <1>1 DEF Thread!WorkerNext, Thread!OnWorkStep, Thread!OnCreate, Thread!OnRun,
                  Thread!LeaveOnRun, Thread!CallExit, Thread!Exit, Thread!OnDestory,
                  Thread!SignalEnd, Thread!ClearIsRun, Thread!WorkerAt, PlacesTypeOK, Live
    <3> QED BY <1>3, <3>1, <3>2 DEF Live, InLoop
  <2>2. ASSUME NEW b \in Accepters, InLoop(b)' PROVE /\ accIsRun' \/ accMutex' # NoOne
                                                     /\ accSemWait' <= 0 /\ accSemWakeup' = 0
    <3>1. InLoop(b)
      BY <2>1, <2>2
    <3>2. accWorkerPc[a] \notin {"exit", "clear", "wakeup"}
      <4>1. Live(b) /\ (Live(a) => a = b)
        BY <3>1 DEF AccInv, CurrentInv, Live, InLoop
      <4> QED BY <3>1, <4>1 DEF Live, InLoop
    <3> QED BY <1>3, <1>4, <3>1, <3>2 DEF AccInv, CurrentInv, accSemVars
  <2> QED BY <2>1, <2>2 DEF AccInv, CurrentInv
<1> QED BY <1>6, <1>7, <1>8, <1>9 DEF AccInv
-----------------------------------------------------------------------------
(* The cell server: its thread.                                            *)

LEMMA OneWorker ==
  /\ Workers # {} /\ \A v, w \in Workers : v = w
  /\ StartedOnce
BY OneOwner DEF StartedOnce

LEMMA ThreadKept ==
  ASSUME IInv, JoinInv, [ThreadNext]_threadVars
  PROVE  IInv' /\ JoinInv'
BY IInvPreserved, JoinInvPreserved

LEMMA DeleteIsThread ==
  ASSUME NEW o \in Callers, DeleteStep(o)
  PROVE  [ThreadNext]_threadVars
<1>1. CASE Delete(o)
  BY <1>1 DEF Delete, ThreadNext, OwnerNext
<1>2. CASE CloseServer(o)
  BY <1>2 DEF CloseServer, ThreadNext, OwnerNext
<1>3. CASE DeleteBase(o)
  BY <1>3 DEF DeleteBase, ThreadNext, OwnerNext
<1>4. CASE Free
  BY <1>4 DEF Free
<1> QED BY <1>1, <1>2, <1>3, <1>4 DEF DeleteStep

LEMMA WorkIsThread ==
  ASSUME NEW w \in Workers, WorkerStep(w)
  PROVE  [ThreadNext]_threadVars
<1>1. CASE LeaveLoop(w) \/ ExitLoop(w) \/ EndOfWork(w)
  BY <1>1 DEF LeaveLoop, ExitLoop, EndOfWork, ThreadNext, WorkerNext
<1>2. CASE ~(LeaveLoop(w) \/ ExitLoop(w) \/ EndOfWork(w))
  BY <1>2 DEF WorkerStep, TestIsRun, Merge, CheckTime, CallDoNetEvent, WaitReturns, WaitFails
<1> QED BY <1>1, <1>2

\* A new object has a new CellThread, started.
LEMMA StartedThread ==
  ASSUME StartServer
  PROVE  IInv' /\ JoinInv'
<1>1. /\ workerPc' = [w \in Workers |-> "create"]
      /\ isRun' = TRUE /\ mutex' = NoOne /\ ownerPc' = [o \in Callers |-> "idle"]
      /\ semWait' = 0 /\ semWakeup' = 0 /\ asleep' = {} /\ notified' = {}
      /\ joins' = 0 /\ exited' = FALSE
  BY DEF StartServer
<1>2. /\ Blocked' = {} /\ Cardinality(Blocked') = 0 /\ Cardinality(notified') = 0
      /\ Signalled' = {} /\ Cardinality(Signalled') = 0
  BY <1>1, FS_EmptySet DEF Blocked, Signalled
<1>3. SemInv'
  BY <1>1, <1>2 DEF SemInv, SemTypeOK, CountersAgree, NoLostWakeup
<1>4. ThreadTypeOK'
  BY <1>1, <1>3 DEF ThreadTypeOK, SemInv
<1>5. ThreadInv'
  <2>1. RunningHasWorker'
    BY <1>1, OneWorker DEF RunningHasWorker, InOnRun
  <2>2. MutexHeld' /\ SemHeld' /\ JoinsCounted'
    BY <1>1, <1>2, NoOneIsNoCaller DEF MutexHeld, SemHeld, JoinsCounted
  <2> QED BY <2>1, <2>2 DEF ThreadInv
<1>6. CloseHasAnswer'
  BY <1>1 DEF CloseHasAnswer
<1>7. JoinInv'
  BY <1>1 DEF JoinInv, Ended
<1> QED BY <1>3, <1>4, <1>5, <1>6, <1>7 DEF IInv

\* The owner and the worker of the cell server are left alone.
LEMMA CellKept ==
  ASSUME CellInv, UNCHANGED <<threadVars, lifeVars>>, stale => stale',
         serverPc \in {"init", "bind", "start"} => serverPc' \in {"init", "bind", "start"},
         serverPc' \in {"startThread", "serve", "closeThread"} =>
           serverPc \in {"startThread", "serve", "closeThread"},
         serverPc' \in {"init", "closed", "ended"} => ~sock', listening' => sock'
  PROVE  CellInv'
<1>1. IInv' /\ JoinInv'
  BY ThreadKept DEF CellInv
<1>2. /\ isRun' = isRun /\ ownerPc' = ownerPc /\ workerPc' = workerPc /\ exited' = exited
      /\ poller' = poller /\ deletePc' = deletePc /\ pollerOpen' = pollerOpen /\ class' = class
      /\ loopPc' = loopPc /\ waiting' = waiting /\ joined' = joined
  BY DEF threadVars, lifeVars, objectVars, clientVars
<1>3. CellPlaceInv'
  BY <1>2 DEF CellInv, CellPlaceInv
<1>4. FreeInv'
  BY <1>2 DEF CellInv, FreeInv, ThreadClosed, Ended
<1>5. ClearedInv'
  BY <1>2 DEF CellInv, ClearedInv
<1> QED BY <1>1, <1>3, <1>4, <1>5 DEF CellInv

LEMMA StartCellInv ==
  ASSUME ServerInv, StartCellServers
  PROVE  CellInv'
<1>1. /\ serverPc = "start" /\ serverPc' = "startThread"
      /\ deletePc' = "none" /\ pollerOpen' = TRUE /\ class' = "derived" /\ loopPc' = "test"
      /\ workerPc' = [w \in Workers |-> "create"] /\ isRun' = TRUE /\ exited' = FALSE
      /\ ownerPc' = [o \in Callers |-> "idle"]
      /\ sock' = sock /\ listening' = listening /\ poller' = poller
  BY DEF StartCellServers, StartServer, Goto
<1>2. IInv' /\ JoinInv'
  BY StartedThread DEF StartCellServers
<1>3. CellPlaceInv'
  BY <1>1 DEF ServerInv, CellInv, CellPlaceInv
<1>4. FreeInv'
  BY <1>1 DEF FreeInv, ThreadClosed
<1>5. ClearedInv'
  BY <1>1 DEF ClearedInv
<1> QED BY <1>2, <1>3, <1>4, <1>5 DEF CellInv

\* The accept thread that adds a client runs while the server accepts.
LEMMA AddInv ==
  ASSUME ServerInv, NEW a \in Accepters, Accpet(a)
  PROVE  CellInv'
<1>1. /\ accWorkerPc[a] = "run" /\ listening /\ UNCHANGED <<threadVars, objectVars, loopPc>>
      /\ serverPc' = serverPc /\ stale' = stale /\ sock' = sock /\ listening' = listening
  BY DEF Accpet, AddClient, serverVars
<1>2. IInv' /\ JoinInv'
  BY <1>1, ThreadKept DEF ServerInv, CellInv
<1>3. /\ isRun' = isRun /\ ownerPc' = ownerPc /\ workerPc' = workerPc /\ exited' = exited
      /\ poller' = poller /\ deletePc' = deletePc /\ pollerOpen' = pollerOpen /\ class' = class
      /\ loopPc' = loopPc
  BY <1>1 DEF threadVars, objectVars
<1>4. CellPlaceInv'
  BY <1>1, <1>3 DEF ServerInv, CellInv, CellPlaceInv
<1>5. FreeInv'
  BY <1>3 DEF ServerInv, CellInv, FreeInv, ThreadClosed, Ended
<1>6. ClearedInv'
  <2> SUFFICES ASSUME ~stale, ~exited, NEW w \in Workers, workerPc[w] \in {"wakeup", "clear", "gone"}
               PROVE  FALSE
    BY <1>1, <1>3 DEF ClearedInv
  <2>1. accIsRun \/ accMutex # NoOne
    BY <1>1 DEF ServerInv, AccInv, CurrentInv, InLoop
  <2>2. accMutex # NoOne => serverPc = "closeThread"
    BY DEF ServerInv, PlacesTypeOK, AccInv, AccOwnerInv
  <2>3. serverPc # "ended"
    BY <1>1 DEF ServerInv, CellInv, CellPlaceInv
  <2>4. serverPc \in {"serve", "closeThread"}
    BY <2>1, <2>2, <2>3 DEF ServerInv, PlacesTypeOK, ServerPlaces, Away, AccInv, AccFlagInv
  <2> QED BY <2>4 DEF ServerInv, CellInv, CellPlaceInv
<1> QED BY <1>2, <1>4, <1>5, <1>6 DEF CellInv
-----------------------------------------------------------------------------
(* The cell server is deleted.                                             *)

LEMMA DeleteInv ==
  ASSUME ServerInv, NEW o \in Callers, DeleteServers(o)
  PROVE  CellInv'
<1>1. /\ serverPc = "delete" /\ serverPc' = serverPc /\ stale' = stale
      /\ sock' = sock /\ listening' = listening /\ DeleteStep(o)
  BY DEF DeleteServers, serverVars
<1>2. IInv' /\ JoinInv' /\ IInv /\ JoinInv /\ [ThreadNext]_threadVars
  BY <1>1, DeleteIsThread, ThreadKept DEF ServerInv, CellInv
<1>3. /\ workerPc' = workerPc /\ exited' = exited /\ loopPc' = loopPc /\ poller' = poller
      /\ \/ waiting' = waiting /\ joined' = joined
         \/ waiting' = 0 /\ joined' = 0
  BY <1>1 DEF DeleteStep, Delete, CloseServer, DeleteBase, Free, CallClose, CloseStep, CloseStopped,
              CloseRunning, CloseWait, CloseResume, CloseDozes, threadVars, clientVars
<1>4. \A p \in Callers : p = o
  BY OneCaller
<1>5. /\ \A w \in Workers : workerPc[w] # "none"
      /\ CellPlaceInv /\ FreeInv /\ ClearedInv /\ ownerPc \in [Callers -> {"idle", "lock", "flagged", "blocked"}]
  BY <1>1, <1>2 DEF ServerInv, CellInv, CellPlaceInv, IInv, ThreadTypeOK
<1>6. (\A p \in Callers : ownerPc'[p] # "idle" => deletePc' \in {"close", "baseClose"}) /\ FreeInv'
  <2>1. CASE Delete(o)
    <3>1. /\ deletePc = "none" /\ class' = class
          /\ \/ poller = "epoll" /\ deletePc' = "derived" /\ ownerPc' = ownerPc
             \/ deletePc' = "close" /\ pollerOpen' = pollerOpen
      BY <2>1 DEF Delete, threadVars
    <3>2. \A p \in Callers : ownerPc[p] = "idle"
      BY <1>5, <3>1 DEF CellPlaceInv
    <3> QED BY <1>3, <1>5, <3>1, <3>2 DEF FreeInv, ThreadClosed, Ended
  <2>2. CASE CloseServer(o)
    <3>1. /\ deletePc \in {"close", "baseClose"} /\ pollerOpen' = pollerOpen /\ class' = class
          /\ CloseStep(o) \/ CloseDozes(o)
          /\ deletePc' = IF ownerPc'[o] # "idle" THEN deletePc
                         ELSE IF deletePc = "close" THEN "derived" ELSE "members"
      BY <2>2 DEF CloseServer
    <3>2. ownerPc[o] # "idle"
      <4>1. CASE CloseStep(o)
        BY <4>1 DEF CloseStep, CloseStopped, CloseRunning, CloseWait, CloseResume
      <4>2. CASE CloseDozes(o)
        BY <1>2, <4>2 DEF CloseDozes, SpuriousWakeup, SleepAgain, Blocked, IInv, ThreadInv, SemHeld
      <4> QED BY <3>1, <4>1, <4>2
    <3>3. ownerPc'[o] = "idle" => exited \/ \A w \in Workers : Ended(w)
      BY <1>2, <3>2, OneWorker, CloseJoinsStep
    <3> QED BY <1>3, <1>4, <1>5, <3>1, <3>3 DEF FreeInv, ThreadClosed, Ended
  <2>3. CASE DeleteBase(o)
    <3>1. deletePc = "derived" /\ deletePc' = "baseClose" /\ class' = "base"
      BY <2>3 DEF DeleteBase
    <3> QED BY <1>3, <1>5, <3>1 DEF FreeInv, ThreadClosed, Ended
  <2>4. CASE Free
    <3>1. deletePc = "members" /\ deletePc' = "done" /\ ownerPc' = ownerPc
      BY <2>4 DEF Free, threadVars
    <3> QED BY <1>3, <1>5, <3>1 DEF CellPlaceInv, FreeInv, ThreadClosed, Ended
  <2> QED BY <1>1, <2>1, <2>2, <2>3, <2>4 DEF DeleteStep
<1>7. CellPlaceInv'
  BY <1>1, <1>3, <1>5, <1>6 DEF CellPlaceInv
<1>8. ClearedInv'
  BY <1>1, <1>3, <1>5 DEF ClearedInv
<1> QED BY <1>2, <1>6, <1>7, <1>8 DEF CellInv
-----------------------------------------------------------------------------
(* The thread of the cell server.                                          *)

LEMMA WorkInv ==
  ASSUME ServerInv, NEW w \in Workers, CellServerThread(w)
  PROVE  CellInv'
<1>1. /\ serverPc' = serverPc /\ stale' = stale
      /\ sock' = sock /\ listening' = listening /\ WorkerStep(w)
  BY DEF CellServerThread, serverVars
<1>2. /\ IInv' /\ JoinInv' /\ JoinInv /\ CellPlaceInv /\ FreeInv /\ ClearedInv
      /\ workerPc \in [Workers -> WorkerPlaces]
  BY <1>1, WorkIsThread, ThreadKept DEF ServerInv, CellInv, IInv, ThreadTypeOK, WorkerPlaces
<1>3. /\ deletePc' = deletePc /\ poller' = poller /\ pollerOpen' = pollerOpen /\ class' = class
      /\ ownerPc' = ownerPc
  BY <1>1 DEF WorkerStep, TestIsRun, LeaveLoop, Merge, CheckTime, CallDoNetEvent, WaitReturns,
              WaitFails, ExitLoop, EndOfWork, OnRun, LeaveOnRun, CallExit, Exit, OnWorkStep, OnCreate,
              OnDestory, SignalEnd, ClearIsRun, objectVars, threadVars
<1>4. \A v \in Workers : v = w
  BY OneWorker
<1>5. CASE TestIsRun(w) \/ Merge(w) \/ CheckTime(w) \/ CallDoNetEvent(w) \/ WaitReturns(w) \/ WaitFails(w)
  <2>1. /\ workerPc[w] = "run" /\ loopPc # "exited" /\ loopPc' # "exited"
        /\ workerPc' = workerPc /\ exited' = exited /\ isRun' = isRun
    BY <1>5 DEF TestIsRun, Merge, CheckTime, CallDoNetEvent, WaitReturns, WaitFails, Loop, threadVars
  <2>2. CellPlaceInv'
    BY <1>1, <1>2, <1>3, <1>4, <2>1 DEF CellPlaceInv
  <2>3. FreeInv'
    BY <1>2, <1>3, <2>1 DEF FreeInv, ThreadClosed, Ended
  <2>4. ClearedInv'
    BY <1>4, <2>1 DEF ClearedInv
  <2> QED BY <1>2, <2>2, <2>3, <2>4 DEF CellInv
<1>6. CASE LeaveLoop(w)
  <2>1. /\ ~isRun /\ workerPc[w] = "run" /\ loopPc = "test" /\ loopPc' = "left"
        /\ workerPc'[w] = "destory" /\ exited' = exited
    BY <1>2, <1>6 DEF LeaveLoop, Loop, OnRun, LeaveOnRun, WorkerAt
  <2>2. CellPlaceInv'
    BY <1>1, <1>2, <1>3, <1>4, <2>1 DEF CellPlaceInv
  <2>3. FreeInv'
    <3>1. ~ThreadClosed
      BY <1>2, <2>1 DEF FreeInv, CellPlaceInv, Ended
    <3> QED BY <1>2, <1>3, <3>1 DEF FreeInv, ThreadClosed
  <2>4. ClearedInv'
    BY <1>4, <2>1 DEF ClearedInv
  <2> QED BY <1>2, <2>2, <2>3, <2>4 DEF CellInv
<1>7. CASE ExitLoop(w)
  <2>1. workerPc'[w] = "exit" /\ loopPc' = "exited" /\ exited' = TRUE
    BY <1>2, <1>7 DEF ExitLoop, Loop, CallExit, WorkerAt
  <2>2. CellPlaceInv'
    BY <1>1, <1>2, <1>3, <1>4, <2>1 DEF CellPlaceInv
  <2>3. FreeInv'
    BY <1>2, <1>3, <2>1 DEF FreeInv, ThreadClosed
  <2>4. ClearedInv'
    BY <2>1 DEF ClearedInv
  <2> QED BY <1>2, <2>2, <2>3, <2>4 DEF CellInv
<1>8. CASE EndOfWork(w)
  <2>1. /\ exited' = exited /\ loopPc' = loopPc
        /\ \/ workerPc[w] = "create" /\ workerPc'[w] = "run" /\ isRun' = isRun
           \/ workerPc[w] = "exit" /\ workerPc'[w] = "destory"
           \/ workerPc[w] = "destory" /\ workerPc'[w] = "wakeup" /\ waiting' = 0 /\ joined' = 0
           \/ /\ workerPc[w] = "wakeup" /\ workerPc'[w] = "clear"
              /\ waiting' = waiting /\ joined' = joined
           \/ /\ workerPc[w] = "clear" /\ workerPc'[w] = "gone"
              /\ waiting' = waiting /\ joined' = joined
    BY <1>2, <1>8 DEF EndOfWork, Exit, OnWorkStep, OnCreate, OnDestory, SignalEnd, ClearIsRun, WorkerAt,
                      Clearclients, clientVars
  <2>2. CellPlaceInv'
    <3>1. workerPc[w] = "exit" => exited
      BY <1>2 DEF JoinInv
    <3> QED BY <1>1, <1>2, <1>3, <1>4, <2>1, <3>1 DEF CellPlaceInv
  <2>3. FreeInv'
    BY <1>2, <1>3, <1>4, <2>1 DEF FreeInv, ThreadClosed, Ended
  <2>4. ClearedInv'
    BY <1>1, <1>2, <1>4, <2>1 DEF ClearedInv
  <2> QED BY <1>2, <2>2, <2>3, <2>4 DEF CellInv
<1> QED BY <1>1, <1>5, <1>6, <1>7, <1>8 DEF WorkerStep
-----------------------------------------------------------------------------
(* The places under the limit.                                             *)

CountsOK ==
  /\ waiting \in Nat /\ joined \in Nat /\ cleared \in Nat /\ clientAccept \in Int
  /\ PlacesKept

LEMMA LeaveCounts == ASSUME CountsOK, SomeLeave PROVE CountsOK'
<1>1. PICK n \in 0..joined : joined' = joined - n /\ clientAccept' = clientAccept - n
  BY DEF SomeLeave
<1>2. waiting' = waiting /\ cleared' = cleared
  BY DEF SomeLeave
<1> QED BY <1>1, <1>2 DEF CountsOK, PlacesKept

LEMMA ClearCounts ==
  ASSUME CountsOK, waiting' = 0, joined' = 0, cleared' = cleared + waiting + joined,
         clientAccept' = clientAccept
  PROVE  CountsOK'
BY DEF CountsOK, PlacesKept

LEMMA KeptCounts == ASSUME CountsOK, UNCHANGED clientVars PROVE CountsOK'
BY DEF CountsOK, PlacesKept, clientVars

LEMMA AddCounts == ASSUME CountsOK, AddClient PROVE CountsOK'
<1>1. /\ clientAccept' = clientAccept + 1 /\ waiting' = waiting + 1
      /\ joined' = joined /\ cleared' = cleared
  BY DEF AddClient
<1> QED BY <1>1 DEF CountsOK, PlacesKept

LEMMA DeleteCounts == ASSUME CountsOK, NEW o \in Callers, DeleteStep(o) PROVE CountsOK'
<1>1. CASE Delete(o) \/ CloseServer(o) \/ DeleteBase(o)
  BY <1>1, KeptCounts DEF Delete, CloseServer, DeleteBase
<1>2. CASE Free
  BY <1>2, ClearCounts DEF Free
<1> QED BY <1>1, <1>2 DEF DeleteStep

LEMMA WorkCounts == ASSUME CountsOK, NEW w \in Workers, WorkerStep(w) PROVE CountsOK'
<1>1. CASE TestIsRun(w) \/ LeaveLoop(w) \/ CallDoNetEvent(w) \/ WaitFails(w) \/ ExitLoop(w)
  BY <1>1, KeptCounts DEF TestIsRun, LeaveLoop, CallDoNetEvent, WaitFails, ExitLoop
<1>2. CASE Merge(w)
  <2>1. /\ joined' = joined + waiting /\ waiting' = 0
        /\ clientAccept' = clientAccept /\ cleared' = cleared
    BY <1>2 DEF Merge
  <2> QED BY <2>1 DEF CountsOK, PlacesKept
<1>3. CASE CheckTime(w) \/ WaitReturns(w)
  BY <1>3, LeaveCounts DEF CheckTime, WaitReturns
<1>4. CASE EndOfWork(w)
  BY <1>4, KeptCounts, ClearCounts DEF EndOfWork, Clearclients
<1> QED BY <1>1, <1>2, <1>3, <1>4 DEF WorkerStep

\* The types, in steps that leave the accept thread alone.
LEMMA TypesKept ==
  ASSUME PlacesTypeOK, CountsOK', UNCHANGED accVars, stale' = stale, serverPc' \in ServerPlaces
  PROVE  PlacesTypeOK'
BY DEF PlacesTypeOK, CountsOK, accVars, accSemVars
-----------------------------------------------------------------------------
Inv == ServerInv /\ PlacesKept

LEMMA InvInit == Init => Inv
<1> SUFFICES ASSUME Init PROVE Inv
  OBVIOUS
<1>1. /\ serverPc = "init" /\ stale = FALSE /\ sock = FALSE /\ listening = FALSE
      /\ waiting = 0 /\ joined = 0 /\ cleared = 0 /\ clientAccept = 0
      /\ deletePc = "none" /\ pollerOpen = TRUE /\ class = "derived" /\ loopPc = "test"
      /\ ThreadInit
  BY DEF Init, LifeInit
<1>2. /\ accIsRun = FALSE /\ accMutex = NoOne
      /\ accOwnerPc = [o \in Callers |-> "idle"] /\ accWorkerPc = [a \in Accepters |-> "none"]
      /\ accSemWait = 0 /\ accSemWakeup = 0 /\ accAsleep = {} /\ accNotified = {}
  BY DEF Init, Thread!ThreadInit, Thread!SemInit
<1>3. PlacesTypeOK /\ PlacesKept
  <2>1. accOwnerPc \in [Callers -> {"idle", "lock", "flagged", "blocked"}]
    BY <1>2
  <2>2. accWorkerPc \in [Accepters -> WorkerPlaces]
    BY <1>2 DEF WorkerPlaces
  <2>3. PlacesKept
    BY <1>1 DEF PlacesKept
  <2>4. accIsRun \in BOOLEAN /\ stale \in BOOLEAN /\ serverPc \in ServerPlaces
    BY <1>1, <1>2 DEF ServerPlaces
  <2>5. accMutex \in Callers \cup {NoOne}
    BY <1>2
  <2>6. /\ accSemWait \in Int /\ accSemWakeup \in Nat
        /\ waiting \in Nat /\ joined \in Nat /\ cleared \in Nat /\ clientAccept \in Int
    BY <1>1, <1>2
  <2>7. accAsleep \subseteq Callers /\ accNotified \subseteq Callers /\ accAsleep \cap accNotified = {}
    BY <1>2
  <2> QED BY <2>1, <2>2, <2>3, <2>4, <2>5, <2>6, <2>7 DEF PlacesTypeOK
<1>4. AccInv
  <2>1. AccOwnerInv
    BY <1>2, NoOneIsNoCaller DEF AccOwnerInv, Thread!Blocked
  <2>2. AccFlagInv /\ CurrentInv
    BY <1>2 DEF AccFlagInv, CurrentInv, Live, InLoop
  <2> QED BY <2>1, <2>2 DEF AccInv
<1>5. CellInv
  <2>1. /\ workerPc = [w \in Workers |-> "none"] /\ ownerPc = [o \in Callers |-> "idle"]
        /\ exited = FALSE
    BY <1>1 DEF ThreadInit
  <2>2. IInv
    BY <1>1, IInvInit
  <2>3. JoinInv
    BY <2>1 DEF JoinInv, Ended
  <2>4. CellPlaceInv /\ FreeInv /\ ClearedInv
    BY <1>1, <2>1 DEF CellPlaceInv, FreeInv, ThreadClosed, ClearedInv
  <2> QED BY <2>2, <2>3, <2>4 DEF CellInv
<1> QED BY <1>3, <1>4, <1>5 DEF Inv, ServerInv

\* The owner moves on, and neither a thread nor a cell server changes.
LEMMA OwnerMoves ==
  ASSUME Inv, InitSocket \/ BindListen \/ CloseSocket \/ Reopen \/ End
  PROVE  Inv'
<1>1. /\ UNCHANGED <<threadVars, lifeVars>> /\ UNCHANGED accVars /\ stale' = stale
      /\ \/ serverPc = "init" /\ serverPc' = "bind" /\ listening' = listening
         \/ serverPc = "bind" /\ serverPc' = "start" /\ (listening' => sock')
         \/ serverPc = "delete" /\ serverPc' = "closed" /\ ~sock' /\ ~listening'
         \/ /\ serverPc = "closed" /\ serverPc' \in {"init", "ended"}
            /\ sock' = sock /\ listening' = listening
  BY DEF InitSocket, BindListen, CloseSocket, Reopen, End, Goto
<1>2. serverPc \in {"init", "closed"} => ~sock /\ ~listening
  BY DEF Inv, ServerInv, CellInv, CellPlaceInv
<1>3. AccInv'
  BY <1>1, AccKept DEF Inv, ServerInv, Away
<1>4. CellInv'
  BY <1>1, <1>2, CellKept DEF Inv, ServerInv
<1>5. CountsOK'
  BY <1>1, KeptCounts DEF Inv, ServerInv, PlacesTypeOK, CountsOK, lifeVars
<1>6. PlacesTypeOK'
  BY <1>1, <1>5, TypesKept DEF Inv, ServerInv, ServerPlaces
<1> QED BY <1>3, <1>4, <1>5, <1>6 DEF Inv, ServerInv, CountsOK

\* Start makes the cell server and the accept thread.
LEMMA OwnerStarts ==
  ASSUME Inv, StartCellServers \/ \E o \in Callers : StartThread(o)
  PROVE  Inv'
<1>1. CASE StartCellServers
  <2>1. /\ serverPc = "start" /\ serverPc' = "startThread" /\ stale' = stale
        /\ UNCHANGED accVars /\ UNCHANGED clientVars
    BY <1>1 DEF StartCellServers, StartServer, Goto
  <2>2. CountsOK'
    BY <2>1, KeptCounts DEF Inv, ServerInv, PlacesTypeOK, CountsOK
  <2>3. PlacesTypeOK'
    BY <2>1, <2>2, TypesKept DEF Inv, ServerInv, ServerPlaces
  <2>4. AccInv'
    BY <2>1, AccKept DEF Inv, ServerInv, Away
  <2>5. CellInv'
    BY <1>1, StartCellInv DEF Inv
  <2> QED BY <2>2, <2>3, <2>4, <2>5 DEF Inv, ServerInv, CountsOK
<1>2. ASSUME NEW o \in Callers, StartThread(o)
      PROVE  Inv'
  <2>1. /\ serverPc = "startThread" /\ serverPc' = "serve" /\ (stale => stale')
        /\ UNCHANGED <<threadVars, lifeVars>> /\ sock' = sock /\ listening' = listening
    BY <1>2 DEF StartThread, Goto
  <2>2. PlacesTypeOK' /\ AccInv'
    BY <1>2, AccStart DEF Inv, ServerInv
  <2>3. listening => sock
    BY DEF Inv, ServerInv, CellInv, CellPlaceInv
  <2>4. CellInv'
    BY <2>1, <2>3, CellKept DEF Inv, ServerInv
  <2>5. CountsOK'
    BY <2>1, KeptCounts DEF Inv, ServerInv, PlacesTypeOK, CountsOK, lifeVars
  <2> QED BY <2>2, <2>4, <2>5 DEF Inv, ServerInv, CountsOK
<1> QED BY <1>1, <1>2

\* Close of the server, up to the end of its accept thread.
LEMMA OwnerCloses ==
  ASSUME Inv, NEW o \in Callers, Close(o) \/ CloseThread(o)
  PROVE  Inv'
<1>1. /\ UNCHANGED <<threadVars, lifeVars>> /\ stale' = stale /\ sock' = sock /\ listening' = listening
      /\ \/ serverPc = "serve" /\ serverPc' \in {"closeThread", "ended"} /\ (serverPc' = "ended" => ~sock)
         \/ serverPc = "closeThread" /\ serverPc' \in {"closeThread", "delete"}
  BY DEF Close, CloseThread, Goto
<1>2. listening => sock
  BY DEF Inv, ServerInv, CellInv, CellPlaceInv
<1>3. CellInv'
  BY <1>1, <1>2, CellKept DEF Inv, ServerInv
<1>4. CountsOK'
  BY <1>1, KeptCounts DEF Inv, ServerInv, PlacesTypeOK, CountsOK, lifeVars
<1>5. PlacesTypeOK' /\ AccInv'
  <2>1. CASE ~sock /\ serverPc = "serve" /\ serverPc' = "ended" /\ UNCHANGED accVars
    BY <1>1, <1>4, <2>1, AccKept, TypesKept DEF Inv, ServerInv, ServerPlaces, Away
  <2>2. CASE serverPc = "serve" /\ serverPc' = "closeThread" /\ Thread!CallClose(o)
    <3>1. AccInv' /\ accOwnerPc' \in [Callers -> {"idle", "lock", "flagged", "blocked"}]
      BY <1>1, <2>2, AccCall DEF Inv, ServerInv
    <3>2. /\ accIsRun' = accIsRun /\ accMutex' = accMutex /\ accWorkerPc' = accWorkerPc
          /\ accSemWait' = accSemWait /\ accSemWakeup' = accSemWakeup
          /\ accAsleep' = accAsleep /\ accNotified' = accNotified
      BY <2>2 DEF Thread!CallClose, Thread!semVars
    <3> QED BY <1>1, <1>4, <2>2, <3>1, <3>2 DEF Inv, ServerInv, PlacesTypeOK, ServerPlaces, CountsOK
  <2>3. CASE CloseThread(o)
    <3>1. AccInv' /\ AccCloseTypes
      BY <2>3, AccClose DEF Inv, ServerInv
    <3>2. accWorkerPc' = accWorkerPc
      BY <2>3 DEF CloseThread, Thread!CloseStep, Thread!CloseStopped, Thread!CloseRunning,
                  Thread!CloseWait, Thread!CloseResume, Thread!CloseDozes
    <3> QED BY <1>1, <1>4, <3>1, <3>2
            DEF Inv, ServerInv, PlacesTypeOK, AccCloseTypes, ServerPlaces, CountsOK
  <2> QED BY <2>1, <2>2, <2>3 DEF Close, Goto
<1> QED BY <1>3, <1>4, <1>5 DEF Inv, ServerInv, CountsOK

\* Steps that leave the thread of the server object alone.
LEMMA CellSteps ==
  ASSUME Inv, UNCHANGED accVars, UNCHANGED serverVars, CountsOK', CellInv'
  PROVE  Inv'
<1>1. serverPc' = serverPc /\ stale' = stale /\ serverPc \in ServerPlaces
  BY DEF serverVars, Inv, ServerInv, PlacesTypeOK
<1>2. PlacesTypeOK' /\ AccInv'
  BY <1>1, TypesKept, AccKept DEF Inv, ServerInv
<1> QED BY <1>2 DEF Inv, ServerInv, CountsOK

\* An accept thread ends, or starts to run.
LEMMA AcceptSteps ==
  ASSUME Inv, NEW a \in Accepters, AcceptThread(a)
  PROVE  Inv'
<1>1. /\ UNCHANGED <<threadVars, lifeVars>> /\ serverPc' = serverPc /\ stale' = stale
      /\ sock' = sock /\ listening' = listening
  BY DEF AcceptThread, serverVars
<1>2. PlacesTypeOK' /\ AccInv'
  BY AccWorker DEF Inv, ServerInv
<1>3. /\ serverPc \in {"init", "closed", "ended"} => ~sock
      /\ listening => sock
  BY DEF Inv, ServerInv, CellInv, CellPlaceInv
<1>4. CellInv'
  BY <1>1, <1>3, CellKept DEF Inv, ServerInv
<1>5. CountsOK'
  BY <1>1, KeptCounts DEF Inv, ServerInv, PlacesTypeOK, CountsOK, lifeVars
<1> QED BY <1>2, <1>4, <1>5 DEF Inv, ServerInv, CountsOK

LEMMA InvNext == Inv /\ [Next]_vars => Inv'
<1> SUFFICES ASSUME Inv, [Next]_vars PROVE Inv'
  OBVIOUS
<1> USE DEF Inv
<1>1. CountsOK
  BY DEF ServerInv, PlacesTypeOK, CountsOK
<1>2. CASE InitSocket \/ BindListen \/ CloseSocket \/ Reopen \/ End
  BY <1>2, OwnerMoves
<1>3. CASE StartCellServers \/ \E o \in Callers : StartThread(o)
  BY <1>3, OwnerStarts
<1>4. ASSUME NEW o \in Callers, Close(o) \/ CloseThread(o) PROVE Inv'
  BY <1>4, OwnerCloses
<1>5. ASSUME NEW o \in Callers, DeleteServers(o) PROVE Inv'
  <2>1. CountsOK'
    BY <1>1, <1>5, DeleteCounts DEF DeleteServers
  <2> QED BY <1>5, <2>1, DeleteInv, CellSteps DEF DeleteServers
<1>6. ASSUME NEW a \in Accepters, Accpet(a) PROVE Inv'
  <2>1. CountsOK'
    BY <1>1, <1>6, AddCounts DEF Accpet
  <2> QED BY <1>6, <2>1, AddInv, CellSteps DEF Accpet
<1>7. ASSUME NEW a \in Accepters, AcceptThread(a) PROVE Inv'
  BY <1>7, AcceptSteps
<1>8. ASSUME NEW w \in Workers, CellServerThread(w) PROVE Inv'
  <2>1. CountsOK'
    BY <1>1, <1>8, WorkCounts DEF CellServerThread
  <2> QED BY <1>8, <2>1, WorkInv, CellSteps DEF CellServerThread
<1>9. CASE UNCHANGED vars
  <2>1. /\ UNCHANGED <<threadVars, lifeVars>> /\ UNCHANGED accVars /\ serverPc' = serverPc
        /\ stale' = stale /\ sock' = sock /\ listening' = listening /\ UNCHANGED serverVars
        /\ UNCHANGED clientVars
    BY <1>9 DEF vars, serverVars, lifeVars
  <2>2. /\ serverPc \in {"init", "closed", "ended"} => ~sock
        /\ listening => sock
    BY DEF ServerInv, CellInv, CellPlaceInv
  <2>3. CellInv'
    BY <2>1, <2>2, CellKept DEF ServerInv
  <2> QED BY <1>1, <2>1, <2>3, KeptCounts, CellSteps
<1> QED BY <1>2, <1>3, <1>4, <1>5, <1>6, <1>7, <1>8, <1>9 DEF Next, Closing
-----------------------------------------------------------------------------
(* What the invariant says of the things that are freed.                   *)

\* The owner is past Close of the thread: no accept thread is in its loop.
LEMMA InvAcceptEnds == Inv /\ ~stale => AcceptEndsFirst
<1> SUFFICES ASSUME Inv, ~stale, serverPc = "delete", NEW a \in Accepters, accWorkerPc[a] = "run"
             PROVE  FALSE
  BY DEF AcceptEndsFirst
<1>1. accIsRun \/ accMutex # NoOne
  BY DEF Inv, ServerInv, AccInv, CurrentInv, InLoop
<1>2. ~accIsRun
  BY DEF Inv, ServerInv, AccInv, AccFlagInv, Away
<1>3. accMutex # NoOne => serverPc = "closeThread"
  BY DEF Inv, ServerInv, PlacesTypeOK, AccInv, AccOwnerInv
<1> QED BY <1>1, <1>2, <1>3

\* ~CellServer is past Close of the thread: the thread has signalled its
\* end, unless its poll failed.
LEMMA InvFreed ==
  ASSUME Inv
  PROVE  FreedAfterWork /\ (~stale => FreedEmpty) /\ WaitHasPoller /\ FreedAfterLoop
<1>1. CellPlaceInv /\ FreeInv /\ ClearedInv
  BY DEF Inv, ServerInv, CellInv
<1>2. ASSUME deletePc = "members", ~PollFailed
      PROVE  /\ \A w \in Workers : workerPc[w] \in {"clear", "gone"}
             /\ ~stale => waiting + joined = 0
  <2>1. ~exited /\ \A w \in Workers : Ended(w) /\ workerPc[w] # "none"
    BY <1>1, <1>2 DEF PollFailed, CellPlaceInv, FreeInv, ThreadClosed
  <2>2. ~stale => waiting = 0 /\ joined = 0
    BY <1>1, <1>2, <2>1, OneWorker DEF ClearedInv, Ended
  <2> QED BY <2>1, <2>2 DEF Ended
<1>3. WaitHasPoller
  <2> SUFFICES ASSUME NEW w \in Workers, poller = "select", workerPc[w] = "run", loopPc = "wait",
                      ~pollerOpen
               PROVE  FALSE
    BY DEF WaitHasPoller
  <2>1. ThreadClosed /\ ~exited
    BY <1>1 DEF CellPlaceInv, FreeInv, ThreadClosed
  <2> QED BY <1>1, <2>1 DEF FreeInv, Ended
<1>4. FreedAfterLoop
  <2> SUFFICES ASSUME class = "freed" PROVE loopPc \in {"left", "exited"}
    BY DEF FreedAfterLoop
  <2>1. deletePc = "done" /\ ThreadClosed
    BY <1>1 DEF FreeInv, ThreadClosed
  <2>2. CASE exited
    BY <1>1, <2>2 DEF CellPlaceInv
  <2>3. CASE \A w \in Workers : Ended(w)
    BY <1>1, <2>1, <2>3, OneWorker DEF CellPlaceInv, Ended
  <2> QED BY <1>1, <2>1, <2>2, <2>3 DEF FreeInv
<1> QED BY <1>2, <1>3, <1>4 DEF FreedAfterWork, FreedEmpty

\* When ~CellServer is through, the cell server's thread has signalled its
\* end, unless its poll failed; when the memory goes it is out of its loop
\* even so.  In a server whose accept thread was not started over one that
\* had not ended, no accept thread is in its loop when a cell server is
\* deleted, and none of its clients is left when it is freed.  The fd sets
\* of a select server go after the last poll (nothing is said of the poller
\* of an epoll server, which goes first).  A taken place under the client
\* limit stands for a client that waits, is served, or went with a server
\* that closed.  (EasyTcpServer::Close, ~CellServer, ~CellSelectServer and
\* CellServer::OnRun; for every number of openings and every limit.)
THEOREM StopsBeforeFrees == Spec => [](StoppedBeforeFreed /\ PlacesKept)
<1>1. Inv => StoppedBeforeFreed /\ PlacesKept
  BY InvAcceptEnds, InvFreed DEF StoppedBeforeFreed, Inv
<1> QED BY <1>1, InvInit, InvNext, PTL DEF Spec
=============================================================================
