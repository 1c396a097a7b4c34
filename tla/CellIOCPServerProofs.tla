------------------------ MODULE CellIOCPServerProofs ------------------------
(***************************************************************************)
(* A client of the completion port has at most one request of a kind, its  *)
(* buffers stay where the kernel reads and writes, and what is left in the *)
(* kernel of a client that is freed: nothing when no send was under way,   *)
(* else at most one request.  For any number of connections and buffers of *)
(* any size, and whatever fails.                                           *)
(***************************************************************************)
EXTENDS CellIOCPServer, FiniteSetTheorems, SequenceTheorems, TLAPS

Kinds == {"recv", "send"}
Requests == [io : Kinds, at : 0..BuffSize]
Completions == [client : Clients, io : Kinds, at : 0..BuffSize, bytes : 0..BuffSize]

IOCPTypeOK ==
  /\ acceptPosted \in BOOLEAN
  /\ clientAccept \in Int
  /\ object \in [Clients -> {"none", "live", "freed", "refused"}]
  /\ open \subseteq Clients
  /\ isPostRecv \subseteq Clients /\ isPostSend \subseteq Clients
  /\ recvLast \in [Clients -> 0..BuffSize] /\ sendLast \in [Clients -> 0..BuffSize]
  /\ unread \subseteq Clients
  /\ posted \in [Clients -> SUBSET Requests]
  /\ queue \in Seq(Completions)
  /\ hungUp \subseteq Clients
  /\ clientsBuff \subseteq Clients /\ clients \subseteq Clients
  /\ todo \subseteq clients
  /\ pc \in {"loop", "check", "send", "event", "msg", "wild"}
  /\ pc \in {"loop", "check", "event"} => todo = {}
  /\ sending \subseteq Clients

\* What the kernel has to do, or to say, of a client.
Posted(c, io) == \E r \in posted[c] : r.io = io
About(c, io, i) == queue[i].client = c /\ queue[i].io = io
Reported(c, io) == \E i \in DOMAIN queue : About(c, io, i)
Quiet(c, io) == ~Posted(c, io) /\ ~Reported(c, io)

\* At most one request or completion of a kind.
Single(c, io) ==
  /\ \A q, r \in posted[c] : q.io = io /\ r.io = io => q = r
  /\ \A i, j \in DOMAIN queue : About(c, io, i) /\ About(c, io, j) => i = j
  /\ ~(Posted(c, io) /\ Reported(c, io))

Flagged(c, io) == IF io = "recv" THEN c \in isPostRecv ELSE c \in isPostSend

\* A request fits the buffer it was made for, and so does its answer.
Fits(c, e) == IF e.io = "recv" THEN e.at = recvLast[c] ELSE e.at <= sendLast[c]

RequestInv(c) ==
  object[c] = "live" =>
    /\ \A io \in Kinds : Single(c, io) /\ (Quiet(c, io) \/ Flagged(c, io))
    /\ \A r \in posted[c] : Fits(c, r)
    /\ \A i \in Queued(c) : Fits(c, queue[i])

\* Before a client is in the map, and after it is freed with no send under
\* way.
SilentInv(c) ==
  /\ object[c] # "live" => ~Flagged(c, "recv") /\ ~Flagged(c, "send") /\ c \notin unread
  /\ c \in clients \cup clientsBuff => object[c] = "live"
  /\ c \notin clients \cap clientsBuff
  /\ c \in clientsBuff => ~Flagged(c, "recv") /\ ~Flagged(c, "send") /\ c \notin unread
  /\ \/ object[c] \in {"none", "refused"}
     \/ c \in clientsBuff
     \/ object[c] = "freed" /\ c \notin sending
     => Quiet(c, "recv") /\ Quiet(c, "send")

\* Bytes that DoMsg has not looked at keep the client from being posted a
\* receive: the thread goes through DoMsg before it posts again.
UnreadInv(c) ==
  /\ c \in unread => ~Flagged(c, "recv")
  /\ c \in unread \cap clients => pc \in {"event", "wild"} \/ (pc = "msg" /\ c \in todo)
  /\ Flagged(c, "send") => c \in sending

\* A freed client leaves at most one request of at most one kind.
LeftInv(c) ==
  object[c] = "freed" =>
    /\ \A io \in Kinds : Single(c, io)
    /\ Quiet(c, "recv") \/ Quiet(c, "send")

ClientInv(c) == RequestInv(c) /\ SilentInv(c) /\ UnreadInv(c) /\ LeftInv(c)

\* The answer to a request says no more bytes than were asked for.
AnswersFit ==
  \A i \in DOMAIN queue :
     queue[i].bytes <= IF queue[i].io = "recv" THEN BuffSize - queue[i].at ELSE queue[i].at

IOCPInv == IOCPTypeOK /\ AnswersFit /\ \A c \in Clients : ClientInv(c)
-----------------------------------------------------------------------------
(* A step that is about another client.                                    *)

\* The completions of client d are those that were there before, in the same
\* order; the first of the queue may be gone.
Shift(d, k) ==
  /\ queue' \in Seq(Completions)
  /\ \A i \in DOMAIN queue' :
        queue'[i].client = d => i + k \in DOMAIN queue /\ queue'[i] = queue[i + k]

\* What the thread and the kernel keep of client d is not touched, except that
\* it may leave the map.
Kept(d) ==
  /\ posted'[d] = posted[d] /\ object'[d] = object[d]
  /\ recvLast'[d] = recvLast[d] /\ sendLast'[d] = sendLast[d]
  /\ d \in isPostRecv' <=> d \in isPostRecv
  /\ d \in isPostSend' <=> d \in isPostSend
  /\ d \in unread' <=> d \in unread
  /\ d \in clients' => d \in clients
  /\ d \in clientsBuff' <=> d \in clientsBuff
  /\ d \in sending' <=> d \in sending

LEMMA SameQueue == IOCPTypeOK /\ queue' = queue => \A d : Shift(d, 0)
BY DEF IOCPTypeOK, Shift

LEMMA ShiftReports ==
  ASSUME NEW d, NEW k \in {0, 1}, Shift(d, k), posted'[d] = posted[d]
  PROVE  \A io : /\ Quiet(d, io) => Quiet(d, io)'
                 /\ Single(d, io) => Single(d, io)'
<1> SUFFICES ASSUME NEW io PROVE (Quiet(d, io) => Quiet(d, io)') /\ (Single(d, io) => Single(d, io)')
  OBVIOUS
<1>1. DOMAIN queue' = 1..Len(queue') /\ Len(queue') \in Nat
  BY DEF Shift
<1>2. \A i \in DOMAIN queue' : About(d, io, i)' => i + k \in DOMAIN queue /\ About(d, io, i + k)
  BY DEF Shift, About
<1>3. Reported(d, io)' => Reported(d, io)
  BY <1>2 DEF Reported
<1>4. Posted(d, io)' <=> Posted(d, io)
  BY DEF Posted
<1>5. ASSUME Single(d, io), NEW i \in DOMAIN queue', NEW j \in DOMAIN queue',
             About(d, io, i)', About(d, io, j)'
      PROVE  i = j
  <2>1. i + k = j + k
    BY <1>2, <1>5 DEF Single
  <2> QED BY <1>1, <2>1
<1>6. Single(d, io) => Single(d, io)'
  <2> SUFFICES ASSUME Single(d, io) PROVE Single(d, io)'
    OBVIOUS
  <2>1. \A i, j \in DOMAIN queue' : About(d, io, i)' /\ About(d, io, j)' => i = j
    BY <1>5
  <2>2. \A q, r \in posted'[d] : q.io = io /\ r.io = io => q = r
    BY DEF Single
  <2>3. ~(Posted(d, io)' /\ Reported(d, io)')
    BY <1>3, <1>4 DEF Single
  <2> QED BY <2>1, <2>2, <2>3 DEF Single
<1>7. Quiet(d, io) => Quiet(d, io)'
  BY <1>3, <1>4 DEF Quiet
<1> QED BY <1>6, <1>7

LEMMA KeptInv ==
  ASSUME NEW d \in Clients, ClientInv(d), NEW k \in {0, 1}, Shift(d, k), Kept(d),
         d \in unread' \cap clients' => pc' \in {"event", "wild"} \/ (pc' = "msg" /\ d \in todo')
  PROVE  ClientInv(d)'
<1> USE DEF Kept, ClientInv
<1>1. \A io : (Flagged(d, io)' <=> Flagged(d, io))
  BY DEF Flagged
<1>2. \A io : (Quiet(d, io) => Quiet(d, io)') /\ (Single(d, io) => Single(d, io)')
  BY ShiftReports
<1>3. RequestInv(d)'
  <2> SUFFICES ASSUME object'[d] = "live" PROVE RequestInv(d)'
    BY DEF RequestInv
  <2>1. \A io \in Kinds : Single(d, io)' /\ (Quiet(d, io)' \/ Flagged(d, io)')
    BY <1>1, <1>2 DEF RequestInv
  <2>2. \A r \in posted'[d] : Fits(d, r)'
    BY DEF RequestInv, Fits
  <2>3. \A i \in Queued(d)' : i + k \in Queued(d) /\ queue'[i] = queue[i + k]
    BY DEF Queued, Shift
  <2>4. ASSUME NEW i \in Queued(d)' PROVE Fits(d, queue[i])'
    <3>1. i + k \in Queued(d) /\ queue'[i] = queue[i + k]
      BY <2>3
    <3>2. Fits(d, queue[i + k])
      BY <3>1 DEF RequestInv
    <3> QED BY <3>1, <3>2 DEF Fits
  <2> QED BY <2>1, <2>2, <2>4 DEF RequestInv
<1>4. SilentInv(d)'
  BY <1>1, <1>2 DEF SilentInv
<1>5. UnreadInv(d)'
  BY <1>1 DEF UnreadInv
<1>6. LeftInv(d)'
  BY <1>2 DEF LeftInv
<1> QED BY <1>3, <1>4, <1>5, <1>6

\* A step that is about client c, or about none.
LEMMA OthersKept ==
  ASSUME IOCPInv, NEW c, NEW k \in {0, 1},
         \A d \in Clients : d # c => Shift(d, k) /\ Kept(d),
         \A d \in Clients : d # c /\ d \in unread /\ d \in clients =>
            pc' \in {"event", "wild"} \/ (pc' = "msg" /\ d \in todo')
  PROVE  \A d \in Clients : d # c => ClientInv(d)'
<1> SUFFICES ASSUME NEW d \in Clients, d # c PROVE ClientInv(d)'
  OBVIOUS
<1>1. Shift(d, k) /\ Kept(d) /\ ClientInv(d)
  BY DEF IOCPInv
<1>2. d \in unread' \cap clients' => pc' \in {"event", "wild"} \/ (pc' = "msg" /\ d \in todo')
  BY <1>1 DEF Kept
<1> QED BY <1>1, <1>2, KeptInv
-----------------------------------------------------------------------------
(* The steps of the thread that change no client.                          *)

LEMMA PhaseKeeps ==
  ASSUME IOCPInv,
         UNCHANGED <<acceptPosted, clientAccept, objVars, flagVars, buffVars, netVars,
                     clientsBuff, clients, sending>>,
         todo' \subseteq clients, pc' \in {"loop", "check", "send", "event", "msg", "wild"},
         pc' \in {"loop", "check", "event"} => todo' = {},
         \A d \in Clients : d \in unread /\ d \in clients =>
            pc' \in {"event", "wild"} \/ (pc' = "msg" /\ d \in todo')
  PROVE  IOCPInv'
<1> USE DEF objVars, flagVars, buffVars, netVars
<1>1. IOCPTypeOK' /\ AnswersFit'
  BY DEF IOCPInv, IOCPTypeOK, AnswersFit
<1>2. \A d \in Clients : Shift(d, 0) /\ Kept(d)
  BY SameQueue DEF IOCPInv, Kept
<1>3. \A d \in Clients : ClientInv(d)'
  <2> TAKE d \in Clients
  <2>1. ClientInv(d) /\ Shift(d, 0) /\ Kept(d)
    BY <1>2 DEF IOCPInv
  <2>2. d \in unread' \cap clients' => pc' \in {"event", "wild"} \/ (pc' = "msg" /\ d \in todo')
    OBVIOUS
  <2> QED BY <2>1, <2>2, KeptInv
<1> QED BY <1>1, <1>3 DEF IOCPInv

LEMMA PhasesKeep ==
  ASSUME IOCPInv,
         NothingToMerge \/ CheckTimeDone \/ PostsDone \/ NoMoreEvents \/ DoMsgDone \/ UNCHANGED vars
  PROVE  IOCPInv'
<1> USE DEF Goto
<1>1. /\ todo \subseteq clients /\ pc \in {"loop", "check", "send", "event", "msg", "wild"}
      /\ pc \in {"loop", "check", "event"} => todo = {}
      /\ clients \subseteq Clients
  BY DEF IOCPInv, IOCPTypeOK
<1>2. \A d \in Clients : d \in unread /\ d \in clients =>
         pc \in {"event", "wild"} \/ (pc = "msg" /\ d \in todo)
  BY DEF IOCPInv, ClientInv, UnreadInv
<1>3. CASE NothingToMerge
  BY <1>1, <1>2, <1>3, PhaseKeeps DEF NothingToMerge
<1>4. CASE CheckTimeDone
  BY <1>1, <1>2, <1>4, PhaseKeeps DEF CheckTimeDone
<1>5. CASE PostsDone
  BY <1>1, <1>2, <1>5, PhaseKeeps DEF PostsDone
<1>6. CASE NoMoreEvents
  BY <1>1, <1>2, <1>6, PhaseKeeps DEF NoMoreEvents
<1>7. CASE DoMsgDone
  BY <1>1, <1>2, <1>7, PhaseKeeps DEF DoMsgDone
<1>8. CASE UNCHANGED vars
  BY <1>1, <1>2, <1>8, PhaseKeeps DEF vars
<1> QED BY <1>3, <1>4, <1>5, <1>6, <1>7, <1>8
-----------------------------------------------------------------------------
(* The accept thread and the kernel.                                       *)

LEMMA QueueTyped ==
  ASSUME IOCPTypeOK
  PROVE  DOMAIN queue = 1..Len(queue) /\ \A i \in DOMAIN queue : queue[i] \in Completions
BY ElementOfSeq DEF IOCPTypeOK

\* Nothing of either kind is nothing at all.
LEMMA QuietMeans ==
  ASSUME IOCPTypeOK, NEW c \in Clients
  PROVE  Quiet(c, "recv") /\ Quiet(c, "send") <=> posted[c] = {} /\ Queued(c) = {}
<1>1. \A r \in posted[c] : r.io \in Kinds
  BY DEF IOCPTypeOK, Requests
<1>2. \A i \in DOMAIN queue : queue[i].io \in Kinds
  BY QueueTyped DEF Completions
<1>3. posted[c] = {} <=> ~Posted(c, "recv") /\ ~Posted(c, "send")
  BY <1>1 DEF Posted, Kinds
<1>4. Queued(c) = {} <=> ~Reported(c, "recv") /\ ~Reported(c, "send")
  BY <1>2 DEF Reported, About, Queued, Kinds
<1> QED BY <1>3, <1>4 DEF Quiet

LEMMA AcceptKeeps ==
  ASSUME IOCPInv, NEW c \in Clients, IOCPAccept(c)
  PROVE  IOCPInv'
<1> USE DEF objVars, flagVars, buffVars, netVars
<1>1. IOCPTypeOK' /\ AnswersFit'
  <2>1. acceptPosted' \in BOOLEAN
    BY SwitchesBool DEF IOCPAccept, PostAccept
  <2>2. clientAccept' \in Int /\ open' \subseteq Clients /\ clientsBuff' \subseteq Clients
    BY SizesPos DEF IOCPAccept, IOCPInv, IOCPTypeOK
  <2>3. object' \in [Clients -> {"none", "live", "freed", "refused"}]
    BY DEF IOCPAccept, IOCPInv, IOCPTypeOK
  <2>4. UNCHANGED <<flagVars, buffVars, netVars, clients, todo, pc, sending>>
    BY DEF IOCPAccept
  <2>5. AnswersFit'
    BY <2>4 DEF IOCPInv, AnswersFit
  <2> QED BY <2>1, <2>2, <2>3, <2>4, <2>5 DEF IOCPInv, IOCPTypeOK
<1>2. \A d \in Clients : d # c => Shift(d, 0) /\ Kept(d)
  BY SameQueue DEF IOCPAccept, IOCPInv, IOCPTypeOK, Kept
<1>3. \A d \in Clients : d # c => ClientInv(d)'
  BY <1>2, OthersKept DEF IOCPAccept, IOCPInv, ClientInv, UnreadInv
<1>4. /\ object[c] = "none" /\ object'[c] \in {"live", "refused"}
      /\ object'[c] = "live" => c \in clientsBuff' /\ clients' = clients
      /\ object'[c] = "refused" => clientsBuff' = clientsBuff /\ clients' = clients
      /\ \A io : (Flagged(c, io)' <=> Flagged(c, io)) /\ (Quiet(c, io)' <=> Quiet(c, io))
      /\ (c \in unread' <=> c \in unread) /\ posted'[c] = posted[c] /\ queue' = queue
  BY DEF IOCPAccept, IOCPInv, IOCPTypeOK, Flagged, Quiet, Posted, Reported, About
<1>5. /\ Quiet(c, "recv") /\ Quiet(c, "send") /\ ~Flagged(c, "recv") /\ ~Flagged(c, "send")
      /\ c \notin unread /\ c \notin clients \cup clientsBuff
  BY <1>4 DEF IOCPInv, ClientInv, SilentInv
<1>6. SilentInv(c)' /\ UnreadInv(c)'
  BY <1>4, <1>5 DEF SilentInv, UnreadInv
<1>7. posted[c] = {} /\ Queued(c) = {}
  BY <1>5, QuietMeans DEF IOCPInv
<1>8. RequestInv(c)'
  <2>1. \A io \in Kinds : Quiet(c, io)'
    BY <1>4, <1>5 DEF Kinds
  <2>2. Queued(c)' = {}
    BY <1>4, <1>7 DEF Queued
  <2>3. \A io : Single(c, io)'
    BY <1>4, <1>7, <2>2 DEF Single, Queued, About, Posted
  <2> QED BY <1>4, <1>7, <2>1, <2>2, <2>3 DEF RequestInv
<1>9. ClientInv(c)'
  BY <1>4, <1>6, <1>8 DEF ClientInv, LeftInv
<1> QED BY <1>1, <1>3, <1>9 DEF IOCPInv

LEMMA HangUpKeeps ==
  ASSUME IOCPInv, NEW c \in Clients, HangUp(c)
  PROVE  IOCPInv'
<1> USE DEF objVars, flagVars, buffVars
<1>1. IOCPTypeOK' /\ AnswersFit'
  BY DEF HangUp, IOCPInv, IOCPTypeOK, AnswersFit
<1>2. \A d \in Clients : Shift(d, 0) /\ Kept(d)
  BY SameQueue DEF HangUp, IOCPInv, Kept
<1>3. \A d \in Clients : ClientInv(d)'
  BY <1>2, KeptInv DEF HangUp, IOCPInv, ClientInv, UnreadInv
<1> QED BY <1>1, <1>3 DEF IOCPInv

LEMMA CompleteKeeps ==
  ASSUME IOCPInv, NEW c \in Clients, NEW r \in posted[c], Complete(c, r)
  PROVE  IOCPInv'
<1> USE DEF objVars, flagVars, buffVars
<1>1. PICK n \in 0..BuffSize :
         /\ n <= IF r.io = "recv" THEN BuffSize - r.at ELSE r.at
         /\ queue' = Append(queue, [client |-> c, io |-> r.io, at |-> r.at, bytes |-> n])
  BY DEF Complete
<1> DEFINE e == [client |-> c, io |-> r.io, at |-> r.at, bytes |-> n]
           new == Len(queue) + 1
<1>2. r \in Requests /\ e \in Completions /\ queue \in Seq(Completions)
  BY DEF IOCPInv, IOCPTypeOK, Requests, Completions
<1>3. /\ queue' \in Seq(Completions) /\ queue'[new] = e
      /\ DOMAIN queue' = DOMAIN queue \cup {new} /\ new \notin DOMAIN queue
      /\ \A i \in DOMAIN queue : queue'[i] = queue[i]
  <2> HIDE DEF e
  <2>1. queue' = Append(queue, e)
    BY <1>1 DEF e
  <2> QED BY <1>2, <2>1
<1>4. posted' = [posted EXCEPT ![c] = @ \ {r}]
  BY DEF Complete
<1>5. IOCPTypeOK'
  BY <1>3, <1>4 DEF Complete, IOCPInv, IOCPTypeOK
<1>6. AnswersFit'
  BY <1>1, <1>3 DEF IOCPInv, AnswersFit
<1>7. \A d \in Clients : d # c => ClientInv(d)'
  <2>1. \A d \in Clients : d # c => Shift(d, 0)
    BY <1>3 DEF Shift
  <2>2. \A d \in Clients : d # c => Kept(d)
    BY <1>4 DEF Complete, IOCPInv, IOCPTypeOK, Kept
  <2> QED BY <2>1, <2>2, OthersKept DEF Complete, IOCPInv, ClientInv, UnreadInv
<1>8. posted'[c] = posted[c] \ {r} /\ r.io \in Kinds
  BY <1>2, <1>4 DEF IOCPInv, IOCPTypeOK, Requests
<1>9. \A io : \A i \in DOMAIN queue' :
         About(c, io, i)' <=> IF i = new THEN io = r.io ELSE About(c, io, i)
  BY <1>3 DEF About
<1>10. RequestInv(c) /\ SilentInv(c) /\ UnreadInv(c)
  BY DEF IOCPInv, ClientInv
<1>11. UNCHANGED <<object, isPostRecv, isPostSend, recvLast, sendLast, unread, clients, clientsBuff, todo, pc, sending>>
  BY DEF Complete
<1>12. ~Quiet(c, r.io)
  BY DEF Quiet, Posted
<1>13. ASSUME NEW io \in Kinds, Single(c, io)
       PROVE  Single(c, io)' /\ (Quiet(c, io) => Quiet(c, io)')
  <2>1. CASE io = r.io
    <3>1. Posted(c, io) /\ ~Reported(c, io) /\ ~Posted(c, io)'
      BY <1>8, <1>13, <2>1 DEF Single, Posted
    <3>2. \A i \in DOMAIN queue' : About(c, io, i)' <=> i = new
      BY <1>3, <1>9, <2>1, <3>1 DEF Reported
    <3>3. Single(c, io)'
      BY <3>1, <3>2 DEF Single, Posted
    <3> QED BY <1>12, <2>1, <3>3
  <2>2. CASE io # r.io
    <3>1. Posted(c, io)' <=> Posted(c, io)
      BY <1>8, <2>2 DEF Posted
    <3>2. \A i \in DOMAIN queue' : About(c, io, i)' <=> i \in DOMAIN queue /\ About(c, io, i)
      BY <1>3, <1>9, <2>2
    <3>3. Reported(c, io)' <=> Reported(c, io)
      BY <1>3, <3>2 DEF Reported
    <3> QED BY <1>8, <1>13, <3>1, <3>2, <3>3 DEF Single, Quiet
  <2> QED BY <2>1, <2>2
<1>14. RequestInv(c)'
  <2> SUFFICES ASSUME object[c] = "live" PROVE RequestInv(c)'
    BY <1>11 DEF RequestInv
  <2>1. ASSUME NEW io \in Kinds PROVE Single(c, io)' /\ (Quiet(c, io)' \/ Flagged(c, io)')
    BY <1>10, <1>11, <1>13 DEF RequestInv, Flagged
  <2>2. \A q \in posted'[c] : Fits(c, q)'
    BY <1>8, <1>10, <1>11 DEF RequestInv, Fits
  <2>3. ASSUME NEW i \in Queued(c)' PROVE Fits(c, queue[i])'
    <3>1. CASE i = new
      <4>1. Fits(c, r)
        BY <1>10 DEF RequestInv
      <4> QED BY <1>3, <1>11, <3>1, <4>1 DEF Fits
    <3>2. CASE i # new
      <4>1. i \in Queued(c) /\ queue'[i] = queue[i]
        BY <1>3, <3>2 DEF Queued
      <4> QED BY <1>10, <1>11, <4>1 DEF RequestInv, Fits
    <3> QED BY <3>1, <3>2
  <2> QED BY <1>11, <2>1, <2>2, <2>3 DEF RequestInv
<1>15. SilentInv(c)'
  <2>1. ~(Quiet(c, "recv") /\ Quiet(c, "send"))
    BY <1>8, <1>12 DEF Kinds
  <2> QED BY <1>10, <1>11, <2>1 DEF SilentInv, Flagged
<1>16. UnreadInv(c)'
  BY <1>10, <1>11 DEF UnreadInv, Flagged
<1>17. LeftInv(c)'
  <2>1. LeftInv(c)
    BY DEF IOCPInv, ClientInv
  <2> QED BY <1>11, <1>13, <2>1 DEF LeftInv, Kinds
<1> QED BY <1>5, <1>6, <1>7, <1>14, <1>15, <1>16, <1>17 DEF IOCPInv, ClientInv
-----------------------------------------------------------------------------
(* What a step of the thread may do to its client.                         *)

\* A request of a kind of which nothing is outstanding, with its flag.
LEMMA PostedInv ==
  ASSUME IOCPInv, NEW c \in Clients, NEW io \in Kinds, object[c] = "live", Quiet(c, io),
         NEW q, q.io = io, Fits(c, q),
         posted'[c] = posted[c] \/ posted'[c] = posted[c] \cup {q},
         Flagged(c, io)', \A k \in Kinds \ {io} : Flagged(c, k)' <=> Flagged(c, k),
         UNCHANGED <<queue, object, recvLast, sendLast, unread>>,
         c \notin clientsBuff', Flagged(c, "send")' => c \in sending', c \notin unread
  PROVE  ClientInv(c)'
<1>1. RequestInv(c)
  BY DEF IOCPInv, ClientInv
<1>2. ASSUME NEW k \in Kinds PROVE Single(c, k)' /\ (Quiet(c, k)' \/ Flagged(c, k)')
  <2>1. Single(c, k) /\ (Quiet(c, k) \/ Flagged(c, k)) /\ (Reported(c, k)' <=> Reported(c, k))
    BY <1>1 DEF RequestInv, Reported, About
  <2>2. CASE k = io
    <3>1. \A r \in posted'[c] : r.io = io => r = q
      BY DEF Quiet, Posted
    <3> QED BY <2>1, <2>2, <3>1 DEF Single, Quiet, Posted, About
  <2>3. CASE k # io
    <3>1. \A r : r.io = k => (r \in posted'[c] <=> r \in posted[c])
      BY <2>3
    <3> QED BY <2>1, <2>3, <3>1 DEF Single, Quiet, Posted, About
  <2> QED BY <2>2, <2>3
<1>3. \A r \in posted'[c] : Fits(c, r)'
  BY <1>1 DEF RequestInv, Fits
<1>4. \A i \in Queued(c)' : Fits(c, queue[i])'
  BY <1>1 DEF RequestInv, Fits, Queued
<1>5. RequestInv(c)'
  BY <1>2, <1>3, <1>4 DEF RequestInv
<1>6. SilentInv(c)'
  BY DEF SilentInv
<1>7. UnreadInv(c)'
  BY DEF UnreadInv
<1> QED BY <1>5, <1>6, <1>7 DEF ClientInv, LeftInv

\* The client is freed: what is left of it was outstanding when it was live.
LEMMA FreedInv ==
  ASSUME IOCPInv, NEW c \in Clients, object[c] = "live", OnClientLeave(c),
         NEW k \in {0, 1}, Shift(c, k), posted'[c] = posted[c],
         c \notin clients' \cup clientsBuff', Quiet(c, "recv")' \/ Quiet(c, "send")',
         c \in sending' \/ (Quiet(c, "recv")' /\ Quiet(c, "send")')
  PROVE  ClientInv(c)'
<1>1. object'[c] = "freed" /\ c \notin isPostRecv' /\ c \notin isPostSend' /\ c \notin unread'
  BY DEF OnClientLeave, IOCPInv, IOCPTypeOK
<1>2. LeftInv(c)'
  BY <1>1, ShiftReports DEF LeftInv, IOCPInv, ClientInv, RequestInv
<1> QED BY <1>1, <1>2 DEF ClientInv, RequestInv, SilentInv, UnreadInv, Flagged

LEMMA FreedTyped ==
  ASSUME IOCPTypeOK, NEW c \in Clients, OnClientLeave(c)
  PROVE  /\ clientAccept' \in Int
         /\ object' \in [Clients -> {"none", "live", "freed", "refused"}]
         /\ open' \subseteq Clients
         /\ isPostRecv' \subseteq Clients /\ isPostSend' \subseteq Clients
         /\ recvLast' \in [Clients -> 0..BuffSize] /\ sendLast' \in [Clients -> 0..BuffSize]
         /\ unread' \subseteq Clients
         /\ \A d \in Clients : d # c =>
               /\ object'[d] = object[d] /\ recvLast'[d] = recvLast[d] /\ sendLast'[d] = sendLast[d]
               /\ d \in isPostRecv' <=> d \in isPostRecv
               /\ d \in isPostSend' <=> d \in isPostSend
               /\ d \in unread' <=> d \in unread
<1>1. 0 \in 0..BuffSize
  BY SizesPos
<1> QED BY <1>1 DEF IOCPTypeOK, OnClientLeave

\* A buffer changes while nothing of its kind is outstanding; or bytes are
\* added to the send buffer.
LEMMA BuffersInv ==
  ASSUME IOCPInv, NEW c \in Clients, object[c] = "live", NEW k \in {0, 1}, Shift(c, k),
         posted'[c] = posted[c], IOCPTypeOK',
         recvLast'[c] = recvLast[c] \/ Quiet(c, "recv")',
         sendLast'[c] >= sendLast[c] \/ Quiet(c, "send")',
         \A io \in Kinds : Flagged(c, io) => Flagged(c, io)' \/ Quiet(c, io)'
  PROVE  RequestInv(c)'
<1>1. RequestInv(c)
  BY DEF IOCPInv, ClientInv
<1>2. \A io \in Kinds : Single(c, io)' /\ (Quiet(c, io)' \/ Flagged(c, io)')
  BY <1>1, ShiftReports DEF RequestInv
<1>3. /\ recvLast[c] \in Nat /\ sendLast[c] \in Nat /\ sendLast'[c] \in Nat
      /\ posted[c] \subseteq Requests
  BY SizesPos DEF IOCPInv, IOCPTypeOK
<1>4. ASSUME NEW r \in posted'[c] PROVE Fits(c, r)'
  <2>1. Fits(c, r) /\ Posted(c, r.io)' /\ r.io \in Kinds /\ r.at \in Nat
    BY <1>1, <1>3, <1>4, SizesPos DEF RequestInv, Posted, Requests
  <2> QED BY <1>3, <2>1 DEF Fits, Quiet, Kinds
<1>5. ASSUME NEW i \in Queued(c)' PROVE Fits(c, queue[i])'
  <2>1. i + k \in Queued(c) /\ queue'[i] = queue[i + k] /\ queue'[i] \in Completions
    BY ElementOfSeq DEF Queued, Shift
  <2>2. Fits(c, queue[i + k]) /\ queue'[i].io \in Kinds /\ queue'[i].at \in Nat
    BY <1>1, <2>1, SizesPos DEF RequestInv, Completions
  <2>3. Reported(c, queue[i].io)'
    BY DEF Queued, Reported, About
  <2> QED BY <1>3, <2>1, <2>2, <2>3 DEF Fits, Quiet, Kinds
<1> QED BY <1>2, <1>4, <1>5 DEF RequestInv
-----------------------------------------------------------------------------
(* Joining, and being found silent.                                        *)

LEMMA MergeKeeps == IOCPInv /\ Merge => IOCPInv'
<1> SUFFICES ASSUME IOCPInv, Merge PROVE IOCPInv'
  OBVIOUS
<1> USE DEF objVars, flagVars, buffVars, Goto
<1>1. PICK ok \in SUBSET clientsBuff :
         posted' = [c \in Clients |-> posted[c] \cup (IF c \in ok THEN RecvRequest(c) ELSE {})]
  BY DEF Merge
<1>2. \A c \in Clients : RecvRequest(c) \subseteq Requests
  BY SizesPos DEF RecvRequest, Requests, Kinds, IOCPInv, IOCPTypeOK
<1>3. posted' \in [Clients -> SUBSET Requests]
  BY <1>1, <1>2 DEF IOCPInv, IOCPTypeOK
<1>4. IOCPTypeOK' /\ AnswersFit'
  BY <1>3 DEF Merge, IOCPInv, IOCPTypeOK, AnswersFit
<1>5. \A c \in Clients : c \notin unread' \cap clients'
  BY DEF Merge, IOCPInv, IOCPTypeOK, ClientInv, UnreadInv, SilentInv
<1>6. ASSUME NEW c \in Clients, c \notin clientsBuff PROVE ClientInv(c)'
  <2>1. Kept(c) /\ Shift(c, 0)
    BY <1>1, <1>6, SameQueue DEF Merge, IOCPInv, Kept
  <2> QED BY <1>5, <2>1, KeptInv DEF IOCPInv
<1>7. ASSUME NEW c \in Clients, c \in clientsBuff PROVE ClientInv(c)'
  <2>1. /\ object[c] = "live" /\ Quiet(c, "recv") /\ c \notin unread
        /\ ~Flagged(c, "recv") /\ ~Flagged(c, "send")
    BY <1>7 DEF IOCPInv, ClientInv, SilentInv
  <2> DEFINE q == [io |-> "recv", at |-> recvLast[c]]
  <2>2. q.io = "recv" /\ Fits(c, q)
    BY DEF Fits
  <2>3. posted'[c] = posted[c] \/ posted'[c] = posted[c] \cup {q}
    BY <1>1 DEF RecvRequest
  <2>4. Flagged(c, "recv")' /\ ~Flagged(c, "send")'
    BY <1>7, <2>1 DEF Flagged, Merge
  <2>5. UNCHANGED <<queue, object, recvLast, sendLast, unread>> /\ c \notin clientsBuff'
    BY DEF Merge
  <2>6. "recv" \in Kinds /\ \A k \in Kinds \ {"recv"} : Flagged(c, k)' <=> Flagged(c, k)
    BY <2>1, <2>4 DEF Kinds
  <2> HIDE DEF q
  <2> QED BY <2>1, <2>2, <2>3, <2>4, <2>5, <2>6, PostedInv
<1> QED BY <1>4, <1>6, <1>7 DEF IOCPInv

LEMMA ExpireKeeps ==
  ASSUME IOCPInv, NEW c \in Clients, Expire(c)
  PROVE  IOCPInv'
<1> USE DEF objVars, flagVars, buffVars, netVars
<1>1. pc = "check" /\ c \in clients /\ clients' = clients \ {c} /\ todo = {} /\ IOCPTypeOK
  BY DEF Expire, IOCPInv, IOCPTypeOK
<1>2. UNCHANGED <<acceptPosted, netVars, clientsBuff, todo, pc, sending>>
  BY DEF Expire
<1>3. \A d \in Clients : Shift(d, 0) /\ d \notin unread \cap clients
  BY <1>1, <1>2, SameQueue DEF IOCPInv, ClientInv, UnreadInv
<1>4. AnswersFit'
  BY <1>2 DEF IOCPInv, AnswersFit
<1>5. CASE c \in isPostRecv \cup isPostSend
  <2>1. open' = open \ {c} /\ UNCHANGED <<clientAccept, object, flagVars, buffVars>>
    BY <1>5 DEF Expire
  <2>2. IOCPTypeOK'
    BY <1>1, <1>2, <2>1 DEF IOCPTypeOK
  <2>3. \A d \in Clients : Kept(d) /\ d \notin unread' \cap clients'
    BY <1>1, <1>2, <1>3, <2>1 DEF Kept
  <2> QED BY <1>3, <1>4, <2>2, <2>3, KeptInv DEF IOCPInv
<1>6. CASE c \notin isPostRecv \cup isPostSend
  <2>1. OnClientLeave(c)
    BY <1>6 DEF Expire
  <2>2. IOCPTypeOK'
    BY <1>1, <1>2, <2>1, FreedTyped DEF IOCPTypeOK
  <2>3. \A d \in Clients : d # c => Kept(d) /\ d \notin unread' \cap clients'
    BY <1>1, <1>2, <1>3, <2>1, FreedTyped DEF Kept
  <2>4. \A d \in Clients : d # c => ClientInv(d)'
    BY <1>3, <2>3, KeptInv DEF IOCPInv
  <2>5. Quiet(c, "recv") /\ Quiet(c, "send")
    BY <1>1, <1>6 DEF IOCPInv, ClientInv, RequestInv, SilentInv, Flagged, Kinds
  <2>6. Quiet(c, "recv")' /\ Quiet(c, "send")'
    BY <1>2, <1>3, <2>5, ShiftReports
  <2>7. c \notin clients' \cup clientsBuff'
    BY <1>1, <1>2 DEF IOCPInv, ClientInv, SilentInv
  <2>8. object[c] = "live"
    BY <1>1 DEF IOCPInv, ClientInv, SilentInv
  <2>9. ClientInv(c)'
    BY <1>2, <1>3, <2>1, <2>6, <2>7, <2>8, FreedInv
  <2> QED BY <1>4, <2>2, <2>4, <2>9 DEF IOCPInv
<1> QED BY <1>5, <1>6
-----------------------------------------------------------------------------
(* Posting, from a loop over the map in which nothing is unread.           *)

\* A client of the map which the loop has yet to visit.
LEMMA Visited ==
  ASSUME IOCPInv, NEW c \in Clients, pc \in {"send", "msg"}, Visits(c)
  PROVE  /\ c \in todo /\ c \in clients /\ c \notin clientsBuff /\ object[c] = "live"
         /\ pc = "send" => \A d \in Clients : d \notin unread \cap clients
BY DEF Visits, IOCPInv, IOCPTypeOK, ClientInv, SilentInv, UnreadInv

\* A post that succeeds.
LEMMA PostKeeps ==
  ASSUME IOCPInv, NEW c \in Clients, NEW io \in Kinds, pc = "send", Visits(c), ~Flagged(c, io),
         NEW q \in Requests, q.io = io, Fits(c, q),
         NEW requests \in {{}, {q}}, Post(c, requests),
         isPostRecv' = IF io = "recv" THEN isPostRecv \cup {c} ELSE isPostRecv,
         isPostSend' = IF io = "send" THEN isPostSend \cup {c} ELSE isPostSend,
         sending' = IF io = "send" THEN sending \cup {c} ELSE sending,
         todo' \subseteq todo, UNCHANGED <<acceptPosted, queue, hungUp, clientsBuff, pc>>
  PROVE  IOCPInv'
<1> USE DEF objVars, buffVars, Kinds
<1>1. /\ posted' = [posted EXCEPT ![c] = @ \cup requests]
      /\ UNCHANGED <<objVars, clientAccept, clients, buffVars>>
  BY DEF Post
<1>2. posted' \in [Clients -> SUBSET Requests]
  BY <1>1 DEF IOCPInv, IOCPTypeOK
<1>3. IOCPTypeOK' /\ AnswersFit'
  BY <1>1, <1>2 DEF IOCPInv, IOCPTypeOK, AnswersFit
<1>4. \A d \in Clients : d # c => Shift(d, 0) /\ Kept(d)
  BY <1>1, SameQueue DEF IOCPInv, IOCPTypeOK, Kept
<1>5. \A d \in Clients : d # c => ClientInv(d)'
  BY <1>4, OthersKept, Visited
<1>6. /\ object[c] = "live" /\ c \notin clientsBuff /\ c \notin unread
      /\ Flagged(c, "send") => c \in sending
  BY Visited DEF IOCPInv, ClientInv, UnreadInv
<1>7. Quiet(c, io)
  BY <1>6 DEF IOCPInv, ClientInv, RequestInv
<1>8. posted'[c] = posted[c] \/ posted'[c] = posted[c] \cup {q}
  BY <1>1 DEF IOCPInv, IOCPTypeOK
<1>9. Flagged(c, io)' /\ \A k \in Kinds \ {io} : Flagged(c, k)' <=> Flagged(c, k)
  BY DEF Flagged
<1>10. Flagged(c, "send")' => c \in sending'
  BY <1>6, <1>9
<1>11. ClientInv(c)'
  BY <1>1, <1>6, <1>7, <1>8, <1>9, <1>10, PostedInv
<1> QED BY <1>3, <1>5, <1>11 DEF IOCPInv

\* A post that fails.
LEMMA PostFailedKeeps ==
  ASSUME IOCPInv, NEW c \in Clients, pc = "send", Visits(c), PostFailed(c), todo' = todo \ {c},
         sending' \in {sending, sending \cup {c}}, c \in sending' \/ ~Flagged(c, "send"), ~Flagged(c, "recv") \/ c \in sending',
         ~Flagged(c, "recv") \/ ~Flagged(c, "send"),
         UNCHANGED <<acceptPosted, queue, hungUp, clientsBuff, pc>>
  PROVE  IOCPInv'
<1> USE DEF objVars, buffVars
<1>1. OnClientLeave(c) /\ clients' = clients \ {c} /\ posted' = posted /\ IOCPTypeOK
  BY DEF PostFailed, IOCPInv
<1>2. IOCPTypeOK'
  BY <1>1, FreedTyped DEF IOCPTypeOK
<1>3. AnswersFit'
  BY DEF IOCPInv, AnswersFit
<1>4. \A d \in Clients : Shift(d, 0) /\ (d # c => Kept(d))
  BY <1>1, SameQueue, FreedTyped DEF Kept
<1>5. \A d \in Clients : d # c => ClientInv(d)'
  BY <1>4, OthersKept, Visited
<1>6. object[c] = "live" /\ c \notin clientsBuff
  BY Visited
<1>7. c \in sending' \/ (Quiet(c, "recv") /\ Quiet(c, "send"))
  BY <1>6 DEF IOCPInv, ClientInv, RequestInv, Kinds
<1>8. c \in sending' \/ (Quiet(c, "recv")' /\ Quiet(c, "send")')
  BY <1>1, <1>4, <1>7, ShiftReports
<1>9. Quiet(c, "recv")' \/ Quiet(c, "send")'
  <2>1. Quiet(c, "recv") \/ Quiet(c, "send")
    BY <1>6 DEF IOCPInv, ClientInv, RequestInv, Kinds
  <2> QED BY <1>1, <1>4, <2>1, ShiftReports
<1>10. ClientInv(c)'
  <2>1. posted'[c] = posted[c] /\ c \notin clients' \cup clientsBuff' /\ Shift(c, 0)
    BY <1>1, <1>4, <1>6
  <2> QED BY <1>1, <1>6, <1>8, <1>9, <2>1, FreedInv
<1> QED BY <1>2, <1>3, <1>5, <1>10 DEF IOCPInv

LEMMA PostSendKeeps ==
  ASSUME IOCPInv, NEW c \in Clients, PostSend(c)
  PROVE  IOCPInv'
<1> DEFINE q == [io |-> "send", at |-> sendLast[c]]
<1>1. pc = "send" /\ Visits(c) /\ sendLast[c] > 0 /\ ~Flagged(c, "send") /\ sending' = sending \cup {c}
  BY DEF PostSend, Flagged
<1>2. q \in Requests /\ q.io = "send" /\ Fits(c, q) /\ {q} \in {{}, {q}} /\ "send" \in Kinds
  BY SizesPos DEF Requests, Fits, Kinds, IOCPInv, IOCPTypeOK
<1>3. UNCHANGED <<acceptPosted, queue, hungUp, clientsBuff, pc>>
  BY DEF PostSend
<1>4. CASE Post(c, {q}) /\ isPostSend' = isPostSend \cup {c} /\ UNCHANGED <<isPostRecv, todo>>
  <2> HIDE DEF q
  <2> QED BY <1>1, <1>2, <1>3, <1>4, PostKeeps
<1>5. CASE PostFailed(c) /\ todo' = todo \ {c}
  BY <1>1, <1>3, <1>5, PostFailedKeeps
<1> QED BY <1>4, <1>5 DEF PostSend

LEMMA PostRecvKeeps ==
  ASSUME IOCPInv, NEW c \in Clients, PostRecv(c)
  PROVE  IOCPInv'
<1> DEFINE q == [io |-> "recv", at |-> recvLast[c]]
<1>1. /\ pc = "send" /\ Visits(c) /\ ~Flagged(c, "recv") /\ todo' = todo \ {c}
      /\ UNCHANGED <<acceptPosted, queue, hungUp, clientsBuff, pc, sending>>
  BY DEF PostRecv, Flagged
<1>2. q \in Requests /\ q.io = "recv" /\ Fits(c, q) /\ RecvRequest(c) \in {{}, {q}} /\ "recv" \in Kinds
  BY SizesPos DEF Requests, Fits, RecvRequest, Kinds, IOCPInv, IOCPTypeOK
<1>3. CASE Post(c, RecvRequest(c)) /\ isPostRecv' = isPostRecv \cup {c} /\ UNCHANGED isPostSend
  <2> HIDE DEF q
  <2> QED BY <1>1, <1>2, <1>3, PostKeeps
<1>4. CASE PostFailed(c)
  <2>1. Flagged(c, "send") => c \in sending'
    BY <1>1 DEF IOCPInv, ClientInv, UnreadInv
  <2> QED BY <1>1, <1>4, <2>1, PostFailedKeeps
<1> QED BY <1>3, <1>4 DEF PostRecv

LEMMA PostNothingKeeps ==
  ASSUME IOCPInv, NEW c \in Clients, PostNothing(c)
  PROVE  IOCPInv'
<1>1. todo' \subseteq clients /\ pc = "send" /\ \A d \in Clients : d \notin unread \cap clients
  BY Visited DEF PostNothing, IOCPInv, IOCPTypeOK
<1>2. \A d \in Clients : d \in unread /\ d \in clients =>
         pc' \in {"event", "wild"} \/ (pc' = "msg" /\ d \in todo')
  BY <1>1
<1>3. /\ UNCHANGED <<acceptPosted, clientAccept, objVars, flagVars, buffVars, netVars,
                     clientsBuff, clients, sending>>
      /\ pc' = "send"
  BY <1>1 DEF PostNothing
<1> QED BY <1>1, <1>2, <1>3, PhaseKeeps
-----------------------------------------------------------------------------
(* A completion, and the messages.                                         *)

\* The first completion, of a client that is live, is the only thing
\* outstanding of its kind.
LEMMA HeadReport ==
  ASSUME IOCPInv, queue # <<>>, queue' = Tail(queue), posted' = posted,
         NEW e, e = Head(queue), object[e.client] = "live"
  PROVE  /\ e \in Completions /\ Fits(e.client, e)
         /\ e.bytes <= IF e.io = "recv" THEN BuffSize - e.at ELSE e.at
         /\ e.client \notin clientsBuff /\ Flagged(e.client, e.io)
         /\ Quiet(e.client, e.io)'
<1> DEFINE c == e.client
<1>1. 1 \in DOMAIN queue /\ e = queue[1] /\ e \in Completions /\ IOCPTypeOK
  BY QueueTyped, HeadTailProperties DEF IOCPInv, IOCPTypeOK
<1>2. c \in Clients /\ e.io \in Kinds /\ ClientInv(c)
  BY <1>1 DEF Completions, IOCPInv
<1>3. About(c, e.io, 1) /\ Reported(c, e.io) /\ 1 \in Queued(c)
  BY <1>1 DEF About, Reported, Queued
<1>4. Single(c, e.io) /\ Flagged(c, e.io) /\ Fits(c, e)
  BY <1>1, <1>2, <1>3 DEF ClientInv, RequestInv, Quiet
<1>5. c \notin clientsBuff
  BY <1>2, <1>3 DEF ClientInv, SilentInv, Quiet, Kinds
<1>6. \A i \in DOMAIN queue' : i + 1 \in DOMAIN queue /\ queue'[i] = queue[i + 1] /\ i + 1 # 1
  BY <1>1, HeadTailProperties DEF IOCPTypeOK
<1>7. ~Reported(c, e.io)'
  BY <1>1, <1>3, <1>4, <1>6 DEF Single, Reported, About
<1>8. ~Posted(c, e.io)'
  BY <1>3, <1>4 DEF Single, Posted
<1>9. e.bytes <= IF e.io = "recv" THEN BuffSize - e.at ELSE e.at
  BY <1>1 DEF IOCPInv, AnswersFit
<1> QED BY <1>1, <1>4, <1>5, <1>7, <1>8, <1>9 DEF Quiet

LEMMA TailShift ==
  ASSUME IOCPInv, queue # <<>>, queue' = Tail(queue)
  PROVE  AnswersFit' /\ \A d : Shift(d, 1)
<1>1. queue' \in Seq(Completions)
  BY HeadTailProperties DEF IOCPInv, IOCPTypeOK
<1>2. \A i \in DOMAIN queue' : i + 1 \in DOMAIN queue /\ queue'[i] = queue[i + 1]
  BY HeadTailProperties DEF IOCPInv, IOCPTypeOK
<1> QED BY <1>1, <1>2 DEF IOCPInv, AnswersFit, Shift

LEMMA NetEventKeeps == IOCPInv /\ NetEvent => IOCPInv'
<1> SUFFICES ASSUME IOCPInv, NetEvent PROVE IOCPInv'
  OBVIOUS
<1> USE DEF objVars, flagVars, buffVars
<1>0. PICK e : e = Head(queue)
  OBVIOUS
<1> DEFINE c == e.client
<1>1. /\ pc = "event" /\ queue # <<>> /\ queue' = Tail(queue)
      /\ UNCHANGED <<acceptPosted, posted, hungUp, clientsBuff, todo>>
  BY DEF NetEvent
<1>2. AnswersFit' /\ queue' \in Seq(Completions) /\ \A d : Shift(d, 1)
  BY <1>1, TailShift DEF Shift
<1>3. CASE object[c] = "freed" /\ pc' = "wild" /\ UNCHANGED <<clientAccept, objVars, flagVars, buffVars, clients, sending>>
  <2>1. IOCPTypeOK'
    BY <1>1, <1>2, <1>3 DEF IOCPInv, IOCPTypeOK
  <2>2. \A d \in Clients : Kept(d)
    BY <1>1, <1>3 DEF Kept
  <2> QED BY <1>2, <1>3, <2>1, <2>2, KeptInv DEF IOCPInv
<1>4. CASE object[c] = "live" /\ UNCHANGED pc /\
           \/ e.bytes = 0 /\ RemoveClient(c)
           \/ e.bytes > 0 /\ e.io = "recv" /\ Received(c, e.bytes)
           \/ e.bytes > 0 /\ e.io = "send" /\ Sent(c, e.bytes)
  <2>1. /\ e \in Completions /\ Fits(c, e)
        /\ e.bytes <= IF e.io = "recv" THEN BuffSize - e.at ELSE e.at
        /\ c \notin clientsBuff /\ Flagged(c, e.io) /\ Quiet(c, e.io)'
    BY <1>0, <1>1, <1>4, HeadReport
  <2>2. /\ c \in Clients /\ e.io \in Kinds /\ e.bytes \in Nat /\ e.at \in Nat /\ e.at <= BuffSize
        /\ recvLast[c] \in 0..BuffSize /\ sendLast[c] \in 0..BuffSize /\ BuffSize \in Nat
    BY <2>1, SizesPos DEF Completions, IOCPInv, IOCPTypeOK
  <2>3. RequestInv(c) /\ SilentInv(c) /\ UnreadInv(c) /\ IOCPTypeOK
    BY <2>2 DEF IOCPInv, ClientInv
  <2> HIDE DEF c
  <2>4. CASE e.bytes = 0 /\ RemoveClient(c)
    <3>1. OnClientLeave(c) /\ clients' = clients \ {c} /\ sending' = sending
      BY <2>4 DEF RemoveClient
    <3>2. IOCPTypeOK'
      BY <1>1, <1>2, <1>4, <2>2, <2>3, <3>1, FreedTyped DEF IOCPTypeOK
    <3>3. \A d \in Clients : d # c => Kept(d)
      BY <1>1, <2>2, <2>3, <3>1, FreedTyped DEF Kept
    <3>4. \A d \in Clients : d # c => ClientInv(d)'
      BY <1>1, <1>2, <1>4, <3>3, OthersKept
    <3>5. c \in sending' \/ (Quiet(c, "recv")' /\ Quiet(c, "send")')
      <4> SUFFICES ASSUME c \notin sending PROVE Quiet(c, "recv")' /\ Quiet(c, "send")'
        BY <3>1
      <4>1. ~Flagged(c, "send") /\ e.io = "recv"
        BY <2>1, <2>2, <2>3 DEF UnreadInv, Kinds
      <4>2. Quiet(c, "send")
        BY <1>4, <2>3, <4>1 DEF RequestInv, Kinds
      <4>3. Quiet(c, "send")'
        BY <1>1, <1>2, <4>2, ShiftReports
      <4> QED BY <2>1, <4>1, <4>3
    <3>6. c \notin clients' \cup clientsBuff'
      BY <1>1, <2>1, <3>1
    <3>7. Quiet(c, "recv")' \/ Quiet(c, "send")'
      BY <2>1, <2>2 DEF Kinds
    <3>8. posted'[c] = posted[c] /\ Shift(c, 1)
      BY <1>1, <1>2
    <3>9. ClientInv(c)'
      BY <1>4, <2>2, <3>1, <3>5, <3>6, <3>7, <3>8, FreedInv
    <3> QED BY <1>2, <3>2, <3>4, <3>9 DEF IOCPInv
  <2>5. CASE e.bytes > 0 /\ e.io = "recv" /\ Received(c, e.bytes)
    <3>1. recvLast[c] + e.bytes \in 0..BuffSize
      BY <2>1, <2>2, <2>5 DEF Fits
    <3>2. IOCPTypeOK'
      BY <1>1, <1>2, <1>4, <2>2, <2>3, <2>5, <3>1 DEF Received, IOCPTypeOK
    <3>3. \A d \in Clients : d # c => Kept(d)
      BY <1>1, <2>2, <2>3, <2>5 DEF Received, IOCPTypeOK, Kept
    <3>4. \A d \in Clients : d # c => ClientInv(d)'
      BY <1>1, <1>2, <1>4, <3>3, OthersKept
    <3>5. (Flagged(c, "send")' <=> Flagged(c, "send")) /\ ~Flagged(c, "recv")'
      BY <2>5 DEF Received, Flagged
    <3>6. RequestInv(c)'
      BY <1>1, <1>2, <1>4, <2>1, <2>2, <2>5, <3>2, <3>5, BuffersInv DEF Received, Kinds
    <3>7. SilentInv(c)'
      BY <1>1, <1>4, <2>1, <2>3, <2>5, <3>5 DEF Received, SilentInv
    <3>8. UnreadInv(c)'
      BY <1>1, <1>4, <2>3, <2>5, <3>5 DEF Received, UnreadInv
    <3>9. LeftInv(c)'
      BY <1>4, <2>5 DEF Received, LeftInv
    <3> QED BY <1>2, <3>2, <3>4, <3>6, <3>7, <3>8, <3>9 DEF IOCPInv, ClientInv
  <2>6. CASE e.bytes > 0 /\ e.io = "send" /\ Sent(c, e.bytes)
    <3>1. sendLast[c] - e.bytes \in 0..BuffSize
      BY <2>1, <2>2, <2>6 DEF Fits
    <3>2. IOCPTypeOK'
      BY <1>1, <1>2, <1>4, <2>2, <2>3, <2>6, <3>1 DEF Sent, IOCPTypeOK
    <3>3. \A d \in Clients : d # c => Kept(d)
      BY <1>1, <2>2, <2>3, <2>6 DEF Sent, IOCPTypeOK, Kept
    <3>4. \A d \in Clients : d # c => ClientInv(d)'
      BY <1>1, <1>2, <1>4, <3>3, OthersKept
    <3>5. (Flagged(c, "recv")' <=> Flagged(c, "recv")) /\ ~Flagged(c, "send")'
      BY <2>6 DEF Sent, Flagged
    <3>6. RequestInv(c)'
      BY <1>1, <1>2, <1>4, <2>1, <2>2, <2>6, <3>2, <3>5, BuffersInv DEF Sent, Kinds
    <3>7. SilentInv(c)'
      BY <1>1, <1>4, <2>1, <2>3, <2>6, <3>5 DEF Sent, SilentInv
    <3>8. UnreadInv(c)'
      BY <1>1, <1>4, <2>3, <2>6, <3>5 DEF Sent, UnreadInv
    <3>9. LeftInv(c)'
      BY <1>4, <2>6 DEF Sent, LeftInv
    <3> QED BY <1>2, <3>2, <3>4, <3>6, <3>7, <3>8, <3>9 DEF IOCPInv, ClientInv
  <2> QED BY <1>4, <2>4, <2>5, <2>6
<1> QED BY <1>0, <1>3, <1>4 DEF NetEvent

LEMMA DoMsgKeeps ==
  ASSUME IOCPInv, NEW c \in Clients, DoMsg(c)
  PROVE  IOCPInv'
<1> USE DEF objVars, flagVars, netVars
<1>1. /\ pc = "msg" /\ c \in todo /\ c \in clients /\ c \notin clientsBuff /\ object[c] = "live"
      /\ todo' = todo \ {c} /\ unread' = unread \ {c}
  BY Visited DEF DoMsg
<1>2. UNCHANGED <<acceptPosted, clientAccept, objVars, flagVars, netVars, clientsBuff, clients, pc, sending>>
  BY DEF DoMsg
<1>3. /\ recvLast' \in [Clients -> 0..BuffSize] /\ sendLast' \in [Clients -> 0..BuffSize]
      /\ \A d \in Clients : d # c => recvLast'[d] = recvLast[d] /\ sendLast'[d] = sendLast[d]
      /\ sendLast'[c] >= sendLast[c]
      /\ c \notin unread => recvLast'[c] = recvLast[c]
  <2>1. recvLast[c] \in 0..BuffSize /\ sendLast[c] \in 0..BuffSize /\ BuffSize \in Nat /\ IOCPTypeOK
    BY SizesPos DEF IOCPInv, IOCPTypeOK
  <2>2. CASE c \in unread
    <3>1. PICK rest \in 0..recvLast[c] : recvLast' = [recvLast EXCEPT ![c] = rest]
      BY <2>2 DEF DoMsg
    <3>2. PICK n \in 0..(BuffSize - sendLast[c]) : sendLast' = [sendLast EXCEPT ![c] = @ + n]
      BY <2>1, <2>2 DEF DoMsg
    <3>3. rest \in 0..BuffSize /\ sendLast[c] + n \in 0..BuffSize /\ sendLast[c] + n >= sendLast[c]
      BY <2>1, <3>1, <3>2
    <3> QED BY <2>1, <2>2, <3>1, <3>2, <3>3 DEF IOCPTypeOK
  <2>3. CASE c \notin unread
    BY <2>1, <2>3 DEF DoMsg, IOCPTypeOK
  <2> QED BY <2>2, <2>3
<1>4. IOCPTypeOK' /\ AnswersFit'
  BY <1>1, <1>2, <1>3 DEF IOCPInv, IOCPTypeOK, AnswersFit
<1>5. \A d \in Clients : Shift(d, 0) /\ (d # c => Kept(d))
  BY <1>1, <1>2, <1>3, SameQueue DEF IOCPInv, Kept
<1>6. \A d \in Clients : d # c => ClientInv(d)'
  BY <1>1, <1>2, <1>5, OthersKept DEF IOCPInv, ClientInv, UnreadInv
<1>7. RequestInv(c) /\ SilentInv(c) /\ UnreadInv(c)
  BY DEF IOCPInv, ClientInv
<1>8. \A io \in Kinds : Flagged(c, io) => Flagged(c, io)'
  BY <1>2 DEF Flagged
<1>9. recvLast'[c] = recvLast[c] \/ Quiet(c, "recv")'
  <2> SUFFICES ASSUME c \in unread PROVE Quiet(c, "recv")'
    BY <1>3
  <2>1. Quiet(c, "recv")
    BY <1>1, <1>7 DEF RequestInv, UnreadInv, Kinds
  <2> QED BY <1>2, <1>5, <2>1, ShiftReports
<1>10. RequestInv(c)'
  BY <1>1, <1>2, <1>3, <1>4, <1>5, <1>8, <1>9, BuffersInv
<1>11. SilentInv(c)' /\ UnreadInv(c)' /\ LeftInv(c)'
  BY <1>1, <1>2, <1>7 DEF SilentInv, UnreadInv, LeftInv, Flagged
<1> QED BY <1>4, <1>6, <1>10, <1>11 DEF IOCPInv, ClientInv
-----------------------------------------------------------------------------
LEMMA InitIOCPInv == Init => IOCPInv
<1> SUFFICES ASSUME Init PROVE IOCPInv
  OBVIOUS
<1> USE DEF Init
<1>1. IOCPTypeOK
  BY SizesPos DEF IOCPTypeOK
<1>2. DOMAIN queue = {} /\ \A c \in Clients : posted[c] = {}
  OBVIOUS
<1>3. AnswersFit
  BY <1>2 DEF AnswersFit
<1>4. \A c \in Clients : ClientInv(c)
  BY <1>2 DEF ClientInv, RequestInv, SilentInv, UnreadInv, LeftInv, Quiet, Posted, Reported, Flagged
<1> QED BY <1>1, <1>3, <1>4 DEF IOCPInv

LEMMA StepIOCPInv == IOCPInv /\ [Next]_vars => IOCPInv'
<1> SUFFICES ASSUME IOCPInv, [Next]_vars PROVE IOCPInv'
  OBVIOUS
<1>1. ASSUME NEW c \in Clients, IOCPAccept(c) \/ HangUp(c) \/ \E r \in posted[c] : Complete(c, r)
      PROVE  IOCPInv'
  BY <1>1, AcceptKeeps, HangUpKeeps, CompleteKeeps
<1>2. CASE CheckTime
  BY <1>2, ExpireKeeps, PhasesKeep DEF CheckTime
<1>3. CASE OnRun
  <2>1. ASSUME NEW c \in Clients, PostSend(c) \/ PostRecv(c) \/ PostNothing(c) \/ DoMsg(c)
        PROVE  IOCPInv'
    BY <2>1, PostSendKeeps, PostRecvKeeps, PostNothingKeeps, DoMsgKeeps
  <2> QED BY <1>3, <2>1, MergeKeeps, PhasesKeep, NetEventKeeps DEF OnRun
<1>4. CASE UNCHANGED vars
  BY <1>4, PhasesKeep
<1> QED BY <1>1, <1>2, <1>3, <1>4 DEF Next
-----------------------------------------------------------------------------
LEMMA SingleCount ==
  ASSUME NEW c, NEW io, Single(c, io)
  PROVE  Outstanding(c, io) = 0 \/ (Outstanding(c, io) = 1 /\ ~Quiet(c, io))
<1> DEFINE P == {r \in posted[c] : r.io = io}
           Q == {i \in Queued(c) : queue[i].io = io}
<1>1. (P # {} <=> Posted(c, io)) /\ (Q # {} <=> Reported(c, io))
  BY DEF Posted, Reported, Queued, About
<1>2. (P = {} \/ Q = {}) /\ (P # {} \/ Q # {} => ~Quiet(c, io))
  BY <1>1 DEF Single, Quiet
<1>3. Cardinality(P) \in {0, 1} /\ (P = {} => Cardinality(P) = 0)
  <2>1. \A q, r \in P : q = r
    BY DEF Single
  <2>2. ASSUME NEW r \in P PROVE P = {r}
    BY <2>1, <2>2
  <2> HIDE DEF P
  <2> QED BY <2>2, FS_EmptySet, FS_Singleton
<1>4. Cardinality(Q) \in {0, 1} /\ (Q = {} => Cardinality(Q) = 0)
  <2>1. \A i, j \in Q : i = j
    BY DEF Single, Queued, About
  <2>2. ASSUME NEW i \in Q PROVE Q = {i}
    BY <2>1, <2>2
  <2> HIDE DEF Q
  <2> QED BY <2>2, FS_EmptySet, FS_Singleton
<1>5. Outstanding(c, io) = Cardinality(P) + Cardinality(Q)
  BY DEF Outstanding
<1> HIDE DEF P, Q
<1>6. CASE P = {} /\ Q = {}
  BY <1>3, <1>4, <1>5, <1>6
<1>7. CASE P # {} \/ Q # {}
  BY <1>2, <1>3, <1>4, <1>5, <1>7
<1> QED BY <1>6, <1>7

LEMMA IOCPInvCorrect == IOCPInv => OneRequest /\ BuffersStill /\ FreedUnposted
<1> SUFFICES ASSUME IOCPInv PROVE OneRequest /\ BuffersStill /\ FreedUnposted
  OBVIOUS
<1>1. OneRequest
  <2> SUFFICES ASSUME NEW c \in Clients, object[c] = "live"
               PROVE  /\ Outstanding(c, "recv") <= IF c \in isPostRecv THEN 1 ELSE 0
                      /\ Outstanding(c, "send") <= IF c \in isPostSend THEN 1 ELSE 0
    BY DEF OneRequest
  <2>1. \A io \in Kinds : Single(c, io) /\ (Quiet(c, io) \/ Flagged(c, io))
    BY DEF IOCPInv, ClientInv, RequestInv
  <2>2. \A io \in Kinds : Outstanding(c, io) = 0 \/ (Outstanding(c, io) = 1 /\ Flagged(c, io))
    BY <2>1, SingleCount
  <2> QED BY <2>2 DEF Flagged, Kinds
<1>2. ASSUME NEW c \in Clients, object[c] = "live"
      PROVE  /\ \A r \in posted[c] : Fits(c, r) /\ r.io \in Kinds
             /\ \A i \in Queued(c) : Fits(c, queue[i]) /\ queue[i].io \in Kinds
  <2>1. RequestInv(c) /\ IOCPTypeOK
    BY DEF IOCPInv, ClientInv
  <2>2. \A r \in posted[c] : r.io \in Kinds
    BY <2>1 DEF IOCPTypeOK, Requests
  <2>3. \A i \in Queued(c) : queue[i].io \in Kinds
    BY <2>1, QueueTyped DEF Queued, Completions
  <2> QED BY <1>2, <2>1, <2>2, <2>3 DEF RequestInv
<1>3. BuffersStill
  BY <1>2 DEF BuffersStill, Fits, Kinds
<1>4. FreedUnposted
  <2> SUFFICES ASSUME NEW c \in Clients, object[c] = "freed"
               PROVE  Outstanding(c, "recv") + Outstanding(c, "send") <= IF c \in sending THEN 1 ELSE 0
    BY DEF FreedUnposted
  <2>1. /\ Single(c, "recv") /\ Single(c, "send")
        /\ Quiet(c, "recv") \/ Quiet(c, "send")
        /\ c \in sending \/ (Quiet(c, "recv") /\ Quiet(c, "send"))
    BY DEF IOCPInv, ClientInv, LeftInv, SilentInv, Kinds
  <2>2. /\ Outstanding(c, "recv") = 0 \/ (Outstanding(c, "recv") = 1 /\ ~Quiet(c, "recv"))
        /\ Outstanding(c, "send") = 0 \/ (Outstanding(c, "send") = 1 /\ ~Quiet(c, "send"))
    BY <2>1, SingleCount
  <2> QED BY <2>1, <2>2
<1> QED BY <1>1, <1>3, <1>4

\* CellIOCPServer: a live client has at most one request of a kind with the
\* kernel, and none whose flag is not set; neither buffer moves under its
\* request.  A client that is freed, by the heartbeat, by a completion of no
\* bytes or by a post that fails, leaves nothing outstanding unless a send of
\* it was under way, and then at most one request (whose completion follows
\* the freed pointer: the code does reach that).
THEOREM RequestsCorrect == SafeSpec => [](OneRequest /\ BuffersStill /\ FreedUnposted)
BY InitIOCPInv, StepIOCPInv, IOCPInvCorrect, PTL DEF SafeSpec
=============================================================================
