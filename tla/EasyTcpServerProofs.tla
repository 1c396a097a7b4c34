------------------------- MODULE EasyTcpServerProofs -------------------------
(***************************************************************************)
(* The counters, the connection limit, the holders of the clients and the  *)
(* keys of the maps are right, for any number of connections, descriptors  *)
(* and cell servers, and whichever way the cell servers poll.  With epoll  *)
(* the pointers of a report are right too, and with select the descriptors *)
(* that are copied from one poll to the next.                              *)
(***************************************************************************)
EXTENDS CellEpollServer, CellSelectServer, FiniteSetTheorems, SequenceTheorems, TLAPS

\* where a loop over the map removes a client, has counted it out of
\* _clientAccept, and of _clientJoin too
Loops == {"check", "read", "write"}
Goes == {"expiring", "readLeaving", "writeLeaving"}
Left == {"expired", "readLeft", "writeLeft"}

\* where a thread has no client in hand
Plain == Loops \cup {"loop", "merge", "poll", "event", "msg", "ended"}

Places == Plain \cup {"join"} \cup Goes \cup Left \cup Erasing \cup OutOfMap

ServerTypeOK ==
  /\ object \in [Clients -> {"none", "live", "freed", "refused"}]
  /\ hand \in Clients \cup {None}
  /\ scan \in Nat \ {0} /\ minServer \in Servers
  /\ clientAccept \in Int /\ clientJoin \in Int
  /\ clientsBuff \in [Servers -> Seq(Clients)]
  /\ DOMAIN clients = Servers /\ clients = [s \in Servers |-> clients[s]]
  /\ \A s \in Servers : clients[s] \in [DOMAIN clients[s] -> Clients]
  /\ pc \in [Servers -> Places]
  /\ mergeAt \in [Servers -> Nat]
  /\ victim \in [Servers -> Clients \cup {None}]

\* The live clients, and no others, have an open socket, each with a
\* descriptor of its own.
SockInv ==
  /\ sock \in [Live -> Fds]
  /\ \A c, d \in Live : sock[c] = sock[d] => c = d

\* A map entry is filed under its client's descriptor, unless it is the one
\* that is to be erased.
KeyAt(s) ==
  \A f \in DOMAIN clients[s] :
     LET c == clients[s][f] IN
     ~(pc[s] \in Erasing /\ c = victim[s]) => c \in Live /\ sock[c] = f

KeyInv == \A s \in Servers : KeyAt(s)

\* Where the thread of a cell server is, and what it has at hand there.
PlaceAt(s) ==
  /\ mergeAt[s] <= Len(clientsBuff[s])
  /\ mergeAt[s] > 0 => pc[s] \in Merging
  /\ pc[s] = "join" => mergeAt[s] > 0 /\ clientsBuff[s][mergeAt[s]] \in Entries(s)
  /\ \A i, j \in (mergeAt[s] + 1)..Len(clientsBuff[s]) :
        clientsBuff[s][i] = clientsBuff[s][j] => i = j
  /\ pc[s] \in Goes \cup Left => victim[s] \in Entries(s)
  /\ pc[s] \in OutOfMap => victim[s] \in Clients
  /\ pc[s] \in Erasing => victim[s] \in Clients /\ object[victim[s]] = "freed"

PlaceInv == \A s \in Servers : PlaceAt(s)

\* Every live client has one holder.
OwnInv ==
  /\ hand # None => hand \in Live
  /\ Leaving \subseteq Live
  /\ \A c \in Live : c = hand \/ \E s \in Servers : c \in Held(s)
  /\ \A s \in Servers :
       /\ Held(s) \subseteq Live /\ hand \notin Held(s)
       /\ Waiting(s) \cap Entries(s) = {}
       /\ Waiting(s) \cap Removed(s) = {}
       /\ Entries(s) \cap Removed(s) = {}
       /\ \A r \in Servers : r # s => Held(r) \cap Held(s) = {}

AllJoined == UNION {Joined(s) : s \in Servers}

CountInv ==
  /\ clientAccept = Cardinality(Live \ Leaving)
  /\ clientAccept <= MaxClient
  /\ clientJoin = Cardinality(AllJoined)

ServerInv == ServerTypeOK /\ SockInv /\ KeyInv /\ PlaceInv /\ OwnInv /\ CountInv
-----------------------------------------------------------------------------
(* What a step may do to the holders of the clients.                       *)

HoldsSame(s) == Waiting(s)' = Waiting(s) /\ Entries(s)' = Entries(s) /\ Removed(s)' = Removed(s)
Kept(s) == HoldsSame(s) /\ Joined(s)' = Joined(s)

AllKept == \A s \in Servers : Kept(s)
OthersKept(s) == \A r \in Servers : r # s => Kept(r)

Stays ==
  /\ hand' = hand /\ Live' = Live /\ Leaving' = Leaving /\ AllKept
  /\ UNCHANGED countVars

Arrives(c) ==
  /\ hand = None /\ hand' = c /\ c \in Clients \ Live
  /\ Live' = Live \cup {c} /\ Leaving' = Leaving /\ AllKept
  /\ clientAccept < MaxClient /\ clientAccept' = clientAccept + 1 /\ clientJoin' = clientJoin

Given(s) ==
  /\ hand # None /\ hand' = None /\ Live' = Live /\ Leaving' = Leaving
  /\ Waiting(s)' = Waiting(s) \cup {hand}
  /\ Entries(s)' = Entries(s) /\ Removed(s)' = Removed(s)
  /\ Joined(s)' = Joined(s) /\ OthersKept(s)
  /\ UNCHANGED countVars

Joins(s, c) ==
  /\ hand' = hand /\ Live' = Live /\ Leaving' = Leaving
  /\ c \in Waiting(s) /\ Waiting(s)' = Waiting(s) \ {c} /\ Entries(s)' = Entries(s) \cup {c}
  /\ Removed(s)' = Removed(s) /\ Joined(s)' = Joined(s) /\ OthersKept(s)
  /\ UNCHANGED countVars

CountedIn(s, c) ==
  /\ c \in Entries(s) \ Joined(s) /\ Joined(s)' = Joined(s) \cup {c}
  /\ hand' = hand /\ Live' = Live /\ Leaving' = Leaving /\ HoldsSame(s) /\ OthersKept(s)
  /\ clientAccept' = clientAccept /\ clientJoin' = clientJoin + 1

CountedOutNow(s, c) ==
  /\ c \in (Entries(s) \cup Removed(s)) \ Leaving
  /\ hand' = hand /\ Live' = Live /\ Leaving' = Leaving \cup {c} /\ AllKept
  /\ clientAccept' = clientAccept - 1 /\ clientJoin' = clientJoin

CountedOff(s, c) ==
  /\ c \in Joined(s) /\ Joined(s)' = Joined(s) \ {c}
  /\ hand' = hand /\ Live' = Live /\ Leaving' = Leaving /\ HoldsSame(s) /\ OthersKept(s)
  /\ clientAccept' = clientAccept /\ clientJoin' = clientJoin - 1

Dies(s, c) ==
  /\ c \in Leaving \cap (Entries(s) \cup Removed(s))
  /\ hand' = hand /\ Live' = Live \ {c} /\ Leaving' = Leaving \ {c}
  /\ Waiting(s)' = Waiting(s)
  /\ Entries(s)' = Entries(s) \ {c} /\ Removed(s)' = Removed(s) \ {c}
  /\ Joined(s)' = Joined(s) /\ OthersKept(s)
  /\ UNCHANGED countVars

TakenOut(s, c) ==
  /\ hand' = hand /\ Live' = Live /\ Leaving' = Leaving
  /\ c \in Entries(s) /\ Removed(s) = {} /\ Removed(s)' = {c}
  /\ Waiting(s)' = Waiting(s) /\ Entries(s)' = Entries(s) \ {c}
  /\ Joined(s)' = Joined(s) /\ OthersKept(s)
  /\ UNCHANGED countVars

OwnStep ==
  \/ Stays
  \/ \E c \in Clients : Arrives(c)
  \/ \E s \in Servers :
        \/ Given(s)
        \/ \E c \in Clients : \/ Joins(s, c) \/ CountedIn(s, c) \/ CountedOutNow(s, c)
                              \/ CountedOff(s, c) \/ Dies(s, c) \/ TakenOut(s, c)

Owners == OwnInv /\ CountInv /\ clientAccept \in Int /\ clientJoin \in Int

LEMMA Finite ==
  \A set \in SUBSET Clients : IsFiniteSet(set) /\ Cardinality(set) \in Nat
BY ClientsFinite, FS_Subset, FS_CardinalityType

LEMMA AllJoinedIs ==
  ASSUME NEW s \in Servers, OthersKept(s)
  PROVE  /\ Joined(s)' = Joined(s) => AllJoined' = AllJoined
         /\ \A c : Joined(s)' = Joined(s) \cup {c} => AllJoined' = AllJoined \cup {c}
         /\ \A c : /\ Joined(s)' = Joined(s) \ {c}
                   /\ \A r \in Servers : r # s => c \notin Joined(r)
                   => AllJoined' = AllJoined \ {c}
<1>1. \A r \in Servers : r # s => Joined(r)' = Joined(r)
  BY DEF OthersKept, Kept
<1>2. \A c : c \in AllJoined <=> \E r \in Servers : c \in Joined(r)
  BY DEF AllJoined
<1>3. \A c : c \in AllJoined' <=> \E r \in Servers : c \in Joined(r)'
  BY DEF AllJoined
<1>4. Joined(s)' = Joined(s) => AllJoined' = AllJoined
  BY <1>1, <1>2, <1>3
<1>5. ASSUME NEW c, Joined(s)' = Joined(s) \cup {c} PROVE AllJoined' = AllJoined \cup {c}
  BY <1>1, <1>2, <1>3, <1>5
<1>6. ASSUME NEW c, Joined(s)' = Joined(s) \ {c}, \A r \in Servers : r # s => c \notin Joined(r)
      PROVE  AllJoined' = AllJoined \ {c}
  BY <1>1, <1>2, <1>3, <1>6
<1> QED BY <1>4, <1>5, <1>6

LEMMA AllJoinedKept == AllKept => AllJoined' = AllJoined
BY DEF AllKept, Kept, AllJoined

LEMMA OwnSets ==
  ASSUME OwnInv
  PROVE  /\ Live \subseteq Clients /\ Leaving \subseteq Clients /\ AllJoined \subseteq Clients
         /\ \A s \in Servers : Joined(s) \subseteq Held(s)
BY DEF OwnInv, Live, Held, Joined, AllJoined

LEMMA StaysKeeps ==
  ASSUME Owners, Stays PROVE Owners'
<1>1. AllJoined' = AllJoined /\ hand' = hand /\ UNCHANGED <<clientAccept, clientJoin>>
  BY AllJoinedKept DEF Stays, countVars
<1>2. \A s \in Servers : Waiting(s)' = Waiting(s) /\ Entries(s)' = Entries(s) /\ Removed(s)' = Removed(s)
  BY DEF Stays, AllKept, Kept, HoldsSame
<1>3. \A s \in Servers : Held(s)' = Held(s)
  BY <1>2 DEF Held
<1>4. Live' = Live /\ Leaving' = Leaving
  BY DEF Stays
<1>5. OwnInv'
  BY <1>1, <1>2, <1>3, <1>4 DEF Owners, OwnInv
<1>6. CountInv'
  BY <1>1, <1>4 DEF Owners, CountInv
<1> QED BY <1>1, <1>5, <1>6 DEF Owners

LEMMA ArrivesKeeps ==
  ASSUME Owners, NEW c \in Clients, Arrives(c) PROVE Owners'
<1>1. /\ AllJoined' = AllJoined /\ hand = None /\ hand' = c /\ c \notin Live /\ c # None
      /\ Live' = Live \cup {c} /\ Leaving' = Leaving
      /\ clientAccept < MaxClient /\ clientAccept' = clientAccept + 1 /\ clientJoin' = clientJoin
  BY AllJoinedKept, ClientsFinite DEF Arrives
<1>2. \A s \in Servers : Waiting(s)' = Waiting(s) /\ Entries(s)' = Entries(s) /\ Removed(s)' = Removed(s)
  BY DEF Arrives, AllKept, Kept, HoldsSame
<1>3. \A s \in Servers : Held(s)' = Held(s)
  BY <1>2 DEF Held
<1>4. OwnInv'
  <2>1. \A d \in Live' : d = hand' \/ \E s \in Servers : d \in Held(s)'
    <3>1. \A d \in Live : \E s \in Servers : d \in Held(s)
      BY <1>1, ClientsFinite DEF Owners, OwnInv, Live
    <3> QED BY <1>1, <1>3, <3>1
  <2>2. ASSUME NEW s \in Servers
        PROVE  /\ Held(s)' \subseteq Live' /\ hand' \notin Held(s)'
               /\ Waiting(s)' \cap Entries(s)' = {} /\ Waiting(s)' \cap Removed(s)' = {}
               /\ Entries(s)' \cap Removed(s)' = {}
               /\ \A r \in Servers : r # s => Held(r)' \cap Held(s)' = {}
    BY <1>1, <1>2, <1>3 DEF Owners, OwnInv
  <2>3. hand' \in Live' /\ Leaving' \subseteq Live'
    BY <1>1 DEF Owners, OwnInv
  <2> QED BY <2>1, <2>2, <2>3 DEF OwnInv
<1>5. Live' \ Leaving' = (Live \ Leaving) \cup {c} /\ c \notin Live \ Leaving
  BY <1>1 DEF Owners, OwnInv
<1>6. Live \ Leaving \in SUBSET Clients
  BY OwnSets DEF Owners
<1>7. /\ Cardinality(Live' \ Leaving') = Cardinality(Live \ Leaving) + 1
      /\ Cardinality(Live \ Leaving) \in Nat
  BY <1>5, <1>6, Finite, FS_AddElement
<1>8. CountInv'
  BY <1>1, <1>6, <1>7, Finite, MaxClientNat DEF Owners, CountInv
<1> QED BY <1>1, <1>4, <1>8 DEF Owners

LEMMA GivenKeeps ==
  ASSUME Owners, NEW s \in Servers, Given(s) PROVE Owners'
<1>1. PICK c : c = hand
  OBVIOUS
<1>2. /\ c # None /\ hand' = None /\ Live' = Live /\ Leaving' = Leaving /\ OthersKept(s)
      /\ Waiting(s)' = Waiting(s) \cup {c} /\ Entries(s)' = Entries(s) /\ Removed(s)' = Removed(s)
      /\ UNCHANGED <<clientAccept, clientJoin>>
  BY <1>1 DEF Given, countVars
<1>3. \A r \in Servers : r # s => /\ Waiting(r)' = Waiting(r) /\ Entries(r)' = Entries(r)
                                  /\ Removed(r)' = Removed(r) /\ Held(r)' = Held(r)
  BY <1>2 DEF OthersKept, Kept, HoldsSame, Held
<1>4. Held(s)' = Held(s) \cup {c}
  BY <1>2 DEF Held
<1>5. c \in Live /\ \A r \in Servers : c \notin Held(r) /\ None \notin Live /\ None \notin Held(r)
  BY <1>1, <1>2, ClientsFinite DEF Owners, OwnInv, Live
<1>6. OwnInv'
  <2>1. \A d \in Live : d = hand' \/ \E r \in Servers : d \in Held(r)'
    BY <1>1, <1>3, <1>4 DEF Owners, OwnInv
  <2>2. ASSUME NEW r \in Servers
        PROVE  /\ Held(r)' \subseteq Live /\ None \notin Held(r)'
               /\ Waiting(r)' \cap Entries(r)' = {} /\ Waiting(r)' \cap Removed(r)' = {}
               /\ Entries(r)' \cap Removed(r)' = {}
    <3>1. CASE r = s
      BY <1>2, <1>4, <1>5, <3>1 DEF Owners, OwnInv, Held
    <3>2. CASE r # s
      BY <1>3, <1>5, <3>2 DEF Owners, OwnInv
    <3> QED BY <3>1, <3>2
  <2>3. ASSUME NEW r \in Servers, NEW q \in Servers, q # r PROVE Held(q)' \cap Held(r)' = {}
    BY <1>3, <1>4, <1>5, <2>3 DEF Owners, OwnInv
  <2> QED BY <1>2, <2>1, <2>2, <2>3 DEF Owners, OwnInv
<1>7. CountInv'
  <2>1. AllJoined' = AllJoined
    BY <1>2, AllJoinedIs DEF Given
  <2> QED BY <1>2, <2>1 DEF Owners, CountInv
<1> QED BY <1>2, <1>6, <1>7 DEF Owners

LEMMA JoinsKeeps ==
  ASSUME Owners, NEW s \in Servers, NEW c \in Clients, Joins(s, c) PROVE Owners'
<1>1. /\ hand' = hand /\ Live' = Live /\ Leaving' = Leaving /\ OthersKept(s)
      /\ c \in Waiting(s) /\ Waiting(s)' = Waiting(s) \ {c} /\ Entries(s)' = Entries(s) \cup {c}
      /\ Removed(s)' = Removed(s)
      /\ UNCHANGED <<clientAccept, clientJoin>>
  BY DEF Joins, countVars
<1>2. \A r \in Servers : r # s => /\ Waiting(r)' = Waiting(r) /\ Entries(r)' = Entries(r)
                                  /\ Removed(r)' = Removed(r) /\ Held(r)' = Held(r)
  BY <1>1 DEF OthersKept, Kept, HoldsSame, Held
<1>3. Held(s)' = Held(s)
  BY <1>1 DEF Held
<1>4. \A r \in Servers : Held(r)' = Held(r)
  BY <1>2, <1>3
<1>5. OwnInv'
  <2>1. ASSUME NEW r \in Servers
        PROVE  /\ Waiting(r)' \cap Entries(r)' = {} /\ Waiting(r)' \cap Removed(r)' = {}
               /\ Entries(r)' \cap Removed(r)' = {}
    <3>1. CASE r = s
      BY <1>1, <3>1 DEF Owners, OwnInv
    <3>2. CASE r # s
      BY <1>2, <3>2 DEF Owners, OwnInv
    <3> QED BY <3>1, <3>2
  <2> QED BY <1>1, <1>4, <2>1 DEF Owners, OwnInv
<1>6. CountInv'
  <2>1. AllJoined' = AllJoined
    BY AllJoinedIs DEF Joins
  <2> QED BY <1>1, <2>1 DEF Owners, CountInv
<1> QED BY <1>1, <1>5, <1>6 DEF Owners

\* OnNetJoin and the second half of OnNetLeave move nobody.
LEMMA CountedKeeps ==
  ASSUME Owners, NEW s \in Servers, NEW c \in Clients, CountedIn(s, c) \/ CountedOff(s, c)
  PROVE  Owners'
<1>1. /\ hand' = hand /\ Live' = Live /\ Leaving' = Leaving /\ clientAccept' = clientAccept
      /\ HoldsSame(s) /\ OthersKept(s)
  BY DEF CountedIn, CountedOff
<1>2. \A r \in Servers : Waiting(r)' = Waiting(r) /\ Entries(r)' = Entries(r) /\ Removed(r)' = Removed(r)
  <2> TAKE r \in Servers
  <2>1. CASE r = s
    BY <1>1, <2>1 DEF HoldsSame
  <2>2. CASE r # s
    BY <1>1, <2>2 DEF OthersKept, Kept, HoldsSame
  <2> QED BY <2>1, <2>2
<1>3. \A r \in Servers : Held(r)' = Held(r)
  BY <1>2 DEF Held
<1>4. OwnInv'
  BY <1>1, <1>2, <1>3 DEF Owners, OwnInv
<1>5. c \in Held(s) /\ \A r \in Servers : r # s => c \notin Joined(r)
  <2>1. c \in Held(s)
    BY DEF CountedIn, CountedOff, Joined, Held
  <2> QED BY <2>1, OwnSets DEF Owners, OwnInv
<1>6. IsFiniteSet(AllJoined) /\ Cardinality(AllJoined) \in Nat
  BY OwnSets, Finite DEF Owners
<1>7. clientJoin' = Cardinality(AllJoined')
  <2>1. CASE CountedIn(s, c)
    <3>1. AllJoined' = AllJoined \cup {c} /\ c \notin AllJoined
      BY <1>1, <1>5, <2>1, AllJoinedIs DEF CountedIn, AllJoined
    <3>2. Cardinality(AllJoined \cup {c}) = Cardinality(AllJoined) + 1
      BY <1>6, <3>1, FS_AddElement
    <3> QED BY <2>1, <3>1, <3>2 DEF CountedIn, Owners, CountInv
  <2>2. CASE CountedOff(s, c)
    <3>1. AllJoined' = AllJoined \ {c} /\ c \in AllJoined
      BY <1>1, <1>5, <2>2, AllJoinedIs DEF CountedOff, AllJoined
    <3>2. Cardinality(AllJoined \ {c}) = Cardinality(AllJoined) - 1
      BY <1>6, <3>1, FS_RemoveElement
    <3> QED BY <2>2, <3>1, <3>2 DEF CountedOff, Owners, CountInv
  <2> QED BY <2>1, <2>2
<1>8. CountInv'
  BY <1>1, <1>7 DEF Owners, CountInv
<1>9. clientJoin' \in Int
  BY DEF CountedIn, CountedOff, Owners
<1> QED BY <1>1, <1>4, <1>8, <1>9 DEF Owners

LEMMA CountedOutKeeps ==
  ASSUME Owners, NEW s \in Servers, NEW c \in Clients, CountedOutNow(s, c) PROVE Owners'
<1>1. /\ c \in Entries(s) \cup Removed(s) /\ c \notin Leaving
      /\ hand' = hand /\ Live' = Live /\ Leaving' = Leaving \cup {c} /\ AllJoined' = AllJoined
      /\ clientAccept' = clientAccept - 1 /\ clientJoin' = clientJoin
  BY AllJoinedKept DEF CountedOutNow
<1>2. \A r \in Servers : Waiting(r)' = Waiting(r) /\ Entries(r)' = Entries(r) /\ Removed(r)' = Removed(r)
  BY DEF CountedOutNow, AllKept, Kept, HoldsSame
<1>3. \A r \in Servers : Held(r)' = Held(r)
  BY <1>2 DEF Held
<1>4. c \in Live
  BY <1>1 DEF Owners, OwnInv, Held
<1>5. OwnInv'
  <2>1. Leaving' \subseteq Live' /\ \A r \in Servers : Held(r)' \subseteq Live'
    BY <1>1, <1>3, <1>4 DEF Owners, OwnInv
  <2>2. \A d \in Live' : d = hand' \/ \E r \in Servers : d \in Held(r)'
    BY <1>1, <1>3 DEF Owners, OwnInv
  <2>3. ASSUME NEW r \in Servers
        PROVE  /\ hand' \notin Held(r)'
               /\ Waiting(r)' \cap Entries(r)' = {} /\ Waiting(r)' \cap Removed(r)' = {}
               /\ Entries(r)' \cap Removed(r)' = {}
               /\ \A q \in Servers : q # r => Held(q)' \cap Held(r)' = {}
    BY <1>1, <1>2, <1>3 DEF Owners, OwnInv
  <2>4. hand' # None => hand' \in Live'
    BY <1>1 DEF Owners, OwnInv
  <2> QED BY <2>1, <2>2, <2>3, <2>4 DEF OwnInv
<1>6. Live' \ Leaving' = (Live \ Leaving) \ {c} /\ c \in Live \ Leaving
  BY <1>1, <1>4
<1>7. Live \ Leaving \in SUBSET Clients
  BY OwnSets DEF Owners
<1>8. Cardinality(Live' \ Leaving') = Cardinality(Live \ Leaving) - 1
  <2>1. IsFiniteSet(Live \ Leaving)
    BY <1>7, Finite
  <2>2. Cardinality((Live \ Leaving) \ {c}) = Cardinality(Live \ Leaving) - 1
    BY <1>6, <2>1, FS_RemoveElement
  <2> QED BY <1>6, <2>1, <2>2, Zenon
<1>9. CountInv'
  BY <1>1, <1>8, MaxClientNat DEF Owners, CountInv
<1> QED BY <1>1, <1>5, <1>9 DEF Owners

LEMMA DiesKeeps ==
  ASSUME Owners, NEW s \in Servers, NEW c \in Clients, Dies(s, c) PROVE Owners'
<1>1. /\ c \in Leaving /\ c \in Entries(s) \cup Removed(s)
      /\ hand' = hand /\ Live' = Live \ {c} /\ Leaving' = Leaving \ {c} /\ OthersKept(s)
      /\ Waiting(s)' = Waiting(s) /\ Entries(s)' = Entries(s) \ {c} /\ Removed(s)' = Removed(s) \ {c}
      /\ UNCHANGED <<clientAccept, clientJoin>>
  BY DEF Dies, countVars
<1>2. \A r \in Servers : r # s => /\ Waiting(r)' = Waiting(r) /\ Entries(r)' = Entries(r)
                                  /\ Removed(r)' = Removed(r) /\ Held(r)' = Held(r)
  BY <1>1 DEF OthersKept, Kept, HoldsSame, Held
<1>3. /\ c \in Held(s) /\ c \notin Waiting(s) /\ hand # c
      /\ \A r \in Servers : r # s => c \notin Held(r)
  BY <1>1 DEF Owners, OwnInv, Held
<1>4. Held(s)' = Held(s) \ {c}
  BY <1>1, <1>3 DEF Held
<1>5. OwnInv'
  <2>1. \A d \in Live' : d = hand' \/ \E r \in Servers : d \in Held(r)'
    BY <1>1, <1>2, <1>4 DEF Owners, OwnInv
  <2>2. ASSUME NEW r \in Servers
        PROVE  /\ Held(r)' \subseteq Live' /\ hand' \notin Held(r)'
               /\ Waiting(r)' \cap Entries(r)' = {} /\ Waiting(r)' \cap Removed(r)' = {}
               /\ Entries(r)' \cap Removed(r)' = {}
    <3>1. CASE r = s
      BY <1>1, <1>4, <3>1 DEF Owners, OwnInv
    <3>2. CASE r # s
      BY <1>1, <1>2, <1>3, <3>2 DEF Owners, OwnInv
    <3> QED BY <3>1, <3>2
  <2>3. ASSUME NEW r \in Servers, NEW q \in Servers, q # r PROVE Held(q)' \cap Held(r)' = {}
    BY <1>2, <1>4, <2>3 DEF Owners, OwnInv
  <2>4. (hand' # None => hand' \in Live') /\ Leaving' \subseteq Live'
    BY <1>1, <1>3 DEF Owners, OwnInv
  <2> QED BY <2>1, <2>2, <2>3, <2>4 DEF OwnInv
<1>6. AllJoined' = AllJoined /\ Live' \ Leaving' = Live \ Leaving
  BY <1>1, AllJoinedIs DEF Dies
<1>7. CountInv'
  BY <1>1, <1>6 DEF Owners, CountInv
<1> QED BY <1>1, <1>5, <1>7 DEF Owners

LEMMA TakenOutKeeps ==
  ASSUME Owners, NEW s \in Servers, NEW c \in Clients, TakenOut(s, c) PROVE Owners'
<1>1. /\ hand' = hand /\ Live' = Live /\ Leaving' = Leaving /\ OthersKept(s)
      /\ c \in Entries(s) /\ Removed(s) = {} /\ Removed(s)' = {c}
      /\ Waiting(s)' = Waiting(s) /\ Entries(s)' = Entries(s) \ {c}
      /\ UNCHANGED <<clientAccept, clientJoin>>
  BY DEF TakenOut, countVars
<1>2. \A r \in Servers : r # s => /\ Waiting(r)' = Waiting(r) /\ Entries(r)' = Entries(r)
                                  /\ Removed(r)' = Removed(r) /\ Held(r)' = Held(r)
  BY <1>1 DEF OthersKept, Kept, HoldsSame, Held
<1>3. Held(s)' = Held(s)
  BY <1>1 DEF Held
<1>4. \A r \in Servers : Held(r)' = Held(r)
  BY <1>2, <1>3
<1>5. OwnInv'
  <2>1. ASSUME NEW r \in Servers
        PROVE  /\ Waiting(r)' \cap Entries(r)' = {} /\ Waiting(r)' \cap Removed(r)' = {}
               /\ Entries(r)' \cap Removed(r)' = {}
    <3>1. CASE r = s
      BY <1>1, <3>1 DEF Owners, OwnInv
    <3>2. CASE r # s
      BY <1>2, <3>2 DEF Owners, OwnInv
    <3> QED BY <3>1, <3>2
  <2> QED BY <1>1, <1>4, <2>1 DEF Owners, OwnInv
<1>6. AllJoined' = AllJoined
  BY <1>1, AllJoinedIs DEF TakenOut
<1>7. CountInv'
  BY <1>1, <1>6 DEF Owners, CountInv
<1> QED BY <1>1, <1>5, <1>7 DEF Owners

LEMMA OwnStepKeeps == Owners /\ OwnStep => Owners'
BY StaysKeeps, ArrivesKeeps, GivenKeeps, JoinsKeeps, CountedKeeps, CountedOutKeeps, DiesKeeps,
   TakenOutKeeps
   DEF OwnStep
-----------------------------------------------------------------------------
(* What the steps of the threads are to the holders.                       *)

StateInv == ServerTypeOK /\ SockInv /\ KeyInv /\ PlaceInv

LEMMA EntriesIs ==
  ASSUME ServerTypeOK, NEW s \in Servers
  PROVE  /\ pc[s] \notin Erasing => Entries(s) = {clients[s][f] : f \in DOMAIN clients[s]}
         /\ pc[s] \in Erasing =>
              Entries(s) = {clients[s][f] : f \in {g \in DOMAIN clients[s] : clients[s][g] # victim[s]}}
         /\ Entries(s) \subseteq Clients
         /\ Removed(s) = IF pc[s] \in OutOfMap THEN {victim[s]} ELSE {}
<1>1. Entries(s) \subseteq Clients
  BY DEF Entries, ServerTypeOK
<1> QED BY <1>1 DEF Entries, Removed

\* where a client that is leaving is no longer counted by _clientAccept
Out == HalfOut \cup CountedOut

LEMMA LeavingIs ==
  \A c : c \in Leaving <=> \E s \in Servers : pc[s] \in Out /\ c = victim[s]
BY DEF Leaving, Out

LEMMA JoinedIs ==
  ASSUME NEW s \in Servers
  PROVE  /\ pc[s] \notin CountedOut \cup {"join"} => Joined(s) = Entries(s) \cup Removed(s)
         /\ pc'[s] \notin CountedOut \cup {"join"} => Joined(s)' = Entries(s)' \cup Removed(s)'
         /\ pc[s] \in CountedOut => Joined(s) = (Entries(s) \cup Removed(s)) \ {victim[s]}
         /\ pc'[s] \in CountedOut =>
              Joined(s)' = (Entries(s)' \cup Removed(s)') \ {victim'[s]}
         /\ pc[s] = "join" =>
              Joined(s) = (Entries(s) \cup Removed(s)) \ {clientsBuff[s][mergeAt[s]]}
         /\ pc'[s] = "join" =>
              Joined(s)' = (Entries(s)' \cup Removed(s)') \ {clientsBuff'[s][mergeAt'[s]]}
<1>1. "join" \notin CountedOut
  BY DEF CountedOut
<1> QED BY <1>1 DEF Joined, Uncounted

\* The kinds of places are apart.
LEMMA PlacesApart ==
  /\ Plain \cap (Goes \cup Left \cup Erasing \cup OutOfMap \cup Out \cup {"join"}) = {}
  /\ Goes \cap (Left \cup Erasing \cup OutOfMap \cup CountedOut) = {} /\ HalfOut \cap CountedOut = {}
  /\ Left \cap (Erasing \cup OutOfMap) = {} /\ Erasing \cap (OutOfMap \cup Out) = {}
  /\ HalfOut = Goes \cup {"removing"} /\ CountedOut = Left \cup {"delete"}
  /\ OutOfMap = {"remove", "removing", "delete"} /\ Out = HalfOut \cup CountedOut /\ "remove" \notin Out
  /\ Loops \subseteq Plain /\ Merging = {"merge", "join"}
  /\ Merging \cap (Loops \cup Goes \cup Left \cup Erasing \cup OutOfMap \cup Out) = {}
BY DEF Plain, Loops, Goes, Left, Erasing, OutOfMap, HalfOut, CountedOut, Out, Merging

LEMMA LeavingHeld ==
  ASSUME ServerInv, NEW s \in Servers, pc[s] \in Out \cup OutOfMap
  PROVE  /\ victim[s] \in Clients /\ victim[s] \in Entries(s) \cup Removed(s)
         /\ victim[s] \in Held(s)
<1>1. victim[s] \in Entries(s) \cup Removed(s)
  BY EntriesIs, PlacesApart DEF ServerInv, PlaceInv, PlaceAt
<1>2. victim[s] \in Clients
  BY EntriesIs, PlacesApart DEF ServerInv, PlaceInv, PlaceAt
<1> QED BY <1>1, <1>2 DEF Held

\* A step that leaves a cell server alone.
Untouched(s) ==
  /\ clientsBuff'[s] = clientsBuff[s] /\ clients'[s] = clients[s] /\ pc'[s] = pc[s]
  /\ mergeAt'[s] = mergeAt[s] /\ victim'[s] = victim[s]

LEMMA UntouchedKept ==
  ASSUME NEW s, Untouched(s)
  PROVE  Kept(s)
BY DEF Untouched, Kept, HoldsSame, Waiting, Entries, Removed, Joined, Uncounted

\* A thread goes from one place to another, with nothing in hand.
LEMMA PlainStep ==
  ASSUME ServerInv, NEW s \in Servers, NEW to \in Plain,
         pc[s] \in Plain \ {"merge"}, pc' = [pc EXCEPT ![s] = to],
         UNCHANGED <<sock, object, countVars, acceptVars, clientsBuff, clients, mergeAt, victim>>
  PROVE  Stays /\ StateInv'
<1> USE PlacesApart DEF countVars, acceptVars
<1>1. /\ \A r \in Servers : r # s => pc'[r] = pc[r]
      /\ pc'[s] = to /\ pc' \in [Servers -> Places]
  BY DEF ServerInv, ServerTypeOK, Places
<1>2. ServerTypeOK'
  BY <1>1 DEF ServerInv, ServerTypeOK
<1>3. \A r \in Servers : /\ Waiting(r)' = Waiting(r) /\ Entries(r)' = Entries(r)
                         /\ Removed(r)' = Removed(r)
  <2> TAKE r \in Servers
  <2>1. CASE r = s
    BY <1>1, <2>1 DEF Waiting, Entries, Removed
  <2>2. CASE r # s
    BY <1>1, <2>2 DEF Waiting, Entries, Removed
  <2> QED BY <2>1, <2>2
<1>4. Live' = Live
  BY DEF Live
<1>5. Leaving' = Leaving
  <2>1. \A r \in Servers : pc'[r] \in Out <=> pc[r] \in Out
    BY <1>1
  <2> QED BY <2>1 DEF Leaving, Out
<1>6. Stays
  <2>1. ASSUME NEW r \in Servers PROVE Joined(r)' = Joined(r)
    <3>1. CASE r = s
      BY <1>1, <1>3, <3>1, JoinedIs
    <3>2. CASE r # s
      BY <1>1, <1>3, <3>2 DEF Joined, Uncounted
    <3> QED BY <3>1, <3>2
  <2> QED BY <1>3, <1>4, <1>5, <2>1 DEF Stays, AllKept, Kept, HoldsSame
<1>7. SockInv' /\ KeyInv'
  BY <1>1, <1>4 DEF ServerInv, SockInv, KeyInv, KeyAt
<1>8. PlaceInv'
  BY <1>1, <1>3 DEF ServerInv, PlaceInv, PlaceAt
<1> QED BY <1>2, <1>6, <1>7, <1>8 DEF StateInv

LEMMA Elsewhere ==
  ASSUME ServerInv, NEW r \in Servers, Untouched(r),
         \A c \in Clients : object[c] = "freed" => object'[c] = "freed",
         \A c \in Held(r) : c \in Live' /\ sock'[c] = sock[c]
  PROVE  Kept(r) /\ KeyAt(r)' /\ PlaceAt(r)'
<1>1. Kept(r)
  BY UntouchedKept
<1>2. KeyAt(r)'
  <2> SUFFICES ASSUME NEW f \in DOMAIN clients[r], ~(pc[r] \in Erasing /\ clients[r][f] = victim[r])
               PROVE  clients[r][f] \in Live' /\ sock'[clients[r][f]] = f
    BY DEF Untouched, KeyAt
  <2>1. clients[r][f] \in Entries(r)
    BY EntriesIs DEF ServerInv
  <2> QED BY <2>1 DEF Held, ServerInv, KeyInv, KeyAt
<1>3. PlaceAt(r)'
  BY <1>1 DEF Untouched, Kept, HoldsSame, ServerInv, PlaceInv, PlaceAt
<1> QED BY <1>1, <1>2, <1>3

\* The step of the accept thread, or of a peer, that leaves every cell
\* server alone.
LEMMA OutsideStep ==
  ASSUME ServerInv, UNCHANGED <<clientsBuff, clients, pc, mergeAt, victim>>,
         \A c \in Clients : object[c] = "freed" => object'[c] = "freed",
         \A c \in Live : c \in Live' /\ sock'[c] = sock[c]
  PROVE  AllKept /\ KeyInv' /\ PlaceInv' /\ Leaving' = Leaving
<1>1. \A r \in Servers : Untouched(r) /\ \A c \in Held(r) : c \in Live' /\ sock'[c] = sock[c]
  BY DEF Untouched, ServerInv, OwnInv
<1>2. \A r \in Servers : Kept(r) /\ KeyAt(r)' /\ PlaceAt(r)'
  BY <1>1, Elsewhere
<1>3. Leaving' = Leaving
  BY DEF Leaving
<1> QED BY <1>2, <1>3 DEF AllKept, KeyInv, PlaceInv

LEMMA AcceptKeeps ==
  ASSUME ServerInv, NEW c \in Clients, Accept(c)
  PROVE  Arrives(c) /\ StateInv'
<1> USE DEF cellVars
<1>1. PICK f \in Fds \ Range(sock) :
        sock' = [d \in DOMAIN sock \cup {c} |-> IF d = c THEN f ELSE sock[d]]
  BY DEF Accept
<1>2. /\ c \in Clients \ Live /\ Live' = Live \cup {c}
      /\ object' \in [Clients -> {"none", "live", "freed", "refused"}]
      /\ \A d \in Clients : object[d] = "freed" => object'[d] = "freed"
  BY DEF Accept, Live, ServerInv, ServerTypeOK
<1>3. SockInv' /\ \A d \in Live : sock'[d] = sock[d]
  <2>1. \A d \in Live : d \in DOMAIN sock /\ sock[d] \in Fds /\ sock[d] # f /\ d # c
    BY <1>1, <1>2 DEF ServerInv, SockInv, Range
  <2>2. sock' \in [Live' -> Fds] /\ sock'[c] = f /\ \A d \in Live : sock'[d] = sock[d]
    BY <1>1, <1>2, <2>1 DEF ServerInv, SockInv
  <2> QED BY <1>2, <2>1, <2>2 DEF ServerInv, SockInv
<1>4. AllKept /\ KeyInv' /\ PlaceInv' /\ Leaving' = Leaving
  BY <1>2, <1>3, OutsideStep DEF Accept
<1>5. ServerTypeOK'
  BY <1>2, NumServersPos DEF Accept, ServerInv, ServerTypeOK, Servers
<1> QED BY <1>2, <1>3, <1>4, <1>5 DEF Accept, Arrives, StateInv

LEMMA AtRest ==
  ASSUME ServerInv, UNCHANGED <<clientsBuff, clients, pc, mergeAt, victim>>,
         UNCHANGED <<sock, hand, countVars>>, Live' = Live,
         object' \in [Clients -> {"none", "live", "freed", "refused"}],
         \A c \in Clients : object[c] = "freed" => object'[c] = "freed",
         scan' \in Nat \ {0}, minServer' \in Servers
  PROVE  Stays /\ StateInv'
<1>1. AllKept /\ KeyInv' /\ PlaceInv' /\ Leaving' = Leaving
  BY OutsideStep
<1>2. SockInv' /\ ServerTypeOK'
  BY DEF ServerInv, SockInv, ServerTypeOK, countVars
<1> QED BY <1>1, <1>2 DEF Stays, StateInv

LEMMA RestActions ==
  ASSUME ServerInv,
         ReadSize \/ CompareCounts \/ \E c \in Clients : Refuse(c) \/ HangUp(c)
  PROVE  Stays /\ StateInv'
<1> USE DEF cellVars, netVars, countVars, acceptVars
<1>1. /\ object \in [Clients -> {"none", "live", "freed", "refused"}]
      /\ scan \in Nat \ {0} /\ minServer \in Servers
  BY DEF ServerInv, ServerTypeOK
<1>2. CASE CompareCounts
  <2>1. scan' \in Nat \ {0} /\ minServer' \in Servers
    BY <1>1, <1>2 DEF CompareCounts, Servers
  <2> QED BY <1>1, <1>2, <2>1, AtRest DEF CompareCounts, Live
<1>3. ASSUME NEW c \in Clients, Refuse(c) PROVE Stays /\ StateInv'
  <2>1. /\ object' \in [Clients -> {"none", "live", "freed", "refused"}] /\ Live' = Live
        /\ \A d \in Clients : object[d] = "freed" => object'[d] = "freed"
    BY <1>1, <1>3 DEF Refuse, Live
  <2> QED BY <1>1, <1>3, <2>1, AtRest DEF Refuse
<1>4. ASSUME NEW c \in Clients, HangUp(c) PROVE Stays /\ StateInv'
  BY <1>1, <1>4, AtRest DEF HangUp, Live
<1>5. CASE ReadSize
  BY <1>1, <1>5, AtRest DEF ReadSize, Live
<1> QED BY <1>2, <1>3, <1>4, <1>5

LEMMA AddClientKeeps ==
  ASSUME ServerInv, AddClient
  PROVE  Given(minServer) /\ StateInv'
<1> DEFINE s == minServer
<1> USE DEF netVars, countVars
<1>1. /\ s \in Servers /\ hand \in Clients /\ hand # None /\ hand' = None
      /\ clientsBuff \in [Servers -> Seq(Clients)]
      /\ clientsBuff' = [clientsBuff EXCEPT ![s] = Append(clientsBuff[s], hand)]
      /\ mergeAt[s] = 0 /\ hand \notin Waiting(s)
      /\ UNCHANGED <<clients, pc, mergeAt, victim, sock, object, clientAccept, clientJoin, minServer, scan>>
  BY DEF AddClient, ServerInv, ServerTypeOK, PlaceInv, PlaceAt, OwnInv, Held
<1>2. /\ clientsBuff' \in [Servers -> Seq(Clients)] /\ clientsBuff[s] \in Seq(Clients)
      /\ clientsBuff'[s] = Append(clientsBuff[s], hand)
      /\ \A r \in Servers : r # s => Untouched(r)
  BY <1>1, AppendProperties DEF Untouched
<1>3. Live' = Live /\ Leaving' = Leaving
  BY <1>1 DEF Live, Leaving
<1>4. \A r \in Servers : r # s => Kept(r) /\ KeyAt(r)' /\ PlaceAt(r)'
  BY <1>1, <1>2, <1>3, Elsewhere DEF ServerInv, OwnInv
<1>5. Len(clientsBuff'[s]) = Len(clientsBuff[s]) + 1 /\ Len(clientsBuff[s]) \in Nat
  BY <1>1, <1>2, AppendProperties
<1>6. /\ clientsBuff'[s][Len(clientsBuff[s]) + 1] = hand
      /\ \A i \in 1..Len(clientsBuff[s]) : clientsBuff'[s][i] = clientsBuff[s][i]
  BY <1>1, <1>2, AppendProperties
<1>7. Waiting(s)' = Waiting(s) \cup {hand}
  BY <1>1, <1>5, <1>6 DEF Waiting
<1>8. Entries(s)' = Entries(s) /\ Removed(s)' = Removed(s) /\ Joined(s)' = Joined(s)
  <2>1. pc[s] # "join"
    BY DEF AddClient, Merging
  <2> QED BY <1>1, <2>1 DEF Entries, Removed, Joined, Uncounted
<1>9. KeyAt(s)'
  BY <1>1, <1>3 DEF ServerInv, KeyInv, KeyAt
<1>10. \A i \in 1..Len(clientsBuff[s]) : clientsBuff[s][i] # hand
  BY <1>1 DEF Waiting
<1>11. PlaceAt(s)'
  <2>1. \A i, j \in 1..Len(clientsBuff[s]) : clientsBuff[s][i] = clientsBuff[s][j] => i = j
    BY <1>1 DEF ServerInv, PlaceInv, PlaceAt
  <2>2. ASSUME NEW i \in 1..Len(clientsBuff'[s]), NEW j \in 1..Len(clientsBuff'[s]),
               clientsBuff'[s][i] = clientsBuff'[s][j]
        PROVE  i = j
    <3>1. \A k \in 1..Len(clientsBuff'[s]) :
             k \in 1..Len(clientsBuff[s]) \/ k = Len(clientsBuff[s]) + 1
      BY <1>5
    <3>2. CASE i \in 1..Len(clientsBuff[s]) /\ j \in 1..Len(clientsBuff[s])
      BY <1>6, <2>1, <2>2, <3>2
    <3>3. CASE i \in 1..Len(clientsBuff[s]) /\ j = Len(clientsBuff[s]) + 1
      BY <1>6, <1>10, <2>2, <3>3
    <3>4. CASE i = Len(clientsBuff[s]) + 1 /\ j \in 1..Len(clientsBuff[s])
      BY <1>6, <1>10, <2>2, <3>4
    <3> QED BY <3>1, <3>2, <3>3, <3>4
  <2> QED BY <1>1, <1>5, <1>8, <2>2 DEF ServerInv, PlaceInv, PlaceAt
<1>12. SockInv' /\ ServerTypeOK'
  BY <1>1, <1>2, <1>3 DEF ServerInv, SockInv, ServerTypeOK
<1>13. KeyInv' /\ PlaceInv'
  BY <1>1, <1>4, <1>9, <1>11 DEF KeyInv, PlaceInv
<1> QED BY <1>1, <1>3, <1>4, <1>7, <1>8, <1>12, <1>13 DEF Given, StateInv, OthersKept

\* A step of the thread of cell server s.
LEMMA CellSide ==
  ASSUME ServerInv, NEW s \in Servers,
         \A r \in Servers : r # s => Untouched(r),
         \A c \in Clients : object[c] = "freed" => object'[c] = "freed",
         \A c \in Live : c \notin Held(s) => c \in Live' /\ sock'[c] = sock[c],
         KeyAt(s)', PlaceAt(s)'
  PROVE  OthersKept(s) /\ KeyInv' /\ PlaceInv'
<1>1. \A r \in Servers : r # s => \A c \in Held(r) : c \in Live /\ c \notin Held(s)
  BY DEF ServerInv, OwnInv
<1>2. \A r \in Servers : r # s => Kept(r) /\ KeyAt(r)' /\ PlaceAt(r)'
  BY <1>1, Elsewhere
<1> QED BY <1>2 DEF OthersKept, KeyInv, PlaceInv

LEMMA MergeClientKeeps ==
  ASSUME ServerInv, NEW s \in Servers, MergeClient(s)
  PROVE  /\ \E c \in Clients : Joins(s, c)
         /\ StateInv'
<1> DEFINE c == clientsBuff[s][mergeAt[s] + 1]
           f == sock[c]
<1> USE DEF netVars, acceptVars, countVars, Goto
<1>1. /\ clientsBuff[s] \in Seq(Clients) /\ Len(clientsBuff[s]) \in Nat
      /\ mergeAt[s] \in Nat /\ mergeAt[s] + 1 \in 1..Len(clientsBuff[s])
      /\ mergeAt \in [Servers -> Nat] /\ pc[s] = "merge"
      /\ pc' \in [Servers -> Places] /\ pc'[s] = "join"
      /\ DOMAIN clients = Servers /\ clients[s] \in [DOMAIN clients[s] -> Clients]
  BY DEF MergeClient, ServerInv, ServerTypeOK, Places
<1>0. c = clientsBuff[s][mergeAt[s] + 1] /\ f = sock[c]
  OBVIOUS
<1> HIDE DEF c, f
<1>2. c \in Clients /\ c \in Waiting(s) /\ c \in Live /\ c \notin Entries(s) \cup Removed(s)
  BY <1>0, <1>1 DEF Waiting, Held, ServerInv, OwnInv
<1>3. /\ mergeAt' \in [Servers -> Nat] /\ mergeAt'[s] = mergeAt[s] + 1
      /\ DOMAIN clients' = Servers
      /\ clients'[s] = [g \in DOMAIN clients[s] \cup {f} |-> IF g = f THEN c ELSE clients[s][g]]
      /\ clients' = [r \in Servers |-> clients'[r]]
      /\ UNCHANGED <<clientsBuff, victim, sock, object, hand, scan, minServer, clientAccept, clientJoin>>
      /\ \A r \in Servers : r # s => Untouched(r)
  <2>1. PICK m : /\ m = [g \in DOMAIN clients[s] \cup {f} |-> IF g = f THEN c ELSE clients[s][g]]
                 /\ clients' = [clients EXCEPT ![s] = m]
    BY <1>0 DEF MergeClient
  <2>2. /\ mergeAt' = [mergeAt EXCEPT ![s] = mergeAt[s] + 1] /\ pc' = [pc EXCEPT ![s] = "join"]
        /\ UNCHANGED <<clientsBuff, victim, sock, object, hand, scan, minServer, clientAccept, clientJoin>>
    BY DEF MergeClient
  <2>3. mergeAt' \in [Servers -> Nat] /\ mergeAt'[s] = mergeAt[s] + 1
    BY <1>1, <2>2
  <2>4. DOMAIN clients' = Servers /\ clients'[s] = m /\ clients' = [r \in Servers |-> clients'[r]]
    BY <1>1, <2>1
  <2>5. \A r \in Servers : r # s => Untouched(r)
    BY <1>1, <2>1, <2>2 DEF Untouched
  <2> QED BY <2>1, <2>2, <2>3, <2>4, <2>5
<1>4. Live' = Live /\ Leaving' = Leaving
  <2>1. \A r \in Servers : pc'[r] \in Out <=> pc[r] \in Out
    BY <1>1, <1>3, PlacesApart DEF Untouched
  <2> QED BY <1>3, <2>1 DEF Live, Leaving, Out
<1>5. Waiting(s)' = Waiting(s) \ {c}
  <2>1. \A i \in (mergeAt[s] + 1)..Len(clientsBuff[s]) :
           clientsBuff[s][i] = c => i = mergeAt[s] + 1
    BY <1>0, <1>1 DEF ServerInv, PlaceInv, PlaceAt
  <2> QED BY <1>0, <1>1, <1>3, <2>1 DEF Waiting
<1>6. f \notin DOMAIN clients[s]
  <2>1. SUFFICES ASSUME f \in DOMAIN clients[s] PROVE FALSE
    OBVIOUS
  <2>2. clients[s][f] \in Live /\ sock[clients[s][f]] = f /\ clients[s][f] \in Entries(s)
    <3>1. clients[s][f] \in Live /\ sock[clients[s][f]] = f
      BY <1>1, <2>1, PlacesApart DEF ServerInv, KeyInv, KeyAt
    <3>2. clients[s][f] \in Entries(s)
      BY <1>1, <2>1, EntriesIs, PlacesApart DEF ServerInv
    <3> QED BY <3>1, <3>2
  <2>3. clients[s][f] = c
    BY <1>0, <1>2, <2>2 DEF ServerInv, SockInv
  <2> QED BY <1>2, <2>2, <2>3
<1>7. Entries(s) = {clients[s][g] : g \in DOMAIN clients[s]}
  BY <1>1, EntriesIs, PlacesApart DEF ServerInv
<1>8. Entries(s)' = {clients'[s][g] : g \in DOMAIN clients'[s]} /\ Removed(s)' = Removed(s)
  BY <1>1, <1>3 DEF Entries, Removed, Erasing, OutOfMap
<1>9. Entries(s)' = Entries(s) \cup {c}
  <2>1. /\ DOMAIN clients'[s] = DOMAIN clients[s] \cup {f} /\ clients'[s][f] = c
        /\ \A g \in DOMAIN clients[s] : clients'[s][g] = clients[s][g]
    BY <1>3, <1>6
  <2> QED BY <1>7, <1>8, <2>1
<1>10. KeyAt(s)'
  <2>1. \A g \in DOMAIN clients[s] : clients[s][g] \in Live /\ sock[clients[s][g]] = g
    BY <1>1, PlacesApart DEF ServerInv, KeyInv, KeyAt
  <2>2. ASSUME NEW g \in DOMAIN clients'[s]
        PROVE  clients'[s][g] \in Live' /\ sock'[clients'[s][g]] = g
    <3>1. CASE g = f
      BY <1>0, <1>2, <1>3, <1>4, <3>1
    <3>2. CASE g # f
      BY <1>3, <1>4, <2>1, <2>2, <3>2
    <3> QED BY <3>1, <3>2
  <2> QED BY <2>2 DEF KeyAt
<1>11. PlaceAt(s)'
  <2>1. \A i, j \in (mergeAt[s] + 1)..Len(clientsBuff[s]) :
           clientsBuff[s][i] = clientsBuff[s][j] => i = j
    BY DEF ServerInv, PlaceInv, PlaceAt
  <2>2. \A i \in (mergeAt'[s] + 1)..Len(clientsBuff'[s]) : i \in (mergeAt[s] + 1)..Len(clientsBuff[s])
    BY <1>1, <1>3
  <2>3. \A i, j \in (mergeAt'[s] + 1)..Len(clientsBuff'[s]) :
           clientsBuff'[s][i] = clientsBuff'[s][j] => i = j
    BY <1>3, <2>1, <2>2
  <2>4. mergeAt'[s] <= Len(clientsBuff'[s]) /\ pc'[s] = "join" /\ mergeAt'[s] > 0
    BY <1>1, <1>3
  <2>5. clientsBuff'[s][mergeAt'[s]] \in Entries(s)'
    BY <1>0, <1>3, <1>9
  <2> QED BY <2>3, <2>4, <2>5, PlacesApart DEF PlaceAt
<1>12. OthersKept(s) /\ KeyInv' /\ PlaceInv'
  BY <1>3, <1>4, <1>10, <1>11, CellSide
<1>13. \A r \in Servers : clients'[r] \in [DOMAIN clients'[r] -> Clients]
  <2>1. clients'[s] \in [DOMAIN clients'[s] -> Clients]
    BY <1>1, <1>2, <1>3
  <2>2. \A r \in Servers : r # s => clients'[r] = clients[r]
    BY <1>3 DEF Untouched
  <2>3. \A r \in Servers : clients[r] \in [DOMAIN clients[r] -> Clients]
    BY DEF ServerInv, ServerTypeOK
  <2>4. ASSUME NEW r \in Servers PROVE clients'[r] \in [DOMAIN clients'[r] -> Clients]
    <3>1. CASE r = s
      BY <2>1, <3>1
    <3>2. CASE r # s
      <4>1. clients'[r] = clients[r]
        BY <2>2, <3>2
      <4>2. clients[r] \in [DOMAIN clients[r] -> Clients]
        BY <2>3
      <4> QED BY <4>1, <4>2, Zenon
    <3> QED BY <3>1, <3>2
  <2> QED BY <2>4
<1>14. SockInv' /\ ServerTypeOK'
  BY <1>1, <1>3, <1>4, <1>13 DEF ServerInv, SockInv, ServerTypeOK
<1>15. Joined(s)' = Joined(s)
  <2>1. Joined(s) = Entries(s) \cup Removed(s)
    BY <1>1, JoinedIs, PlacesApart
  <2>2. Joined(s)' = (Entries(s)' \cup Removed(s)') \ {clientsBuff'[s][mergeAt'[s]]}
    BY <1>1, JoinedIs
  <2>3. clientsBuff'[s][mergeAt'[s]] = c
    BY <1>0, <1>3
  <2> QED BY <1>2, <1>8, <1>9, <2>1, <2>2, <2>3
<1>16. Joins(s, c)
  BY <1>2, <1>3, <1>4, <1>5, <1>8, <1>9, <1>12, <1>15 DEF Joins
<1> QED BY <1>2, <1>12, <1>14, <1>16 DEF StateInv

\* OnNetJoin counts in the client that was filed last.
LEMMA NotifyJoinKeeps ==
  ASSUME ServerInv, NEW s \in Servers, NotifyJoin(s)
  PROVE  /\ \E c \in Clients : CountedIn(s, c)
         /\ StateInv'
<1> DEFINE c == clientsBuff[s][mergeAt[s]]
<1> USE PlacesApart DEF netVars, acceptVars, Goto
<1>1. /\ pc[s] = "join" /\ pc' \in [Servers -> Places] /\ pc'[s] = "merge"
      /\ clientJoin' = clientJoin + 1
      /\ UNCHANGED <<clientsBuff, clients, mergeAt, victim, sock, object, hand, scan, minServer, clientAccept>>
      /\ \A r \in Servers : r # s => Untouched(r)
  BY DEF NotifyJoin, Untouched, ServerInv, ServerTypeOK, Places, Plain
<1>2. c \in Entries(s) /\ c \in Clients
  BY <1>1, EntriesIs DEF ServerInv, PlaceInv, PlaceAt
<1> HIDE DEF c
<1>3. Live' = Live /\ Leaving' = Leaving
  <2>1. \A r \in Servers : pc'[r] \in Out <=> pc[r] \in Out
    BY <1>1 DEF Untouched
  <2> QED BY <1>1, <2>1 DEF Live, Leaving, Out
<1>4. HoldsSame(s)
  <2>1. pc[s] \notin Erasing \cup OutOfMap /\ pc'[s] \notin Erasing \cup OutOfMap
    BY <1>1
  <2> QED BY <1>1, <2>1 DEF HoldsSame, Waiting, Entries, Removed
<1>5. Joined(s) = (Entries(s) \cup Removed(s)) \ {c} /\ Joined(s)' = Entries(s)' \cup Removed(s)'
  <2>1. pc'[s] \notin CountedOut \cup {"join"}
    BY <1>1
  <2> QED BY <1>1, <2>1, JoinedIs DEF c
<1>6. KeyAt(s)' /\ PlaceAt(s)'
  <2>1. KeyAt(s)'
    BY <1>1, <1>3 DEF ServerInv, KeyInv, KeyAt
  <2>2. PlaceAt(s)'
    BY <1>1 DEF ServerInv, PlaceInv, PlaceAt
  <2> QED BY <2>1, <2>2
<1>7. OthersKept(s) /\ KeyInv' /\ PlaceInv'
  BY <1>1, <1>3, <1>6, CellSide
<1>8. SockInv' /\ ServerTypeOK'
  BY <1>1, <1>3 DEF ServerInv, SockInv, ServerTypeOK
<1>9. CountedIn(s, c)
  <2>1. c \in Entries(s) \ Joined(s) /\ Joined(s)' = Joined(s) \cup {c}
    BY <1>2, <1>4, <1>5 DEF HoldsSame
  <2> QED BY <1>1, <1>3, <1>4, <1>7, <2>1 DEF CountedIn
<1> QED BY <1>2, <1>7, <1>8, <1>9 DEF StateInv

LEMMA MergeDoneKeeps ==
  ASSUME ServerInv, NEW s \in Servers, MergeDone(s)
  PROVE  Stays /\ StateInv'
<1> USE DEF netVars, acceptVars, countVars, Goto
<1>1. /\ pc[s] = "merge" /\ mergeAt[s] = Len(clientsBuff[s]) /\ Len(clientsBuff[s]) \in Nat
      /\ clientsBuff' \in [Servers -> Seq(Clients)] /\ clientsBuff'[s] = <<>>
      /\ mergeAt' \in [Servers -> Nat] /\ mergeAt'[s] = 0
      /\ pc' \in [Servers -> Places] /\ pc'[s] = "check"
      /\ UNCHANGED <<clients, victim, sock, object, hand, scan, minServer, clientAccept, clientJoin>>
      /\ \A r \in Servers : r # s => Untouched(r)
  BY DEF MergeDone, Untouched, ServerInv, ServerTypeOK, Places, Plain, Loops
<1>2. Live' = Live /\ Leaving' = Leaving
  BY <1>1 DEF Live, Leaving, HalfOut, CountedOut, Untouched
<1>3. Kept(s)
  BY <1>1 DEF Kept, HoldsSame, Waiting, Entries, Removed, Joined, Uncounted, Erasing, OutOfMap, CountedOut
<1>4. KeyAt(s)' /\ PlaceAt(s)'
  <2>1. pc[s] \notin Erasing /\ pc'[s] \notin Goes \cup Left \cup OutOfMap \cup Erasing \cup Merging
    BY <1>1, PlacesApart DEF Plain, Loops
  <2>2. KeyAt(s)'
    BY <1>1, <1>2, <2>1 DEF ServerInv, KeyInv, KeyAt
  <2>3. PlaceAt(s)'
    BY <1>1, <2>1 DEF ServerInv, PlaceInv, PlaceAt
  <2> QED BY <2>2, <2>3
<1>5. OthersKept(s) /\ KeyInv' /\ PlaceInv'
  BY <1>1, <1>2, <1>4, CellSide
<1>6. SockInv' /\ ServerTypeOK'
  BY <1>1, <1>2 DEF ServerInv, SockInv, ServerTypeOK
<1> QED BY <1>1, <1>2, <1>3, <1>5, <1>6 DEF Stays, AllKept, OthersKept, StateInv

LEMMA VictimsApart ==
  ASSUME ServerInv, NEW s \in Servers, NEW r \in Servers, r # s, pc[r] \in Out
  PROVE  victim[r] \notin Held(s)
<1>1. victim[r] \in Held(r)
  BY LeavingHeld
<1> QED BY <1>1 DEF ServerInv, OwnInv

\* OnNetLeave counts a client out of _clientAccept ...
LEMMA NotifyKeeps ==
  ASSUME ServerInv, NEW s \in Servers, NEW c \in Clients, NEW to \in HalfOut,
         \/ pc[s] \in Loops /\ to \in Goes /\ c \in Entries(s)
         \/ pc[s] = "remove" /\ to = "removing" /\ c = victim[s],
         pc' = [pc EXCEPT ![s] = to], NotifyLeave(s, c),
         UNCHANGED <<netVars, acceptVars, clientsBuff, clients, mergeAt>>
  PROVE  CountedOutNow(s, c) /\ StateInv'
<1> USE PlacesApart DEF netVars, acceptVars
<1>1. /\ pc' \in [Servers -> Places] /\ pc'[s] = to
      /\ victim' \in [Servers -> Clients \cup {None}] /\ victim'[s] = c
      /\ clientAccept' = clientAccept - 1 /\ clientJoin' = clientJoin
      /\ UNCHANGED <<clientsBuff, clients, mergeAt, sock, object, hand, scan, minServer>>
      /\ \A r \in Servers : r # s => Untouched(r)
  BY DEF NotifyLeave, Untouched, ServerInv, ServerTypeOK, Places
<1>2. Live' = Live
  BY <1>1 DEF Live
<1>3. c \in (Entries(s) \cup Removed(s)) \ Leaving
  <2>1. c \in Entries(s) \cup Removed(s)
    BY EntriesIs DEF ServerInv
  <2>2. ASSUME c \in Leaving PROVE FALSE
    <3>1. PICK r \in Servers : pc[r] \in Out /\ c = victim[r]
      BY <2>2, LeavingIs DEF ServerInv
    <3>2. r # s
      BY <3>1
    <3> QED BY <2>1, <3>1, <3>2, VictimsApart DEF Held
  <2> QED BY <2>1, <2>2
<1>4. ServerTypeOK'
  BY <1>1 DEF ServerInv, ServerTypeOK
<1>5. Leaving' = Leaving \cup {c}
  <2>1. \A d : d \in Leaving' <=> \E r \in Servers : pc'[r] \in Out /\ d = victim'[r]
    BY DEF Leaving, Out
  <2> QED BY <1>1, <2>1, LeavingIs DEF Untouched, ServerInv
<1>6. Kept(s)
  <2>1. pc[s] \notin Erasing /\ pc'[s] \notin Erasing
    BY <1>1
  <2>2. Entries(s)' = Entries(s)
    BY <1>1, <2>1 DEF Entries
  <2>3. Removed(s)' = Removed(s)
    BY <1>1 DEF Removed
  <2>4. Joined(s)' = Joined(s)
    <3>1. pc[s] \notin CountedOut \cup {"join"} /\ pc'[s] \notin CountedOut \cup {"join"}
      BY <1>1
    <3> QED BY <2>2, <2>3, <3>1, JoinedIs
  <2> QED BY <1>1, <2>2, <2>3, <2>4 DEF Kept, HoldsSame, Waiting
<1>7. KeyAt(s)'
  BY <1>1, <1>2 DEF ServerInv, KeyInv, KeyAt
<1>8. PlaceAt(s)'
  BY <1>1, <1>6 DEF ServerInv, PlaceInv, PlaceAt, Kept, HoldsSame
<1>9. OthersKept(s) /\ KeyInv' /\ PlaceInv'
  BY <1>1, <1>2, <1>7, <1>8, CellSide
<1>10. SockInv'
  BY <1>1, <1>2 DEF ServerInv, SockInv
<1> QED BY <1>1, <1>2, <1>3, <1>4, <1>5, <1>6, <1>9, <1>10
        DEF CountedOutNow, AllKept, OthersKept, StateInv

\* ... and of _clientJoin.
LEMMA LeaveJoinedKeeps ==
  ASSUME ServerInv, NEW s \in Servers, NEW from \in HalfOut, NEW to \in CountedOut,
         \/ from \in Goes /\ to \in Left
         \/ from = "removing" /\ to = "delete",
         LeaveJoined(s, from, to)
  PROVE  /\ victim[s] \in Clients /\ CountedOff(s, victim[s])
         /\ StateInv'
<1> DEFINE c == victim[s]
<1> USE PlacesApart DEF netVars, acceptVars, Goto
<1>1. /\ pc[s] = from /\ pc' \in [Servers -> Places] /\ pc'[s] = to
      /\ clientJoin' = clientJoin - 1
      /\ UNCHANGED <<clientsBuff, clients, mergeAt, victim, sock, object, hand, scan, minServer, clientAccept>>
      /\ \A r \in Servers : r # s => Untouched(r)
  BY DEF LeaveJoined, Untouched, ServerInv, ServerTypeOK, Places
<1>2. c \in Entries(s) \cup Removed(s) /\ c \in Clients
  BY <1>1, LeavingHeld
<1>3. Live' = Live /\ Leaving' = Leaving
  <2>1. \A r \in Servers : pc'[r] \in Out <=> pc[r] \in Out
    BY <1>1 DEF Untouched
  <2> QED BY <1>1, <2>1 DEF Live, Leaving, Out
<1>4. HoldsSame(s)
  <2>1. pc[s] \notin Erasing /\ pc'[s] \notin Erasing /\ (pc[s] \in OutOfMap <=> pc'[s] \in OutOfMap)
    BY <1>1
  <2>2. Entries(s)' = Entries(s)
    BY <1>1, <2>1 DEF Entries
  <2>3. Removed(s)' = Removed(s)
    BY <1>1, <2>1 DEF Removed
  <2> QED BY <1>1, <2>2, <2>3 DEF HoldsSame, Waiting
<1>5. Joined(s) = Entries(s) \cup Removed(s) /\ Joined(s)' = (Entries(s)' \cup Removed(s)') \ {c}
  <2>1. pc[s] \notin CountedOut \cup {"join"} /\ pc'[s] \in CountedOut
    BY <1>1
  <2> QED BY <1>1, <2>1, JoinedIs
<1>6. KeyAt(s)'
  BY <1>1, <1>3 DEF ServerInv, KeyInv, KeyAt
<1>7. PlaceAt(s)'
  BY <1>1, <1>4 DEF HoldsSame, ServerInv, PlaceInv, PlaceAt
<1>8. OthersKept(s) /\ KeyInv' /\ PlaceInv'
  BY <1>1, <1>3, <1>6, <1>7, CellSide
<1>9. SockInv' /\ ServerTypeOK'
  BY <1>1, <1>3 DEF ServerInv, SockInv, ServerTypeOK
<1>10. CountedOff(s, c)
  <2>1. c \in Joined(s) /\ Joined(s)' = Joined(s) \ {c}
    BY <1>2, <1>4, <1>5 DEF HoldsSame
  <2> QED BY <1>1, <1>3, <1>4, <1>8, <2>1 DEF CountedOff
<1> QED BY <1>2, <1>8, <1>9, <1>10 DEF StateInv

\* delete closes the socket and frees the object.
LEMMA DeleteKeeps ==
  ASSUME ServerInv, NEW s \in Servers, NEW to \in Erasing \cup {"event"},
         \/ pc[s] \in Left /\ to \in Erasing /\ victim'[s] = victim[s]
         \/ pc[s] = "delete" /\ to = "event" /\ victim'[s] = None,
         victim' \in [Servers -> Clients \cup {None}],
         \A r \in Servers : r # s => victim'[r] = victim[r],
         pc' = [pc EXCEPT ![s] = to], DeleteVictim(s),
         UNCHANGED <<countVars, acceptVars, clientsBuff, clients, mergeAt>>
  PROVE  Dies(s, victim[s]) /\ StateInv'
<1> DEFINE c == victim[s]
<1> USE PlacesApart DEF countVars, acceptVars
<1>1. /\ pc' \in [Servers -> Places] /\ pc'[s] = to /\ "event" \in Plain
      /\ UNCHANGED <<clientsBuff, clients, mergeAt, clientAccept, clientJoin, hand, scan, minServer>>
      /\ object' = [object EXCEPT ![c] = "freed"]
      /\ sock' = [d \in DOMAIN sock \ {c} |-> sock[d]]
      /\ \A r \in Servers : r # s => Untouched(r)
  BY DEF DeleteVictim, Untouched, ServerInv, ServerTypeOK, Places, Plain
<1>2. c \in Clients /\ c \in Entries(s) \cup Removed(s) /\ c \in Held(s) /\ c \in Live /\ c \in Leaving
  <2>1. c \in Clients /\ c \in Entries(s) \cup Removed(s) /\ c \in Held(s)
    BY LeavingHeld
  <2> QED BY <2>1, LeavingIs DEF ServerInv, OwnInv
<1>3. /\ object' \in [Clients -> {"none", "live", "freed", "refused"}] /\ object'[c] = "freed"
      /\ \A d \in Clients : object[d] = "freed" => object'[d] = "freed"
      /\ Live' = Live \ {c}
  BY <1>1, <1>2 DEF Live, ServerInv, ServerTypeOK
<1>4. \A d \in Live' : sock'[d] = sock[d]
  BY <1>1, <1>3 DEF ServerInv, SockInv
<1>5. SockInv'
  BY <1>1, <1>3, <1>4 DEF ServerInv, SockInv
<1>6. ServerTypeOK'
  BY <1>1, <1>3 DEF ServerInv, ServerTypeOK
<1>7. Leaving' = Leaving \ {c}
  <2>1. \A d : d \in Leaving' <=> \E r \in Servers : pc'[r] \in Out /\ d = victim'[r]
    BY DEF Leaving, Out
  <2>2. \A r \in Servers : r # s /\ pc[r] \in Out => victim[r] # c
    BY <1>2, VictimsApart
  <2>3. \A d : d \in Leaving <=> \E r \in Servers : pc[r] \in Out /\ d = victim[r]
    BY LeavingIs DEF ServerInv
  <2>4. \A r \in Servers : r # s => pc'[r] = pc[r] /\ victim'[r] = victim[r]
    BY <1>1 DEF Untouched
  <2> QED BY <1>1, <2>1, <2>2, <2>3, <2>4
<1>8. Waiting(s)' = Waiting(s) /\ Removed(s)' = Removed(s) \ {c}
  <2>1. Removed(s)' = {}
    BY <1>1 DEF Removed
  <2>2. Removed(s) \subseteq {c}
    BY EntriesIs DEF ServerInv
  <2> QED BY <1>1, <2>1, <2>2 DEF Waiting
<1>9. Entries(s)' = Entries(s) \ {c}
  <2>1. Entries(s) = {clients[s][f] : f \in DOMAIN clients[s]}
    BY EntriesIs DEF ServerInv
  <2>2. CASE to \in Erasing
    BY <1>1, <2>1, <2>2 DEF Entries
  <2>3. CASE to = "event"
    <3>1. pc[s] \in OutOfMap
      BY <1>1, <2>3
    <3>2. Removed(s) = {c}
      BY <3>1, EntriesIs DEF ServerInv
    <3>3. c \notin Entries(s)
      BY <3>2 DEF ServerInv, OwnInv
    <3> QED BY <1>1, <2>1, <2>3, <3>3 DEF Entries
  <2> QED BY <2>2, <2>3
<1>13. Joined(s)' = Joined(s)
  <2>1. pc[s] \in CountedOut /\ pc'[s] \notin CountedOut \cup {"join"}
    BY <1>1
  <2>2. Joined(s) = (Entries(s) \cup Removed(s)) \ {c} /\ Joined(s)' = Entries(s)' \cup Removed(s)'
    BY <2>1, JoinedIs
  <2> QED BY <1>8, <1>9, <2>2
<1>10. KeyAt(s)'
  <2> SUFFICES ASSUME NEW f \in DOMAIN clients[s], ~(pc'[s] \in Erasing /\ clients[s][f] = victim'[s])
               PROVE  clients[s][f] \in Live' /\ sock'[clients[s][f]] = f
    BY <1>1 DEF KeyAt
  <2>1. clients[s][f] \in Live /\ sock[clients[s][f]] = f
    BY DEF ServerInv, KeyInv, KeyAt
  <2>2. clients[s][f] \in Entries(s)
    BY EntriesIs DEF ServerInv
  <2>3. clients[s][f] # c
    BY <1>1, <2>2, EntriesIs DEF ServerInv, OwnInv
  <2> QED BY <1>3, <1>4, <2>1, <2>3
<1>11. PlaceAt(s)'
  BY <1>1, <1>2, <1>3 DEF ServerInv, PlaceInv, PlaceAt
<1>12. OthersKept(s) /\ KeyInv' /\ PlaceInv'
  <2>1. \A d \in Live : d \notin Held(s) => d \in Live' /\ sock'[d] = sock[d]
    BY <1>2, <1>3, <1>4
  <2>2. \A r \in Servers : r # s => Untouched(r)
    BY <1>1
  <2>3. \A d \in Clients : object[d] = "freed" => object'[d] = "freed"
    BY <1>3
  <2> QED BY <1>10, <1>11, <2>1, <2>2, <2>3, CellSide
<1> QED BY <1>1, <1>2, <1>3, <1>5, <1>6, <1>7, <1>8, <1>9, <1>12, <1>13 DEF Dies, StateInv

\* An entry is erased whose client was counted out and freed before.
LEMMA EraseKeeps ==
  ASSUME ServerInv, NEW s \in Servers, NEW from \in Erasing, NEW to \in Loops,
         LeaveErase(s, from, to)
  PROVE  Stays /\ StateInv'
<1> DEFINE kept == {f \in DOMAIN clients[s] : clients[s][f] # victim[s]}
<1> USE PlacesApart DEF netVars, acceptVars, countVars, Goto
<1>1. /\ DOMAIN clients = Servers /\ clients[s] \in [DOMAIN clients[s] -> Clients]
      /\ pc[s] \in Erasing /\ kept \subseteq DOMAIN clients[s]
  BY DEF LeaveErase, ServerInv, ServerTypeOK
<1>2. clients' = [clients EXCEPT ![s] = Restrict(clients[s], kept)]
  BY DEF LeaveErase
<1> HIDE DEF kept
<1>3. /\ pc' \in [Servers -> Places] /\ pc'[s] = to
      /\ victim' \in [Servers -> Clients \cup {None}] /\ victim'[s] = None
      /\ UNCHANGED <<clientsBuff, mergeAt, sock, object, hand, scan, minServer, clientAccept, clientJoin>>
      /\ \A r \in Servers : r # s => pc'[r] = pc[r] /\ victim'[r] = victim[r]
  BY DEF LeaveErase, ServerInv, ServerTypeOK, Places
<1>4. /\ DOMAIN clients' = Servers /\ clients' = [r \in Servers |-> clients'[r]]
      /\ DOMAIN clients'[s] = kept /\ \A f \in kept : clients'[s][f] = clients[s][f]
      /\ clients'[s] \in [DOMAIN clients'[s] -> Clients]
      /\ \A r \in Servers : r # s => clients'[r] = clients[r]
  BY <1>1, <1>2 DEF Restrict
<1>5. \A r \in Servers : r # s => Untouched(r)
  BY <1>3, <1>4 DEF Untouched
<1>6. Live' = Live /\ Leaving' = Leaving
  <2>1. \A r \in Servers : pc[r] \in Out <=> pc'[r] \in Out
    BY <1>1, <1>3
  <2>2. \A r \in Servers : pc[r] \in Out => victim'[r] = victim[r]
    BY <1>1, <1>3
  <2> QED BY <1>3, <2>1, <2>2 DEF Leaving, Live, Out
<1>7. Entries(s)' = Entries(s)
  <2>1. Entries(s) = {clients[s][f] : f \in kept}
    BY <1>1, EntriesIs DEF kept, ServerInv
  <2>2. Entries(s)' = {clients'[s][f] : f \in DOMAIN clients'[s]}
    BY <1>3 DEF Entries
  <2> QED BY <1>4, <2>1, <2>2
<1>8. Kept(s)
  <2>1. pc[s] \notin CountedOut \cup {"join"} /\ pc'[s] \notin CountedOut \cup {"join"}
    BY <1>1, <1>3
  <2>2. HoldsSame(s)
    BY <1>1, <1>3, <1>7 DEF HoldsSame, Waiting, Removed
  <2> QED BY <2>1, <2>2, JoinedIs DEF Kept, HoldsSame
<1>9. KeyAt(s)'
  BY <1>1, <1>3, <1>4, <1>6 DEF ServerInv, KeyInv, KeyAt, kept
<1>10. PlaceAt(s)'
  BY <1>1, <1>3 DEF ServerInv, PlaceInv, PlaceAt
<1>11. OthersKept(s) /\ KeyInv' /\ PlaceInv'
  BY <1>3, <1>5, <1>6, <1>9, <1>10, CellSide
<1>12. \A r \in Servers : clients'[r] \in [DOMAIN clients'[r] -> Clients]
  <2> TAKE r \in Servers
  <2>1. CASE r = s
    BY <1>4, <2>1
  <2>2. CASE r # s
    BY <1>4, <2>2 DEF ServerInv, ServerTypeOK
  <2> QED BY <2>1, <2>2
<1>13. SockInv' /\ ServerTypeOK'
  BY <1>3, <1>4, <1>6, <1>12 DEF ServerInv, SockInv, ServerTypeOK
<1> QED BY <1>3, <1>6, <1>8, <1>11, <1>13 DEF Stays, AllKept, OthersKept, StateInv

\* rmClient takes the client out of the map before it is counted out.
LEMMA RemoveKeeps ==
  ASSUME ServerInv, NEW s \in Servers, NEW c \in Entries(s), RemoveClient(s, c)
  PROVE  TakenOut(s, c) /\ StateInv'
<1> DEFINE kept == DOMAIN clients[s] \ {sock[c]}
<1> USE PlacesApart DEF netVars, acceptVars, countVars, Goto
<1>1. /\ DOMAIN clients = Servers /\ clients[s] \in [DOMAIN clients[s] -> Clients]
      /\ pc[s] = "event" /\ pc[s] \in Plain
  BY DEF RemoveClient, ServerInv, ServerTypeOK, Plain
<1>2. clients' = [clients EXCEPT ![s] = Restrict(clients[s], kept)]
  BY DEF RemoveClient
<1>3. c \in Clients /\ Removed(s) = {}
  BY <1>1, EntriesIs DEF ServerInv
<1>4. \A f \in DOMAIN clients[s] : f \in kept <=> clients[s][f] # c
  <2>1. \A f \in DOMAIN clients[s] : clients[s][f] \in Live /\ sock[clients[s][f]] = f
    BY <1>1 DEF ServerInv, KeyInv, KeyAt
  <2>2. PICK g \in DOMAIN clients[s] : clients[s][g] = c
    BY <1>1, <1>3, EntriesIs DEF ServerInv
  <2>3. sock[c] = g
    BY <2>1, <2>2
  <2> QED BY <2>1, <2>2, <2>3
<1>5. kept \subseteq DOMAIN clients[s]
  OBVIOUS
<1> HIDE DEF kept
<1>6. /\ pc' \in [Servers -> Places] /\ pc'[s] = "remove"
      /\ victim' \in [Servers -> Clients \cup {None}] /\ victim'[s] = c
      /\ UNCHANGED <<clientsBuff, mergeAt, sock, object, hand, scan, minServer, clientAccept, clientJoin>>
      /\ \A r \in Servers : r # s => pc'[r] = pc[r] /\ victim'[r] = victim[r]
  BY <1>3 DEF RemoveClient, ServerInv, ServerTypeOK, Places
<1>7. /\ DOMAIN clients' = Servers /\ clients' = [r \in Servers |-> clients'[r]]
      /\ DOMAIN clients'[s] = kept /\ \A f \in kept : clients'[s][f] = clients[s][f]
      /\ clients'[s] \in [DOMAIN clients'[s] -> Clients]
      /\ \A r \in Servers : r # s => clients'[r] = clients[r]
  BY <1>1, <1>2, <1>5 DEF Restrict
<1>8. \A r \in Servers : r # s => Untouched(r)
  BY <1>6, <1>7 DEF Untouched
<1>9. Live' = Live /\ Leaving' = Leaving
  <2>1. \A r \in Servers : pc[r] \in Out <=> pc'[r] \in Out
    BY <1>1, <1>6
  <2>2. \A r \in Servers : pc[r] \in Out => victim'[r] = victim[r]
    BY <1>1, <1>6
  <2> QED BY <1>6, <2>1, <2>2 DEF Leaving, Live, Out
<1>10. Entries(s)' = Entries(s) \ {c}
  <2>1. Entries(s) = {clients[s][f] : f \in DOMAIN clients[s]}
    BY <1>1, EntriesIs DEF ServerInv
  <2>2. Entries(s)' = {clients'[s][f] : f \in DOMAIN clients'[s]}
    BY <1>6 DEF Entries
  <2> QED BY <1>4, <1>5, <1>7, <2>1, <2>2
<1>11. Waiting(s)' = Waiting(s) /\ Removed(s)' = {c}
  BY <1>6 DEF Waiting, Removed
<1>12. KeyAt(s)'
  BY <1>1, <1>5, <1>6, <1>7, <1>9 DEF ServerInv, KeyInv, KeyAt
<1>13. PlaceAt(s)'
  BY <1>1, <1>3, <1>6, <1>10 DEF ServerInv, PlaceInv, PlaceAt
<1>14. OthersKept(s) /\ KeyInv' /\ PlaceInv'
  BY <1>6, <1>8, <1>9, <1>12, <1>13, CellSide
<1>15. \A r \in Servers : clients'[r] \in [DOMAIN clients'[r] -> Clients]
  <2> TAKE r \in Servers
  <2>1. CASE r = s
    BY <1>7, <2>1
  <2>2. CASE r # s
    BY <1>7, <2>2 DEF ServerInv, ServerTypeOK
  <2> QED BY <2>1, <2>2
<1>16. SockInv' /\ ServerTypeOK'
  BY <1>6, <1>7, <1>9, <1>15 DEF ServerInv, SockInv, ServerTypeOK
<1>17. Joined(s)' = Joined(s)
  <2>1. pc[s] \notin CountedOut \cup {"join"} /\ pc'[s] \notin CountedOut \cup {"join"}
    BY <1>1, <1>6
  <2>2. Joined(s) = Entries(s) \cup Removed(s) /\ Joined(s)' = Entries(s)' \cup Removed(s)'
    BY <2>1, JoinedIs
  <2>3. c \in Entries(s)
    OBVIOUS
  <2> QED BY <1>3, <1>10, <1>11, <2>2, <2>3
<1> QED BY <1>3, <1>6, <1>9, <1>10, <1>11, <1>14, <1>16, <1>17 DEF TakenOut, StateInv

LEMMA AllAtRest ==
  ASSUME ServerInv, UNCHANGED serverVars
  PROVE  Stays /\ StateInv'
<1>1. UNCHANGED <<sock, object, countVars, acceptVars, clientsBuff, clients, pc, mergeAt, victim>>
  BY DEF serverVars, netVars, cellVars
<1>2. /\ object' \in [Clients -> {"none", "live", "freed", "refused"}] /\ Live' = Live
      /\ \A c \in Clients : object[c] = "freed" => object'[c] = "freed"
      /\ scan' \in Nat \ {0} /\ minServer' \in Servers /\ hand' = hand
  BY <1>1 DEF ServerInv, ServerTypeOK, Live, acceptVars
<1> QED BY <1>1, <1>2, AtRest

\* The four steps in which a loop over the map removes a client.
LEMMA LeaveKeeps ==
  ASSUME ServerInv, NEW s \in Servers, NEW from \in Loops, NEW to \in Goes,
         NEW c \in Range(clients[s]), Leave(s, from, to, c)
  PROVE  OwnStep /\ StateInv'
<1> USE PlacesApart DEF Goto
<1>1. pc[s] = from /\ c \in Entries(s) /\ c \in Clients
  BY EntriesIs DEF Leave, Range, ServerInv
<1>2. /\ pc' = [pc EXCEPT ![s] = to] /\ NotifyLeave(s, c)
      /\ UNCHANGED <<netVars, acceptVars, clientsBuff, clients, mergeAt>>
  BY DEF Leave
<1>3. CountedOutNow(s, c) /\ StateInv'
  BY <1>1, <1>2, NotifyKeeps
<1> QED BY <1>1, <1>3 DEF OwnStep

LEMMA LeaveEndsKeeps ==
  ASSUME ServerInv, NEW s \in Servers, NEW go \in Goes, NEW at \in Left, NEW erase \in Erasing,
         NEW to \in Loops,
         LeaveJoined(s, go, at) \/ LeaveDelete(s, at, erase) \/ LeaveErase(s, erase, to)
  PROVE  OwnStep /\ StateInv'
<1> USE PlacesApart DEF Goto
<1>1. CASE LeaveDelete(s, at, erase)
  <2>1. /\ pc[s] \in Left /\ pc' = [pc EXCEPT ![s] = erase] /\ DeleteVictim(s)
        /\ UNCHANGED <<countVars, acceptVars, clientsBuff, clients, mergeAt, victim>>
    BY <1>1 DEF LeaveDelete
  <2>2. victim \in [Servers -> Clients \cup {None}] /\ victim[s] \in Clients
    BY <2>1, LeavingHeld DEF ServerInv, ServerTypeOK
  <2>3. Dies(s, victim[s]) /\ StateInv'
    BY <2>1, <2>2, DeleteKeeps
  <2> QED BY <2>2, <2>3 DEF OwnStep
<1>2. CASE LeaveErase(s, erase, to)
  BY <1>2, EraseKeeps DEF OwnStep
<1>3. CASE LeaveJoined(s, go, at)
  <2>1. go \in HalfOut /\ at \in CountedOut
    OBVIOUS
  <2> QED BY <1>3, <2>1, LeaveJoinedKeeps DEF OwnStep
<1> QED BY <1>1, <1>2, <1>3

LEMMA CellStepKeeps ==
  ASSUME ServerInv, NEW s \in Servers, CellStep(s)
  PROVE  OwnStep /\ StateInv'
<1> USE DEF Goto
<1>1. CASE LoopTop(s) \/ CheckTimeDone(s) \/ DoMsg(s)
  <2>1. PICK to \in Plain : pc[s] \in Plain \ {"merge"} /\ pc' = [pc EXCEPT ![s] = to]
    BY <1>1 DEF LoopTop, CheckTimeDone, DoMsg, Plain, Loops
  <2>2. UNCHANGED <<sock, object, countVars, acceptVars, clientsBuff, clients, mergeAt, victim>>
    BY <1>1 DEF LoopTop, CheckTimeDone, DoMsg, netVars
  <2> QED BY <2>1, <2>2, PlainStep DEF OwnStep
<1>2. CASE MergeClient(s)
  BY <1>2, MergeClientKeeps DEF OwnStep
<1>3. CASE MergeDone(s)
  BY <1>3, MergeDoneKeeps DEF OwnStep
<1>4. CASE Expire(s)
  BY <1>4, LeaveKeeps DEF Expire, Loops, Goes
<1>5. CASE ExpireEnds(s)
  BY <1>5, LeaveEndsKeeps DEF ExpireEnds, Loops, Goes, Left, Erasing
<1>6. CASE NotifyJoin(s)
  BY <1>6, NotifyJoinKeeps DEF OwnStep
<1> QED BY <1>1, <1>2, <1>3, <1>4, <1>5, <1>6 DEF CellStep

LEMMA ServerStepKeeps ==
  ASSUME ServerInv, ServerStep
  PROVE  OwnStep /\ StateInv'
<1>1. ASSUME NEW c \in Clients, Accept(c) PROVE OwnStep /\ StateInv'
  BY <1>1, AcceptKeeps DEF OwnStep
<1>2. CASE ReadSize \/ CompareCounts \/ \E c \in Clients : Refuse(c) \/ HangUp(c)
  BY <1>2, RestActions DEF OwnStep
<1>3. CASE AddClient
  <2>1. minServer \in Servers
    BY DEF ServerInv, ServerTypeOK
  <2> QED BY <1>3, <2>1, AddClientKeeps DEF OwnStep
<1>4. ASSUME NEW s \in Servers, CellStep(s) PROVE OwnStep /\ StateInv'
  BY <1>4, CellStepKeeps
<1> QED BY <1>1, <1>2, <1>3, <1>4 DEF ServerStep, AcceptThread

LEMMA ServerInvKept ==
  ASSUME ServerInv, OwnStep, StateInv'
  PROVE  ServerInv'
<1>1. Owners
  BY DEF ServerInv, ServerTypeOK, Owners
<1>2. Owners'
  BY <1>1, OwnStepKeeps
<1> QED BY <1>2 DEF ServerInv, StateInv, Owners

LEMMA ServerInvInit ==
  ASSUME ServerInit
  PROVE  ServerInv
<1> USE DEF ServerInit
<1>1. ServerTypeOK
  BY NumServersPos DEF ServerTypeOK, EmptyMap, Places, Plain, Servers
<1>2. Live = {} /\ Leaving = {}
  BY DEF Live, Leaving, HalfOut, CountedOut
<1>3. \A s \in Servers : Waiting(s) = {} /\ Entries(s) = {} /\ Removed(s) = {} /\ Held(s) = {}
  BY DEF Waiting, Entries, Removed, Held, OutOfMap, EmptyMap
<1>4. SockInv /\ KeyInv
  BY <1>2 DEF SockInv, KeyInv, KeyAt, EmptyMap
<1>5. PlaceInv
  BY DEF PlaceInv, PlaceAt, Goes, Left, Erasing, OutOfMap
<1>6. OwnInv
  BY <1>2, <1>3 DEF OwnInv
<1>7. AllJoined = {}
  BY <1>3 DEF AllJoined, Joined
<1>8. CountInv
  BY <1>2, <1>7, FS_EmptySet, MaxClientNat DEF CountInv
<1> QED BY <1>1, <1>4, <1>5, <1>6, <1>8 DEF ServerInv
-----------------------------------------------------------------------------
(* What holds whichever way the cell servers poll.                         *)

ServerCorrect == CountersExact /\ LimitKept /\ OneHolder /\ KeysFit

LEMMA ServerInvCorrect ==
  ASSUME ServerInv
  PROVE  ServerCorrect
<1>1. CountersExact
  BY DEF CountersExact, ServerInv, CountInv, AllJoined
<1>2. LimitKept
  <2>1. Live \in SUBSET Clients /\ Leaving \subseteq Live
    BY DEF ServerInv, OwnInv, Live
  <2>2. IsFiniteSet(Live) /\ IsFiniteSet(Leaving)
    BY <2>1, Finite
  <2>3. /\ Cardinality(Live \ Leaving) = Cardinality(Live) - Cardinality(Live \cap Leaving)
        /\ Live \cap Leaving = Leaving
    BY <2>1, <2>2, FS_Difference
  <2>4. Cardinality(Live \ Leaving) <= MaxClient
    BY DEF ServerInv, CountInv
  <2>5. Cardinality(Live) \in Nat /\ Cardinality(Leaving) \in Nat
    BY <2>2, FS_CardinalityType
  <2>6. Cardinality(Live \ Leaving) = Cardinality(Live) - Cardinality(Leaving)
    BY <2>3
  <2> QED BY <2>4, <2>5, <2>6, MaxClientNat DEF LimitKept
<1>3. OneHolder
  BY DEF OneHolder, ServerInv, OwnInv
<1>4. DOMAIN sock = Live
  BY DEF ServerInv, SockInv
<1>5. KeysFit
  <2>1. ASSUME NEW s \in Servers, NEW f \in DOMAIN clients[s]
        PROVE  LET c == clients[s][f] IN
               IF pc[s] \in Erasing /\ c = victim[s] THEN c \notin DOMAIN sock
                                                 ELSE c \in DOMAIN sock /\ sock[c] = f
    <3>1. CASE pc[s] \in Erasing /\ clients[s][f] = victim[s]
      BY <1>4, <3>1 DEF ServerInv, PlaceInv, PlaceAt, Live
    <3>2. CASE ~(pc[s] \in Erasing /\ clients[s][f] = victim[s])
      BY <1>4, <3>2 DEF ServerInv, KeyInv, KeyAt
    <3> QED BY <3>1, <3>2
  <2>2. ASSUME NEW s \in Servers, pc[s] \in Merging, NEW c \in Waiting(s), sock[c] \in DOMAIN clients[s]
        PROVE  FALSE
    <3>1. c \in Live /\ c \notin Entries(s)
      BY DEF ServerInv, OwnInv, Held
    <3>2. clients[s][sock[c]] \in Live /\ sock[clients[s][sock[c]]] = sock[c]
      BY <2>2, PlacesApart DEF ServerInv, KeyInv, KeyAt
    <3>3. clients[s][sock[c]] = c
      BY <3>1, <3>2 DEF ServerInv, SockInv
    <3>4. clients[s][sock[c]] \in Entries(s)
      BY <2>2, EntriesIs, PlacesApart DEF ServerInv
    <3> QED BY <3>1, <3>3, <3>4
  <2> QED BY <2>1, <2>2 DEF KeysFit
<1> QED BY <1>1, <1>2, <1>3, <1>5 DEF ServerCorrect

\* Loops over a map find live clients, and who leaves is not freed yet.
LEMMA AtHandLive ==
  ASSUME ServerInv, NEW s \in Servers
  PROVE  /\ pc[s] \notin Erasing => Range(clients[s]) = Entries(s)
         /\ Entries(s) \subseteq Live
         /\ pc[s] \in Out \cup OutOfMap => victim[s] \in Live
<1>1. Held(s) \subseteq Live
  BY DEF ServerInv, OwnInv
<1>2. pc[s] \notin Erasing => Range(clients[s]) = Entries(s)
  BY EntriesIs DEF Range, ServerInv
<1>3. pc[s] \in Out \cup OutOfMap => victim[s] \in Live
  BY <1>1, LeavingHeld
<1> QED BY <1>1, <1>2, <1>3 DEF Held
-----------------------------------------------------------------------------
(* Polling with epoll.                                                     *)

\* The events of a report that are not handled yet are of clients of the map.
EventsAt(s) == pc[s] \in OutOfMap \cup {"event"} => events[s] \subseteq Entries(s)

EventsInv == events \in [Servers -> SUBSET Clients] /\ \A s \in Servers : EventsAt(s)

EpollInv == ServerInv /\ EventsInv

\* A step of the thread of s gives s the events that are left of its report.
LEMMA EventsStep ==
  ASSUME ServerInv, EventsInv, NEW s \in Servers, NEW reported \in SUBSET Clients,
         \A r \in Servers : r # s => Untouched(r),
         events' = [events EXCEPT ![s] = reported],
         pc'[s] \in OutOfMap \cup {"event"} => reported \subseteq Entries(s)'
  PROVE  EventsInv'
<1>1. /\ events' \in [Servers -> SUBSET Clients] /\ events'[s] = reported
      /\ \A r \in Servers : r # s => events'[r] = events[r]
  BY DEF EventsInv
<1>2. ASSUME NEW r \in Servers PROVE EventsAt(r)'
  <2>1. CASE r = s
    BY <1>1, <2>1 DEF EventsAt
  <2>2. CASE r # s
    BY <1>1, <2>2, UntouchedKept DEF EventsInv, EventsAt, Untouched, Kept, HoldsSame
  <2> QED BY <2>1, <2>2
<1> QED BY <1>1, <1>2 DEF EventsInv

LEMMA EventsOutside ==
  ASSUME EventsInv, UNCHANGED <<clients, pc, victim, events>>
  PROVE  EventsInv'
BY DEF EventsInv, EventsAt, Entries

\* What no step of the thread of s does to the other cell servers.
LEMMA CellStepUntouched ==
  ASSUME ServerInv, NEW s \in Servers, CellStep(s)
  PROVE  /\ \A r \in Servers : r # s => Untouched(r)
         /\ pc'[s] \notin OutOfMap \cup {"event"}
<1> USE DEF Goto, Untouched, ServerInv, ServerTypeOK, OutOfMap
<1>1. CASE LoopTop(s) \/ CheckTimeDone(s) \/ DoMsg(s)
  BY <1>1 DEF LoopTop, CheckTimeDone, DoMsg
<1>2. CASE MergeClient(s)
  <2>1. PICK m : clients' = [clients EXCEPT ![s] = m]
    BY <1>2 DEF MergeClient
  <2> QED BY <1>2, <2>1 DEF MergeClient
<1>3. CASE MergeDone(s)
  BY <1>3 DEF MergeDone
<1>7. CASE NotifyJoin(s) \/ LeaveJoined(s, "expiring", "expired")
  BY <1>7 DEF NotifyJoin, LeaveJoined
<1>4. CASE Expire(s)
  BY <1>4 DEF Expire, Leave, NotifyLeave
<1>5. CASE LeaveDelete(s, "expired", "erase")
  BY <1>5 DEF LeaveDelete
<1>6. CASE LeaveErase(s, "erase", "check")
  <2>1. PICK m : clients' = [clients EXCEPT ![s] = m]
    BY <1>6 DEF LeaveErase
  <2> QED BY <1>6, <2>1 DEF LeaveErase
<1> QED BY <1>1, <1>2, <1>3, <1>4, <1>5, <1>6, <1>7 DEF CellStep, ExpireEnds

LEMMA ServerStepEvents ==
  ASSUME EpollInv, ServerStep, UNCHANGED events
  PROVE  EventsInv'
<1>1. CASE (\E c \in Clients : Accept(c) \/ Refuse(c) \/ HangUp(c)) \/ AcceptThread
  <2>1. UNCHANGED <<clients, pc, victim>>
    BY <1>1 DEF Accept, Refuse, HangUp, AcceptThread, ReadSize, CompareCounts, AddClient, cellVars
  <2> QED BY <2>1, EventsOutside DEF EpollInv
<1>2. ASSUME NEW s \in Servers, CellStep(s) PROVE EventsInv'
  <2>1. events' = [events EXCEPT ![s] = events[s]] /\ events[s] \in SUBSET Clients
    BY DEF EpollInv, EventsInv
  <2> QED BY <1>2, <2>1, CellStepUntouched, EventsStep DEF EpollInv
<1> QED BY <1>1, <1>2 DEF ServerStep

LEMMA PollStepKeeps ==
  ASSUME EpollInv, NEW s \in Servers, PollStep(s)
  PROVE  OwnStep /\ StateInv' /\ EventsInv'
<1> USE DEF Goto
<1>1. /\ events = [events EXCEPT ![s] = events[s]] /\ events[s] \in SUBSET Clients
      /\ pc \in [Servers -> Places] /\ DOMAIN clients = Servers
      /\ victim \in [Servers -> Clients \cup {None}]
      /\ ServerInv /\ EventsInv
  BY DEF EpollInv, EventsInv, ServerInv, ServerTypeOK
<1>2. CASE Wait(s) \/ EventsDone(s)
  <2>1. PICK to \in Plain : pc[s] \in Plain \ {"merge"} /\ pc' = [pc EXCEPT ![s] = to]
    BY <1>2 DEF Wait, EventsDone, Plain, Loops
  <2>2. UNCHANGED <<sock, object, countVars, acceptVars, clientsBuff, clients, mergeAt, victim>>
    BY <1>2 DEF Wait, EventsDone, netVars
  <2>3. \A r \in Servers : r # s => Untouched(r)
    BY <1>1, <2>1, <2>2 DEF Untouched
  <2>4. Stays /\ StateInv'
    BY <1>1, <2>1, <2>2, PlainStep
  <2>5. ASSUME Wait(s) PROVE EventsInv'
    <3>1. PICK ready \in SUBSET Range(clients[s]) : events' = [events EXCEPT ![s] = ready]
      BY <2>5 DEF Wait
    <3>2. pc[s] = "poll" /\ pc[s] \in Plain
      BY <2>5 DEF Wait, Plain
    <3>3. Range(clients[s]) = Entries(s)
      BY <1>1, <3>2, AtHandLive, PlacesApart
    <3>4. Entries(s)' = Entries(s) /\ Entries(s) \subseteq Clients
      BY <1>1, <2>4, EntriesIs DEF Stays, AllKept, Kept, HoldsSame, ServerInv
    <3>5. ready \in SUBSET Clients /\ ready \subseteq Entries(s)'
      BY <3>1, <3>3, <3>4
    <3> QED BY <1>1, <2>3, <3>1, <3>5, EventsStep
  <2>6. ASSUME EventsDone(s) PROVE EventsInv'
    <3>1. pc'[s] \notin OutOfMap \cup {"event"} /\ events' = [events EXCEPT ![s] = events[s]]
      BY <1>1, <2>6 DEF EventsDone, OutOfMap
    <3> QED BY <1>1, <2>3, <3>1, EventsStep
  <2> QED BY <1>2, <2>4, <2>5, <2>6 DEF OwnStep
<1>3. ASSUME NEW c \in Clients, ServeClient(s, c) PROVE OwnStep /\ StateInv' /\ EventsInv'
  <2>1. UNCHANGED serverVars /\ events' = [events EXCEPT ![s] = events[s] \ {c}]
    BY <1>3 DEF ServeClient
  <2>2. Stays /\ StateInv'
    BY <1>1, <2>1, AllAtRest
  <2>3. \A r \in Servers : Untouched(r)
    BY <2>1 DEF serverVars, cellVars, Untouched
  <2>4. events[s] \subseteq Entries(s) /\ Entries(s)' = Entries(s)
    BY <1>1, <1>3, <2>2 DEF ServeClient, EventsInv, EventsAt, Stays, AllKept, Kept, HoldsSame
  <2>5. EventsInv'
    <3>1. events[s] \ {c} \in SUBSET Clients /\ events[s] \ {c} \subseteq Entries(s)'
      BY <1>1, <2>1, <2>4
    <3> QED BY <1>1, <2>1, <2>3, <2>4, <3>1, EventsStep
  <2> QED BY <2>2, <2>5 DEF OwnStep
<1>4. ASSUME NEW c \in Clients, RemoveClient(s, c) PROVE OwnStep /\ StateInv' /\ EventsInv'
  <2>1. c \in Entries(s) /\ events[s] \subseteq Entries(s)
    BY <1>1, <1>4 DEF RemoveClient, EventsInv, EventsAt
  <2>2. TakenOut(s, c) /\ StateInv'
    BY <1>1, <1>4, <2>1, RemoveKeeps
  <2>3. \A r \in Servers : r # s => Untouched(r)
    <3>1. PICK m : clients' = [clients EXCEPT ![s] = m]
      BY <1>4 DEF RemoveClient
    <3> QED BY <1>1, <1>4, <3>1 DEF RemoveClient, Untouched
  <2>4. events' = [events EXCEPT ![s] = events[s] \ {c}] /\ Entries(s)' = Entries(s) \ {c}
    BY <1>4, <2>2 DEF RemoveClient, TakenOut
  <2>5. EventsInv'
    <3>1. events[s] \ {c} \in SUBSET Clients /\ events[s] \ {c} \subseteq Entries(s)'
      BY <1>1, <2>1, <2>4
    <3> QED BY <1>1, <2>1, <2>3, <2>4, <3>1, EventsStep
  <2> QED BY <2>2, <2>5 DEF OwnStep
<1>5. ASSUME Leave(s, "remove", "removing", victim[s]), UNCHANGED events
      PROVE  OwnStep /\ StateInv' /\ EventsInv'
  <2>1. /\ pc[s] = "remove" /\ pc' = [pc EXCEPT ![s] = "removing"] /\ NotifyLeave(s, victim[s])
        /\ UNCHANGED <<netVars, acceptVars, clientsBuff, clients, mergeAt, events>>
    BY <1>5 DEF Leave
  <2>2. pc[s] \in OutOfMap /\ victim[s] \in Clients
    BY <1>1, <2>1, LeavingHeld DEF OutOfMap
  <2>3. CountedOutNow(s, victim[s]) /\ StateInv'
    BY <1>1, <2>1, <2>2, NotifyKeeps DEF HalfOut
  <2>4. \A r \in Servers : r # s => Untouched(r)
    BY <1>1, <2>1 DEF NotifyLeave, Untouched
  <2>5. events[s] \subseteq Entries(s) /\ Entries(s)' = Entries(s)
    BY <1>1, <2>2, <2>3 DEF EventsInv, EventsAt, CountedOutNow, AllKept, Kept, HoldsSame
  <2>6. EventsInv'
    BY <1>1, <2>1, <2>4, <2>5, EventsStep
  <2> QED BY <2>2, <2>3, <2>6 DEF OwnStep
<1>7. ASSUME LeaveJoined(s, "removing", "delete"), UNCHANGED events
      PROVE  OwnStep /\ StateInv' /\ EventsInv'
  <2>1. pc[s] = "removing" /\ pc[s] \in OutOfMap
    BY <1>7 DEF LeaveJoined, OutOfMap
  <2>2. victim[s] \in Clients /\ CountedOff(s, victim[s]) /\ StateInv'
    BY <1>1, <1>7, LeaveJoinedKeeps DEF HalfOut, CountedOut
  <2>3. \A r \in Servers : r # s => Untouched(r)
    BY <1>1, <1>7 DEF LeaveJoined, Untouched
  <2>4. events[s] \subseteq Entries(s) /\ Entries(s)' = Entries(s)
    BY <1>1, <2>1, <2>2 DEF EventsInv, EventsAt, CountedOff, HoldsSame
  <2>5. EventsInv'
    BY <1>1, <1>7, <2>3, <2>4, EventsStep
  <2> QED BY <2>2, <2>5 DEF OwnStep
<1>6. CASE RemoveDelete(s)
  <2>1. /\ pc[s] = "delete" /\ pc' = [pc EXCEPT ![s] = "event"] /\ DeleteVictim(s)
        /\ victim' = [victim EXCEPT ![s] = None]
        /\ UNCHANGED <<countVars, acceptVars, clientsBuff, clients, mergeAt, events>>
    BY <1>6 DEF RemoveDelete
  <2>2. /\ pc[s] \in OutOfMap /\ victim[s] \in Clients
        /\ victim' \in [Servers -> Clients \cup {None}] /\ victim'[s] = None
        /\ \A r \in Servers : r # s => victim'[r] = victim[r]
    BY <1>1, <2>1, LeavingHeld DEF OutOfMap
  <2>3. Dies(s, victim[s]) /\ StateInv'
    BY <1>1, <2>1, <2>2, DeleteKeeps
  <2>4. \A r \in Servers : r # s => Untouched(r)
    BY <1>1, <2>1 DEF Untouched
  <2>5. events[s] \subseteq Entries(s)'
    <3>1. Removed(s) = {victim[s]} /\ victim[s] \notin Entries(s)
      BY <1>1, <2>2 DEF Removed, ServerInv, OwnInv
    <3> QED BY <1>1, <2>2, <2>3, <3>1 DEF EventsInv, EventsAt, Dies
  <2>6. EventsInv'
    BY <1>1, <2>1, <2>4, <2>5, EventsStep
  <2> QED BY <2>2, <2>3, <2>6 DEF OwnStep
<1> QED BY <1>2, <1>3, <1>4, <1>5, <1>6, <1>7 DEF PollStep, RemoveNotify

LEMMA EpollInvInit == Init => EpollInv
<1> SUFFICES ASSUME Init PROVE EpollInv
  OBVIOUS
<1>1. ServerInit /\ events = [s \in Servers |-> {}]
  BY DEF Init
<1>2. EventsInv
  BY <1>1 DEF EventsInv, EventsAt
<1> QED BY <1>1, <1>2, ServerInvInit DEF EpollInv

LEMMA EpollInvStep == EpollInv /\ [Next]_vars => EpollInv'
<1> SUFFICES ASSUME EpollInv, [Next]_vars PROVE EpollInv'
  OBVIOUS
<1>1. ServerInv
  BY DEF EpollInv
<1>2. OwnStep /\ StateInv' /\ EventsInv'
  <2>1. CASE ServerStep /\ UNCHANGED events
    BY <1>1, <2>1, ServerStepKeeps, ServerStepEvents
  <2>2. ASSUME NEW s \in Servers, PollStep(s) PROVE OwnStep /\ StateInv' /\ EventsInv'
    BY <2>2, PollStepKeeps
  <2>3. CASE UNCHANGED vars
    <3>1. UNCHANGED serverVars /\ UNCHANGED <<clients, pc, victim, events>>
      BY <2>3 DEF vars, serverVars, cellVars
    <3> QED BY <1>1, <3>1, AllAtRest, EventsOutside DEF EpollInv, OwnStep
  <2> QED BY <2>1, <2>2, <2>3 DEF Next
<1> QED BY <1>1, <1>2, ServerInvKept DEF EpollInv

LEMMA EpollInvCorrect == EpollInv => ServerCorrect /\ NoDangling
<1> SUFFICES ASSUME EpollInv PROVE ServerCorrect /\ NoDangling
  OBVIOUS
<1>1. ServerInv
  BY DEF EpollInv
<1>2. ASSUME NEW s \in Servers
      PROVE  /\ pc[s] \in {"check", "poll", "msg"} => Range(clients[s]) \subseteq Live
             /\ pc[s] = "event" => events[s] \subseteq Live
             /\ pc[s] \in HalfOut \cup CountedOut \cup OutOfMap => victim[s] \in Live
  <2>1. pc[s] \in {"check", "poll", "msg"} => pc[s] \notin Erasing
    BY DEF Erasing
  <2>2. pc[s] \in HalfOut \cup CountedOut \cup OutOfMap => pc[s] \in Out \cup OutOfMap
    BY DEF Out
  <2>3. pc[s] = "event" => events[s] \subseteq Entries(s)
    BY DEF EpollInv, EventsInv, EventsAt
  <2> QED BY <1>1, <2>1, <2>2, <2>3, AtHandLive
<1> QED BY <1>1, <1>2, ServerInvCorrect DEF NoDangling

\* However the accept thread, the cell servers and the peers interleave, and
\* however descriptors are used again (EasyTcpServer.hpp, CellServer.hpp,
\* CellEpollServer.hpp): both counters are exact, the connection limit is
\* kept, every client has one holder, the maps are filed under the open
\* descriptors, and no thread follows a pointer to a freed client.
THEOREM ServersCorrect ==
  SafeSpec => [](CountersExact /\ LimitKept /\ OneHolder /\ KeysFit /\ NoDangling)
<1>1. ServerCorrect <=> CountersExact /\ LimitKept /\ OneHolder /\ KeysFit
  BY DEF ServerCorrect
<1> QED BY <1>1, EpollInvInit, EpollInvStep, EpollInvCorrect, PTL DEF SafeSpec
-----------------------------------------------------------------------------
(* Polling with select.                                                    *)

\* The copy of the descriptors is that of the map, unless the change of the
\* map is recorded, or still to be recorded at the end of the merge.
CopyAt(s) ==
  /\ pc[s] \notin Merging /\ ~clients_change[s] => fdRead_bak[s] = DOMAIN clients[s]
  /\ pc[s] \in Erasing => clients_change[s]

CopyInv ==
  /\ clients_change \in [Servers -> BOOLEAN]
  /\ fdRead_bak = [s \in Servers |-> fdRead_bak[s]]
  /\ \A s \in Servers : CopyAt(s)

SelectInv == ServerInv /\ CopyInv

LEMMA CopyStep ==
  ASSUME CopyInv, NEW s \in Servers, NEW change \in BOOLEAN, NEW copy,
         \A r \in Servers : r # s => pc'[r] = pc[r] /\ clients'[r] = clients[r],
         clients_change' = [clients_change EXCEPT ![s] = change],
         fdRead_bak' = [fdRead_bak EXCEPT ![s] = copy],
         pc'[s] \notin Merging /\ ~change => copy = DOMAIN clients'[s],
         pc'[s] \in Erasing => change
  PROVE  CopyInv'
<1>1. /\ clients_change' \in [Servers -> BOOLEAN] /\ clients_change'[s] = change
      /\ fdRead_bak' = [r \in Servers |-> fdRead_bak'[r]] /\ fdRead_bak'[s] = copy
      /\ \A r \in Servers : r # s => /\ clients_change'[r] = clients_change[r]
                                     /\ fdRead_bak'[r] = fdRead_bak[r]
  BY DEF CopyInv
<1>2. ASSUME NEW r \in Servers PROVE CopyAt(r)'
  <2>1. CASE r = s
    BY <1>1, <2>1 DEF CopyAt
  <2>2. CASE r # s
    <3>1. CopyAt(r)
      BY DEF CopyInv
    <3>2. /\ pc'[r] = pc[r] /\ clients'[r] = clients[r] /\ clients_change'[r] = clients_change[r]
          /\ fdRead_bak'[r] = fdRead_bak[r]
      BY <1>1, <2>2
    <3> QED BY <3>1, <3>2 DEF CopyAt
  <2> QED BY <2>1, <2>2
<1> QED BY <1>1, <1>2 DEF CopyInv

LEMMA CopyAsIs ==
  ASSUME CopyInv, NEW s \in Servers
  PROVE  /\ CopyAt(s) /\ clients_change[s] \in BOOLEAN
         /\ clients_change = [clients_change EXCEPT ![s] = clients_change[s]]
         /\ fdRead_bak = [fdRead_bak EXCEPT ![s] = fdRead_bak[s]]
<1>1. CopyAt(s) /\ clients_change[s] \in BOOLEAN
  BY DEF CopyInv
<1>2. clients_change = [clients_change EXCEPT ![s] = clients_change[s]]
  BY DEF CopyInv
<1>3. fdRead_bak = [fdRead_bak EXCEPT ![s] = fdRead_bak[s]]
  BY DEF CopyInv
<1> QED BY <1>1, <1>2, <1>3

LEMMA CopyOutside ==
  ASSUME CopyInv, UNCHANGED <<clients, pc, clients_change, fdRead_bak>>
  PROVE  CopyInv'
BY DEF CopyInv, CopyAt

\* A step that moves the thread of s and leaves the map, the copy and the
\* record of the change alone.
LEMMA CopyMove ==
  ASSUME SelectInv, NEW s \in Servers, NEW to, pc' = [pc EXCEPT ![s] = to],
         pc[s] \notin Merging, to \notin Erasing,
         UNCHANGED <<clients, clients_change, fdRead_bak>>
  PROVE  CopyInv'
<1>1. /\ clients_change' = [clients_change EXCEPT ![s] = clients_change[s]]
      /\ clients_change[s] \in BOOLEAN /\ CopyInv /\ CopyAt(s)
      /\ fdRead_bak' = [fdRead_bak EXCEPT ![s] = fdRead_bak[s]]
  BY CopyAsIs DEF SelectInv
<1>2. /\ pc'[s] = to
      /\ \A r \in Servers : r # s => pc'[r] = pc[r] /\ clients'[r] = clients[r]
  BY DEF SelectInv, ServerInv, ServerTypeOK
<1>3. pc'[s] \notin Merging /\ ~clients_change[s] => fdRead_bak[s] = DOMAIN clients'[s]
  BY <1>1 DEF CopyAt
<1>4. pc'[s] \in Erasing => clients_change[s]
  BY <1>2
<1>5. CASE clients_change[s] = TRUE
  <2>1. clients_change' = [clients_change EXCEPT ![s] = TRUE]
    BY <1>1, <1>5
  <2> QED BY <1>1, <1>2, <2>1, CopyStep
<1>6. CASE clients_change[s] = FALSE
  <2>1. clients_change' = [clients_change EXCEPT ![s] = FALSE] /\ pc'[s] \notin Erasing
    BY <1>1, <1>4, <1>6
  <2>2. pc'[s] \notin Merging => fdRead_bak[s] = DOMAIN clients'[s]
    BY <1>3, <1>6
  <2> QED BY <1>1, <1>2, <2>1, <2>2, CopyStep
<1> QED BY <1>1, <1>5, <1>6

\* A client leaves: its deletion records the change, which stays recorded
\* until its entry is erased.
LEMMA LeaveCopies ==
  ASSUME SelectInv, NEW s \in Servers, NEW go \in Goes, NEW at \in Left, NEW erase \in Erasing,
         NEW to \in Loops,
         LeaveJoined(s, go, at) \/ LeaveDelete(s, at, erase) \/ LeaveErase(s, erase, to),
         UNCHANGED fdRead_bak
  PROVE  CopyInv'
<1> USE DEF Goto
<1>1. /\ pc \in [Servers -> Places] /\ DOMAIN clients = Servers /\ CopyInv /\ CopyAt(s)
      /\ fdRead_bak' = [fdRead_bak EXCEPT ![s] = fdRead_bak[s]]
  BY CopyAsIs DEF SelectInv, ServerInv, ServerTypeOK
<1>4. ASSUME LeaveJoined(s, go, at) PROVE CopyInv'
  <2>1. /\ pc' = [pc EXCEPT ![s] = at] /\ pc[s] \notin Merging /\ at \notin Erasing
        /\ UNCHANGED <<clients, clients_change>>
    BY <1>4, PlacesApart DEF LeaveJoined
  <2> QED BY <2>1, CopyMove
<1> SUFFICES ASSUME LeaveDelete(s, at, erase) \/ LeaveErase(s, erase, to) PROVE CopyInv'
  BY <1>4
<1>2. clients_change' = [clients_change EXCEPT ![s] = TRUE]
  <2>1. CASE LeaveDelete(s, at, erase)
    BY <2>1 DEF LeaveDelete, DeleteVictim
  <2>2. CASE LeaveErase(s, erase, to)
    BY <1>1, <2>2 DEF LeaveErase, CopyInv, CopyAt
  <2> QED BY <2>1, <2>2
<1>3. \A r \in Servers : r # s => pc'[r] = pc[r] /\ clients'[r] = clients[r]
  <2>1. CASE LeaveDelete(s, at, erase)
    BY <1>1, <2>1 DEF LeaveDelete
  <2>2. CASE LeaveErase(s, erase, to)
    <3>1. PICK m : clients' = [clients EXCEPT ![s] = m]
      BY <2>2 DEF LeaveErase
    <3> QED BY <1>1, <2>2, <3>1 DEF LeaveErase
  <2> QED BY <2>1, <2>2
<1> QED BY <1>1, <1>2, <1>3, CopyStep

LEMMA CellStepCopies ==
  ASSUME SelectInv, NEW s \in Servers, CellStep(s), UNCHANGED fdRead_bak
  PROVE  CopyInv'
<1> USE DEF Goto
<1>1. /\ pc \in [Servers -> Places] /\ DOMAIN clients = Servers /\ CopyInv /\ CopyAt(s)
      /\ fdRead_bak' = [fdRead_bak EXCEPT ![s] = fdRead_bak[s]]
      /\ clients_change = [clients_change EXCEPT ![s] = clients_change[s]]
      /\ clients_change[s] \in BOOLEAN
  BY CopyAsIs DEF SelectInv, ServerInv, ServerTypeOK
<1>2. CASE LoopTop(s) \/ CheckTimeDone(s) \/ DoMsg(s)
  <2>1. PICK to : pc' = [pc EXCEPT ![s] = to] /\ pc[s] \notin Merging /\ to \notin Erasing
    BY <1>2 DEF LoopTop, CheckTimeDone, DoMsg, Erasing, Merging
  <2>2. UNCHANGED <<clients, clients_change>>
    BY <1>2 DEF LoopTop, CheckTimeDone, DoMsg
  <2> QED BY <2>1, <2>2, CopyMove
<1>3. CASE MergeClient(s) \/ NotifyJoin(s)
  <2>1. PICK m : clients' = [clients EXCEPT ![s] = m]
    <3>1. clients = [clients EXCEPT ![s] = clients[s]]
      BY DEF SelectInv, ServerInv, ServerTypeOK
    <3> QED BY <1>3, <3>1 DEF MergeClient, NotifyJoin
  <2>2. /\ \A r \in Servers : r # s => pc'[r] = pc[r] /\ clients'[r] = clients[r]
        /\ pc'[s] \in Merging /\ pc'[s] \notin Erasing
        /\ clients_change' = [clients_change EXCEPT ![s] = clients_change[s]]
    BY <1>1, <1>3, <2>1 DEF MergeClient, NotifyJoin, Erasing, Merging
  <2> QED BY <1>1, <2>2, CopyStep
<1>4. CASE MergeDone(s)
  <2>1. /\ \A r \in Servers : r # s => pc'[r] = pc[r] /\ clients'[r] = clients[r]
        /\ clients_change' = [clients_change EXCEPT ![s] = TRUE]
    BY <1>1, <1>4 DEF MergeDone
  <2> QED BY <1>1, <2>1, CopyStep
<1>5. CASE Expire(s)
  <2>1. /\ pc' = [pc EXCEPT ![s] = "expiring"] /\ pc[s] \notin Merging /\ "expiring" \notin Erasing
        /\ UNCHANGED <<clients, clients_change>>
    BY <1>5 DEF Expire, Leave, Erasing, Merging
  <2> QED BY <2>1, CopyMove
<1>6. CASE ExpireEnds(s)
  BY <1>6, LeaveCopies DEF ExpireEnds, Loops, Goes, Left, Erasing
<1> QED BY <1>2, <1>3, <1>4, <1>5, <1>6 DEF CellStep

LEMMA ServerStepCopies ==
  ASSUME SelectInv, ServerStep, UNCHANGED fdVars
  PROVE  CopyInv'
<1> USE DEF fdVars
<1>1. CASE (\E c \in Clients : Accept(c) \/ Refuse(c) \/ HangUp(c)) \/ AcceptThread
  <2>1. UNCHANGED <<clients, pc, clients_change, fdRead_bak>>
    BY <1>1 DEF Accept, Refuse, HangUp, AcceptThread, ReadSize, CompareCounts, AddClient, cellVars
  <2> QED BY <2>1, CopyOutside DEF SelectInv
<1>2. ASSUME NEW s \in Servers, CellStep(s) PROVE CopyInv'
  BY <1>2, CellStepCopies
<1> QED BY <1>1, <1>2 DEF ServerStep

\* However DoNetEvent's call of select ends.
LEMMA SelectKeeps ==
  ASSUME SelectInv, NEW s \in Servers, Select(s)
  PROVE  Stays /\ StateInv' /\ CopyInv'
<1> USE DEF Goto
<1>1. /\ pc \in [Servers -> Places] /\ CopyInv /\ CopyAt(s) /\ ServerInv
  BY DEF SelectInv, ServerInv, ServerTypeOK, CopyInv
<1>2. PICK to \in {"read", "msg", "ended"} : pc[s] = "poll" /\ pc' = [pc EXCEPT ![s] = to]
  BY DEF Select, SelectReturns, SelectInterrupted, SelectFails
<1>3. Prepare(s)
  BY DEF Select, SelectReturns, SelectInterrupted, SelectFails
<1>4. /\ to \in Plain /\ pc[s] \in Plain \ {"merge"}
      /\ UNCHANGED <<sock, object, countVars, acceptVars, clientsBuff, clients, mergeAt, victim>>
  BY <1>2, <1>3 DEF Prepare, netVars, Plain, Loops
<1>5. Stays /\ StateInv'
  BY <1>1, <1>2, <1>4, PlainStep
<1>6. /\ \A r \in Servers : r # s => pc'[r] = pc[r] /\ clients'[r] = clients[r]
      /\ pc'[s] \notin Erasing
      /\ clients_change' = [clients_change EXCEPT ![s] = FALSE]
      /\ fdRead_bak' = [fdRead_bak EXCEPT ![s] = Watched(s)]
  BY <1>1, <1>2, <1>3 DEF Prepare, Erasing
<1>7. Watched(s) = DOMAIN clients'[s]
  BY <1>1, <1>2, <1>4 DEF Watched, CopyAt, Merging
<1>8. CopyInv'
  BY <1>1, <1>6, <1>7, CopyStep
<1> QED BY <1>5, <1>8

\* A loop of ReadData or WriteData visits, removes, or ends.
LEMMA VisitKeeps ==
  ASSUME SelectInv, UNCHANGED <<serverVars, fdRead_bak>>
  PROVE  OwnStep /\ StateInv' /\ CopyInv'
<1>1. Stays /\ StateInv'
  BY AllAtRest DEF SelectInv
<1>2. CopyInv'
  BY CopyOutside DEF SelectInv, serverVars, cellVars
<1> QED BY <1>1, <1>2 DEF OwnStep

LEMMA LoopLeaveKeeps ==
  ASSUME SelectInv, NEW s \in Servers, NEW from \in Loops, NEW to \in Goes,
         NEW f \in DOMAIN clients[s], Leave(s, from, to, clients[s][f]), UNCHANGED fdRead_bak
  PROVE  OwnStep /\ StateInv' /\ CopyInv'
<1>1. clients[s][f] \in Range(clients[s])
  BY DEF Range
<1>2. OwnStep /\ StateInv'
  BY <1>1, LeaveKeeps DEF SelectInv
<1>3. /\ pc' = [pc EXCEPT ![s] = to] /\ pc[s] \notin Merging /\ to \notin Erasing
      /\ UNCHANGED <<clients, clients_change>>
  BY PlacesApart DEF Leave, Goto
<1>4. CopyInv'
  BY <1>3, CopyMove
<1> QED BY <1>2, <1>4

LEMMA LoopDoneKeeps ==
  ASSUME SelectInv, NEW s \in Servers, ReadDone(s) \/ WriteDone(s)
  PROVE  OwnStep /\ StateInv' /\ CopyInv'
<1>1. PICK to \in {"write", "msg"} : pc[s] \in Loops /\ pc' = [pc EXCEPT ![s] = to]
  BY DEF ReadDone, WriteDone, Goto, Loops
<1>2. /\ to \in Plain /\ pc[s] \in Plain \ {"merge"} /\ to \notin Erasing
      /\ UNCHANGED <<sock, object, countVars, acceptVars, clientsBuff, clients, mergeAt, victim>>
      /\ UNCHANGED <<clients_change, fdRead_bak>>
  BY <1>1 DEF ReadDone, WriteDone, netVars, Plain, Loops, Erasing
<1>3. Stays /\ StateInv'
  BY <1>1, <1>2, PlainStep DEF SelectInv
<1>4. CopyInv'
  BY <1>1, <1>2, PlacesApart, CopyMove DEF SelectInv
<1> QED BY <1>3, <1>4 DEF OwnStep

LEMMA SelectPollKeeps ==
  ASSUME SelectInv, NEW s \in Servers, SelectPoll(s)
  PROVE  OwnStep /\ StateInv' /\ CopyInv'
<1>1. CASE Select(s)
  BY <1>1, SelectKeeps DEF OwnStep
<1>2. CASE \E f \in Fds : ReadVisit(s, f) \/ WriteVisit(s, f)
  BY <1>2, VisitKeeps DEF ReadVisit, WriteVisit
<1>3. ASSUME NEW f \in Fds, ReadLeave(s, f) \/ WriteLeave(s, f)
      PROVE  OwnStep /\ StateInv' /\ CopyInv'
  BY <1>3, LoopLeaveKeeps DEF ReadLeave, WriteLeave, Loops, Goes
<1>4. CASE ReadEnds(s) \/ WriteEnds(s)
  <2>1. PICK go \in Goes, at \in Left, erase \in Erasing, to \in Loops :
           LeaveJoined(s, go, at) \/ LeaveDelete(s, at, erase) \/ LeaveErase(s, erase, to)
    BY <1>4 DEF ReadEnds, WriteEnds, Loops, Goes, Left, Erasing
  <2>2. UNCHANGED fdRead_bak
    BY <1>4 DEF ReadEnds, WriteEnds, fdVars
  <2> QED BY <2>1, <2>2, LeaveEndsKeeps, LeaveCopies DEF SelectInv
<1>5. CASE ReadDone(s) \/ WriteDone(s)
  BY <1>5, LoopDoneKeeps
<1> QED BY <1>1, <1>2, <1>3, <1>4, <1>5 DEF SelectPoll, ReadData, WriteData

LEMMA SelectInvInit == SelectInit => SelectInv
<1> SUFFICES ASSUME SelectInit PROVE SelectInv
  OBVIOUS
<1>1. ServerInit /\ fdRead_bak = [s \in Servers |-> {}]
  BY DEF SelectInit
<1>2. CopyInv
  BY <1>1 DEF ServerInit, CopyInv, CopyAt
<1> QED BY <1>1, <1>2, ServerInvInit DEF SelectInv

LEMMA SelectInvStep == SelectInv /\ [SelectNext]_selectVars => SelectInv'
<1> SUFFICES ASSUME SelectInv, [SelectNext]_selectVars PROVE SelectInv'
  OBVIOUS
<1>1. ServerInv
  BY DEF SelectInv
<1>2. OwnStep /\ StateInv' /\ CopyInv'
  <2>1. CASE ServerStep /\ UNCHANGED fdVars
    BY <1>1, <2>1, ServerStepKeeps, ServerStepCopies
  <2>2. ASSUME NEW s \in Servers, SelectPoll(s) PROVE OwnStep /\ StateInv' /\ CopyInv'
    BY <2>2, SelectPollKeeps
  <2>3. CASE UNCHANGED selectVars
    BY <2>3, VisitKeeps DEF selectVars, fdVars
  <2> QED BY <2>1, <2>2, <2>3 DEF SelectNext
<1> QED BY <1>1, <1>2, ServerInvKept DEF SelectInv

LEMMA SelectInvCorrect == SelectInv => ServerCorrect /\ CopyFits /\ VisitsLive
<1> SUFFICES ASSUME SelectInv PROVE ServerCorrect /\ CopyFits /\ VisitsLive
  OBVIOUS
<1>1. ServerInv
  BY DEF SelectInv
<1>2. ASSUME NEW s \in Servers, pc[s] \notin Merging, ~clients_change[s]
      PROVE  /\ fdRead_bak[s] = DOMAIN clients[s]
             /\ \A f \in fdRead_bak[s] : sock[clients[s][f]] = f
  <2>1. CopyAt(s) /\ KeyAt(s)
    BY DEF SelectInv, CopyInv, ServerInv, KeyInv
  <2>2. fdRead_bak[s] = DOMAIN clients[s] /\ pc[s] \notin Erasing
    BY <1>2, <2>1 DEF CopyAt
  <2> QED BY <2>1, <2>2 DEF KeyAt
<1>3. ASSUME NEW s \in Servers
      PROVE  /\ pc[s] \in {"check", "poll", "read", "write", "msg"} => Range(clients[s]) \subseteq Live
             /\ pc[s] \in HalfOut \cup CountedOut => victim[s] \in Live
  <2>1. pc[s] \in {"check", "poll", "read", "write", "msg"} => pc[s] \notin Erasing
    BY DEF Erasing
  <2> QED BY <1>1, <2>1, AtHandLive DEF Out
<1> QED BY <1>1, <1>2, <1>3, ServerInvCorrect DEF CopyFits, VisitsLive

\* The same with cell servers that poll with select (CellSelectServer.hpp),
\* and there: a copy of the descriptors that is used again is the map's, all
\* of them open, and the loops over the map visit only clients that are not
\* freed, also after ReadData removed some of the report that WriteData uses.
THEOREM SelectServersCorrect ==
  SelectSafeSpec =>
    [](CountersExact /\ LimitKept /\ OneHolder /\ KeysFit /\ CopyFits /\ VisitsLive)
<1>1. ServerCorrect <=> CountersExact /\ LimitKept /\ OneHolder /\ KeysFit
  BY DEF ServerCorrect
<1> QED BY <1>1, SelectInvInit, SelectInvStep, SelectInvCorrect, PTL DEF SelectSafeSpec
=============================================================================
