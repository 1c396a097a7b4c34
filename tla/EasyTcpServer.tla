---------------------------- MODULE EasyTcpServer ----------------------------
(***************************************************************************)
(* depends/include/EasyTcpServer.hpp and CellServer.hpp while the server   *)
(* runs: the accept thread gives each new client to one of the cell        *)
(* servers; the thread of each cell server moves its new clients from the  *)
(* buffer to its map, expires silent clients, polls, and removes clients   *)
(* whose socket failed.  How a cell server polls is left to the modules    *)
(* that extend this one.  Opening and closing the server are elsewhere.    *)
(***************************************************************************)
EXTENDS Integers, Sequences, FiniteSets, Functions

CONSTANTS
  Clients,      \* bound: the connections that may arrive, each of them once
  Fds,          \* bound: the descriptors that the kernel can give to clients
  NumServers,   \* number of cell servers
  MaxClient,    \* _nMaxClient
  None          \* no client

Servers == 1..NumServers

ASSUME ClientsFinite == IsFiniteSet(Clients) /\ None \notin Clients
ASSUME NumServersPos == NumServers \in Nat \ {0}
ASSUME MaxClientNat == MaxClient \in Nat

VARIABLES
  \* sockets and CellClient objects
  sock,          \* client -> its open descriptor, for clients with an open socket
  object,        \* client -> "none", "live", "freed" or "refused"
  hungUp,        \* clients whose peer has closed, all it sent having been read
  \* EasyTcpServer
  clientAccept,  \* _clientAccept
  clientJoin,    \* _clientJoin
  hand,          \* the client that Accpet() is giving to a cell server
  scan,          \* the next cell server addClientToCellServer compares
  minServer,     \* pMinServer
  sizes,         \* the sizes that the comparison has read
  \* CellServer, per cell server
  clientsBuff,   \* _clientsBuff
  clients,       \* _clients: descriptor -> client
  pc,            \* where the thread is in OnRun
  mergeAt,       \* position of the loop over _clientsBuff
  victim,        \* the client being removed
  clients_change \* _clients_change: the map is not what it was at the last poll

acceptVars == <<hand, scan, minServer, sizes>>
cellVars == <<clientsBuff, clients, pc, mergeAt, victim, clients_change>>
netVars == <<sock, object, hungUp>>
countVars == <<clientAccept, clientJoin>>
serverVars == <<netVars, countVars, acceptVars, cellVars>>

EmptyMap == [f \in {} |-> None]

\* where the thread of a cell server has the lock of its buffer
Merging == {"merge", "join"}

ServerInit ==
  /\ sock = EmptyMap
  /\ object = [c \in Clients |-> "none"]
  /\ hungUp = {}
  /\ clientAccept = 0 /\ clientJoin = 0
  /\ hand = None /\ scan = 2 /\ minServer = 1 /\ sizes = <<>>
  /\ clientsBuff = [s \in Servers |-> <<>>]
  /\ clients = [s \in Servers |-> EmptyMap]
  /\ pc = [s \in Servers |-> "loop"]
  /\ mergeAt = [s \in Servers |-> 0]
  /\ victim = [s \in Servers |-> None]
  /\ clients_change = [s \in Servers |-> TRUE]
-----------------------------------------------------------------------------
(* The accept thread *)

\* Mutant of Accept: the limit is compared with <=.
AcceptOverLimit(c) ==
  /\ hand = None
  /\ object[c] = "none"
  /\ clientAccept <= MaxClient
  /\ \E f \in Fds \ Range(sock) :
        sock' = [d \in DOMAIN sock \cup {c} |-> IF d = c THEN f ELSE sock[d]]
  /\ object' = [object EXCEPT ![c] = "live"]
  /\ clientAccept' = clientAccept + 1
  /\ hand' = c
  /\ scan' = 2 /\ minServer' = 1
  /\ UNCHANGED <<sizes, hungUp, clientJoin, cellVars>>

\* Accpet() under the limit: count the client and create its object.  The
\* kernel gives it a descriptor that no open socket has.
Accept(c) ==
  /\ hand = None
  /\ object[c] = "none"
  /\ clientAccept < MaxClient
  /\ \E f \in Fds \ Range(sock) :
        sock' = [d \in DOMAIN sock \cup {c} |-> IF d = c THEN f ELSE sock[d]]
  /\ object' = [object EXCEPT ![c] = "live"]
  /\ clientAccept' = clientAccept + 1
  /\ hand' = c
  /\ scan' = 2 /\ minServer' = 1
  /\ UNCHANGED <<sizes, hungUp, clientJoin, cellVars>>

\* Accpet() at the limit: the new socket is closed at once.
Refuse(c) ==
  /\ hand = None
  /\ object[c] = "none"
  /\ clientAccept >= MaxClient
  /\ object' = [object EXCEPT ![c] = "refused"]
  /\ UNCHANGED <<sock, hungUp, countVars, acceptVars, cellVars>>

\* addClientToCellServer compares the counts of two servers.  Each is the sum
\* of two sizes, and the four are read one after the other, without a lock.
\* (The first comparison, of the first server with itself, chooses it
\* whatever it reads, and is left out.)
ReadSize ==
  /\ hand # None
  /\ scan <= NumServers
  /\ Len(sizes) < 4
  /\ LET s == IF Len(sizes) < 2 THEN minServer ELSE scan IN
       sizes' = Append(sizes, IF Len(sizes) \in {0, 2} THEN Cardinality(DOMAIN clients[s])
                                                     ELSE Len(clientsBuff[s]))
  /\ UNCHANGED <<netVars, countVars, hand, scan, minServer, cellVars>>

CompareCounts ==
  /\ hand # None
  /\ scan <= NumServers
  /\ Len(sizes) = 4
  /\ minServer' = IF sizes[1] + sizes[2] > sizes[3] + sizes[4] THEN scan ELSE minServer
  /\ scan' = scan + 1
  /\ sizes' = <<>>
  /\ UNCHANGED <<netVars, countVars, hand, cellVars>>

\* CellServer::addClient, under the lock that the merge also takes.
AddClient ==
  /\ hand # None
  /\ scan > NumServers
  /\ pc[minServer] \notin Merging
  /\ clientsBuff' = [clientsBuff EXCEPT ![minServer] = Append(@, hand)]
  /\ hand' = None
  /\ UNCHANGED <<netVars, countVars, scan, minServer, sizes, clients, pc, mergeAt, victim, clients_change>>

AcceptThread == ReadSize \/ CompareCounts \/ AddClient

\* The peer closes the connection.
HangUp(c) ==
  /\ object[c] = "live"
  /\ hungUp' = hungUp \cup {c}
  /\ UNCHANGED <<sock, object, countVars, acceptVars, cellVars>>
-----------------------------------------------------------------------------
(* The thread of cell server s *)

Goto(s, from, to) == pc[s] = from /\ pc' = [pc EXCEPT ![s] = to]

\* Mutant of LoopTop: a server without clients sleeps before it merges.
LoopTopSleepFirst(s) ==
  /\ clients[s] # EmptyMap
  /\ IF clientsBuff[s] # <<>> THEN Goto(s, "loop", "merge") ELSE Goto(s, "loop", "check")
  /\ UNCHANGED <<netVars, countVars, acceptVars, clientsBuff, clients, mergeAt, victim, clients_change>>

\* Top of the loop of OnRun: the emptiness of the buffer is read without
\* the lock, and a server without clients sleeps.
LoopTop(s) ==
  /\ \/ clientsBuff[s] # <<>> /\ Goto(s, "loop", "merge")
     \/ clientsBuff[s] = <<>> /\ clients[s] # EmptyMap /\ Goto(s, "loop", "check")
  /\ UNCHANGED <<netVars, countVars, acceptVars, clientsBuff, clients, mergeAt, victim, clients_change>>

\* One round of the loop over the buffer: the client goes into the map ...
MergeClient(s) ==
  /\ Goto(s, "merge", "join")
  /\ mergeAt[s] < Len(clientsBuff[s])
  /\ LET c == clientsBuff[s][mergeAt[s] + 1] IN
       clients' = [clients EXCEPT ![s] =
                     [f \in DOMAIN @ \cup {sock[c]} |-> IF f = sock[c] THEN c ELSE @[f]]]
  /\ mergeAt' = [mergeAt EXCEPT ![s] = @ + 1]
  /\ UNCHANGED <<netVars, countVars, acceptVars, clientsBuff, victim, clients_change>>

\* ... and OnNetJoin counts it in.
NotifyJoin(s) ==
  /\ Goto(s, "join", "merge")
  /\ clientJoin' = clientJoin + 1
  /\ UNCHANGED <<netVars, clientAccept, acceptVars, clientsBuff, clients, mergeAt, victim, clients_change>>

\* Mutants of MergeDone: the buffer is not cleared; the change of the map
\* is not recorded.
MergeKeepsBuffer(s) ==
  /\ Goto(s, "merge", "check")
  /\ mergeAt[s] = Len(clientsBuff[s])
  /\ mergeAt' = [mergeAt EXCEPT ![s] = 0]
  /\ clients_change' = [clients_change EXCEPT ![s] = TRUE]
  /\ UNCHANGED <<netVars, countVars, acceptVars, clientsBuff, clients, victim>>

MergeUnrecorded(s) ==
  /\ Goto(s, "merge", "check")
  /\ mergeAt[s] = Len(clientsBuff[s])
  /\ clientsBuff' = [clientsBuff EXCEPT ![s] = <<>>]
  /\ mergeAt' = [mergeAt EXCEPT ![s] = 0]
  /\ UNCHANGED <<netVars, countVars, acceptVars, clients, victim, clients_change>>

MergeDone(s) ==
  /\ Goto(s, "merge", "check")
  /\ mergeAt[s] = Len(clientsBuff[s])
  /\ clientsBuff' = [clientsBuff EXCEPT ![s] = <<>>]
  /\ mergeAt' = [mergeAt EXCEPT ![s] = 0]
  /\ clients_change' = [clients_change EXCEPT ![s] = TRUE]
  /\ UNCHANGED <<netVars, countVars, acceptVars, clients, victim>>

\* Mutant of NotifyLeave: only _clientJoin is counted down.
LeaveUncounted(s, c) ==
  /\ victim' = [victim EXCEPT ![s] = c]
  /\ UNCHANGED countVars

\* OnClientLeave: OnNetLeave counts the client out of _clientAccept ...
NotifyLeave(s, c) ==
  /\ clientAccept' = clientAccept - 1
  /\ victim' = [victim EXCEPT ![s] = c]
  /\ UNCHANGED clientJoin

\* ... and of _clientJoin; then the change is recorded, and delete closes the
\* socket and frees the object.
DeleteVictim(s) ==
  /\ clients_change' = [clients_change EXCEPT ![s] = TRUE]
  /\ object' = [object EXCEPT ![victim[s]] = "freed"]
  /\ sock' = [d \in DOMAIN sock \ {victim[s]} |-> sock[d]]
  /\ UNCHANGED hungUp

\* A loop over the map removes an entry: OnClientLeave in three steps, and
\* the entry last, after the descriptor was given back.
Leave(s, from, to, c) ==
  /\ Goto(s, from, to)
  /\ NotifyLeave(s, c)
  /\ UNCHANGED <<netVars, acceptVars, clientsBuff, clients, mergeAt, clients_change>>

LeaveJoined(s, from, to) ==
  /\ Goto(s, from, to)
  /\ clientJoin' = clientJoin - 1
  /\ UNCHANGED <<netVars, clientAccept, acceptVars, clientsBuff, clients, mergeAt, victim, clients_change>>

LeaveDelete(s, from, to) ==
  /\ Goto(s, from, to)
  /\ DeleteVictim(s)
  /\ UNCHANGED <<countVars, acceptVars, clientsBuff, clients, mergeAt, victim>>

\* Mutant of LeaveErase: the entry stays.
LeaveEntry(s, from, to) ==
  /\ Goto(s, from, to)
  /\ victim' = [victim EXCEPT ![s] = None]
  /\ UNCHANGED <<netVars, countVars, acceptVars, clientsBuff, clients, mergeAt, clients_change>>

LeaveErase(s, from, to) ==
  /\ Goto(s, from, to)
  /\ clients' = [clients EXCEPT ![s] =
                   Restrict(@, {f \in DOMAIN @ : @[f] # victim[s]})]
  /\ victim' = [victim EXCEPT ![s] = None]
  /\ UNCHANGED <<netVars, countVars, acceptVars, clientsBuff, mergeAt, clients_change>>

\* CheckTime finds a client that was silent for too long.
Expire(s) == \E c \in Range(clients[s]) : Leave(s, "check", "expiring", c)

ExpireEnds(s) ==
  \/ LeaveJoined(s, "expiring", "expired")
  \/ LeaveDelete(s, "expired", "erase")
  \/ LeaveErase(s, "erase", "check")

CheckTimeDone(s) ==
  /\ Goto(s, "check", "poll")
  /\ UNCHANGED <<netVars, countVars, acceptVars, clientsBuff, clients, mergeAt, victim, clients_change>>

\* DoMsg hands the received messages of every client in the map to OnNetMsg.
DoMsg(s) ==
  /\ Goto(s, "msg", "loop")
  /\ UNCHANGED <<netVars, countVars, acceptVars, clientsBuff, clients, mergeAt, victim, clients_change>>

CellStep(s) ==
  \/ LoopTop(s) \/ MergeClient(s) \/ NotifyJoin(s) \/ MergeDone(s)
  \/ Expire(s) \/ ExpireEnds(s) \/ CheckTimeDone(s)
  \/ DoMsg(s)

ServerStep ==
  \/ \E c \in Clients : Accept(c) \/ Refuse(c) \/ HangUp(c)
  \/ AcceptThread
  \/ \E s \in Servers : CellStep(s)
-----------------------------------------------------------------------------
(* What holds for every way of polling.  The places of the threads of the  *)
(* modules that extend this one are named here too.                        *)

\* between the two decrements of OnNetLeave; between the second and delete;
\* with the client's entry erased before, or still to be erased after its
\* deletion
HalfOut == {"expiring", "removing", "readLeaving", "writeLeaving"}
CountedOut == {"expired", "delete", "readLeft", "writeLeft"}
OutOfMap == {"remove", "removing", "delete"}
Erasing == {"erase", "readErase", "writeErase"}

Live == {c \in Clients : object[c] = "live"}

\* clients that _clientAccept no longer counts and delete has not freed yet
Leaving == {victim[s] : s \in {r \in Servers : pc[r] \in HalfOut \cup CountedOut}}

Waiting(s) == {clientsBuff[s][i] : i \in (mergeAt[s] + 1)..Len(clientsBuff[s])}
Removed(s) == IF pc[s] \in OutOfMap THEN {victim[s]} ELSE {}
Entries(s) == {clients[s][f] : f \in {g \in DOMAIN clients[s] :
                                        ~(pc[s] \in Erasing /\ clients[s][g] = victim[s])}}
Held(s) == Waiting(s) \cup Entries(s) \cup Removed(s)

\* the clients of s that _clientJoin counts: those that came into the map,
\* but for the one that OnNetJoin or delete is still to be called for
Uncounted(s) ==
  IF pc[s] = "join" THEN {clientsBuff[s][mergeAt[s]]}
  ELSE IF pc[s] \in CountedOut THEN {victim[s]} ELSE {}
Joined(s) == (Entries(s) \cup Removed(s)) \ Uncounted(s)

\* Neither counter ever drifts, though all threads change them without a
\* lock and each at a moment of its own: between any two accesses of any two
\* threads _clientAccept is the number of the clients that were accepted and
\* not counted out of it, wherever they are, and _clientJoin the number of
\* those that were counted in when they came into a map and not counted out.
\* (The comments EasyTcpServer.hpp:222 and 226-227 say that only one thread
\* calls OnNetJoin, and that OnNetLeave is safe with one cell server only:
\* the thread of every cell server calls both, and the counters are atomic.)
CountersExact ==
  /\ clientAccept = Cardinality(Live \ Leaving)
  /\ clientJoin = Cardinality(UNION {Joined(s) : s \in Servers})

\* The connection limit: at most MaxClient objects, plus those that are
\* being deleted, one per cell server at most.
LimitKept == Cardinality(Live) <= MaxClient + Cardinality(Leaving)

\* Every live client is held by exactly one party: the accept thread, or
\* the buffer, the map or the removal of one cell server.
OneHolder ==
  /\ \A c \in Live : c = hand \/ \E s \in Servers : c \in Held(s)
  /\ \A s \in Servers :
       /\ Held(s) \subseteq Live /\ hand \notin Held(s)
       /\ Waiting(s) \cap Entries(s) = {} /\ Entries(s) \cap Removed(s) = {}
       /\ \A r \in Servers \ {s} : Held(r) \cap Held(s) = {}

\* A map entry is filed under the descriptor of its client, except that the
\* entry of an expired client outlives its object for one step; so a merge
\* never finds its key taken, though descriptors are used again at once.
KeysFit ==
  \A s \in Servers :
    /\ \A f \in DOMAIN clients[s] :
          LET c == clients[s][f] IN
          IF pc[s] \in Erasing /\ c = victim[s] THEN c \notin DOMAIN sock
                                            ELSE c \in DOMAIN sock /\ sock[c] = f
    /\ pc[s] \in Merging => \A c \in Waiting(s) : sock[c] \notin DOMAIN clients[s]
=============================================================================
