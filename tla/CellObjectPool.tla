--------------------------- MODULE CellObjectPool ---------------------------
(***************************************************************************)
(* EasyTcpServer/CellObjectPool.hpp: a class that derives ObjectPoolBase   *)
(* takes its objects from a list of its own, and, when that is empty, from *)
(* `new char[]', which is the MemoryMgr.  Threads create and destroy       *)
(* objects and allocate plain memory at the same time.                     *)
(***************************************************************************)
EXTENDS MemoryMgr

CONSTANTS
  PoolSize,   \* nPoolSize
  ObjSize     \* sizeof(Type) + sizeof(NodeHeader)

ASSUME PoolSizePos == PoolSize \in Nat \ {0} /\ ObjSize \in Nat

VARIABLES
  objFree,    \* the list of _pHeader: the nIDs of the objects in it
  objRef,     \* nRef of the pool's objects
  objects,    \* the MemoryMgr blocks that hold an object
  objHolds    \* the pool's objects that each thread uses

objVars == <<objFree, objRef, objects, objHolds>>
vars == <<memVars, objVars>>

\* initPool
Init ==
  /\ MemInit
  /\ objFree = [i \in 1..PoolSize |-> i]
  /\ objRef = [i \in 1..PoolSize |-> 0]
  /\ objects = {}
  /\ objHolds = [t \in Threads |-> {}]
-----------------------------------------------------------------------------
\* createObject: allocObjMemory, with the pool's lock
CreateObject(t) ==
  /\ call[t] = Idle
  /\ \/ /\ objFree # <<>>
        /\ objFree' = Tail(objFree)
        /\ objRef' = [objRef EXCEPT ![Head(objFree)] = 1]
        /\ objHolds' = [objHolds EXCEPT ![t] = @ \cup {Head(objFree)}]
        /\ UNCHANGED <<memVars, objects>>
     \/ /\ objFree = <<>>
        /\ AllocMem(t, ObjSize)
        /\ objects' = objects \cup (holds'[t] \ holds[t])
        /\ UNCHANGED <<objFree, objRef, objHolds>>

\* Mutant of DestroyObject: the count is tested before it is counted down.
DestroyReferenced(t, i) ==
  /\ call[t] = Idle
  /\ i \in objHolds[t]
  /\ objHolds' = [objHolds EXCEPT ![t] = @ \ {i}]
  /\ objRef' = [objRef EXCEPT ![i] = @ - 1]
  /\ objFree' = IF objRef[i] = 0 THEN <<i>> \o objFree ELSE objFree
  /\ UNCHANGED <<memVars, objects>>

\* destroyObject: freeObjMemory of an object of the pool
DestroyObject(t, i) ==
  /\ call[t] = Idle
  /\ i \in objHolds[t]
  /\ objHolds' = [objHolds EXCEPT ![t] = @ \ {i}]
  /\ objRef' = [objRef EXCEPT ![i] = @ - 1]
  /\ objFree' = IF objRef[i] = 1 THEN <<i>> \o objFree ELSE objFree
  /\ UNCHANGED <<memVars, objects>>

\* ... and of one that `new char[]' gave: delete[].
DestroyOverflow(t, b) ==
  /\ b \in objects
  /\ FreeMem(t, b)
  /\ objects' = objects \ {b}
  /\ UNCHANGED <<objFree, objRef, objHolds>>

New(t, nSize) == AllocMem(t, nSize) /\ UNCHANGED objVars

Delete(t, b) == b \notin objects /\ FreeMem(t, b) /\ UNCHANGED objVars

DeleteEnds(t) == FreeHeap(t) /\ UNCHANGED objVars

Share(t, u, b) == b \notin objects /\ AddRef(t, u, b) /\ UNCHANGED objVars

Next ==
  \E t \in Threads :
     \/ CreateObject(t)
     \/ \E i \in 1..PoolSize : DestroyObject(t, i)
     \/ \E b \in Block : DestroyOverflow(t, b) \/ Delete(t, b) \/ \E u \in Threads \ {t} : Share(t, u, b)
     \/ \E nSize \in Sizes : New(t, nSize)
     \/ DeleteEnds(t)

Spec == Init /\ [][Next]_vars
-----------------------------------------------------------------------------
\* The two pools together keep the promise of new and delete: no memory is
\* given to a thread while another uses it, be it a pool's own or the
\* other pool's, whose blocks hold the objects that did not fit.
PoolAddr(i) == <<"object", i>>
MemAddr(b) == <<"memory", b>>

Memory == INSTANCE Allocator WITH
  Blocks <- {PoolAddr(i) : i \in 1..PoolSize} \cup {MemAddr(b) : b \in Block},
  holds <- [t \in Threads |-> {PoolAddr(i) : i \in objHolds[t]} \cup {MemAddr(b) : b \in holds[t]}],
  shared <- {MemAddr(b) : b \in shared}

IsAllocator == Memory!Safe

\* Every object of the pool is in its list, or used by the one thread that
\* its count stands for.
ObjectsWhole ==
  \A i \in 1..PoolSize :
     /\ Cardinality({k \in DOMAIN objFree : objFree[k] = i}) = 1 - objRef[i]
     /\ objRef[i] = Cardinality({t \in Threads : i \in objHolds[t]})
=============================================================================
