----------------------------- MODULE MemoryMgr -----------------------------
(***************************************************************************)
(* depends/include/MemoryMgr.hpp, which the global operators new and       *)
(* delete of Alloctor.cpp call: one MemoryAlloc for each size class, with  *)
(* a list of free blocks, and malloc for what is larger or does not fit    *)
(* any more.  A block counts its references.  The list is changed with     *)
(* its lock held, one step per call; the count of a block that malloc gave *)
(* is counted down without any lock, in two steps.                         *)
(***************************************************************************)
EXTENDS Naturals, Sequences, FiniteSets

CONSTANTS
  Threads,     \* the threads that allocate
  Classes,     \* the sizes of _mem64, _mem128
  BlockCount,  \* nBlockSize: how many blocks a pool has
  HeapCount,   \* bound: how many blocks malloc hands out at once
  Sizes,       \* the sizes that are asked for
  PtrSize,     \* sizeof(void*)
  Idle         \* the thread is in no call

ASSUME ThreadsFinite == IsFiniteSet(Threads)
ASSUME ClassesPos == IsFiniteSet(Classes) /\ Classes \subseteq Nat \ {0}
ASSUME CountsNat == BlockCount \in Nat \ {0} /\ HeapCount \in Nat
ASSUME SizesNat == Sizes \subseteq Nat

\* A MemoryBlock is known by the pool it lies in, or 0 when malloc gave it,
\* and its _nID there.
PoolBlock == Classes \X (1..BlockCount)
HeapBlock == {0} \X (1..HeapCount)
Block == PoolBlock \cup HeapBlock

\* The unit size that MemoryAlloctor rounds a class to.
UnitSize(c) == (c \div PtrSize) * PtrSize + (IF c % PtrSize # 0 THEN PtrSize ELSE 0)

\* _szAlloc: the smallest class that holds nSize; none above MAX_MEMORY_SIZE.
SzAlloc(nSize) == {c \in Classes : nSize <= c /\ \A d \in Classes : nSize <= d => c <= d}

\* No class is rounded down, and the units keep pointers aligned.
ASSUME UnitsFit == PtrSize \in Nat \ {0} /\ \A c \in Classes : UnitSize(c) >= c /\ UnitSize(c) % PtrSize = 0

VARIABLES
  made,       \* the classes whose _pBuf exists
  freeList,   \* _pHeader and the chain of _pNext: the _nIDs in a class's list
  heap,       \* the blocks that malloc gave and free did not take back
  nRef,       \* _nRef of every block
  call,       \* the block and the count a thread read in freeMem, or Idle
  holds,      \* the blocks that each thread uses
  shared      \* history: the blocks that addRef has given to a second user

memVars == <<made, freeList, heap, nRef, call, holds, shared>>

MemInit ==
  /\ made = {}
  /\ freeList = [c \in Classes |-> <<>>]
  /\ heap = {}
  /\ nRef = [b \in Block |-> 0]
  /\ call = [t \in Threads |-> Idle]
  /\ holds = [t \in Threads |-> {}]
  /\ shared = {}
-----------------------------------------------------------------------------
\* The block is the caller's, with one reference.
Take(t, b) ==
  /\ nRef' = [nRef EXCEPT ![b] = 1]
  /\ holds' = [holds EXCEPT ![t] = @ \cup {b}]
  /\ UNCHANGED <<call, shared>>

Malloc(t) ==
  /\ \E b \in HeapBlock \ heap : Take(t, b) /\ heap' = heap \cup {b}

\* initMemory, on the first call, chains all the blocks.
FreeBlocks(c) == IF c \in made THEN freeList[c] ELSE [i \in 1..BlockCount |-> i]

\* Mutant of PopHeader: the header stays in the list.
KeepHeader(t, c) ==
  /\ Take(t, <<c, Head(FreeBlocks(c))>>)
  /\ freeList' = [freeList EXCEPT ![c] = FreeBlocks(c)]
  /\ UNCHANGED heap

PopHeader(t, c) ==
  /\ Take(t, <<c, Head(FreeBlocks(c))>>)
  /\ freeList' = [freeList EXCEPT ![c] = Tail(FreeBlocks(c))]
  /\ UNCHANGED heap

AllocMemory(t, c) ==
  /\ made' = made \cup {c}
  /\ IF FreeBlocks(c) # <<>> THEN PopHeader(t, c) ELSE Malloc(t) /\ UNCHANGED freeList

\* operator new
AllocMem(t, nSize) ==
  /\ call[t] = Idle
  /\ IF SzAlloc(nSize) # {}
     THEN \E c \in SzAlloc(nSize) : AllocMemory(t, c)
     ELSE Malloc(t) /\ UNCHANGED <<made, freeList>>

\* Mutant of FreeMemory: the block is put on the list though it is still
\* referenced.
FreeShared(t, b) ==
  /\ nRef' = [nRef EXCEPT ![b] = @ - 1]
  /\ freeList' = [freeList EXCEPT ![b[1]] = <<b[2]>> \o @]
  /\ UNCHANGED <<made, heap, call>>

\* freeMemory: with the pool's lock; the last reference returns the block.
FreeMemory(t, b) ==
  /\ nRef' = [nRef EXCEPT ![b] = @ - 1]
  /\ freeList' = [freeList EXCEPT ![b[1]] = IF nRef[b] = 1 THEN <<b[2]>> \o @ ELSE @]
  /\ UNCHANGED <<made, heap, call>>

\* operator delete, by a user of the block
FreeMem(t, b) ==
  /\ call[t] = Idle
  /\ b \in holds[t]
  /\ holds' = [holds EXCEPT ![t] = @ \ {b}]
  /\ shared' = shared \ {b}
  /\ \/ b \in PoolBlock /\ FreeMemory(t, b)
     \/ /\ b \in HeapBlock
        /\ call' = [call EXCEPT ![t] = [block |-> b, seen |-> nRef[b]]]
        /\ UNCHANGED <<made, freeList, heap, nRef>>

\* Mutant of FreeHeap: the block is freed whatever its count is.
FreeHeapAtOnce(t) ==
  /\ call[t] # Idle
  /\ LET b == call[t].block IN
     /\ nRef' = [nRef EXCEPT ![b] = call[t].seen - 1]
     /\ heap' = heap \ {b}
  /\ call' = [call EXCEPT ![t] = Idle]
  /\ UNCHANGED <<made, freeList, holds, shared>>

\* --(pBlock->_nRef), from the value read; free when it is 0.
FreeHeap(t) ==
  /\ call[t] # Idle
  /\ LET b == call[t].block  left == call[t].seen - 1 IN
     /\ nRef' = [nRef EXCEPT ![b] = left]
     /\ heap' = IF left = 0 THEN heap \ {b} ELSE heap
  /\ call' = [call EXCEPT ![t] = Idle]
  /\ UNCHANGED <<made, freeList, holds, shared>>

\* addRef, for another thread that is to use the block too.  It takes no
\* lock, so only the block's one user may call it, while no other counts.
AddRef(t, u, b) ==
  /\ call[t] = Idle
  /\ b \in holds[t] /\ b \notin holds[u]
  /\ nRef[b] = 1
  /\ nRef' = [nRef EXCEPT ![b] = @ + 1]
  /\ holds' = [holds EXCEPT ![u] = @ \cup {b}]
  /\ shared' = shared \cup {b}
  /\ UNCHANGED <<made, freeList, heap, call>>
-----------------------------------------------------------------------------
Users(b) == {t \in Threads : b \in holds[t]}

Listed(b) == b \in PoolBlock /\ b[1] \in made /\ \E i \in DOMAIN freeList[b[1]] : freeList[b[1]][i] = b[2]

\* No pool block is lost, whoever shares and frees it in whatever order: it
\* is in its list, once, with a count of 0 (the assertion of allocMemory),
\* or its count is the number of threads that use it.
PoolWhole ==
  \A b \in PoolBlock :
     /\ Listed(b) => nRef[b] = 0
     /\ b[1] \in made => (Listed(b) <=> Users(b) = {})
     /\ nRef[b] = Cardinality(Users(b))
     /\ \A i, j \in DOMAIN freeList[b[1]] : freeList[b[1]][i] = freeList[b[1]][j] => i = j

\* The unlocked count of a malloc block can lose a decrement, when two
\* users free it at once, but never an increment: the block may leak, but
\* no block that a thread uses, or is still counting, is given back.
HeapKept ==
  \A b \in HeapBlock :
     b \notin heap => /\ Users(b) = {}
                      /\ \A t \in Threads : call[t] # Idle => call[t].block # b
=============================================================================
