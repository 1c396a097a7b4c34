------------------------ MODULE CellObjectPoolProofs ------------------------
(***************************************************************************)
(* No block and no object is lost or given twice, and the object pool on   *)
(* top of MemoryMgr implements an allocator, for any threads, size classes *)
(* and pool sizes.                                                         *)
(***************************************************************************)
EXTENDS CellObjectPool, FiniteSetTheorems, SequenceTheorems, TLAPS

-----------------------------------------------------------------------------
(* Free lists.                                                             *)

Distinct(list) == \A i, j \in DOMAIN list : list[i] = list[j] => i = j
In(list, x) == \E i \in DOMAIN list : list[i] = x

LEMMA PopFront ==
  ASSUME NEW n \in Nat, NEW list \in Seq(1..n), list # <<>>, Distinct(list)
  PROVE  /\ Head(list) \in 1..n /\ In(list, Head(list))
         /\ Tail(list) \in Seq(1..n) /\ Distinct(Tail(list))
         /\ \A x : In(Tail(list), x) <=> In(list, x) /\ x # Head(list)
<1> DEFINE rest == Tail(list)
<1>1. /\ Head(list) = list[1] /\ Head(list) \in 1..n
      /\ rest \in Seq(1..n) /\ Len(list) \in Nat /\ Len(list) > 0
      /\ DOMAIN list = 1..Len(list) /\ DOMAIN rest = 1..(Len(list) - 1)
      /\ \A i \in 1..(Len(list) - 1) : rest[i] = list[i + 1]
  BY HeadTailProperties, LenProperties, EmptySeq
<1> HIDE DEF rest
<1>2. 1 \in DOMAIN list
  BY <1>1
<1>3. \A i \in DOMAIN rest : i + 1 \in DOMAIN list /\ i + 1 # 1 /\ rest[i] = list[i + 1]
  BY <1>1, SMTT(30)
<1>4. Distinct(rest)
  <2> SUFFICES ASSUME NEW i \in DOMAIN rest, NEW j \in DOMAIN rest, rest[i] = rest[j]
               PROVE  i = j
    BY DEF Distinct
  <2>1. i + 1 = j + 1
    BY <1>3 DEF Distinct
  <2>2. i \in Nat /\ j \in Nat
    BY <1>1
  <2> QED BY <2>1, <2>2
<1>5. ASSUME NEW x PROVE In(rest, x) <=> In(list, x) /\ x # Head(list)
  <2>1. ASSUME In(rest, x) PROVE In(list, x) /\ x # Head(list)
    <3>1. PICK i \in DOMAIN rest : rest[i] = x
      BY <2>1 DEF In
    <3>2. i + 1 \in DOMAIN list /\ i + 1 # 1 /\ list[i + 1] = x
      BY <1>3, <3>1
    <3> QED BY <1>1, <1>2, <3>2 DEF In, Distinct
  <2>2. ASSUME In(list, x), x # Head(list) PROVE In(rest, x)
    <3>1. PICK i \in DOMAIN list : list[i] = x
      BY <2>2 DEF In
    <3>2. i # 1
      BY <1>1, <2>2, <3>1
    <3> DEFINE j == i - 1
    <3>3. j \in 1..(Len(list) - 1) /\ j + 1 = i
      <4>1. i \in 1..Len(list) /\ Len(list) \in Nat
        BY <1>1
      <4> QED BY <3>2, <4>1
    <3> HIDE DEF j
    <3>4. j \in DOMAIN rest /\ rest[j] = list[i]
      BY <1>1, <3>3
    <3> QED BY <3>1, <3>4 DEF In
  <2> QED BY <2>1, <2>2
<1>6. In(list, Head(list))
  BY <1>1, <1>2 DEF In
<1> QED BY <1>1, <1>4, <1>5, <1>6 DEF rest

LEMMA PushFront ==
  ASSUME NEW n \in Nat, NEW list \in Seq(1..n), NEW x \in 1..n, Distinct(list), ~In(list, x)
  PROVE  /\ <<x>> \o list \in Seq(1..n) /\ Distinct(<<x>> \o list)
         /\ \A y : In(<<x>> \o list, y) <=> y = x \/ In(list, y)
<1> DEFINE one == <<x>>
           longer == one \o list
<1>1. one \in Seq(1..n) /\ Len(one) = 1 /\ one[1] = x
  OBVIOUS
<1>2. Len(list) \in Nat /\ DOMAIN list = 1..Len(list)
  BY LenProperties
<1> HIDE DEF one
<1>3. /\ longer \in Seq(1..n) /\ Len(longer) = Len(list) + 1
      /\ \A i \in 1..(Len(list) + 1) : longer[i] = IF i <= 1 THEN one[i] ELSE list[i - 1]
  <2>1. /\ longer \in Seq(1..n) /\ Len(longer) = Len(one) + Len(list)
        /\ \A i \in 1..(Len(one) + Len(list)) :
              longer[i] = IF i <= Len(one) THEN one[i] ELSE list[i - Len(one)]
    BY <1>1, ConcatProperties
  <2>2. Len(one) + Len(list) = Len(list) + 1
    BY <1>1, <1>2
  <2> HIDE DEF longer
  <2> QED BY <1>1, <2>1, <2>2
<1> HIDE DEF longer
<1>4. DOMAIN longer = 1..(Len(list) + 1)
  BY <1>3, LenProperties
<1>5. /\ 1 \in DOMAIN longer /\ longer[1] = x
      /\ \A i \in DOMAIN longer : i # 1 => i - 1 \in DOMAIN list /\ longer[i] = list[i - 1]
  BY <1>1, <1>2, <1>3, <1>4
<1>6. \A i \in DOMAIN list : i + 1 \in DOMAIN longer /\ longer[i + 1] = list[i]
  <2> TAKE i \in DOMAIN list
  <2>1. i + 1 \in 1..(Len(list) + 1) /\ ~(i + 1 <= 1) /\ i + 1 - 1 = i
    BY <1>2
  <2> QED BY <1>3, <1>4, <2>1
<1>7. Distinct(longer)
  <2> SUFFICES ASSUME NEW i \in DOMAIN longer, NEW j \in DOMAIN longer, longer[i] = longer[j]
               PROVE  i = j
    BY DEF Distinct
  <2>1. CASE i # 1 /\ j # 1
    <3>1. i - 1 = j - 1
      BY <1>5, <2>1 DEF Distinct
    <3> QED BY <1>4, <3>1, <1>2
  <2>2. CASE i = 1 \/ j = 1
    BY <1>5, <2>2 DEF In
  <2> QED BY <2>1, <2>2
<1>8. ASSUME NEW y PROVE In(longer, y) <=> y = x \/ In(list, y)
  <2>1. In(longer, y) => y = x \/ In(list, y)
    BY <1>5 DEF In
  <2>2. y = x \/ In(list, y) => In(longer, y)
    BY <1>5, <1>6 DEF In
  <2> QED BY <2>1, <2>2
<1> QED BY <1>3, <1>7, <1>8 DEF longer, one

LEMMA WholeList ==
  ASSUME NEW n \in Nat
  PROVE  LET all == [i \in 1..n |-> i]
         IN  /\ all \in Seq(1..n) /\ Distinct(all)
             /\ \A x \in 1..n : In(all, x)
             /\ n > 0 => all # <<>>
<1> DEFINE all == [i \in 1..n |-> i]
<1>1. all \in Seq(1..n) /\ DOMAIN all = 1..n /\ Len(all) = n
  OBVIOUS
<1>2. Distinct(all) /\ \A x \in 1..n : In(all, x)
  BY DEF Distinct, In
<1>3. n > 0 => all # <<>>
  <2> SUFFICES ASSUME n > 0, all = <<>> PROVE FALSE
    OBVIOUS
  <2>1. Len(all) = 0
    BY EmptySeq
  <2> QED BY <1>1, <2>1
<1> QED BY <1>1, <1>2, <1>3
-----------------------------------------------------------------------------
(* MemoryMgr.                                                              *)

MemTypeOK ==
  /\ made \subseteq Classes
  /\ freeList \in [Classes -> Seq(1..BlockCount)]
  /\ heap \subseteq HeapBlock
  /\ nRef \in [Block -> Nat]
  /\ call \in [Threads -> {Idle} \cup [block : HeapBlock, seen : Nat]]
  /\ holds \in [Threads -> SUBSET Block]

\* The list that an allocation of the class will find is exact: it holds,
\* once, every block that nobody uses.
PoolInv ==
  \A c \in Classes :
     /\ Distinct(FreeBlocks(c))
     /\ c \notin made => freeList[c] = <<>>
     /\ \A i \in 1..BlockCount :
          /\ In(FreeBlocks(c), i) <=> Users(<<c, i>>) = {}
          /\ nRef[<<c, i>>] = Cardinality(Users(<<c, i>>))

\* The threads that have read the count of a malloc block and will write it.
Deleters(b) == {t \in Threads : call[t] # Idle /\ call[t].block = b}
Parties(b) == Users(b) \cup Deleters(b)

\* The count, and every count that was read, is at least the number of
\* threads that use the block or count it down; so whoever counts down to
\* zero is the last of them.
HeapInv ==
  \A b \in HeapBlock :
     /\ Users(b) \cap Deleters(b) = {}
     /\ b \notin heap => Parties(b) = {}
     /\ nRef[b] >= Cardinality(Parties(b))
     /\ \A t \in Deleters(b) : call[t].seen >= Cardinality(Parties(b))

MemInv == MemTypeOK /\ PoolInv /\ HeapInv

LEMMA BlockKinds ==
  /\ \A c \in Classes, i \in 1..BlockCount : <<c, i>> \in PoolBlock
  /\ \A b \in PoolBlock : b[1] \in Classes /\ b[2] \in 1..BlockCount /\ b = <<b[1], b[2]>>
  /\ \A b \in HeapBlock : b \notin PoolBlock
  /\ PoolBlock \subseteq Block /\ HeapBlock \subseteq Block
  /\ \A b \in Block : b \in PoolBlock \/ b \in HeapBlock
<1>1. \A b \in HeapBlock : b \notin PoolBlock
  BY ClassesPos DEF HeapBlock, PoolBlock
<1> QED BY <1>1 DEF Block, PoolBlock, HeapBlock

LEMMA PartiesFinite ==
  \A b : /\ IsFiniteSet(Users(b)) /\ IsFiniteSet(Parties(b))
         /\ Cardinality(Users(b)) \in Nat /\ Cardinality(Parties(b)) \in Nat
<1> TAKE b
<1>1. Users(b) \in SUBSET Threads /\ Parties(b) \in SUBSET Threads
  BY DEF Users, Parties, Deleters
<1> QED BY <1>1, ThreadsFinite, FS_Subset, FS_CardinalityType

\* What giving a block to a thread, or taking one back, does to the users.
LEMMA UsersAdd ==
  ASSUME holds \in [Threads -> SUBSET Block], NEW t \in Threads, NEW b \in Block,
         holds' = [holds EXCEPT ![t] = @ \cup {b}]
  PROVE  /\ holds' \in [Threads -> SUBSET Block]
         /\ Users(b)' = Users(b) \cup {t}
         /\ \A d : d # b => Users(d)' = Users(d)
BY DEF Users

LEMMA UsersDrop ==
  ASSUME holds \in [Threads -> SUBSET Block], NEW t \in Threads, NEW b \in Block,
         holds' = [holds EXCEPT ![t] = @ \ {b}]
  PROVE  /\ holds' \in [Threads -> SUBSET Block]
         /\ Users(b)' = Users(b) \ {t}
         /\ \A d : d # b => Users(d)' = Users(d)
BY DEF Users

\* A pool whose list, counts and users do not change stays in order, and so
\* does a malloc block.
LEMMA PoolKept ==
  ASSUME PoolInv,
         \A c \in Classes : /\ FreeBlocks(c)' = FreeBlocks(c)
                            /\ c \notin made' => freeList'[c] = freeList[c] /\ c \notin made
                            /\ \A i \in 1..BlockCount : /\ Users(<<c, i>>)' = Users(<<c, i>>)
                                                        /\ nRef'[<<c, i>>] = nRef[<<c, i>>]
  PROVE  PoolInv'
<1> SUFFICES ASSUME NEW c \in Classes
             PROVE  /\ Distinct(FreeBlocks(c)')
                    /\ c \notin made' => freeList'[c] = <<>>
                    /\ \A i \in 1..BlockCount :
                         /\ In(FreeBlocks(c)', i) <=> Users(<<c, i>>)' = {}
                         /\ nRef'[<<c, i>>] = Cardinality(Users(<<c, i>>)')
  BY DEF PoolInv, Distinct, In
<1> QED BY DEF PoolInv

LEMMA HeapInvKept ==
  ASSUME HeapInv, UNCHANGED <<heap, call>>,
         \A b \in HeapBlock : Users(b)' = Users(b) /\ nRef'[b] = nRef[b]
  PROVE  HeapInv'
BY DEF HeapInv, Parties, Deleters

LEMMA MallocStep ==
  ASSUME MemInv, NEW t \in Threads, call[t] = Idle, Malloc(t), UNCHANGED <<made, freeList>>
  PROVE  MemInv' /\ \E b \in Block : Users(b) = {} /\ holds' = [holds EXCEPT ![t] = @ \cup {b}]
<1>1. PICK b \in HeapBlock \ heap : Take(t, b) /\ heap' = heap \cup {b}
  BY DEF Malloc
<1>2. /\ b \in Block /\ b \notin PoolBlock
      /\ nRef' = [nRef EXCEPT ![b] = 1] /\ holds' = [holds EXCEPT ![t] = @ \cup {b}] /\ call' = call
  BY <1>1, BlockKinds DEF Take
<1>3. /\ holds' \in [Threads -> SUBSET Block] /\ Users(b)' = Users(b) \cup {t}
      /\ \A d : d # b => Users(d)' = Users(d)
  BY <1>2, UsersAdd DEF MemInv, MemTypeOK
<1>4. MemTypeOK'
  BY <1>1, <1>2, <1>3 DEF MemInv, MemTypeOK
<1>5. PoolInv'
  <2>1. \A c \in Classes, i \in 1..BlockCount : <<c, i>> # b /\ <<c, i>> \in Block
    BY <1>2, BlockKinds
  <2>2. \A c \in Classes, i \in 1..BlockCount : nRef'[<<c, i>>] = nRef[<<c, i>>]
    BY <1>2, <2>1 DEF MemInv, MemTypeOK
  <2> QED BY <1>3, <2>1, <2>2, PoolKept DEF MemInv, FreeBlocks
<1>6. HeapInv'
  <2>1. Users(b) = {} /\ Deleters(b) = {}
    BY <1>1 DEF MemInv, HeapInv, Parties
  <2>2. \A d : Deleters(d)' = Deleters(d)
    BY <1>2 DEF Deleters
  <2>3. Users(b)' = {t} /\ Parties(b)' = {t} /\ Cardinality(Parties(b)') = 1
    BY <1>3, <2>1, <2>2, FS_Singleton DEF Parties
  <2>4. \A d \in HeapBlock : d # b => Parties(d)' = Parties(d) /\ nRef'[d] = nRef[d]
    BY <1>2, <1>3, <2>2 DEF Parties, MemInv, MemTypeOK
  <2>5. nRef'[b] = 1
    BY <1>2 DEF MemInv, MemTypeOK
  <2>6. b \in heap' /\ \A d : d \in heap => d \in heap'
    BY <1>1
  <2> SUFFICES ASSUME NEW d \in HeapBlock
               PROVE  /\ Users(d)' \cap Deleters(d)' = {}
                      /\ d \notin heap' => Parties(d)' = {}
                      /\ nRef'[d] >= Cardinality(Parties(d)')
                      /\ \A u \in Deleters(d)' : call'[u].seen >= Cardinality(Parties(d)')
    BY DEF HeapInv
  <2>7. CASE d = b
    BY <2>1, <2>2, <2>3, <2>5, <2>6, <2>7
  <2>8. CASE d # b
    BY <1>2, <1>3, <2>2, <2>4, <2>6, <2>8 DEF MemInv, HeapInv
  <2> QED BY <2>7, <2>8
<1>7. Users(b) = {}
  BY <1>1 DEF MemInv, HeapInv, Parties
<1> QED BY <1>2, <1>4, <1>5, <1>6, <1>7 DEF MemInv

LEMMA PopStep ==
  ASSUME MemInv, NEW t \in Threads, NEW c \in Classes, call[t] = Idle,
         FreeBlocks(c) # <<>>, PopHeader(t, c), made' = made \cup {c}
  PROVE  MemInv' /\ \E b \in Block : Users(b) = {} /\ holds' = [holds EXCEPT ![t] = @ \cup {b}]
<1> DEFINE list == FreeBlocks(c)
<1>1. list \in Seq(1..BlockCount) /\ Distinct(list)
  BY WholeList, CountsNat DEF MemInv, MemTypeOK, PoolInv, FreeBlocks
<1>2. PICK head \in 1..BlockCount :
        /\ head = Head(list) /\ In(list, head)
        /\ Tail(list) \in Seq(1..BlockCount) /\ Distinct(Tail(list))
        /\ \A x : In(Tail(list), x) <=> In(list, x) /\ x # head
  BY <1>1, PopFront, CountsNat
<1> DEFINE b == <<c, head>>
<1>3. b \in PoolBlock /\ b \in Block
  BY <1>2, BlockKinds
<1>4. Users(b) = {}
  BY <1>2 DEF MemInv, PoolInv
<1>5. /\ nRef' = [nRef EXCEPT ![b] = 1] /\ holds' = [holds EXCEPT ![t] = @ \cup {b}]
      /\ freeList' = [freeList EXCEPT ![c] = Tail(list)] /\ UNCHANGED <<heap, call>>
  BY <1>2 DEF PopHeader, Take
<1>6. /\ holds' \in [Threads -> SUBSET Block] /\ Users(b)' = {t} /\ Cardinality(Users(b)') = 1
      /\ \A d : d # b => Users(d)' = Users(d)
  <2> HIDE DEF b
  <2>1. /\ holds' \in [Threads -> SUBSET Block] /\ Users(b)' = Users(b) \cup {t}
        /\ \A d : d # b => Users(d)' = Users(d)
    BY <1>3, <1>5, UsersAdd DEF MemInv, MemTypeOK
  <2>2. Users(b)' = {t}
    BY <1>4, <2>1
  <2> QED BY <2>1, <2>2, FS_Singleton
<1> HIDE DEF list
<1>7. MemTypeOK'
  BY <1>2, <1>3, <1>5, <1>6 DEF MemInv, MemTypeOK
<1>8. PoolInv'
  <2>1. FreeBlocks(c)' = Tail(list) /\ \A d \in Classes : d # c => FreeBlocks(d)' = FreeBlocks(d)
    BY <1>5 DEF FreeBlocks, MemInv, MemTypeOK
  <2> SUFFICES ASSUME NEW d \in Classes
               PROVE  /\ Distinct(FreeBlocks(d)')
                      /\ d \notin made' => freeList'[d] = <<>>
                      /\ \A i \in 1..BlockCount :
                           /\ In(FreeBlocks(d)', i) <=> Users(<<d, i>>)' = {}
                           /\ nRef'[<<d, i>>] = Cardinality(Users(<<d, i>>)')
    BY DEF PoolInv, Distinct, In
  <2>2. ASSUME NEW i \in 1..BlockCount, <<d, i>> # b
        PROVE  Users(<<d, i>>)' = Users(<<d, i>>) /\ nRef'[<<d, i>>] = nRef[<<d, i>>]
    BY <1>5, <1>6, <2>2, BlockKinds DEF MemInv, MemTypeOK
  <2>3. CASE d # c
    <3>1. \A i \in 1..BlockCount : <<d, i>> # b
      BY <2>3
    <3>2. freeList'[d] = freeList[d]
      BY <1>5, <2>3 DEF MemInv, MemTypeOK
    <3>3. FreeBlocks(d)' = FreeBlocks(d)
      BY <2>1, <2>3
    <3> QED BY <2>2, <3>1, <3>2, <3>3 DEF MemInv, PoolInv
  <2>4. CASE d = c
    <3>1. \A i \in 1..BlockCount : i = head \/ <<d, i>> # b
      BY <2>4
    <3>2. ASSUME NEW i \in 1..BlockCount, i # head
          PROVE  /\ In(FreeBlocks(d)', i) <=> Users(<<d, i>>)' = {}
                 /\ nRef'[<<d, i>>] = Cardinality(Users(<<d, i>>)')
      <4>1. In(FreeBlocks(d)', i) <=> In(list, i)
        BY <1>2, <2>1, <2>4, <3>2
      <4>2. /\ In(list, i) <=> Users(<<d, i>>) = {}
            /\ nRef[<<d, i>>] = Cardinality(Users(<<d, i>>))
        BY <2>4 DEF MemInv, PoolInv, list
      <4>3. Users(<<d, i>>)' = Users(<<d, i>>) /\ nRef'[<<d, i>>] = nRef[<<d, i>>]
        BY <2>2, <3>1, <3>2
      <4> QED BY <4>1, <4>2, <4>3
    <3>3. ~In(FreeBlocks(d)', head) /\ Users(<<d, head>>)' # {}
      BY <1>2, <1>6, <2>1, <2>4
    <3>4. nRef'[<<d, head>>] = Cardinality(Users(<<d, head>>)')
      BY <1>3, <1>5, <1>6, <2>4 DEF MemInv, MemTypeOK
    <3>5. Distinct(FreeBlocks(d)') /\ d \in made'
      BY <1>2, <2>1, <2>4
    <3>6. ASSUME NEW i \in 1..BlockCount
          PROVE  /\ In(FreeBlocks(d)', i) <=> Users(<<d, i>>)' = {}
                 /\ nRef'[<<d, i>>] = Cardinality(Users(<<d, i>>)')
      <4>1. CASE i = head
        BY <3>3, <3>4, <4>1
      <4> QED BY <3>2, <4>1
    <3> QED BY <3>5, <3>6
  <2> QED BY <2>3, <2>4
<1>9. HeapInv'
  <2>1. \A d \in HeapBlock : d # b /\ d \in Block
    BY <1>3, BlockKinds
  <2>2. \A d \in HeapBlock : Users(d)' = Users(d) /\ nRef'[d] = nRef[d]
    BY <1>5, <1>6, <2>1 DEF MemInv, MemTypeOK
  <2> QED BY <1>5, <2>2, HeapInvKept DEF MemInv
<1> QED BY <1>3, <1>4, <1>5, <1>7, <1>8, <1>9 DEF MemInv, list

LEMMA AllocStep ==
  ASSUME MemInv, NEW t \in Threads, NEW nSize, AllocMem(t, nSize)
  PROVE  MemInv' /\ \E b \in Block : Users(b) = {} /\ holds' = [holds EXCEPT ![t] = @ \cup {b}]
<1>1. call[t] = Idle
  BY DEF AllocMem
<1>2. CASE Malloc(t) /\ UNCHANGED <<made, freeList>>
  BY <1>1, <1>2, MallocStep
<1>3. ASSUME NEW c \in Classes, AllocMemory(t, c)
      PROVE  MemInv' /\ \E b \in Block : Users(b) = {} /\ holds' = [holds EXCEPT ![t] = @ \cup {b}]
  <2>1. CASE FreeBlocks(c) # <<>>
    BY <1>1, <1>3, <2>1, PopStep DEF AllocMemory
  <2>2. CASE FreeBlocks(c) = <<>>
    <3>1. c \in made
      BY <2>2, WholeList, CountsNat DEF FreeBlocks
    <3>2. UNCHANGED <<made, freeList>>
      BY <1>3, <2>2, <3>1 DEF AllocMemory
    <3> QED BY <1>1, <1>3, <2>2, <3>2, MallocStep DEF AllocMemory
  <2> QED BY <2>1, <2>2
<1> QED BY <1>2, <1>3 DEF AllocMem, SzAlloc

LEMMA FreePoolStep ==
  ASSUME MemInv, NEW t \in Threads, NEW b \in PoolBlock, b \in holds[t],
         holds' = [holds EXCEPT ![t] = @ \ {b}], FreeMemory(t, b)
  PROVE  MemInv'
<1>1. PICK c \in Classes, i \in 1..BlockCount : b = <<c, i>> /\ c = b[1] /\ i = b[2] /\ b \in Block
  BY BlockKinds
<1>2. /\ holds' \in [Threads -> SUBSET Block] /\ Users(b)' = Users(b) \ {t}
      /\ \A d : d # b => Users(d)' = Users(d)
  BY <1>1, UsersDrop DEF MemInv, MemTypeOK
<1>3. t \in Users(b) /\ c \in made /\ ~In(freeList[c], i) /\ nRef[b] = Cardinality(Users(b))
  <2>1. t \in Users(b)
    BY DEF Users
  <2>2. ~In(FreeBlocks(c), i) /\ nRef[b] = Cardinality(Users(b))
    BY <1>1, <2>1 DEF MemInv, PoolInv
  <2>3. c \in made
    BY <1>1, <2>2, WholeList, CountsNat DEF FreeBlocks
  <2> QED BY <2>1, <2>2, <2>3 DEF FreeBlocks
<1>4. /\ Cardinality(Users(b)') = nRef[b] - 1 /\ Cardinality(Users(b)') \in Nat
      /\ nRef[b] = 1 <=> Users(b)' = {}
  <2>1. Cardinality(Users(b) \ {t}) = Cardinality(Users(b)) - 1 /\ IsFiniteSet(Users(b) \ {t})
    BY <1>3, PartiesFinite, FS_RemoveElement
  <2>2. Cardinality(Users(b) \ {t}) \in Nat /\ (Cardinality(Users(b) \ {t}) = 0 <=> Users(b) \ {t} = {})
    BY <2>1, FS_EmptySet, FS_CardinalityType
  <2>3. Cardinality(Users(b)) \in Nat
    BY PartiesFinite
  <2> QED BY <1>2, <1>3, <2>1, <2>2, <2>3
<1>5. /\ nRef' = [nRef EXCEPT ![b] = @ - 1] /\ UNCHANGED <<made, heap, call>>
      /\ freeList' = [freeList EXCEPT ![c] = IF nRef[b] = 1 THEN <<i>> \o @ ELSE @]
  BY <1>1 DEF FreeMemory
<1>6. freeList[c] \in Seq(1..BlockCount) /\ Distinct(freeList[c])
  BY <1>1, <1>3 DEF MemInv, MemTypeOK, PoolInv, FreeBlocks
<1>7. /\ <<i>> \o freeList[c] \in Seq(1..BlockCount) /\ Distinct(<<i>> \o freeList[c])
      /\ \A x : In(<<i>> \o freeList[c], x) <=> x = i \/ In(freeList[c], x)
  BY <1>3, <1>6, PushFront, CountsNat
<1>8. PICK list \in Seq(1..BlockCount) :
        /\ freeList' = [freeList EXCEPT ![c] = list] /\ Distinct(list)
        /\ \A x : In(list, x) <=> (x = i /\ nRef[b] = 1) \/ In(freeList[c], x)
  <2>1. CASE nRef[b] = 1
    BY <1>5, <1>7, <2>1
  <2>2. CASE nRef[b] # 1
    BY <1>5, <1>6, <2>2
  <2> QED BY <2>1, <2>2
<1>9. nRef'[b] = nRef[b] - 1 /\ \A d \in Block : d # b => nRef'[d] = nRef[d]
  BY <1>1, <1>5 DEF MemInv, MemTypeOK
<1>10. MemTypeOK'
  <2>1. nRef' \in [Block -> Nat]
    BY <1>1, <1>4, <1>5 DEF MemInv, MemTypeOK
  <2> QED BY <1>2, <1>5, <1>8, <2>1 DEF MemInv, MemTypeOK
<1>11. PoolInv'
  <2> SUFFICES ASSUME NEW d \in Classes
               PROVE  /\ Distinct(FreeBlocks(d)')
                      /\ d \notin made' => freeList'[d] = <<>>
                      /\ \A j \in 1..BlockCount :
                           /\ In(FreeBlocks(d)', j) <=> Users(<<d, j>>)' = {}
                           /\ nRef'[<<d, j>>] = Cardinality(Users(<<d, j>>)')
    BY DEF PoolInv, Distinct, In
  <2>1. ASSUME NEW j \in 1..BlockCount, <<d, j>> # b
        PROVE  Users(<<d, j>>)' = Users(<<d, j>>) /\ nRef'[<<d, j>>] = nRef[<<d, j>>]
    BY <1>2, <1>9, <2>1, BlockKinds
  <2>2. CASE d # c
    <3>1. freeList'[d] = freeList[d]
      BY <1>8, <2>2 DEF MemInv, MemTypeOK
    <3>2. FreeBlocks(d)' = FreeBlocks(d)
      BY <1>5, <3>1 DEF FreeBlocks
    <3>3. \A j \in 1..BlockCount : <<d, j>> # b
      BY <1>1, <2>2
    <3> QED BY <1>5, <2>1, <3>1, <3>2, <3>3 DEF MemInv, PoolInv
  <2>3. CASE d = c
    <3>1. FreeBlocks(d)' = list /\ FreeBlocks(d) = freeList[c] /\ d \in made'
      BY <1>3, <1>5, <1>8, <2>3 DEF FreeBlocks, MemInv, MemTypeOK
    <3>2. ASSUME NEW j \in 1..BlockCount
          PROVE  /\ In(FreeBlocks(d)', j) <=> Users(<<d, j>>)' = {}
                 /\ nRef'[<<d, j>>] = Cardinality(Users(<<d, j>>)')
      <4>1. CASE j = i
        <5>1. <<d, j>> = b
          BY <1>1, <2>3, <4>1
        <5>2. In(FreeBlocks(d)', j) <=> nRef[b] = 1
          BY <1>3, <1>8, <3>1, <4>1
        <5> QED BY <1>4, <1>9, <5>1, <5>2
      <4>2. CASE j # i
        <5>1. <<d, j>> # b
          BY <1>1, <4>2
        <5>2. Users(<<d, j>>)' = Users(<<d, j>>) /\ nRef'[<<d, j>>] = nRef[<<d, j>>]
          BY <2>1, <5>1
        <5>3. In(FreeBlocks(d)', j) <=> In(FreeBlocks(d), j)
          BY <1>8, <3>1, <4>2
        <5>4. /\ In(FreeBlocks(d), j) <=> Users(<<d, j>>) = {}
              /\ nRef[<<d, j>>] = Cardinality(Users(<<d, j>>))
          BY DEF MemInv, PoolInv
        <5> QED BY <5>2, <5>3, <5>4
      <4> QED BY <4>1, <4>2
    <3> QED BY <1>8, <3>1, <3>2
  <2> QED BY <2>2, <2>3
<1>12. HeapInv'
  <2>1. \A d \in HeapBlock : d # b /\ d \in Block
    BY BlockKinds
  <2> QED BY <1>2, <1>5, <1>9, <2>1, HeapInvKept DEF MemInv
<1> QED BY <1>10, <1>11, <1>12 DEF MemInv

\* Whatever removes a party of a malloc block, and lowers its count by one
\* at most, leaves the block in order.
LEMMA FewerParties ==
  ASSUME NEW b, IsFiniteSet(Parties(b)), Parties(b)' \subseteq Parties(b)
  PROVE  /\ Cardinality(Parties(b)') \in Nat
         /\ Cardinality(Parties(b)') <= Cardinality(Parties(b))
<1> DEFINE before == Parties(b)
           after == Parties(b)'
<1>1. after \in SUBSET before /\ IsFiniteSet(before)
  OBVIOUS
<1> HIDE DEF before, after
<1>2. IsFiniteSet(after) /\ Cardinality(after) <= Cardinality(before)
  BY <1>1, FS_Subset
<1> QED BY <1>2, FS_CardinalityType DEF before, after

LEMMA FreeHeapBegins ==
  ASSUME MemInv, NEW t \in Threads, NEW b \in HeapBlock, b \in holds[t], call[t] = Idle,
         holds' = [holds EXCEPT ![t] = @ \ {b}],
         call' = [call EXCEPT ![t] = [block |-> b, seen |-> nRef[b]]],
         UNCHANGED <<made, freeList, heap, nRef>>
  PROVE  MemInv'
<1>1. b \in Block /\ b \notin PoolBlock
  BY BlockKinds
<1>2. /\ holds' \in [Threads -> SUBSET Block] /\ Users(b)' = Users(b) \ {t}
      /\ \A d : d # b => Users(d)' = Users(d)
  BY <1>1, UsersDrop DEF MemInv, MemTypeOK
<1>3. MemTypeOK'
  BY <1>1, <1>2 DEF MemInv, MemTypeOK
<1>4. PoolInv'
  <2>1. \A c \in Classes, i \in 1..BlockCount : <<c, i>> # b
    BY <1>1, BlockKinds
  <2> QED BY <1>2, <2>1, PoolKept DEF MemInv, FreeBlocks
<1>5. HeapInv'
  <2>1. t \in Users(b)
    BY DEF Users
  <2>2. /\ Deleters(b)' \subseteq Deleters(b) \cup {t}
        /\ \A u \in Deleters(b)' : IF u = t THEN call'[u].seen = nRef[b] ELSE call'[u] = call[u] /\ u \in Deleters(b)
    BY DEF Deleters, MemInv, MemTypeOK
  <2>3. \A d \in HeapBlock : d # b => /\ Deleters(d)' \subseteq Deleters(d)
                                      /\ \A u \in Deleters(d)' : call'[u] = call[u]
    BY DEF Deleters, MemInv, MemTypeOK
  <2> SUFFICES ASSUME NEW d \in HeapBlock
               PROVE  /\ Users(d)' \cap Deleters(d)' = {}
                      /\ d \notin heap' => Parties(d)' = {}
                      /\ nRef'[d] >= Cardinality(Parties(d)')
                      /\ \A u \in Deleters(d)' : call'[u].seen >= Cardinality(Parties(d)')
    BY DEF HeapInv
  <2>4. Parties(d)' \subseteq Parties(d)
    BY <1>2, <2>1, <2>2, <2>3 DEF Parties
  <2>5. /\ Cardinality(Parties(d)') \in Nat /\ Cardinality(Parties(d)) \in Nat
        /\ Cardinality(Parties(d)') <= Cardinality(Parties(d))
    BY <2>4, FewerParties, PartiesFinite
  <2>6. nRef[d] \in Nat /\ nRef[d] >= Cardinality(Parties(d)) /\ nRef'[d] = nRef[d]
    BY BlockKinds DEF MemInv, MemTypeOK, HeapInv
  <2>7. ASSUME NEW u \in Deleters(d)' PROVE call'[u].seen >= Cardinality(Parties(d)')
    <3>1. CASE u \in Deleters(d) /\ call'[u] = call[u]
      <4>1. call[u].seen \in Nat
        BY <3>1 DEF MemInv, MemTypeOK, Deleters
      <4>2. call[u].seen >= Cardinality(Parties(d))
        BY <3>1 DEF MemInv, HeapInv
      <4> QED BY <2>5, <3>1, <4>1, <4>2
    <3>2. CASE d = b /\ u = t
      BY <2>2, <2>5, <2>6, <2>7, <3>2
    <3> QED BY <2>2, <2>3, <2>7, <3>1, <3>2
  <2>8. Users(d)' \cap Deleters(d)' = {}
    BY <1>2, <2>2, <2>3 DEF MemInv, HeapInv
  <2>9. d \notin heap' => Parties(d)' = {}
    BY <2>4 DEF MemInv, HeapInv
  <2> QED BY <2>5, <2>6, <2>7, <2>8, <2>9
<1> QED BY <1>3, <1>4, <1>5 DEF MemInv

LEMMA FreeHeapEnds ==
  ASSUME MemInv, NEW t \in Threads, FreeHeap(t)
  PROVE  MemInv' /\ holds' = holds
<1>1. PICK b \in HeapBlock, seen \in Nat :
        call[t] # Idle /\ call[t].block = b /\ call[t].seen = seen
  BY DEF FreeHeap, MemInv, MemTypeOK
<1>2. b \in Block /\ b \notin PoolBlock
  BY BlockKinds
<1>3. /\ nRef' = [nRef EXCEPT ![b] = seen - 1]
      /\ heap' = IF seen - 1 = 0 THEN heap \ {b} ELSE heap
      /\ call' = [call EXCEPT ![t] = Idle]
      /\ UNCHANGED <<made, freeList, holds>>
  BY <1>1 DEF FreeHeap
<1>4. t \in Deleters(b) /\ t \in Parties(b) /\ t \notin Users(b) /\ b \in heap
  BY <1>1 DEF Deleters, Parties, MemInv, HeapInv
<1>5. /\ Users(b)' = Users(b) /\ Deleters(b)' = Deleters(b) \ {t} /\ Parties(b)' = Parties(b) \ {t}
      /\ \A d : d # b => /\ Users(d)' = Users(d) /\ Deleters(d)' = Deleters(d)
                         /\ Parties(d)' = Parties(d)
      /\ \A d : \A u \in Deleters(d)' : u # t /\ call'[u] = call[u] /\ u \in Deleters(d)
  BY <1>1, <1>3, <1>4 DEF Users, Deleters, Parties, MemInv, MemTypeOK
<1>6. /\ Cardinality(Parties(b)) \in Nat /\ Cardinality(Parties(b)') \in Nat
      /\ Cardinality(Parties(b)') = Cardinality(Parties(b)) - 1
      /\ Cardinality(Parties(b)') = 0 <=> Parties(b)' = {}
  <2>1. /\ Cardinality(Parties(b) \ {t}) = Cardinality(Parties(b)) - 1
        /\ IsFiniteSet(Parties(b) \ {t})
    BY <1>4, PartiesFinite, FS_RemoveElement
  <2>2. /\ Cardinality(Parties(b) \ {t}) \in Nat
        /\ Cardinality(Parties(b) \ {t}) = 0 <=> Parties(b) \ {t} = {}
    BY <2>1, FS_EmptySet, FS_CardinalityType
  <2> QED BY <1>5, <2>1, <2>2, PartiesFinite
<1>7. seen >= Cardinality(Parties(b)) /\ seen - 1 \in Nat /\ seen - 1 >= Cardinality(Parties(b)')
  <2>1. seen >= Cardinality(Parties(b))
    BY <1>1, <1>4 DEF MemInv, HeapInv
  <2> QED BY <1>6, <2>1
<1>8. MemTypeOK'
  BY <1>2, <1>3, <1>7 DEF MemInv, MemTypeOK
<1>9. PoolInv'
  <2>1. \A c \in Classes, i \in 1..BlockCount : <<c, i>> # b /\ <<c, i>> \in Block
    BY <1>2, BlockKinds
  <2>2. \A c \in Classes, i \in 1..BlockCount : nRef'[<<c, i>>] = nRef[<<c, i>>]
    BY <1>3, <2>1 DEF MemInv, MemTypeOK
  <2> QED BY <1>3, <1>5, <2>1, <2>2, PoolKept DEF MemInv, FreeBlocks
<1>10. HeapInv'
  <2> SUFFICES ASSUME NEW d \in HeapBlock
               PROVE  /\ Users(d)' \cap Deleters(d)' = {}
                      /\ d \notin heap' => Parties(d)' = {}
                      /\ nRef'[d] >= Cardinality(Parties(d)')
                      /\ \A u \in Deleters(d)' : call'[u].seen >= Cardinality(Parties(d)')
    BY DEF HeapInv
  <2>1. CASE d # b
    <3>1. nRef'[d] = nRef[d] /\ (d \in heap' <=> d \in heap)
      BY <1>3, <2>1, BlockKinds DEF MemInv, MemTypeOK
    <3> QED BY <1>5, <2>1, <3>1 DEF MemInv, HeapInv
  <2>2. CASE d = b
    <3>1. nRef'[d] >= Cardinality(Parties(d)')
      BY <1>2, <1>3, <1>7, <2>2 DEF MemInv, MemTypeOK
    <3>2. d \notin heap' => Parties(d)' = {}
      <4>1. d \notin heap' => seen - 1 = 0
        BY <1>3, <1>4, <2>2
      <4> QED BY <1>6, <1>7, <2>2, <4>1
    <3>3. ASSUME NEW u \in Deleters(d)' PROVE call'[u].seen >= Cardinality(Parties(d)')
      <4>1. call'[u] = call[u] /\ u \in Deleters(d) /\ call[u].seen \in Nat
        BY <1>5, <3>3 DEF MemInv, MemTypeOK, Deleters
      <4>2. call[u].seen >= Cardinality(Parties(d))
        BY <4>1 DEF MemInv, HeapInv
      <4> QED BY <1>6, <2>2, <4>1, <4>2
    <3>4. Users(d)' \cap Deleters(d)' = {}
      BY <1>5, <2>2 DEF MemInv, HeapInv
    <3> QED BY <3>1, <3>2, <3>3, <3>4
  <2> QED BY <2>1, <2>2
<1> QED BY <1>3, <1>8, <1>9, <1>10 DEF MemInv

LEMMA ShareStep ==
  ASSUME MemInv, NEW t \in Threads, NEW u \in Threads, NEW b \in Block, AddRef(t, u, b)
  PROVE  MemInv' /\ Users(b) = {t}
<1>1. /\ t \in Users(b) /\ u \notin Users(b) /\ nRef[b] = 1
      /\ nRef' = [nRef EXCEPT ![b] = @ + 1] /\ holds' = [holds EXCEPT ![u] = @ \cup {b}]
      /\ UNCHANGED <<made, freeList, heap, call>>
  BY DEF AddRef, Users
<1>2. /\ holds' \in [Threads -> SUBSET Block] /\ Users(b)' = Users(b) \cup {u}
      /\ \A d : d # b => Users(d)' = Users(d)
  BY <1>1, UsersAdd DEF MemInv, MemTypeOK
<1>3. ASSUME NEW set, IsFiniteSet(set), Cardinality(set) <= 1, t \in set PROVE set = {t}
  <2>1. Cardinality(set) \in Nat /\ Cardinality(set) # 0
    BY <1>3, FS_CardinalityType, FS_EmptySet
  <2>2. Cardinality(set) = 1
    BY <1>3, <2>1
  <2> QED BY <1>3, <2>2, FS_Singleton
<1>4. CASE b \in PoolBlock
  <2>1. nRef[b] = Cardinality(Users(b))
    <3>1. PICK c \in Classes, i \in 1..BlockCount : b = <<c, i>>
      BY <1>4, BlockKinds
    <3> QED BY <3>1 DEF MemInv, PoolInv
  <2>2. Users(b) = {t}
    BY <1>1, <1>3, <2>1, PartiesFinite
  <2>3. nRef'[b] = 2 /\ Cardinality(Users(b)') = 2
    <3>1. Cardinality(Users(b) \cup {u}) = Cardinality(Users(b)) + 1
      BY <1>1, PartiesFinite, FS_AddElement
    <3> QED BY <1>1, <1>2, <2>1, <3>1 DEF MemInv, MemTypeOK
  <2>4. PoolInv'
    <3> SUFFICES ASSUME NEW d \in Classes
                 PROVE  /\ Distinct(FreeBlocks(d)')
                        /\ d \notin made' => freeList'[d] = <<>>
                        /\ \A j \in 1..BlockCount :
                             /\ In(FreeBlocks(d)', j) <=> Users(<<d, j>>)' = {}
                             /\ nRef'[<<d, j>>] = Cardinality(Users(<<d, j>>)')
      BY DEF PoolInv, Distinct, In
    <3>1. FreeBlocks(d)' = FreeBlocks(d)
      BY <1>1 DEF FreeBlocks
    <3>2. ASSUME NEW j \in 1..BlockCount
          PROVE  /\ In(FreeBlocks(d), j) <=> Users(<<d, j>>)' = {}
                 /\ nRef'[<<d, j>>] = Cardinality(Users(<<d, j>>)')
      <4>1. CASE <<d, j>> = b
        <5>1. Users(b)' # {} /\ ~In(FreeBlocks(d), j)
          BY <1>2, <2>2, <4>1 DEF MemInv, PoolInv
        <5> QED BY <2>3, <4>1, <5>1
      <4>2. CASE <<d, j>> # b
        <5>1. Users(<<d, j>>)' = Users(<<d, j>>) /\ nRef'[<<d, j>>] = nRef[<<d, j>>]
          BY <1>1, <1>2, <4>2, BlockKinds DEF MemInv, MemTypeOK
        <5> QED BY <5>1 DEF MemInv, PoolInv
      <4> QED BY <4>1, <4>2
    <3> QED BY <1>1, <3>1, <3>2 DEF MemInv, PoolInv
  <2>5. HeapInv'
    <3>1. \A d \in HeapBlock : d # b /\ d \in Block
      BY <1>4, BlockKinds
    <3>2. \A d \in HeapBlock : Users(d)' = Users(d) /\ nRef'[d] = nRef[d]
      BY <1>1, <1>2, <3>1 DEF MemInv, MemTypeOK
    <3> QED BY <1>1, <3>2, HeapInvKept DEF MemInv
  <2>6. MemTypeOK'
    BY <1>1, <1>2 DEF MemInv, MemTypeOK
  <2> QED BY <2>2, <2>4, <2>5, <2>6 DEF MemInv
<1>5. CASE b \in HeapBlock
  <2>1. Parties(b) = {t} /\ Users(b) = {t} /\ Deleters(b) = {}
    <3>1. Parties(b) = {t}
      BY <1>1, <1>3, <1>5, PartiesFinite DEF MemInv, HeapInv, Parties
    <3> QED BY <1>1, <1>5, <3>1 DEF Parties, MemInv, HeapInv
  <2>2. \A d : Deleters(d)' = Deleters(d)
    BY <1>1 DEF Deleters
  <2>3. Parties(b)' = Parties(b) \cup {u} /\ u \notin Parties(b)
    BY <1>1, <1>2, <2>1, <2>2 DEF Parties
  <2>4. nRef'[b] = 2 /\ Cardinality(Parties(b)') = 2 /\ b \in heap'
    <3>1. Cardinality(Parties(b) \cup {u}) = Cardinality(Parties(b)) + 1
      BY <2>3, PartiesFinite, FS_AddElement
    <3>2. Cardinality(Parties(b)) = 1
      BY <2>1, FS_Singleton
    <3>3. b \in heap
      BY <1>5, <2>1 DEF MemInv, HeapInv
    <3> QED BY <1>1, <2>3, <3>1, <3>2, <3>3 DEF MemInv, MemTypeOK
  <2>5. HeapInv'
    <3> SUFFICES ASSUME NEW d \in HeapBlock
                 PROVE  /\ Users(d)' \cap Deleters(d)' = {}
                        /\ d \notin heap' => Parties(d)' = {}
                        /\ nRef'[d] >= Cardinality(Parties(d)')
                        /\ \A v \in Deleters(d)' : call'[v].seen >= Cardinality(Parties(d)')
      BY DEF HeapInv
    <3>1. CASE d = b
      BY <2>1, <2>2, <2>4, <3>1
    <3>2. CASE d # b
      <4>1. Users(d)' = Users(d) /\ Parties(d)' = Parties(d) /\ nRef'[d] = nRef[d]
        BY <1>1, <1>2, <2>2, <3>2, BlockKinds DEF Parties, MemInv, MemTypeOK
      <4> QED BY <1>1, <2>2, <4>1 DEF MemInv, HeapInv
    <3> QED BY <3>1, <3>2
  <2>6. PoolInv'
    <3>1. \A c \in Classes, i \in 1..BlockCount : <<c, i>> # b /\ <<c, i>> \in Block
      BY <1>5, BlockKinds
    <3>2. \A c \in Classes, i \in 1..BlockCount : nRef'[<<c, i>>] = nRef[<<c, i>>]
      BY <1>1, <3>1 DEF MemInv, MemTypeOK
    <3> QED BY <1>1, <1>2, <3>1, <3>2, PoolKept DEF MemInv, FreeBlocks
  <2>7. MemTypeOK'
    BY <1>1, <1>2 DEF MemInv, MemTypeOK
  <2> QED BY <2>1, <2>5, <2>6, <2>7 DEF MemInv
<1> QED BY <1>4, <1>5, BlockKinds

-----------------------------------------------------------------------------
(* CellObjectPool.                                                         *)

ObjUsers(i) == {t \in Threads : i \in objHolds[t]}

\* The list of the pool holds, once, every object that nobody uses; an
\* object has one user at most, for whom its count stands.
ObjInv ==
  /\ objFree \in Seq(1..PoolSize) /\ Distinct(objFree)
  /\ objRef \in [1..PoolSize -> Nat]
  /\ objHolds \in [Threads -> SUBSET (1..PoolSize)]
  /\ \A i \in 1..PoolSize :
       /\ In(objFree, i) <=> ObjUsers(i) = {}
       /\ \A t, u \in ObjUsers(i) : t = u
       /\ objRef[i] = IF ObjUsers(i) = {} THEN 0 ELSE 1

LEMMA TakeObject ==
  ASSUME ObjInv, NEW t \in Threads, objFree # <<>>,
         objFree' = Tail(objFree),
         objRef' = [objRef EXCEPT ![Head(objFree)] = 1],
         objHolds' = [objHolds EXCEPT ![t] = @ \cup {Head(objFree)}]
  PROVE  /\ ObjInv'
         /\ \E i \in 1..PoolSize :
              /\ ObjUsers(i) = {}
              /\ objHolds' = [objHolds EXCEPT ![t] = @ \cup {i}]
<1>1. PICK i \in 1..PoolSize :
        /\ i = Head(objFree) /\ In(objFree, i)
        /\ objFree' \in Seq(1..PoolSize) /\ Distinct(objFree')
        /\ \A x : In(objFree', x) <=> In(objFree, x) /\ x # i
  <2>1. PoolSize \in Nat /\ objFree \in Seq(1..PoolSize) /\ Distinct(objFree)
    BY PoolSizePos DEF ObjInv
  <2>2. /\ Head(objFree) \in 1..PoolSize /\ In(objFree, Head(objFree))
        /\ Tail(objFree) \in Seq(1..PoolSize) /\ Distinct(Tail(objFree))
        /\ \A x : In(Tail(objFree), x) <=> In(objFree, x) /\ x # Head(objFree)
    BY <2>1, PopFront
  <2> QED BY <2>2
<1>2. ObjUsers(i) = {}
  BY <1>1 DEF ObjInv
<1>3. /\ objRef' = [objRef EXCEPT ![i] = 1]
      /\ objHolds' = [objHolds EXCEPT ![t] = @ \cup {i}]
  BY <1>1
<1>4. /\ objRef' \in [1..PoolSize -> Nat] /\ objHolds' \in [Threads -> SUBSET (1..PoolSize)]
      /\ objRef'[i] = 1 /\ ObjUsers(i)' = {t}
      /\ \A j \in 1..PoolSize : j # i => objRef'[j] = objRef[j] /\ ObjUsers(j)' = ObjUsers(j)
  BY <1>2, <1>3 DEF ObjInv, ObjUsers
<1>5. ASSUME NEW j \in 1..PoolSize
      PROVE  /\ In(objFree, j)' <=> ObjUsers(j)' = {}
             /\ \A u, v \in ObjUsers(j)' : u = v
             /\ objRef'[j] = IF ObjUsers(j)' = {} THEN 0 ELSE 1
  <2>1. In(objFree, j)' <=> In(objFree', j)
    BY DEF In
  <2>2. CASE j = i
    BY <1>1, <1>4, <2>1, <2>2
  <2>3. CASE j # i
    BY <1>1, <1>4, <2>1, <2>3 DEF ObjInv
  <2> QED BY <2>2, <2>3
<1>6. Distinct(objFree)'
  BY <1>1 DEF Distinct
<1>7. ObjInv'
  BY <1>1, <1>4, <1>5, <1>6 DEF ObjInv
<1> QED BY <1>2, <1>3, <1>7

LEMMA ReturnObject ==
  ASSUME ObjInv, NEW t \in Threads, NEW i \in 1..PoolSize, DestroyObject(t, i)
  PROVE  ObjInv'
<1>1. /\ i \in objHolds[t]
      /\ objHolds' = [objHolds EXCEPT ![t] = @ \ {i}]
      /\ objRef' = [objRef EXCEPT ![i] = @ - 1]
      /\ objFree' = IF objRef[i] = 1 THEN <<i>> \o objFree ELSE objFree
  BY DEF DestroyObject
<1>2. /\ ObjUsers(i) = {t} /\ objRef[i] = 1 /\ ~In(objFree, i)
  BY <1>1 DEF ObjInv, ObjUsers
<1>3. /\ objFree' \in Seq(1..PoolSize) /\ Distinct(objFree')
      /\ \A x : In(objFree', x) <=> x = i \/ In(objFree, x)
  BY <1>1, <1>2, PushFront, PoolSizePos DEF ObjInv
<1>4. /\ objRef' \in [1..PoolSize -> Nat] /\ objHolds' \in [Threads -> SUBSET (1..PoolSize)]
      /\ objRef'[i] = 0 /\ ObjUsers(i)' = {}
      /\ \A j \in 1..PoolSize : j # i => objRef'[j] = objRef[j] /\ ObjUsers(j)' = ObjUsers(j)
  BY <1>1, <1>2 DEF ObjInv, ObjUsers
<1>5. ASSUME NEW j \in 1..PoolSize
      PROVE  /\ In(objFree, j)' <=> ObjUsers(j)' = {}
             /\ \A u, v \in ObjUsers(j)' : u = v
             /\ objRef'[j] = IF ObjUsers(j)' = {} THEN 0 ELSE 1
  <2>1. In(objFree, j)' <=> In(objFree', j)
    BY DEF In
  <2>2. CASE j = i
    BY <1>3, <1>4, <2>1, <2>2
  <2>3. CASE j # i
    BY <1>3, <1>4, <2>1, <2>3 DEF ObjInv
  <2> QED BY <2>2, <2>3
<1>6. Distinct(objFree)'
  BY <1>3 DEF Distinct
<1> QED BY <1>3, <1>4, <1>5, <1>6 DEF ObjInv

LEMMA ObjInvKept ==
  ASSUME ObjInv, UNCHANGED <<objFree, objRef, objHolds>>
  PROVE  ObjInv'
BY DEF ObjInv, ObjUsers, Distinct, In

LEMMA FreeStep ==
  ASSUME MemInv, NEW t \in Threads, NEW b \in Block, FreeMem(t, b)
  PROVE  MemInv'
<1>1. CASE b \in PoolBlock /\ FreeMemory(t, b)
  BY <1>1, FreePoolStep DEF FreeMem
<1>2. CASE b \in HeapBlock /\ call' = [call EXCEPT ![t] = [block |-> b, seen |-> nRef[b]]]
                           /\ UNCHANGED <<made, freeList, heap, nRef>>
  BY <1>2, FreeHeapBegins DEF FreeMem
<1> QED BY <1>1, <1>2 DEF FreeMem

PoolsInv == MemInv /\ ObjInv

LEMMA InitPoolsInv == Init => PoolsInv
<1> SUFFICES ASSUME Init PROVE PoolsInv
  OBVIOUS
<1> USE DEF Init, MemInit
<1>1. MemTypeOK
  <2>1. <<>> \in Seq(1..BlockCount)
    BY EmptySeq
  <2> QED BY <2>1 DEF MemTypeOK
<1>2. \A b : Users(b) = {} /\ Deleters(b) = {} /\ Parties(b) = {}
  BY DEF Users, Deleters, Parties
<1>3. Cardinality({}) = 0
  BY FS_EmptySet
<1>4. PoolInv
  <2> SUFFICES ASSUME NEW c \in Classes
               PROVE  /\ Distinct(FreeBlocks(c))
                      /\ c \notin made => freeList[c] = <<>>
                      /\ \A i \in 1..BlockCount :
                           /\ In(FreeBlocks(c), i) <=> Users(<<c, i>>) = {}
                           /\ nRef[<<c, i>>] = Cardinality(Users(<<c, i>>))
    BY DEF PoolInv
  <2>1. FreeBlocks(c) = [i \in 1..BlockCount |-> i]
    BY DEF FreeBlocks
  <2>2. Distinct(FreeBlocks(c)) /\ \A i \in 1..BlockCount : In(FreeBlocks(c), i)
    BY <2>1, WholeList, CountsNat
  <2>3. \A i \in 1..BlockCount : nRef[<<c, i>>] = 0
    BY BlockKinds
  <2> QED BY <1>2, <1>3, <2>2, <2>3
<1>5. HeapInv
  <2>1. \A b \in HeapBlock : nRef[b] = 0
    BY BlockKinds
  <2> SUFFICES ASSUME NEW b \in HeapBlock
               PROVE  /\ Users(b) \cap Deleters(b) = {}
                      /\ b \notin heap => Parties(b) = {}
                      /\ nRef[b] >= Cardinality(Parties(b))
                      /\ \A t \in Deleters(b) : call[t].seen >= Cardinality(Parties(b))
    BY DEF HeapInv
  <2>2. Parties(b) = {} /\ Cardinality(Parties(b)) = 0
    BY <1>2, <1>3
  <2> QED BY <1>2, <2>1, <2>2
<1>6. ObjInv
  <2>1. \A i : ObjUsers(i) = {}
    BY DEF ObjUsers
  <2> QED BY <2>1, WholeList, PoolSizePos DEF ObjInv
<1> QED BY <1>1, <1>4, <1>5, <1>6 DEF PoolsInv, MemInv

LEMMA MemInvKept == MemInv /\ UNCHANGED memVars => MemInv'
<1> SUFFICES ASSUME MemInv, UNCHANGED memVars PROVE MemInv'
  OBVIOUS
<1>1. UNCHANGED <<made, freeList, heap, nRef, call, holds>>
  BY DEF memVars
<1>2. MemTypeOK'
  BY <1>1 DEF MemInv, MemTypeOK
<1>3. \A b : Users(b)' = Users(b)
  BY <1>1 DEF Users
<1>4. PoolInv'
  BY <1>1, <1>3, PoolKept DEF MemInv, FreeBlocks
<1>5. HeapInv'
  BY <1>1, <1>3, HeapInvKept DEF MemInv
<1> QED BY <1>2, <1>4, <1>5 DEF MemInv

LEMMA PoolsStep == PoolsInv /\ [Next]_vars => PoolsInv'
<1> SUFFICES ASSUME PoolsInv, [Next]_vars PROVE PoolsInv'
  OBVIOUS
<1> USE DEF PoolsInv
<1>1. ASSUME NEW t \in Threads, CreateObject(t) PROVE PoolsInv'
  <2>1. CASE objFree # <<>>
    BY <1>1, <2>1, TakeObject, MemInvKept DEF CreateObject
  <2>2. CASE objFree = <<>>
    BY <1>1, <2>2, AllocStep, ObjInvKept DEF CreateObject
  <2> QED BY <2>1, <2>2
<1>2. ASSUME NEW t \in Threads, NEW i \in 1..PoolSize, DestroyObject(t, i) PROVE PoolsInv'
  BY <1>2, ReturnObject, MemInvKept DEF DestroyObject
<1>3. ASSUME NEW t \in Threads, NEW b \in Block, DestroyOverflow(t, b) \/ Delete(t, b) PROVE PoolsInv'
  BY <1>3, FreeStep, ObjInvKept DEF DestroyOverflow, Delete, objVars
<1>4. ASSUME NEW t \in Threads, NEW u \in Threads, NEW b \in Block, Share(t, u, b) PROVE PoolsInv'
  BY <1>4, ShareStep, ObjInvKept DEF Share, objVars
<1>5. ASSUME NEW t \in Threads, NEW nSize \in Sizes, New(t, nSize) PROVE PoolsInv'
  BY <1>5, AllocStep, ObjInvKept DEF New, objVars
<1>6. ASSUME NEW t \in Threads, DeleteEnds(t) PROVE PoolsInv'
  BY <1>6, FreeHeapEnds, ObjInvKept DEF DeleteEnds, objVars
<1>7. CASE UNCHANGED vars
  BY <1>7, MemInvKept, ObjInvKept DEF vars, objVars
<1> QED BY <1>1, <1>2, <1>3, <1>4, <1>5, <1>6, <1>7 DEF Next

LEMMA PoolsInvImplies == PoolsInv => PoolWhole /\ HeapKept /\ ObjectsWhole
<1> SUFFICES ASSUME PoolsInv PROVE PoolWhole /\ HeapKept /\ ObjectsWhole
  OBVIOUS
<1>1. PoolWhole
  <2> SUFFICES ASSUME NEW b \in PoolBlock
               PROVE  /\ Listed(b) => nRef[b] = 0
                      /\ b[1] \in made => (Listed(b) <=> Users(b) = {})
                      /\ nRef[b] = Cardinality(Users(b))
                      /\ \A i, j \in DOMAIN freeList[b[1]] :
                            freeList[b[1]][i] = freeList[b[1]][j] => i = j
    BY DEF PoolWhole
  <2>1. PICK c \in Classes, i \in 1..BlockCount : b = <<c, i>> /\ c = b[1] /\ i = b[2]
    BY BlockKinds
  <2>2. /\ In(FreeBlocks(c), i) <=> Users(b) = {}
        /\ nRef[b] = Cardinality(Users(b))
        /\ Distinct(FreeBlocks(c))
        /\ c \notin made => freeList[c] = <<>>
    BY <2>1 DEF PoolsInv, MemInv, PoolInv
  <2>3. c \in made => (Listed(b) <=> Users(b) = {})
    BY <2>1, <2>2 DEF Listed, In, FreeBlocks
  <2>4. Listed(b) => c \in made /\ Users(b) = {}
    BY <2>1, <2>3 DEF Listed
  <2>5. Listed(b) => nRef[b] = 0
    BY <2>2, <2>4, FS_EmptySet
  <2>6. Distinct(freeList[c])
    <3>1. CASE c \in made
      BY <2>2, <3>1 DEF FreeBlocks
    <3>2. CASE c \notin made
      BY <2>2, <3>2 DEF Distinct
    <3> QED BY <3>1, <3>2
  <2> QED BY <2>1, <2>2, <2>3, <2>5, <2>6 DEF Distinct
<1>2. HeapKept
  BY DEF HeapKept, PoolsInv, MemInv, HeapInv, Parties, Deleters
<1>3. ObjectsWhole
  <2> SUFFICES ASSUME NEW i \in 1..PoolSize
               PROVE  /\ Cardinality({k \in DOMAIN objFree : objFree[k] = i}) = 1 - objRef[i]
                      /\ objRef[i] = Cardinality(ObjUsers(i))
    BY DEF ObjectsWhole, ObjUsers
  <2>1. CASE ObjUsers(i) = {}
    <3>1. PICK k \in DOMAIN objFree : objFree[k] = i
      BY <2>1 DEF PoolsInv, ObjInv, In
    <3>2. {j \in DOMAIN objFree : objFree[j] = i} = {k}
      BY <3>1 DEF PoolsInv, ObjInv, Distinct
    <3>3. objRef[i] = 0
      BY <2>1 DEF PoolsInv, ObjInv
    <3> QED BY <2>1, <3>2, <3>3, FS_EmptySet, FS_Singleton
  <2>2. CASE ObjUsers(i) # {}
    <3>1. {k \in DOMAIN objFree : objFree[k] = i} = {}
      BY <2>2 DEF PoolsInv, ObjInv, In
    <3>2. PICK t \in ObjUsers(i) : ObjUsers(i) = {t}
      <4>1. PICK t \in ObjUsers(i) : TRUE
        BY <2>2
      <4>2. \A u \in ObjUsers(i) : u = t
        BY <4>1 DEF PoolsInv, ObjInv
      <4> QED BY <4>1, <4>2
    <3>3. objRef[i] = 1
      BY <2>2 DEF PoolsInv, ObjInv
    <3>4. Cardinality(ObjUsers(i)) = 1
      BY <3>2, FS_Singleton
    <3>5. Cardinality({k \in DOMAIN objFree : objFree[k] = i}) = 0
      BY <3>1, FS_EmptySet
    <3> QED BY <3>3, <3>4, <3>5
  <2> QED BY <2>1, <2>2
<1> QED BY <1>1, <1>2, <1>3

\* However threads allocate, share and free, no block of a pool and no
\* pooled object is lost, listed twice, or listed while it is used, and the
\* unlocked count of a malloc block never frees it under a user.
THEOREM PoolsCorrect == Spec => [](PoolWhole /\ HeapKept /\ ObjectsWhole)
<1> QED BY InitPoolsInv, PoolsStep, PoolsInvImplies, PTL DEF Spec

-----------------------------------------------------------------------------
(* The allocator.                                                          *)

\* The addresses a thread uses.
Addresses(t) == {PoolAddr(i) : i \in objHolds[t]} \cup {MemAddr(b) : b \in holds[t]}
InUse == [t \in Threads |-> Addresses(t)]
SharedAddresses == {MemAddr(b) : b \in shared}

LEMMA AddressesDiffer ==
  /\ \A i, j : PoolAddr(i) = PoolAddr(j) => i = j
  /\ \A b, d : MemAddr(b) = MemAddr(d) => b = d
  /\ \A i, b : PoolAddr(i) # MemAddr(b)
BY DEF PoolAddr, MemAddr

LEMMA AddressUsers ==
  ASSUME PoolsInv
  PROVE  /\ \A b : Memory!Users(MemAddr(b)) = Users(b)
         /\ \A i : Memory!Users(PoolAddr(i)) = ObjUsers(i)
<1>1. \A b, t : MemAddr(b) \in Addresses(t) <=> b \in holds[t]
  BY AddressesDiffer DEF Addresses
<1>2. \A i, t : PoolAddr(i) \in Addresses(t) <=> i \in objHolds[t]
  BY AddressesDiffer DEF Addresses
<1>3. \A a : Memory!Users(a) = {t \in Threads : a \in Addresses(t)}
  BY DEF Memory!Users, Addresses
<1> QED BY <1>1, <1>2, <1>3 DEF Users, ObjUsers

LEMMA GiveMemory ==
  ASSUME PoolsInv, NEW t \in Threads, NEW b \in Block, Users(b) = {},
         holds' = [holds EXCEPT ![t] = @ \cup {b}], UNCHANGED <<objHolds, shared>>
  PROVE  Memory!Next
<1>1. InUse' = [InUse EXCEPT ![t] = @ \cup {MemAddr(b)}]
  <2>1. Addresses(t)' = Addresses(t) \cup {MemAddr(b)}
    BY DEF Addresses, PoolsInv, MemInv, MemTypeOK
  <2>2. \A v \in Threads : v # t => Addresses(v)' = Addresses(v)
    BY DEF Addresses, PoolsInv, MemInv, MemTypeOK
  <2> QED BY <2>1, <2>2 DEF InUse
<1>2. Memory!Users(MemAddr(b)) = {}
  BY AddressUsers
<1>3. Memory!Give(t, MemAddr(b))
  BY <1>1, <1>2 DEF Memory!Give, InUse, Addresses
<1> QED BY <1>3 DEF Memory!Next

LEMMA GiveObject ==
  ASSUME PoolsInv, NEW t \in Threads, NEW i \in 1..PoolSize, ObjUsers(i) = {},
         objHolds' = [objHolds EXCEPT ![t] = @ \cup {i}], UNCHANGED <<holds, shared>>
  PROVE  Memory!Next
<1>1. InUse' = [InUse EXCEPT ![t] = @ \cup {PoolAddr(i)}]
  <2>1. Addresses(t)' = Addresses(t) \cup {PoolAddr(i)}
    BY DEF Addresses, PoolsInv, ObjInv
  <2>2. \A v \in Threads : v # t => Addresses(v)' = Addresses(v)
    BY DEF Addresses, PoolsInv, ObjInv
  <2> QED BY <2>1, <2>2 DEF InUse
<1>2. Memory!Users(PoolAddr(i)) = {}
  BY AddressUsers
<1>3. Memory!Give(t, PoolAddr(i))
  BY <1>1, <1>2 DEF Memory!Give, InUse, Addresses
<1> QED BY <1>3 DEF Memory!Next

LEMMA DropMemory ==
  ASSUME PoolsInv, NEW t \in Threads, NEW b \in Block, FreeMem(t, b), UNCHANGED objHolds
  PROVE  Memory!Next
<1>1. /\ b \in holds[t] /\ holds' = [holds EXCEPT ![t] = @ \ {b}] /\ shared' = shared \ {b}
  BY DEF FreeMem
<1>2. InUse' = [InUse EXCEPT ![t] = @ \ {MemAddr(b)}]
  <2>1. Addresses(t)' = Addresses(t) \ {MemAddr(b)}
    BY <1>1, AddressesDiffer DEF Addresses, PoolsInv, MemInv, MemTypeOK
  <2>2. \A u \in Threads : u # t => Addresses(u)' = Addresses(u)
    BY <1>1 DEF Addresses, PoolsInv, MemInv, MemTypeOK
  <2> QED BY <2>1, <2>2 DEF InUse
<1>3. SharedAddresses' = SharedAddresses \ {MemAddr(b)}
  BY <1>1, AddressesDiffer DEF SharedAddresses
<1>4. MemAddr(b) \in InUse[t]
  BY <1>1 DEF InUse, Addresses
<1>5. Memory!Drop(t, MemAddr(b))
  BY <1>2, <1>3, <1>4 DEF Memory!Drop, InUse, Addresses, SharedAddresses
<1> QED BY <1>5 DEF Memory!Next

LEMMA DropObject ==
  ASSUME PoolsInv, NEW t \in Threads, NEW i \in 1..PoolSize, DestroyObject(t, i)
  PROVE  Memory!Next
<1>1. /\ i \in objHolds[t] /\ objHolds' = [objHolds EXCEPT ![t] = @ \ {i}]
      /\ UNCHANGED <<holds, shared>>
  BY DEF DestroyObject, memVars
<1>2. InUse' = [InUse EXCEPT ![t] = @ \ {PoolAddr(i)}]
  <2>1. Addresses(t)' = Addresses(t) \ {PoolAddr(i)}
    BY <1>1, AddressesDiffer DEF Addresses, PoolsInv, ObjInv
  <2>2. \A u \in Threads : u # t => Addresses(u)' = Addresses(u)
    BY <1>1 DEF Addresses, PoolsInv, ObjInv
  <2> QED BY <2>1, <2>2 DEF InUse
<1>3. SharedAddresses' = SharedAddresses \ {PoolAddr(i)}
  BY <1>1, AddressesDiffer DEF SharedAddresses
<1>4. PoolAddr(i) \in InUse[t]
  BY <1>1 DEF InUse, Addresses
<1>5. Memory!Drop(t, PoolAddr(i))
  BY <1>2, <1>3, <1>4 DEF Memory!Drop, InUse, Addresses, SharedAddresses
<1> QED BY <1>5 DEF Memory!Next

LEMMA ShareMemory ==
  ASSUME PoolsInv, NEW t \in Threads, NEW u \in Threads \ {t}, NEW b \in Block,
         AddRef(t, u, b), UNCHANGED objHolds
  PROVE  Memory!Next
<1>1. holds' = [holds EXCEPT ![u] = @ \cup {b}] /\ shared' = shared \cup {b}
  BY DEF AddRef
<1>2. InUse' = [InUse EXCEPT ![u] = @ \cup {MemAddr(b)}]
  <2>1. Addresses(u)' = Addresses(u) \cup {MemAddr(b)}
    BY <1>1 DEF Addresses, PoolsInv, MemInv, MemTypeOK
  <2>2. \A v \in Threads : v # u => Addresses(v)' = Addresses(v)
    BY <1>1 DEF Addresses, PoolsInv, MemInv, MemTypeOK
  <2> QED BY <2>1, <2>2 DEF InUse
<1>3. SharedAddresses' = SharedAddresses \cup {MemAddr(b)}
  BY <1>1 DEF SharedAddresses
<1>4. Memory!Users(MemAddr(b)) = {t}
  BY ShareStep, AddressUsers DEF PoolsInv
<1>5. Memory!Share(t, u, MemAddr(b))
  BY <1>2, <1>3, <1>4 DEF Memory!Share, InUse, Addresses, SharedAddresses
<1> QED BY <1>5 DEF Memory!Next

LEMMA AllocKeepsShared == \A t, nSize : AllocMem(t, nSize) => UNCHANGED shared
BY DEF AllocMem, AllocMemory, Malloc, PopHeader, Take

\* The object pool on top of MemoryMgr keeps what new and delete promise:
\* no memory is given to a thread while another uses it.
THEOREM ImplementsAllocator == Spec => IsAllocator
<1>1. Init => Memory!Init
  BY DEF Init, MemInit, Memory!Init
<1>2. PoolsInv /\ [Next]_vars => [Memory!Next]_(Memory!vars)
  <2> SUFFICES ASSUME PoolsInv, [Next]_vars PROVE [Memory!Next]_(Memory!vars)
    OBVIOUS
  <2>1. ASSUME NEW t \in Threads, CreateObject(t) PROVE Memory!Next
    <3>1. CASE objFree # <<>>
      BY <2>1, <3>1, TakeObject, GiveObject DEF CreateObject, memVars, PoolsInv
    <3>2. CASE objFree = <<>>
      BY <2>1, <3>2, AllocStep, AllocKeepsShared, GiveMemory DEF CreateObject, PoolsInv
    <3> QED BY <3>1, <3>2
  <2>2. ASSUME NEW t \in Threads, NEW i \in 1..PoolSize, DestroyObject(t, i) PROVE Memory!Next
    BY <2>2, DropObject
  <2>3. ASSUME NEW t \in Threads, NEW b \in Block, DestroyOverflow(t, b) \/ Delete(t, b)
        PROVE  Memory!Next
    BY <2>3, DropMemory DEF DestroyOverflow, Delete, objVars
  <2>4. ASSUME NEW t \in Threads, NEW u \in Threads \ {t}, NEW b \in Block, Share(t, u, b)
        PROVE  Memory!Next
    BY <2>4, ShareMemory DEF Share, objVars
  <2>5. ASSUME NEW t \in Threads, NEW nSize \in Sizes, New(t, nSize) PROVE Memory!Next
    BY <2>5, AllocStep, AllocKeepsShared, GiveMemory DEF New, objVars, PoolsInv
  <2>6. ASSUME NEW t \in Threads, DeleteEnds(t) PROVE UNCHANGED Memory!vars
    BY <2>6, FreeHeapEnds DEF DeleteEnds, objVars, FreeHeap, Memory!vars, PoolsInv
  <2>7. CASE UNCHANGED vars
    BY <2>7 DEF vars, memVars, objVars, Memory!vars
  <2> QED BY <2>1, <2>2, <2>3, <2>4, <2>5, <2>6, <2>7 DEF Next
<1> QED BY <1>1, <1>2, InitPoolsInv, PoolsStep, PTL DEF Spec, IsAllocator, Memory!Safe
=============================================================================
