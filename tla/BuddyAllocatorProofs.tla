------------------------ MODULE BuddyAllocatorProofs ------------------------
(* Proofs about BuddyAllocator, for every number of orders and every size  *)
(* of the smallest block.                                                  *)
EXTENDS BuddyAllocator, TLAPS, WellFoundedInduction

(* A nonempty set of naturals has a least element.                         *)
LEMMA LeastElement ==
  ASSUME NEW T \in SUBSET Nat, T # {}
  PROVE  \E n \in T : \A m \in T : n <= m
<1>1. PICK n \in T : \A m \in T : ~(<<m, n>> \in OpToRel(<, Nat))
  BY NatLessThanWellFounded, WFMin, Zenon
<1>2. \A m \in T : ~(m < n)
  BY <1>1, Zenon DEF OpToRel
<1> QED BY <1>2

(* Blocks of a higher order are larger.                                    *)
LEMMA SizesIncrease ==
  ASSUME NEW j \in Orders, NEW k \in Orders, j < k
  PROVE  BlockSize[j] < BlockSize[k]
<1> DEFINE T == {b \in 1 .. MaxOrder : \E a \in Orders : a < b /\ BlockSize[a] >= BlockSize[b]}
<1>1. T \in SUBSET Nat
  BY AllocatorAssumption DEF Orders
<1>2. SUFFICES ASSUME T # {} PROVE FALSE
  <2>1. k \in 1 .. MaxOrder /\ BlockSize[j] \in Nat /\ BlockSize[k] \in Nat
    BY AllocatorAssumption DEF Orders
  <2>2. k \notin T
    BY <1>2
  <2> QED BY <2>1, <2>2
<1> HIDE DEF T
<1>3. PICK b \in T : \A m \in T : b <= m
  BY <1>1, <1>2, LeastElement
<1>4. b \in 1 .. MaxOrder /\ \E a \in Orders : a < b /\ BlockSize[a] >= BlockSize[b]
  BY <1>3 DEF T
<1>5. BlockSize[b] = 2 * BlockSize[b - 1] /\ BlockSize[b - 1] \in Nat \ {0}
  BY <1>4, AllocatorAssumption DEF Orders
<1>6. PICK a \in Orders : a < b /\ BlockSize[a] >= BlockSize[b]
  BY <1>4
<1>7. a < b - 1 /\ b - 1 \in 1 .. MaxOrder /\ BlockSize[a] \in Nat
  <2>1. BlockSize[a] \in Nat /\ BlockSize[b] \in Nat
    BY <1>4, <1>6, AllocatorAssumption DEF Orders
  <2>2. a # b - 1
    BY <1>5, <1>6, <2>1
  <2>3. a \in Nat /\ b \in Nat /\ MaxOrder \in Nat
    BY <1>4, <1>6, AllocatorAssumption DEF Orders
  <2> QED BY <1>4, <1>6, <2>1, <2>2, <2>3
<1>8. b - 1 \in T
  BY <1>5, <1>6, <1>7 DEF T
<1> QED BY <1>3, <1>4, <1>8

(* _size_to_order inverts the shift: the list of a block is the list its   *)
(* size was made for.                                                      *)
LEMMA OrderOfSize ==
  ASSUME NEW k \in Orders
  PROVE  SizeToOrder(BlockSize[k]) = k
<1>1. k \in OrdersFor(BlockSize[k])
  BY AllocatorAssumption DEF OrdersFor
<1>2. \A j \in OrdersFor(BlockSize[k]) : k <= j
  <2> SUFFICES ASSUME NEW j \in OrdersFor(BlockSize[k]), ~(k <= j) PROVE FALSE
    OBVIOUS
  <2>1. j \in Orders /\ BlockSize[j] >= BlockSize[k]
    BY DEF OrdersFor
  <2>2. j < k
    BY <2>1, AllocatorAssumption DEF Orders
  <2>3. BlockSize[j] < BlockSize[k]
    BY <2>1, <2>2, SizesIncrease
  <2> QED BY <2>1, <2>3, AllocatorAssumption
<1>3. \A m \in OrdersFor(BlockSize[k]) :
        (\A j \in OrdersFor(BlockSize[k]) : m <= j) => m = k
  BY <1>1, <1>2, AllocatorAssumption DEF OrdersFor, Orders
<1> QED BY <1>1, <1>2, <1>3 DEF SizeToOrder

(* A block smaller than the pool has twice its size one order up.          *)
LEMMA DoubleSize ==
  ASSUME NEW k \in Orders, BlockSize[k] < PoolSize
  PROVE  k + 1 \in Orders /\ BlockSize[k + 1] = 2 * BlockSize[k]
<1>1. k # MaxOrder
  BY AllocatorAssumption DEF PoolSize, Orders
<1>2. k + 1 \in 1 .. MaxOrder
  BY <1>1, AllocatorAssumption DEF Orders
<1> QED BY <1>2, AllocatorAssumption DEF Orders

(* The second part of a concatenation.                                     *)
LEMMA ConcatSecond ==
  ASSUME NEW S, NEW a \in Seq(S), NEW b \in Seq(S),
         NEW j \in 1 .. (Len(a) + Len(b)), j > Len(a)
  PROVE  (a \o b)[j] = b[j - Len(a)]
OBVIOUS

(* list.remove() of an element that is listed once.                        *)
LEMMA RemoveOnce ==
  ASSUME NEW list \in Seq(Offsets), NEW i \in DOMAIN list,
         \A j \in DOMAIN list : list[j] = list[i] => j = i
  PROVE  /\ RemoveFrom(list, list[i]) \in Seq(Offsets)
         /\ Len(RemoveFrom(list, list[i])) = Len(list) - 1
         /\ \A j \in 1 .. (Len(list) - 1) :
              RemoveFrom(list, list[i])[j] = IF j < i THEN list[j] ELSE list[j + 1]
<1>1. i \in 1 .. Len(list)
  OBVIOUS
<1>2. (CHOOSE m \in DOMAIN list : list[m] = list[i] /\ \A j \in 1 .. (m - 1) : list[j] # list[i]) = i
  <2>1. \A j \in 1 .. (i - 1) : list[j] # list[i]
    BY <1>1
  <2> QED BY <2>1
<1>3. RemoveFrom(list, list[i]) = SubSeq(list, 1, i - 1) \o SubSeq(list, i + 1, Len(list))
  BY <1>2, Zenon DEF RemoveFrom
<1>4. /\ SubSeq(list, 1, i - 1) \in Seq(Offsets)
      /\ Len(SubSeq(list, 1, i - 1)) = i - 1
      /\ \A j \in 1 .. (i - 1) : SubSeq(list, 1, i - 1)[j] = list[j]
  BY <1>1
<1>5. /\ SubSeq(list, i + 1, Len(list)) \in Seq(Offsets)
      /\ Len(SubSeq(list, i + 1, Len(list))) = Len(list) - i
      /\ \A j \in 1 .. (Len(list) - i) : SubSeq(list, i + 1, Len(list))[j] = list[i + j]
  BY <1>1
<1> DEFINE a == SubSeq(list, 1, i - 1)
           b == SubSeq(list, i + 1, Len(list))
<1>6. /\ a \in Seq(Offsets) /\ Len(a) = i - 1 /\ \A j \in 1 .. (i - 1) : a[j] = list[j]
      /\ b \in Seq(Offsets) /\ Len(b) = Len(list) - i
      /\ \A j \in 1 .. (Len(list) - i) : b[j] = list[i + j]
      /\ RemoveFrom(list, list[i]) = a \o b
  BY <1>3, <1>4, <1>5
<1> HIDE DEF a, b
<1>7. Len(list) \in Nat /\ i \in Nat
  BY <1>1
<1>8. a \o b \in Seq(Offsets) /\ Len(a \o b) = Len(list) - 1
  BY <1>6, <1>7
<1>9. ASSUME NEW j \in 1 .. (Len(list) - 1)
      PROVE  (a \o b)[j] = IF j < i THEN list[j] ELSE list[j + 1]
  <2>1. CASE j < i
    BY <1>1, <1>6, <1>7, <2>1
  <2>2. CASE ~(j < i)
    <3>1. j \in 1 .. (Len(a) + Len(b)) /\ j > Len(a)
      BY <1>1, <1>6, <1>7, <2>2
    <3>2. (a \o b)[j] = b[j - Len(a)]
      BY <1>6, <3>1, ConcatSecond
    <3>3. j - Len(a) \in 1 .. (Len(list) - i) /\ i + (j - Len(a)) = j + 1
      BY <1>1, <1>6, <1>7, <2>2, SMTT(30)
    <3> QED BY <1>6, <2>2, <3>2, <3>3, Zenon
  <2> QED BY <2>1, <2>2, Zenon
<1> QED BY <1>6, <1>8, <1>9

----------------------------------------------------------------------------
(* The block in hand is a block of the pool that nobody else holds, and    *)
(* while it is split its size is that of the current order.                *)
HandOK ==
  /\ ~Idle => call.offset \in DOMAIN blocks /\ ~blocks[call.offset].allocated
  /\ call.kind = "split" =>
       call.target <= call.order /\ blocks[call.offset].size = BlockSize[call.order]

(* The inductive invariant.                                                *)
Ind == TypeOK /\ HandOK /\ NoOverlap /\ FreeListsExact

(* What the type of the state says about the block in hand.                *)
LEMMA CallType ==
  ASSUME TypeOK
  PROVE  /\ Idle => call = NoCall
         /\ call.kind \in {"none", "split", "merge"}
         /\ call.kind = "split" =>
              call.offset \in Offsets /\ call.order \in Orders /\ call.target \in Orders
         /\ call.kind = "merge" => call.offset \in Offsets
BY DEF TypeOK, Calls, NoCall, Splitting, Merging, Idle

(* Sizes of blocks are positive integers.                                  *)
LEMMA BlockType ==
  ASSUME TypeOK, NEW o \in DOMAIN blocks
  PROVE  /\ o \in Offsets /\ o \in Nat
         /\ blocks[o].size \in Nat \ {0}
         /\ blocks[o].allocated \in BOOLEAN
         /\ \E k \in Orders : blocks[o].size = BlockSize[k]
         /\ blocks[o] = [size |-> blocks[o].size, allocated |-> blocks[o].allocated]
<1>1. blocks[o] \in [size : {BlockSize[k] : k \in Orders}, allocated : BOOLEAN]
  BY DEF TypeOK
<1>2. PoolSize \in Nat
  BY AllocatorAssumption DEF PoolSize, Orders
<1> QED BY <1>1, <1>2, AllocatorAssumption DEF TypeOK, Offsets

(* The pool starts as one free block.                                      *)
LEMMA InitInd ==
  ASSUME Init
  PROVE  Ind
<1>1. PoolSize \in Nat \ {0} /\ MaxOrder \in Orders /\ PoolSize = BlockSize[MaxOrder]
  BY AllocatorAssumption DEF PoolSize, Orders
<1>2. 0 \in Offsets
  BY <1>1 DEF Offsets
<1>3. TypeOK
  <2>1. DOMAIN blocks \subseteq Offsets /\ \A o \in DOMAIN blocks :
          blocks[o] \in [size : {BlockSize[k] : k \in Orders}, allocated : BOOLEAN]
    BY <1>1, <1>2 DEF Init
  <2>2. free_lists \in [Orders -> Seq(Offsets)]
    BY <1>2 DEF Init
  <2> QED BY <2>1, <2>2 DEF TypeOK, Init, Calls
<1>4. Idle /\ HandOK
  BY DEF HandOK, Idle, Init, NoCall
<1>5. NoOverlap
  BY <1>1 DEF NoOverlap, Init
<1>6. InHand = {}
  BY <1>4 DEF InHand
<1>7. ASSUME NEW k \in Orders, NEW i \in DOMAIN free_lists[k]
      PROVE  k = MaxOrder /\ i = 1 /\ free_lists[k][i] = 0 /\ DOMAIN free_lists[k] = {1}
  BY <1>7 DEF Init
<1>8. free_lists[MaxOrder] = <<0>>
  BY <1>1 DEF Init
<1>a. DOMAIN blocks = {0} /\ blocks[0] = [size |-> PoolSize, allocated |-> FALSE]
  BY DEF Init
<1>b. 1 \in DOMAIN free_lists[MaxOrder] /\ free_lists[MaxOrder][1] = 0
  BY <1>8
<1>9. FreeListsExact
  <2>1. ASSUME NEW k \in Orders, NEW i \in DOMAIN free_lists[k]
        PROVE  /\ free_lists[k][i] \in DOMAIN blocks \ InHand
               /\ blocks[free_lists[k][i]] = [size |-> BlockSize[k], allocated |-> FALSE]
               /\ \A j \in DOMAIN free_lists[k] : free_lists[k][j] = free_lists[k][i] => i = j
    BY <1>1, <1>6, <1>7, <1>a, Zenon
  <2>2. ASSUME NEW o \in DOMAIN blocks
        PROVE  \E k \in Orders : \E i \in DOMAIN free_lists[k] : free_lists[k][i] = o
    BY <1>1, <1>a, <1>b
  <2> QED BY <2>1, <2>2 DEF FreeListsExact
<1> QED BY <1>3, <1>4, <1>5, <1>9 DEF Ind

(* The two halves of FreeListsExact.                                       *)
ListedFree(B, F, hand) ==
  \A k \in Orders : \A i \in DOMAIN F[k] :
    /\ F[k][i] \in DOMAIN B \ hand
    /\ B[F[k][i]] = [size |-> BlockSize[k], allocated |-> FALSE]
    /\ \A j \in DOMAIN F[k] : F[k][j] = F[k][i] => i = j

FreeListed(B, F, hand) ==
  \A o \in DOMAIN B \ hand : ~B[o].allocated =>
    \E k \in Orders : \E i \in DOMAIN F[k] : F[k][i] = o

(* FreeListsExact is the two halves together.                              *)
LEMMA ExactHalves ==
  /\ FreeListsExact <=>
       ListedFree(blocks, free_lists, InHand) /\ FreeListed(blocks, free_lists, InHand)
  /\ FreeListsExact' <=>
       ListedFree(blocks', free_lists', InHand') /\ FreeListed(blocks', free_lists', InHand')
BY DEF FreeListsExact, ListedFree, FreeListed

(* allocate() takes the head of a list in hand.                            *)
LEMMA AllocateInd ==
  ASSUME Ind, NEW size \in AskedSizes, Allocate(size)
  PROVE  Ind'
<1> DEFINE target == SizeToOrder(size)
<1>0. /\ Idle /\ blocks' = blocks /\ allocated_bytes' = allocated_bytes
      /\ OrdersFor(size) # {}
  BY DEF Allocate
<1>1. target \in Orders
  <2>1. OrdersFor(size) \in SUBSET Nat
    BY AllocatorAssumption DEF OrdersFor, Orders
  <2>2. \E k \in OrdersFor(size) : \A j \in OrdersFor(size) : k <= j
    BY <1>0, <2>1, LeastElement
  <2> QED BY <2>2 DEF SizeToOrder, OrdersFor
<1>2. PICK k \in Usable(target) :
        /\ call' = Splitting(Head(free_lists[k]), k, target)
        /\ free_lists' = [free_lists EXCEPT ![k] = Tail(@)]
  BY Zenon DEF Allocate
<1> HIDE DEF target
<1> DEFINE h == Head(free_lists[k])
<1>3. k \in Orders /\ target <= k /\ free_lists[k] # <<>>
  BY <1>1, AllocatorAssumption DEF Usable, Orders
<1>4. /\ free_lists[k] \in Seq(Offsets) /\ 1 \in DOMAIN free_lists[k]
      /\ h = free_lists[k][1]
      /\ Tail(free_lists[k]) \in Seq(Offsets)
      /\ DOMAIN Tail(free_lists[k]) = 1 .. (Len(free_lists[k]) - 1)
      /\ \A i \in 1 .. (Len(free_lists[k]) - 1) : Tail(free_lists[k])[i] = free_lists[k][i + 1]
      /\ Len(free_lists[k]) \in Nat
      /\ DOMAIN free_lists[k] = 1 .. Len(free_lists[k])
  BY <1>3 DEF Ind, TypeOK
<1> HIDE DEF h
<1>5. InHand = {}
  BY <1>0 DEF InHand
<1>6. ListedFree(blocks, free_lists, {}) /\ FreeListed(blocks, free_lists, {})
  BY <1>5, ExactHalves DEF Ind
<1>7. h \in DOMAIN blocks /\ blocks[h] = [size |-> BlockSize[k], allocated |-> FALSE]
  BY <1>3, <1>4, <1>6 DEF ListedFree
<1>8. /\ call' = Splitting(h, k, target) /\ h \in Offsets
      /\ call'.kind = "split" /\ call'.offset = h /\ call'.order = k /\ call'.target = target
      /\ ~Idle' /\ InHand' = {h}
  BY <1>2, <1>4, <1>7 DEF h, Splitting, Idle, InHand, Ind, TypeOK
<1>9. TypeOK'
  <2>1. call' \in Calls
    BY <1>1, <1>3, <1>8 DEF Calls
  <2>2. free_lists' \in [Orders -> Seq(Offsets)]
    BY <1>2, <1>3, <1>4 DEF Ind, TypeOK
  <2> QED BY <1>0, <2>1, <2>2 DEF Ind, TypeOK
<1>10. HandOK'
  BY <1>0, <1>3, <1>7, <1>8 DEF HandOK
<1>11. NoOverlap'
  BY <1>0 DEF Ind, NoOverlap
<1>12. ASSUME NEW j \in Orders, j # k
       PROVE  free_lists'[j] = free_lists[j]
  BY <1>2, <1>12 DEF Ind, TypeOK
<1>13. free_lists'[k] = Tail(free_lists[k])
  BY <1>2, <1>3 DEF Ind, TypeOK
<1>14. ListedFree(blocks', free_lists', {h})
  <2> SUFFICES ASSUME NEW j \in Orders, NEW i \in DOMAIN free_lists'[j]
               PROVE  /\ free_lists'[j][i] \in DOMAIN blocks \ {h}
                      /\ blocks[free_lists'[j][i]] = [size |-> BlockSize[j], allocated |-> FALSE]
                      /\ \A m \in DOMAIN free_lists'[j] : free_lists'[j][m] = free_lists'[j][i] => i = m
    BY <1>0 DEF ListedFree
  <2>1. CASE j = k
    <3>1. i \in 1 .. (Len(free_lists[k]) - 1) /\ free_lists'[k][i] = free_lists[k][i + 1]
      BY <1>4, <1>13, <2>1, Zenon
    <3>2. i + 1 \in DOMAIN free_lists[k] /\ i + 1 # 1
      BY <1>4, <3>1
    <3>3. free_lists[k][i + 1] # h
      BY <1>3, <1>4, <1>6, <3>2, Zenon DEF ListedFree
    <3>4. ASSUME NEW m \in DOMAIN free_lists'[k], free_lists'[k][m] = free_lists'[k][i]
          PROVE  i = m
      <4>1. m + 1 \in DOMAIN free_lists[k] /\ free_lists'[k][m] = free_lists[k][m + 1] /\ m \in Nat
        BY <1>4, <1>13, <3>4
      <4>2. m + 1 = i + 1
        BY <1>3, <1>6, <3>1, <3>2, <3>4, <4>1, Zenon DEF ListedFree
      <4> QED BY <3>1, <4>1, <4>2
    <3> QED BY <1>3, <1>6, <2>1, <3>1, <3>2, <3>3, <3>4 DEF ListedFree
  <2>2. CASE j # k
    <3>1. free_lists'[j] = free_lists[j] /\ i \in DOMAIN free_lists[j]
      BY <1>12, <2>2
    <3>a. blocks[free_lists[j][i]] = [size |-> BlockSize[j], allocated |-> FALSE]
      BY <1>6, <3>1 DEF ListedFree
    <3>2. blocks[free_lists[j][i]].size = BlockSize[j] /\ blocks[h].size = BlockSize[k]
      BY <1>7, <3>a
    <3>3. BlockSize[j] # BlockSize[k]
      BY <1>3, <2>2, OrderOfSize
    <3> QED BY <1>6, <3>1, <3>2, <3>3 DEF ListedFree
  <2> QED BY <2>1, <2>2
<1>15. FreeListed(blocks', free_lists', {h})
  <2> SUFFICES ASSUME NEW o \in DOMAIN blocks \ {h}, ~blocks[o].allocated
               PROVE  \E j \in Orders : \E i \in DOMAIN free_lists'[j] : free_lists'[j][i] = o
    BY <1>0 DEF FreeListed
  <2>1. PICK j \in Orders : \E i \in DOMAIN free_lists[j] : free_lists[j][i] = o
    BY <1>6 DEF FreeListed
  <2>2. PICK i \in DOMAIN free_lists[j] : free_lists[j][i] = o
    BY <2>1
  <2>3. CASE j = k
    <3>1. i \in 1 .. Len(free_lists[k]) /\ i # 1
      BY <1>4, <2>2, <2>3
    <3>2. i - 1 \in DOMAIN free_lists'[k] /\ free_lists'[k][i - 1] = free_lists[k][i]
      BY <1>4, <1>13, <3>1
    <3> QED BY <1>3, <2>2, <2>3, <3>2
  <2>4. CASE j # k
    BY <1>12, <2>2, <2>4
  <2> QED BY <2>3, <2>4
<1> QED BY <1>8, <1>9, <1>10, <1>11, <1>14, <1>15, ExactHalves DEF Ind

(* list.append()                                                           *)
LEMMA AppendTo ==
  ASSUME NEW S, NEW list \in Seq(S), NEW x \in S
  PROVE  /\ Append(list, x) \in Seq(S)
         /\ DOMAIN Append(list, x) = DOMAIN list \cup {Len(list) + 1}
         /\ \A i \in DOMAIN list : Append(list, x)[i] = list[i]
         /\ Append(list, x)[Len(list) + 1] = x
         /\ Len(list) + 1 \notin DOMAIN list
OBVIOUS

(* A block that was in no list and is free may be appended to the list of  *)
(* its size.                                                               *)
LEMMA AppendFree ==
  ASSUME NEW B, NEW F \in [Orders -> Seq(Offsets)], NEW H, NEW H2,
         NEW k \in Orders, NEW o \in Offsets,
         ListedFree(B, F, H), FreeListed(B, F, H),
         o \in DOMAIN B, o \notin H2, H2 \subseteq H, H \subseteq H2 \cup {o}, o \in H,
         B[o] = [size |-> BlockSize[k], allocated |-> FALSE]
  PROVE  /\ ListedFree(B, [F EXCEPT ![k] = Append(@, o)], H2)
         /\ FreeListed(B, [F EXCEPT ![k] = Append(@, o)], H2)
<1> DEFINE G == [F EXCEPT ![k] = Append(@, o)]
           n == Len(F[k]) + 1
<1>1. /\ G[k] = Append(F[k], o)
      /\ \A j \in Orders : j # k => G[j] = F[j]
  OBVIOUS
<1>2. /\ DOMAIN G[k] = DOMAIN F[k] \cup {n}
      /\ \A i \in DOMAIN F[k] : G[k][i] = F[k][i]
      /\ G[k][n] = o /\ n \notin DOMAIN F[k]
  BY <1>1, AppendTo
<1> HIDE DEF G, n
<1>3. ASSUME NEW j \in Orders, NEW i \in DOMAIN F[j]
      PROVE  F[j][i] # o
  <2>1. F[j][i] \in DOMAIN B \ H
    BY ZenonT(30) DEF ListedFree
  <2> QED BY <2>1
<1>4. ListedFree(B, G, H2)
  <2> SUFFICES ASSUME NEW j \in Orders, NEW i \in DOMAIN G[j]
               PROVE  /\ G[j][i] \in DOMAIN B \ H2
                      /\ B[G[j][i]] = [size |-> BlockSize[j], allocated |-> FALSE]
                      /\ \A m \in DOMAIN G[j] : G[j][m] = G[j][i] => i = m
    BY DEF ListedFree
  <2>1. CASE j # k
    BY <1>1, <2>1 DEF ListedFree
  <2>2. CASE j = k /\ i = n
    BY <1>2, <1>3, <2>2, Zenon
  <2>3. CASE j = k /\ i # n
    <3>1. i \in DOMAIN F[k] /\ G[k][i] = F[k][i]
      BY <1>2, <2>3
    <3>2. /\ F[k][i] \in DOMAIN B \ H
          /\ B[F[k][i]] = [size |-> BlockSize[k], allocated |-> FALSE]
          /\ \A m \in DOMAIN F[k] : F[k][m] = F[k][i] => i = m
      BY <3>1 DEF ListedFree
    <3> QED BY <1>2, <1>3, <2>3, <3>1, <3>2
  <2> QED BY <2>1, <2>2, <2>3
<1>5. FreeListed(B, G, H2)
  <2> SUFFICES ASSUME NEW p \in DOMAIN B \ H2, ~B[p].allocated
               PROVE  \E j \in Orders : \E i \in DOMAIN G[j] : G[j][i] = p
    BY DEF FreeListed
  <2>1. CASE p = o
    BY <1>2, <2>1
  <2>2. CASE p # o
    <3>1. PICK j \in Orders : \E i \in DOMAIN F[j] : F[j][i] = p
      BY <2>2 DEF FreeListed
    <3>2. PICK i \in DOMAIN F[j] : F[j][i] = p
      BY <3>1
    <3>3. i \in DOMAIN G[j] /\ G[j][i] = p
      BY <1>1, <1>2, <3>2
    <3> QED BY <3>3
  <2> QED BY <2>1, <2>2
<1> QED BY <1>4, <1>5 DEF G

(* A turn of the splitting loop: the block in hand becomes two halves.     *)
LEMMA SplitInd ==
  ASSUME Ind, Split
  PROVE  Ind'
<1> DEFINE o == call.offset
           k == call.order - 1
           s == BlockSize[k]
           buddy == o + s
<1>1. /\ call.kind = "split" /\ call.order > call.target /\ ~Idle
      /\ o \in Offsets /\ call.order \in Orders /\ call.target \in Orders
  BY CallType DEF Ind, Split, Idle
<1>2. k \in Orders /\ call.target <= k /\ k < call.order /\ BlockSize[call.order] = 2 * s
      /\ s \in Nat \ {0}
  <2>1. ASSUME NEW a \in Orders, NEW b \in Orders, a > b
        PROVE  a \in 1 .. MaxOrder /\ a - 1 \in Orders /\ b <= a - 1 /\ a - 1 < a
    BY <2>1, AllocatorAssumption DEF Orders
  <2>2. call.order \in 1 .. MaxOrder /\ k \in Orders /\ call.target <= k /\ k < call.order
    BY <1>1, <2>1
  <2> QED BY <2>2, AllocatorAssumption
<1>3. o \in DOMAIN blocks /\ ~blocks[o].allocated /\ blocks[o].size = 2 * s
  BY <1>1, <1>2 DEF Ind, HandOK
<1>4. o \in Nat /\ PoolSize \in Nat /\ o + 2 * s <= PoolSize
  <2>1. PoolSize \in Nat
    BY AllocatorAssumption DEF PoolSize, Orders
  <2>2. o \in Nat
    BY <1>1, <2>1 DEF Offsets
  <2>3. o + blocks[o].size <= PoolSize
    BY <1>3 DEF Ind, NoOverlap
  <2> QED BY <1>3, <2>1, <2>2, <2>3
<1>5. buddy \in Offsets /\ buddy # o
  BY <1>2, <1>4 DEF Offsets
<1>6. buddy \notin DOMAIN blocks
  <2> SUFFICES ASSUME buddy \in DOMAIN blocks PROVE FALSE
    OBVIOUS
  <2>1. o + 2 * s <= buddy
    BY <1>2, <1>3, <1>4 DEF Ind, NoOverlap
  <2> QED BY <1>2, <1>4, <2>1
<1>7. /\ DOMAIN blocks' = DOMAIN blocks \cup {buddy}
      /\ blocks'[o] = [size |-> s, allocated |-> FALSE]
      /\ blocks'[buddy] = [size |-> s, allocated |-> FALSE]
      /\ \A p \in DOMAIN blocks : p # o => blocks'[p] = blocks[p]
      /\ free_lists' = [free_lists EXCEPT ![k] = Append(@, buddy)]
      /\ call' = Splitting(o, k, call.target)
      /\ allocated_bytes' = allocated_bytes
  <2>1. DOMAIN SetBlock(o, s, FALSE) = DOMAIN blocks
    BY <1>3 DEF SetBlock
  <2>2. SetBlock(o, s, FALSE)[o] = [size |-> s, allocated |-> FALSE]
    BY DEF SetBlock
  <2>3. \A p \in DOMAIN blocks : p # o => SetBlock(o, s, FALSE)[p] = blocks[p]
    BY DEF SetBlock
  <2> DEFINE half == SetBlock(o, s, FALSE)
  <2>4. /\ blocks' = [p \in DOMAIN half \cup {buddy} |->
                        IF p = buddy THEN [size |-> s, allocated |-> FALSE] ELSE half[p]]
        /\ free_lists' = [free_lists EXCEPT ![k] = Append(@, buddy)]
        /\ call' = Splitting(o, k, call.target)
        /\ allocated_bytes' = allocated_bytes
    BY DEF Split
  <2> HIDE DEF half, o, k, s, buddy
  <2>5. DOMAIN half = DOMAIN blocks /\ half[o] = [size |-> s, allocated |-> FALSE]
        /\ \A p \in DOMAIN blocks : p # o => half[p] = blocks[p]
    BY <2>1, <2>2, <2>3, Zenon DEF half
  <2> QED BY <1>3, <1>5, <1>6, <2>4, <2>5, Zenon
<1>8. /\ call'.kind = "split" /\ call'.offset = o /\ call'.order = k
      /\ call'.target = call.target /\ ~Idle' /\ InHand' = {o} /\ InHand = {o}
  BY <1>1, <1>7 DEF Splitting, Idle, InHand
<1> HIDE DEF o, k, s, buddy
<1>9. TypeOK'
  <2>1. call' \in Calls
    BY <1>1, <1>2, <1>7 DEF Calls
  <2>2. free_lists' \in [Orders -> Seq(Offsets)]
    BY <1>2, <1>5, <1>7, AppendTo DEF Ind, TypeOK
  <2>3. DOMAIN blocks' \subseteq Offsets
    BY <1>5, <1>7 DEF Ind, TypeOK
  <2>4. ASSUME NEW p \in DOMAIN blocks'
        PROVE  blocks'[p] \in [size : {BlockSize[j] : j \in Orders}, allocated : BOOLEAN]
    <3>1. s \in {BlockSize[j] : j \in Orders}
      BY <1>2 DEF s
    <3>2. CASE p = o \/ p = buddy
      <4>1. blocks'[p] = [size |-> s, allocated |-> FALSE]
        BY <1>7, <3>2, Zenon
      <4> QED BY <3>1, <4>1
    <3>3. CASE p # o /\ p # buddy
      BY <1>7, <3>3 DEF Ind, TypeOK
    <3> QED BY <3>2, <3>3
  <2> QED BY <1>7, <2>1, <2>2, <2>3, <2>4, Zenon DEF Ind, TypeOK
<1>10. HandOK'
  <2>1. blocks'[o].size = BlockSize[k] /\ ~blocks'[o].allocated
    BY <1>7 DEF s
  <2> QED BY <1>2, <1>3, <1>7, <1>8, <2>1 DEF HandOK
<1>11. NoOverlap'
  <2>1. buddy = o + s
    BY DEF buddy
  <2>2. ASSUME NEW p \in DOMAIN blocks'
        PROVE  p + blocks'[p].size <= PoolSize
    <3>1. CASE p = o \/ p = buddy
      BY <1>2, <1>4, <1>7, <2>1, <3>1
    <3>2. CASE p # o /\ p # buddy
      BY <1>7, <3>2 DEF Ind, NoOverlap
    <3> QED BY <3>1, <3>2
  <2>3. ASSUME NEW p \in DOMAIN blocks', NEW q \in DOMAIN blocks', p < q
        PROVE  p + blocks'[p].size <= q
    <3>0. p \in Nat /\ q \in Nat
      BY <1>9, <1>4 DEF TypeOK, Offsets
    <3>1. CASE p = o
      <4>1. CASE q = buddy
        BY <1>7, <2>1, <3>1, <4>1, <1>2, <1>4
      <4>2. CASE q # buddy
        <5>1. q \in DOMAIN blocks /\ o + 2 * s <= q
          BY <1>3, <1>7, <2>3, <3>1, <4>2 DEF Ind, NoOverlap
        <5> QED BY <1>2, <1>4, <1>7, <3>0, <3>1, <5>1
      <4> QED BY <4>1, <4>2
    <3>2. CASE p = buddy
      <4>1. q # buddy /\ q \in DOMAIN blocks /\ o < q
        BY <1>2, <1>4, <1>7, <2>1, <2>3, <3>0, <3>2
      <4>2. o + 2 * s <= q
        BY <1>3, <4>1 DEF Ind, NoOverlap
      <4> QED BY <1>2, <1>4, <1>7, <2>1, <3>0, <3>2, <4>2
    <3>3. CASE p # o /\ p # buddy
      <4>1. p \in DOMAIN blocks /\ blocks'[p] = blocks[p] /\ blocks[p].size \in Nat \ {0}
        BY <1>7, <3>3, BlockType DEF Ind
      <4>2. CASE q # buddy
        BY <1>7, <2>3, <4>1, <4>2 DEF Ind, NoOverlap
      <4>3. CASE q = buddy
        <5>1. ~(o < p)
          <6> SUFFICES ASSUME o < p PROVE FALSE
            OBVIOUS
          <6>1. o + 2 * s <= p
            BY <1>3, <4>1 DEF Ind, NoOverlap
          <6> QED BY <1>2, <1>4, <2>1, <2>3, <3>0, <4>3, <6>1
        <5>2. p < o
          BY <1>4, <3>0, <3>3, <5>1
        <5>3. p + blocks[p].size <= o
          BY <1>3, <4>1, <5>2 DEF Ind, NoOverlap
        <5> QED BY <1>2, <1>4, <2>1, <3>0, <4>1, <4>3, <5>3
      <4> QED BY <4>2, <4>3
    <3> QED BY <3>1, <3>2, <3>3
  <2> QED BY <2>2, <2>3 DEF NoOverlap
<1>12. ListedFree(blocks, free_lists, {o}) /\ FreeListed(blocks, free_lists, {o})
  BY <1>8, ExactHalves DEF Ind
<1>13. ListedFree(blocks', free_lists, {o, buddy}) /\ FreeListed(blocks', free_lists, {o, buddy})
  <2>1. ASSUME NEW j \in Orders, NEW i \in DOMAIN free_lists[j]
        PROVE  /\ free_lists[j][i] \in DOMAIN blocks' \ {o, buddy}
               /\ blocks'[free_lists[j][i]] = [size |-> BlockSize[j], allocated |-> FALSE]
               /\ \A m \in DOMAIN free_lists[j] : free_lists[j][m] = free_lists[j][i] => i = m
    BY <1>6, <1>7, <1>12 DEF ListedFree
  <2>2. ASSUME NEW p \in DOMAIN blocks' \ {o, buddy}, ~blocks'[p].allocated
        PROVE  \E j \in Orders : \E i \in DOMAIN free_lists[j] : free_lists[j][i] = p
    BY <1>7, <1>12, <2>2 DEF FreeListed
  <2> QED BY <2>1, <2>2 DEF ListedFree, FreeListed
<1>14. ListedFree(blocks', free_lists', {o}) /\ FreeListed(blocks', free_lists', {o})
  <2>1. free_lists \in [Orders -> Seq(Offsets)]
    BY DEF Ind, TypeOK
  <2>2. blocks'[buddy] = [size |-> BlockSize[k], allocated |-> FALSE] /\ buddy \in DOMAIN blocks'
    BY <1>7 DEF s
  <2>3. {o} \subseteq {o, buddy} /\ {o, buddy} \subseteq {o} \cup {buddy}
        /\ buddy \notin {o} /\ buddy \in {o, buddy}
    BY <1>5
  <2>4. /\ ListedFree(blocks', [free_lists EXCEPT ![k] = Append(@, buddy)], {o})
        /\ FreeListed(blocks', [free_lists EXCEPT ![k] = Append(@, buddy)], {o})
    BY <1>2, <1>5, <1>13, <2>1, <2>2, <2>3, AppendFree, Zenon
  <2> QED BY <1>7, <2>4
<1> QED BY <1>8, <1>9, <1>10, <1>11, <1>14, ExactHalves DEF Ind

(* The block in hand is handed out.                                        *)
LEMMA ReturnBlockInd ==
  ASSUME Ind, ReturnBlock
  PROVE  Ind'
<1> DEFINE o == call.offset
<1>1. call.kind = "split" /\ ~Idle /\ o \in Offsets
  BY CallType DEF Ind, ReturnBlock, Idle
<1>2. o \in DOMAIN blocks /\ ~blocks[o].allocated
  BY <1>1 DEF Ind, HandOK
<1>3. /\ DOMAIN blocks' = DOMAIN blocks
      /\ blocks'[o] = [size |-> blocks[o].size, allocated |-> TRUE]
      /\ \A p \in DOMAIN blocks : p # o => blocks'[p] = blocks[p]
      /\ allocated_bytes' = allocated_bytes + blocks[o].size
      /\ call' = NoCall /\ free_lists' = free_lists
  BY <1>2 DEF ReturnBlock, SetBlock
<1>4. InHand = {o} /\ Idle' /\ InHand' = {}
  BY <1>1, <1>3 DEF InHand, Idle, NoCall
<1> HIDE DEF o
<1>5. \A p \in DOMAIN blocks : blocks'[p].size = blocks[p].size
  BY <1>3
<1>6. TypeOK'
  <2>1. ASSUME NEW p \in DOMAIN blocks
        PROVE  blocks'[p] \in [size : {BlockSize[j] : j \in Orders}, allocated : BOOLEAN]
    <3>1. CASE p = o
      <4>1. PICK k \in Orders : blocks[o].size = BlockSize[k]
        BY <1>2, BlockType DEF Ind
      <4>2. blocks'[p] = [size |-> BlockSize[k], allocated |-> TRUE]
        BY <1>3, <3>1, <4>1
      <4> QED BY <4>2
    <3>2. CASE p # o
      BY <1>3, <3>2 DEF Ind, TypeOK
    <3> QED BY <3>1, <3>2
  <2>2. allocated_bytes' \in Int
    <3>1. blocks[o].size \in Nat
      BY <1>2, BlockType DEF Ind
    <3>2. allocated_bytes \in Int
      BY DEF Ind, TypeOK
    <3> QED BY <1>3, <3>1, <3>2
  <2>3. call' \in Calls
    BY <1>3 DEF Calls
  <2> QED BY <1>3, <2>1, <2>2, <2>3 DEF Ind, TypeOK
<1>7. HandOK'
  BY <1>3, <1>4 DEF HandOK, NoCall
<1>8. NoOverlap'
  BY <1>3, <1>5 DEF Ind, NoOverlap
<1>9. ListedFree(blocks, free_lists, {o}) /\ FreeListed(blocks, free_lists, {o})
  BY <1>4, ExactHalves DEF Ind
<1>10. ListedFree(blocks', free_lists', {})
  BY <1>3, <1>9 DEF ListedFree
<1>11. FreeListed(blocks', free_lists', {})
  <2> SUFFICES ASSUME NEW p \in DOMAIN blocks', ~blocks'[p].allocated
               PROVE  \E k \in Orders : \E i \in DOMAIN free_lists[k] : free_lists[k][i] = p
    BY <1>3 DEF FreeListed
  <2>1. p # o /\ p \in DOMAIN blocks /\ ~blocks[p].allocated
    BY <1>3
  <2> QED BY <1>9, <2>1 DEF FreeListed
<1> QED BY <1>4, <1>6, <1>7, <1>8, <1>10, <1>11, ExactHalves DEF Ind

(* A freed block is in hand until it is merged and listed.                 *)
LEMMA FreeInd ==
  ASSUME Ind, NEW o \in Offsets, Free(o)
  PROVE  Ind'
<1>1. Idle /\ o \in DOMAIN blocks /\ blocks[o].allocated
  BY DEF Free
<1>2. /\ DOMAIN blocks' = DOMAIN blocks
      /\ blocks'[o] = [size |-> blocks[o].size, allocated |-> FALSE]
      /\ \A p \in DOMAIN blocks : p # o => blocks'[p] = blocks[p]
      /\ allocated_bytes' = allocated_bytes - blocks[o].size
      /\ call' = Merging(o) /\ free_lists' = free_lists
  BY <1>1 DEF Free, SetBlock
<1>3. /\ InHand = {} /\ ~Idle' /\ InHand' = {o}
      /\ call'.kind = "merge" /\ call'.offset = o
  BY <1>1, <1>2 DEF InHand, Idle, Merging
<1>4. \A p \in DOMAIN blocks : blocks'[p].size = blocks[p].size
  BY <1>2
<1>5. TypeOK'
  <2>1. ASSUME NEW p \in DOMAIN blocks
        PROVE  blocks'[p] \in [size : {BlockSize[j] : j \in Orders}, allocated : BOOLEAN]
    <3>1. CASE p = o
      <4>1. PICK k \in Orders : blocks[o].size = BlockSize[k]
        BY <1>1, BlockType DEF Ind
      <4>2. blocks'[p] = [size |-> BlockSize[k], allocated |-> FALSE]
        BY <1>2, <3>1, <4>1
      <4> QED BY <4>2
    <3>2. CASE p # o
      BY <1>2, <3>2 DEF Ind, TypeOK
    <3> QED BY <3>1, <3>2
  <2>2. allocated_bytes' \in Int
    <3>1. blocks[o].size \in Nat
      BY <1>1, BlockType DEF Ind
    <3>2. allocated_bytes \in Int
      BY DEF Ind, TypeOK
    <3> QED BY <1>2, <3>1, <3>2
  <2>3. call' \in Calls
    BY <1>2 DEF Calls
  <2> QED BY <1>2, <2>1, <2>2, <2>3 DEF Ind, TypeOK
<1>6. HandOK'
  BY <1>1, <1>2, <1>3 DEF HandOK
<1>7. NoOverlap'
  BY <1>2, <1>4 DEF Ind, NoOverlap
<1>8. ListedFree(blocks, free_lists, {}) /\ FreeListed(blocks, free_lists, {})
  BY <1>3, ExactHalves DEF Ind
<1>9. ListedFree(blocks', free_lists', {o})
  <2> SUFFICES ASSUME NEW k \in Orders, NEW i \in DOMAIN free_lists[k]
               PROVE  /\ free_lists[k][i] \in DOMAIN blocks' \ {o}
                      /\ blocks'[free_lists[k][i]] = [size |-> BlockSize[k], allocated |-> FALSE]
                      /\ \A j \in DOMAIN free_lists[k] : free_lists[k][j] = free_lists[k][i] => i = j
    BY <1>2 DEF ListedFree
  <2>1. /\ free_lists[k][i] \in DOMAIN blocks
        /\ blocks[free_lists[k][i]] = [size |-> BlockSize[k], allocated |-> FALSE]
        /\ \A j \in DOMAIN free_lists[k] : free_lists[k][j] = free_lists[k][i] => i = j
    BY <1>8 DEF ListedFree
  <2>2. free_lists[k][i] # o
    BY <1>1, <2>1
  <2> QED BY <1>2, <2>1, <2>2
<1>10. FreeListed(blocks', free_lists', {o})
  BY <1>2, <1>8 DEF FreeListed
<1> QED BY <1>3, <1>5, <1>6, <1>7, <1>9, <1>10, ExactHalves DEF Ind

(* No buddy to merge with: the block in hand is listed.                    *)
LEMMA ReturnFreedInd ==
  ASSUME Ind, ReturnFreed
  PROVE  Ind'
<1> DEFINE o == call.offset
<1>1. call.kind = "merge" /\ ~Idle /\ o \in Offsets
  BY CallType DEF Ind, ReturnFreed, Idle
<1>2. o \in DOMAIN blocks /\ ~blocks[o].allocated
  BY <1>1 DEF Ind, HandOK
<1>3. PICK k \in Orders : blocks[o].size = BlockSize[k]
  BY <1>2, BlockType DEF Ind
<1>4. blocks[o] = [size |-> BlockSize[k], allocated |-> FALSE]
  <2>1. blocks[o] = [size |-> blocks[o].size, allocated |-> blocks[o].allocated]
        /\ blocks[o].allocated \in BOOLEAN
    BY <1>2, BlockType DEF Ind
  <2>2. blocks[o].allocated = FALSE
    BY <1>2, <2>1
  <2> QED BY <1>3, <2>1, <2>2, Zenon
<1>5. /\ free_lists' = [free_lists EXCEPT ![k] = Append(@, o)]
      /\ call' = NoCall /\ blocks' = blocks /\ allocated_bytes' = allocated_bytes
  BY <1>3, OrderOfSize, Zenon DEF ReturnFreed
<1>6. InHand = {o} /\ Idle' /\ InHand' = {}
  BY <1>1, <1>5 DEF InHand, Idle, NoCall
<1> HIDE DEF o
<1>7. free_lists \in [Orders -> Seq(Offsets)]
  BY DEF Ind, TypeOK
<1>8. TypeOK'
  <2>1. free_lists' \in [Orders -> Seq(Offsets)]
    BY <1>1, <1>5, <1>7, AppendTo
  <2>2. call' \in Calls
    BY <1>5 DEF Calls
  <2> QED BY <1>5, <2>1, <2>2 DEF Ind, TypeOK
<1>9. HandOK' /\ NoOverlap'
  BY <1>5, <1>6 DEF Ind, HandOK, NoOverlap, NoCall
<1>10. ListedFree(blocks, free_lists, {o}) /\ FreeListed(blocks, free_lists, {o})
  BY <1>6, ExactHalves DEF Ind
<1>11. /\ ListedFree(blocks, [free_lists EXCEPT ![k] = Append(@, o)], {})
       /\ FreeListed(blocks, [free_lists EXCEPT ![k] = Append(@, o)], {})
  BY <1>1, <1>2, <1>4, <1>7, <1>10, AppendFree, Zenon
<1> QED BY <1>5, <1>6, <1>8, <1>9, <1>11, ExactHalves DEF Ind

(* A listed block that leaves its list.                                    *)
LEMMA RemoveListed ==
  ASSUME NEW B, NEW F \in [Orders -> Seq(Offsets)], NEW H,
         NEW k \in Orders, NEW x,
         ListedFree(B, F, H), FreeListed(B, F, H),
         x \in DOMAIN B \ H, B[x] = [size |-> BlockSize[k], allocated |-> FALSE]
  PROVE  /\ [F EXCEPT ![k] = RemoveFrom(@, x)] \in [Orders -> Seq(Offsets)]
         /\ ListedFree(B, [F EXCEPT ![k] = RemoveFrom(@, x)], H \cup {x})
         /\ FreeListed(B, [F EXCEPT ![k] = RemoveFrom(@, x)], H \cup {x})
<1>1. PICK j \in Orders : \E i \in DOMAIN F[j] : F[j][i] = x
  <2>1. ~B[x].allocated
    OBVIOUS
  <2> QED BY <2>1 DEF FreeListed
<1>2. PICK i \in DOMAIN F[j] : F[j][i] = x
  BY <1>1
<1>3. /\ B[x] = [size |-> BlockSize[j], allocated |-> FALSE]
      /\ \A m \in DOMAIN F[j] : F[j][m] = x => i = m
  BY <1>2 DEF ListedFree
<1>4. BlockSize[j] = BlockSize[k]
  BY <1>3
<1>5. j = k
  BY <1>4, OrderOfSize
<1> DEFINE R == RemoveFrom(F[k], x)
           n == Len(F[k])
           G == [F EXCEPT ![k] = RemoveFrom(@, x)]
<1>6. F[k] \in Seq(Offsets) /\ i \in DOMAIN F[k] /\ F[k][i] = x
      /\ \A m \in DOMAIN F[k] : F[k][m] = F[k][i] => m = i
  BY <1>2, <1>3, <1>5
<1>7. /\ R \in Seq(Offsets) /\ Len(R) = n - 1
      /\ \A m \in 1 .. (n - 1) : R[m] = IF m < i THEN F[k][m] ELSE F[k][m + 1]
  <2>1. /\ RemoveFrom(F[k], F[k][i]) \in Seq(Offsets)
        /\ Len(RemoveFrom(F[k], F[k][i])) = Len(F[k]) - 1
        /\ \A m \in 1 .. (Len(F[k]) - 1) :
             RemoveFrom(F[k], F[k][i])[m] = IF m < i THEN F[k][m] ELSE F[k][m + 1]
    BY <1>6, RemoveOnce
  <2> QED BY <1>6, <2>1
<1>8. G[k] = R /\ \A m \in Orders : m # k => G[m] = F[m]
  OBVIOUS
<1>9. G \in [Orders -> Seq(Offsets)]
  BY <1>7
<1>10. n \in Nat /\ DOMAIN F[k] = 1 .. n /\ i \in 1 .. n /\ DOMAIN R = 1 .. (n - 1)
  BY <1>6, <1>7
<1> HIDE DEF G, R, n
<1>11. ASSUME NEW m \in DOMAIN R
       PROVE  \E a \in DOMAIN F[k] : /\ R[m] = F[k][a] /\ a # i
                                     /\ a = IF m < i THEN m ELSE m + 1
  <2>1. CASE m < i
    BY <1>7, <1>10, <2>1
  <2>2. CASE ~(m < i)
    <3>1. m + 1 \in DOMAIN F[k] /\ m + 1 # i
      BY <1>10, <2>2
    <3> QED BY <1>7, <1>10, <2>2, <3>1
  <2> QED BY <2>1, <2>2
<1>12. ListedFree(B, G, H \cup {x})
  <2> SUFFICES ASSUME NEW a \in Orders, NEW m \in DOMAIN G[a]
               PROVE  /\ G[a][m] \in DOMAIN B \ (H \cup {x})
                      /\ B[G[a][m]] = [size |-> BlockSize[a], allocated |-> FALSE]
                      /\ \A q \in DOMAIN G[a] : G[a][q] = G[a][m] => m = q
    BY DEF ListedFree
  <2>1. CASE a # k
    <3>1. G[a] = F[a] /\ m \in DOMAIN F[a]
      BY <1>8, <2>1
    <3>2. /\ F[a][m] \in DOMAIN B \ H
          /\ B[F[a][m]] = [size |-> BlockSize[a], allocated |-> FALSE]
          /\ \A q \in DOMAIN F[a] : F[a][q] = F[a][m] => m = q
      BY <3>1 DEF ListedFree
    <3>3. BlockSize[a] # BlockSize[k]
      BY <2>1, OrderOfSize
    <3>4. F[a][m] # x
      BY <3>2, <3>3
    <3> QED BY <3>1, <3>2, <3>4
  <2>2. CASE a = k
    <3>1. m \in DOMAIN R /\ G[a] = R
      BY <1>8, <2>2
    <3>2. PICK b \in DOMAIN F[k] : R[m] = F[k][b] /\ b # i /\ b = IF m < i THEN m ELSE m + 1
      BY <1>11, <3>1
    <3>3. /\ F[k][b] \in DOMAIN B \ H
          /\ B[F[k][b]] = [size |-> BlockSize[k], allocated |-> FALSE]
          /\ \A q \in DOMAIN F[k] : F[k][q] = F[k][b] => b = q
      BY <3>2 DEF ListedFree
    <3>4. F[k][b] # x
      BY <1>6, <3>2
    <3>5. ASSUME NEW q \in DOMAIN R, R[q] = R[m]
          PROVE  m = q
      <4>1. PICK c \in DOMAIN F[k] : R[q] = F[k][c] /\ c # i /\ c = IF q < i THEN q ELSE q + 1
        BY <1>11, <3>5
      <4>2. b = c
        BY <3>2, <3>3, <3>5, <4>1
      <4>3. m \in 1 .. (n - 1) /\ q \in 1 .. (n - 1)
        BY <1>10, <3>1, <3>5
      <4> QED BY <1>10, <3>2, <4>1, <4>2, <4>3
    <3> QED BY <2>2, <3>1, <3>2, <3>3, <3>4, <3>5
  <2> QED BY <2>1, <2>2
<1>13. FreeListed(B, G, H \cup {x})
  <2> SUFFICES ASSUME NEW p \in DOMAIN B \ (H \cup {x}), ~B[p].allocated
               PROVE  \E a \in Orders : \E m \in DOMAIN G[a] : G[a][m] = p
    BY DEF FreeListed
  <2>1. PICK a \in Orders : \E m \in DOMAIN F[a] : F[a][m] = p
    BY DEF FreeListed
  <2>2. PICK m \in DOMAIN F[a] : F[a][m] = p
    BY <2>1
  <2>3. CASE a # k
    BY <1>8, <2>2, <2>3
  <2>4. CASE a = k
    <3>1. m # i /\ m \in 1 .. n
      BY <1>6, <1>10, <2>2, <2>4
    <3>2. CASE m < i
      <4>1. m \in DOMAIN R /\ R[m] = F[k][m]
        BY <1>7, <1>10, <3>1, <3>2
      <4> QED BY <1>8, <2>2, <2>4, <4>1
    <3>3. CASE ~(m < i)
      <4>1. m - 1 \in DOMAIN R /\ R[m - 1] = F[k][m]
        BY <1>7, <1>10, <3>1, <3>3
      <4> QED BY <1>8, <2>2, <2>4, <4>1
    <3> QED BY <3>2, <3>3
  <2> QED BY <2>3, <2>4
<1> QED BY <1>9, <1>12, <1>13 DEF G

(* A turn of the merging loop: the block in hand and its buddy become one  *)
(* block of twice the size.  That they are neighbours is enough; alignment *)
(* plays no part.                                                          *)
LEMMA MergeInd ==
  ASSUME Ind, Merge
  PROVE  Ind'
<1> DEFINE o == call.offset
           s == blocks[o].size
           buddy == BuddyOf(o, s)
           low == IF buddy < o THEN buddy ELSE o
           high == IF buddy < o THEN o ELSE buddy
<1>1. call.kind = "merge" /\ ~Idle /\ o \in Offsets
  BY CallType DEF Ind, Merge, Idle
<1>2. o \in DOMAIN blocks /\ ~blocks[o].allocated
  BY <1>1 DEF Ind, HandOK
<1>3. PICK k \in Orders : s = BlockSize[k]
  BY <1>2, BlockType DEF Ind
<1>4. s < PoolSize /\ buddy \in DOMAIN blocks /\ ~blocks[buddy].allocated /\ blocks[buddy].size = s
  BY DEF Merge, BuddyIsFree
<1>5. k + 1 \in Orders /\ BlockSize[k + 1] = 2 * s
  BY <1>3, <1>4, DoubleSize
<1>6. o \in Nat /\ buddy \in Nat /\ s \in Nat \ {0} /\ buddy \in Offsets
  BY <1>2, <1>4, BlockType DEF Ind
<1>7. buddy = o + s \/ buddy = o - s
  BY DEF BuddyOf
<1>8. blocks[buddy] = [size |-> BlockSize[k], allocated |-> FALSE]
  <2>1. blocks[buddy] = [size |-> blocks[buddy].size, allocated |-> blocks[buddy].allocated]
        /\ blocks[buddy].allocated \in BOOLEAN
    BY <1>4, BlockType DEF Ind
  <2>2. blocks[buddy].allocated = FALSE
    BY <1>4, <2>1
  <2> QED BY <1>3, <1>4, <2>1, <2>2, Zenon
<1>9. /\ free_lists' = [free_lists EXCEPT ![k] = RemoveFrom(@, buddy)]
      /\ blocks' = [p \in DOMAIN blocks \ {high} |->
                      IF p = low THEN [size |-> 2 * s, allocated |-> FALSE] ELSE blocks[p]]
      /\ call' = Merging(low)
      /\ allocated_bytes' = allocated_bytes
  BY <1>3, OrderOfSize, Zenon DEF Merge
<1>10. InHand = {o}
  BY <1>1 DEF InHand
<1> HIDE DEF o, s, buddy
<1>11. /\ high = low + s /\ low \in DOMAIN blocks /\ high \in DOMAIN blocks
       /\ low \in Nat /\ high \in Nat /\ {low, high} = {o, buddy} /\ low # high
       /\ low \in Offsets
       /\ blocks[low].size = s /\ blocks[high].size = s
  BY <1>1, <1>2, <1>4, <1>6, <1>7 DEF s
<1> HIDE DEF low, high
<1>12. /\ DOMAIN blocks' = DOMAIN blocks \ {high} /\ low \in DOMAIN blocks'
       /\ blocks'[low] = [size |-> 2 * s, allocated |-> FALSE]
       /\ \A p \in DOMAIN blocks' : p # low => blocks'[p] = blocks[p]
  BY <1>9, <1>11
<1>13. /\ call'.kind = "merge" /\ call'.offset = low /\ ~Idle' /\ InHand' = {low}
  BY <1>9 DEF Merging, Idle, InHand
<1>14. ListedFree(blocks, free_lists, {o}) /\ FreeListed(blocks, free_lists, {o})
  BY <1>10, ExactHalves DEF Ind
<1>15. /\ free_lists' \in [Orders -> Seq(Offsets)]
       /\ ListedFree(blocks, free_lists', {o} \cup {buddy})
       /\ FreeListed(blocks, free_lists', {o} \cup {buddy})
  <2>1. buddy \in DOMAIN blocks \ {o}
    BY <1>4, <1>6, <1>7
  <2>2. free_lists \in [Orders -> Seq(Offsets)]
    BY DEF Ind, TypeOK
  <2>3. /\ [free_lists EXCEPT ![k] = RemoveFrom(@, buddy)] \in [Orders -> Seq(Offsets)]
        /\ ListedFree(blocks, [free_lists EXCEPT ![k] = RemoveFrom(@, buddy)], {o} \cup {buddy})
        /\ FreeListed(blocks, [free_lists EXCEPT ![k] = RemoveFrom(@, buddy)], {o} \cup {buddy})
    BY <1>3, <1>8, <1>14, <2>1, <2>2, RemoveListed, Zenon
  <2> QED BY <1>9, <2>3
<1>16. TypeOK'
  <2>1. ASSUME NEW p \in DOMAIN blocks'
        PROVE  blocks'[p] \in [size : {BlockSize[j] : j \in Orders}, allocated : BOOLEAN]
    <3>1. CASE p = low
      <4>1. blocks'[p] = [size |-> BlockSize[k + 1], allocated |-> FALSE]
        BY <1>5, <1>12, <3>1
      <4> QED BY <1>5, <4>1
    <3>2. CASE p # low
      BY <1>12, <3>2 DEF Ind, TypeOK
    <3> QED BY <3>1, <3>2
  <2>2. call' \in Calls
    BY <1>9, <1>11 DEF Calls
  <2> QED BY <1>9, <1>12, <1>15, <2>1, <2>2 DEF Ind, TypeOK
<1>17. HandOK'
  BY <1>12, <1>13 DEF HandOK
<1>18. NoOverlap'
  <2>1. \A p, q \in DOMAIN blocks : p < q => p + blocks[p].size <= q
    BY DEF Ind, NoOverlap
  <2>2. \A p \in DOMAIN blocks : p + blocks[p].size <= PoolSize
    BY DEF Ind, NoOverlap
  <2>3. high + s <= PoolSize
    BY <1>11, <2>2
  <2>4. PoolSize \in Nat
    BY AllocatorAssumption DEF PoolSize, Orders
  <2>5. ASSUME NEW p \in DOMAIN blocks'
        PROVE  p + blocks'[p].size <= PoolSize
    BY <1>6, <1>11, <1>12, <2>2, <2>3, <2>4
  <2>6. ASSUME NEW p \in DOMAIN blocks', NEW q \in DOMAIN blocks', p < q
        PROVE  p + blocks'[p].size <= q
    <3>1. p \in DOMAIN blocks /\ q \in DOMAIN blocks /\ q # high /\ q \in Nat
      BY <1>12, BlockType DEF Ind
    <3>2. CASE p # low
      BY <1>12, <2>1, <2>6, <3>1, <3>2
    <3>3. CASE p = low
      <4>1. high <= q
        BY <1>11, <2>1, <2>6, <3>1, <3>3
      <4>2. high < q
        BY <1>11, <3>1, <4>1
      <4>3. high + s <= q
        BY <1>11, <2>1, <3>1, <4>2
      <4> QED BY <1>6, <1>11, <1>12, <3>1, <3>3, <4>3
    <3> QED BY <3>2, <3>3
  <2> QED BY <2>5, <2>6 DEF NoOverlap
<1>19. ListedFree(blocks', free_lists', {low})
  <2> SUFFICES ASSUME NEW j \in Orders, NEW i \in DOMAIN free_lists'[j]
               PROVE  /\ free_lists'[j][i] \in DOMAIN blocks' \ {low}
                      /\ blocks'[free_lists'[j][i]] = [size |-> BlockSize[j], allocated |-> FALSE]
                      /\ \A m \in DOMAIN free_lists'[j] : free_lists'[j][m] = free_lists'[j][i] => i = m
    BY DEF ListedFree
  <2>1. /\ free_lists'[j][i] \in DOMAIN blocks \ ({o} \cup {buddy})
        /\ blocks[free_lists'[j][i]] = [size |-> BlockSize[j], allocated |-> FALSE]
        /\ \A m \in DOMAIN free_lists'[j] : free_lists'[j][m] = free_lists'[j][i] => i = m
    BY <1>15 DEF ListedFree
  <2>2. free_lists'[j][i] \in DOMAIN blocks' \ {low}
    BY <1>11, <1>12, <2>1, Zenon
  <2> QED BY <1>12, <2>1, <2>2
<1>20. FreeListed(blocks', free_lists', {low})
  <2> SUFFICES ASSUME NEW p \in DOMAIN blocks' \ {low}, ~blocks'[p].allocated
               PROVE  \E j \in Orders : \E i \in DOMAIN free_lists'[j] : free_lists'[j][i] = p
    BY DEF FreeListed
  <2>1. p \in DOMAIN blocks \ ({o} \cup {buddy}) /\ ~blocks[p].allocated
    BY <1>11, <1>12
  <2> QED BY <1>15, <2>1 DEF FreeListed
<1> QED BY <1>13, <1>16, <1>17, <1>18, <1>19, <1>20, ExactHalves DEF Ind

(* Every step keeps the inductive invariant.                               *)
LEMMA NextInd ==
  ASSUME Ind, [Next]_vars
  PROVE  Ind'
<1>1. CASE \E size \in AskedSizes : Allocate(size)
  BY <1>1, AllocateInd
<1>2. CASE \E o \in Offsets : Free(o)
  BY <1>2, FreeInd
<1>3. CASE Split
  BY <1>3, SplitInd
<1>4. CASE ReturnBlock
  BY <1>4, ReturnBlockInd
<1>5. CASE Merge
  BY <1>5, MergeInd
<1>6. CASE ReturnFreed
  BY <1>6, ReturnFreedInd
<1>7. CASE UNCHANGED vars
  BY <1>7 DEF vars, Ind, TypeOK, HandOK, NoOverlap, FreeListsExact, InHand, Idle
<1> QED BY <1>1, <1>2, <1>3, <1>4, <1>5, <1>6, <1>7 DEF Next, Loop

(* Whatever is allocated and freed, no two blocks of the pool overlap and  *)
(* none reaches beyond it: splitting and merging (allocator.py) never hand *)
(* the same byte to two transfers.                                         *)
THEOREM BlocksNeverOverlap == Spec => []NoOverlap
<1>1. Init => Ind
  BY InitInd
<1>2. Ind /\ [Next]_vars => Ind'
  BY NextInd
<1>3. Ind => NoOverlap
  BY DEF Ind
<1> QED BY <1>1, <1>2, <1>3, PTL DEF Spec

(* The free lists are exactly the free blocks: allocate() never hands out  *)
(* a block in use, and list.remove() in _coalesce never raises.            *)
THEOREM FreeListsAlwaysExact == Spec => []FreeListsExact
<1>1. Init => Ind
  BY InitInd
<1>2. Ind /\ [Next]_vars => Ind'
  BY NextInd
<1>3. Ind => FreeListsExact
  BY DEF Ind
<1> QED BY <1>1, <1>2, <1>3, PTL DEF Spec

----------------------------------------------------------------------------
(* g[k] is the sum of a[0], ..., a[k].                                     *)
SumsTo(g, a) ==
  /\ a \in [Orders -> Int]
  /\ g \in [-1 .. MaxOrder -> Int]
  /\ g[-1] = 0
  /\ \A k \in Orders : g[k] = g[k - 1] + a[k]

(* Every sequence of numbers can be summed.  The proofs about sums are by  *)
(* minimal counterexample.                                                 *)
LEMMA SumExists ==
  ASSUME NEW a \in [Orders -> Int]
  PROVE  \E g : SumsTo(g, a)
<1> DEFINE Has(m) == \E g \in [-1 .. m - 1 -> Int] :
                       g[-1] = 0 /\ \A k \in 0 .. m - 1 : g[k] = g[k - 1] + a[k]
           T == {m \in 0 .. MaxOrder + 1 : ~Has(m)}
<1>1. MaxOrder \in Nat
  BY AllocatorAssumption
<1>2. SUFFICES ASSUME ~Has(MaxOrder + 1) PROVE FALSE
  <2>1. (MaxOrder + 1) - 1 = MaxOrder
    BY <1>1
  <2> QED BY <1>2, <2>1 DEF SumsTo, Orders
<1>3. T \in SUBSET Nat /\ T # {}
  <2> HIDE DEF Has
  <2>1. MaxOrder + 1 \in T
    BY <1>1, <1>2
  <2> QED BY <1>1, <2>1
<1>4. PICK m \in T : \A j \in T : m <= j
  <2> HIDE DEF T
  <2> QED BY <1>3, LeastElement
<1>5. m # 0
  <2> DEFINE z == [k \in -1 .. -1 |-> 0]
  <2>1. z \in [-1 .. 0 - 1 -> Int] /\ z[-1] = 0 /\ \A k \in 0 .. 0 - 1 : z[k] = z[k - 1] + a[k]
    OBVIOUS
  <2> HIDE DEF z
  <2>2. Has(0)
    BY <2>1
  <2> QED BY <2>2, Zenon
<1>6. m \in 1 .. MaxOrder + 1 /\ m - 1 \in 0 .. MaxOrder /\ m - 1 \notin T
  <2> HIDE DEF Has
  <2>1. m \in 1 .. MaxOrder + 1 /\ m - 1 \in 0 .. MaxOrder /\ ~(m <= m - 1)
    BY <1>1, <1>4, <1>5
  <2> QED BY <1>4, <2>1
<1>7. Has(m - 1)
  <2> HIDE DEF Has
  <2> QED BY <1>1, <1>6
<1>8. PICK g \in [-1 .. (m - 1) - 1 -> Int] :
        g[-1] = 0 /\ \A k \in 0 .. (m - 1) - 1 : g[k] = g[k - 1] + a[k]
  BY <1>7, Zenon
<1> DEFINE h == [k \in -1 .. m - 1 |-> IF k = m - 1 THEN g[k - 1] + a[k] ELSE g[k]]
<1>9. h \in [-1 .. m - 1 -> Int] /\ h[-1] = 0
  BY <1>6, <1>8 DEF Orders
<1>10. ASSUME NEW k \in 0 .. m - 1 PROVE h[k] = h[k - 1] + a[k]
  BY <1>6, <1>8
<1> HIDE DEF h
<1>11. Has(m)
  BY <1>9, <1>10, Zenon
<1> QED BY <1>4, <1>11, Zenon

(* b is a but for one term.                                                *)
DiffersAt(a, b, j, d) ==
  /\ j \in Orders /\ d \in Int
  /\ b[j] = a[j] + d
  /\ \A k \in Orders \ {j} : b[k] = a[k]

(* A sum changes by what one of its terms changes.                         *)
LEMMA SumMoves ==
  ASSUME NEW a, NEW b, NEW g, NEW h, NEW j, NEW d,
         SumsTo(g, a), SumsTo(h, b), DiffersAt(a, b, j, d)
  PROVE  h[MaxOrder] = g[MaxOrder] + d
<1> DEFINE Off(m) == IF m < j THEN 0 ELSE d
           T == {m \in Orders : h[m] # g[m] + Off(m)}
<1>1. MaxOrder \in Nat /\ j \in 0 .. MaxOrder /\ d \in Int
  BY AllocatorAssumption DEF Orders, DiffersAt
<1>2. /\ a \in [Orders -> Int] /\ b \in [Orders -> Int]
      /\ g \in [-1 .. MaxOrder -> Int] /\ h \in [-1 .. MaxOrder -> Int]
      /\ g[-1] = 0 /\ h[-1] = 0
      /\ \A k \in Orders : g[k] = g[k - 1] + a[k] /\ h[k] = h[k - 1] + b[k]
  BY DEF SumsTo
<1>3. SUFFICES ASSUME T # {} PROVE FALSE
  <2>1. MaxOrder \in Orders /\ Off(MaxOrder) = d
    BY <1>1 DEF Orders
  <2> QED BY <1>3, <2>1
<1>4. T \in SUBSET Nat
  BY <1>1 DEF Orders
<1>5. PICK m \in T : \A k \in T : m <= k
  <2> HIDE DEF T
  <2> QED BY <1>3, <1>4, LeastElement
<1>6. m \in Orders /\ m \in 0 .. MaxOrder /\ m - 1 \in -1 .. MaxOrder
  BY <1>1, <1>5 DEF Orders
<1>7. h[m - 1] = g[m - 1] + (IF m - 1 < j THEN 0 ELSE d)
  <2>1. CASE m = 0
    BY <1>1, <1>2, <2>1
  <2>2. CASE m # 0
    <3>1. m - 1 \in Orders /\ m - 1 \notin T
      BY <1>1, <1>5, <1>6, <2>2 DEF Orders
    <3> QED BY <3>1
  <2> QED BY <2>1, <2>2
<1>8. b[m] = a[m] + (IF m = j THEN d ELSE 0)
  BY <1>2, <1>6 DEF DiffersAt
<1>9. /\ g[m] = g[m - 1] + a[m] /\ h[m] = h[m - 1] + b[m]
      /\ g[m - 1] \in Int /\ h[m - 1] \in Int /\ a[m] \in Int /\ b[m] \in Int
  BY <1>2, <1>6
<1>10. h[m] = g[m] + Off(m)
  <2>1. CASE m < j
    BY <1>1, <1>6, <1>7, <1>8, <1>9, <2>1
  <2>2. CASE m = j
    BY <1>1, <1>6, <1>7, <1>8, <1>9, <2>2
  <2>3. CASE m > j
    BY <1>1, <1>6, <1>7, <1>8, <1>9, <2>3
  <2> QED BY <1>1, <1>6, <2>1, <2>2, <2>3
<1> QED BY <1>5, <1>10

(* The bytes of the free lists.                                            *)
ListBytes(F) == [k \in Orders |-> Len(F[k]) * BlockSize[k]]
FreeBytes(F) == (CHOOSE g : SumsTo(g, ListBytes(F)))[MaxOrder]

LEMMA ListBytesType ==
  ASSUME NEW F \in [Orders -> Seq(Offsets)]
  PROVE  ListBytes(F) \in [Orders -> Int]
<1>1. ASSUME NEW k \in Orders PROVE Len(F[k]) * BlockSize[k] \in Int
  <2>1. Len(F[k]) \in Nat /\ BlockSize[k] \in Nat
    BY AllocatorAssumption
  <2> QED BY <2>1
<1> QED BY <1>1 DEF ListBytes

LEMMA FreeBytesIs ==
  ASSUME NEW F \in [Orders -> Seq(Offsets)], NEW g, SumsTo(g, ListBytes(F))
  PROVE  FreeBytes(F) = g[MaxOrder] /\ FreeBytes(F) \in Int
<1> DEFINE a == ListBytes(F)
           h == CHOOSE f : SumsTo(f, a)
<1>1. SumsTo(h, a)
  BY Zenon
<1>2. a \in [Orders -> Int]
  BY ListBytesType
<1>3. 0 \in Orders /\ MaxOrder \in -1 .. MaxOrder
  BY AllocatorAssumption DEF Orders
<1>4. FreeBytes(F) = h[MaxOrder]
  BY DEF FreeBytes
<1> HIDE DEF a, h
<1>5. DiffersAt(a, a, 0, 0)
  BY <1>2, <1>3 DEF DiffersAt
<1>6. h[MaxOrder] = g[MaxOrder] + 0
  <2>1. SumsTo(g, a)
    BY DEF a
  <2> QED BY <1>1, <1>5, <2>1, SumMoves
<1>7. h[MaxOrder] \in Int /\ g[MaxOrder] \in Int
  BY <1>1, <1>3 DEF SumsTo, a
<1> QED BY <1>4, <1>6, <1>7

(* One block more or fewer in one list.                                    *)
LEMMA FreeBytesMoves ==
  ASSUME NEW F \in [Orders -> Seq(Offsets)], NEW G \in [Orders -> Seq(Offsets)],
         NEW j \in Orders, NEW d \in {-1, 1}, Len(G[j]) = Len(F[j]) + d,
         \A k \in Orders \ {j} : G[k] = F[k]
  PROVE  FreeBytes(G) = FreeBytes(F) + (IF d = 1 THEN BlockSize[j] ELSE -BlockSize[j])
<1> DEFINE a == ListBytes(F)
           b == ListBytes(G)
           s == IF d = 1 THEN BlockSize[j] ELSE -BlockSize[j]
<1>1. a \in [Orders -> Int] /\ b \in [Orders -> Int]
  BY ListBytesType
<1>2. PICK g : SumsTo(g, a)
  BY <1>1, SumExists, Zenon
<1>3. PICK h : SumsTo(h, b)
  BY <1>1, SumExists, Zenon
<1>4. \A k \in Orders \ {j} : b[k] = a[k]
  BY DEF ListBytes
<1>5. s \in Int /\ BlockSize[j] \in Nat /\ Len(F[j]) \in Nat
  BY AllocatorAssumption
<1>6. b[j] = a[j] + s
  <2>1. a[j] = Len(F[j]) * BlockSize[j] /\ b[j] = (Len(F[j]) + d) * BlockSize[j]
    BY Zenon DEF ListBytes
  <2>2. \A n, w \in Nat : (n + 1) * w = n * w + w /\ (n + (-1)) * w = n * w + (-w)
    OBVIOUS
  <2>3. CASE d = 1
    BY <1>5, <2>1, <2>2, <2>3, Zenon
  <2>4. CASE d = -1
    BY <1>5, <2>1, <2>2, <2>4
  <2> QED BY <2>3, <2>4
<1>7. FreeBytes(F) = g[MaxOrder] /\ FreeBytes(G) = h[MaxOrder]
  BY <1>2, <1>3, FreeBytesIs
<1> HIDE DEF a, b, s
<1>8. h[MaxOrder] = g[MaxOrder] + s
  <2>1. DiffersAt(a, b, j, s)
    BY <1>4, <1>5, <1>6 DEF DiffersAt
  <2> QED BY <1>2, <1>3, <2>1, SumMoves
<1> QED BY <1>7, <1>8 DEF s

LEMMA FreeBytesFewer ==
  ASSUME NEW F \in [Orders -> Seq(Offsets)], NEW G \in [Orders -> Seq(Offsets)],
         NEW j \in Orders, Len(G[j]) = Len(F[j]) + (-1),
         \A k \in Orders \ {j} : G[k] = F[k]
  PROVE  FreeBytes(G) = FreeBytes(F) + (-BlockSize[j])
<1> DEFINE d == -1
<1>1. d \in {-1, 1} /\ d # 1 /\ Len(G[j]) = Len(F[j]) + d
  OBVIOUS
<1> HIDE DEF d
<1> QED BY <1>1, FreeBytesMoves, Zenon

(* No byte is lost or counted twice: what is allocated, what is listed and *)
(* the block in hand make up the pool.                                     *)
Hand == IF Idle THEN 0 ELSE blocks[call.offset].size

Balanced == allocated_bytes + FreeBytes(free_lists) + Hand = PoolSize

LEMMA BalancedInit ==
  ASSUME Init
  PROVE  Balanced
<1> DEFINE g == [k \in -1 .. MaxOrder |-> IF k = MaxOrder THEN PoolSize ELSE 0]
<1>1. MaxOrder \in Nat /\ PoolSize \in Nat /\ PoolSize = BlockSize[MaxOrder] /\ 0 \in Offsets
  BY AllocatorAssumption DEF PoolSize, Orders, Offsets
<1>2. free_lists \in [Orders -> Seq(Offsets)]
  BY <1>1 DEF Init
<1>3. ASSUME NEW k \in Orders
      PROVE  ListBytes(free_lists)[k] = IF k = MaxOrder THEN PoolSize ELSE 0
  <2>1. BlockSize[k] \in Nat
    BY AllocatorAssumption
  <2>2. CASE k = MaxOrder
    <3>1. Len(free_lists[k]) = 1
      BY <2>2 DEF Init
    <3>2. ListBytes(free_lists)[k] = Len(free_lists[k]) * BlockSize[k]
      BY DEF ListBytes
    <3> QED BY <1>1, <2>1, <2>2, <3>1, <3>2
  <2>3. CASE k # MaxOrder
    <3>1. Len(free_lists[k]) = 0
      BY <2>3 DEF Init
    <3> QED BY <2>1, <2>3, <3>1 DEF ListBytes
  <2> QED BY <2>2, <2>3
<1>4. ListBytes(free_lists) \in [Orders -> Int]
  BY <1>2, ListBytesType
<1>5. SumsTo(g, ListBytes(free_lists))
  BY <1>1, <1>3, <1>4 DEF SumsTo, Orders
<1>6. FreeBytes(free_lists) = PoolSize
  <2>1. g[MaxOrder] = PoolSize
    BY <1>1
  <2> HIDE DEF g
  <2> QED BY <1>2, <1>5, <2>1, FreeBytesIs
<1> QED BY <1>1, <1>6 DEF Init, Balanced, Hand, Idle, NoCall

(* Every step keeps the bytes in balance.                                  *)
LEMMA BalancedNext ==
  ASSUME Ind, Ind', Balanced, [Next]_vars
  PROVE  Balanced'
<1> DEFINE F == free_lists
           G == free_lists'
<1>1. /\ F \in [Orders -> Seq(Offsets)] /\ G \in [Orders -> Seq(Offsets)]
      /\ allocated_bytes \in Int /\ PoolSize \in Nat
  BY AllocatorAssumption DEF Ind, TypeOK, PoolSize, Orders
<1>2. FreeBytes(F) \in Int
  <2>1. PICK g : SumsTo(g, ListBytes(F))
    BY <1>1, ListBytesType, SumExists, Zenon
  <2> QED BY <1>1, <2>1, FreeBytesIs
<1> HIDE DEF F, G
<1>3. ASSUME NEW size \in AskedSizes, Allocate(size)
      PROVE  Balanced'
  <2>1. PICK k \in Usable(SizeToOrder(size)) :
          /\ call' = Splitting(Head(free_lists[k]), k, SizeToOrder(size))
          /\ free_lists' = [free_lists EXCEPT ![k] = Tail(@)]
    BY <1>3, Zenon DEF Allocate
  <2>2. k \in Orders /\ free_lists[k] # <<>>
    <3>1. free_lists[k] # <<>> /\ k \in SizeToOrder(size) .. MaxOrder
      BY DEF Usable
    <3> QED BY <2>1, <3>1 DEF Ind, TypeOK, Splitting, Calls, NoCall, Merging
  <2>3. blocks[Head(F[k])].size = BlockSize[k]
    <3>1. 1 \in DOMAIN F[k] /\ Head(F[k]) = F[k][1]
      BY <1>1, <2>2 DEF F
    <3>2. blocks[F[k][1]] = [size |-> BlockSize[k], allocated |-> FALSE]
      BY <2>2, <3>1, Zenon DEF F, Ind, FreeListsExact
    <3> QED BY <3>1, <3>2
  <2>4. Len(G[k]) = Len(F[k]) + (-1) /\ \A j \in Orders \ {k} : G[j] = F[j]
    BY <1>1, <2>1, <2>2 DEF F, G
  <2>5. FreeBytes(G) = FreeBytes(F) + (-BlockSize[k])
    BY <1>1, <2>2, <2>4, FreeBytesFewer, Zenon
  <2>6. Idle /\ ~Idle' /\ call'.offset = Head(F[k]) /\ UNCHANGED <<blocks, allocated_bytes>>
    BY <1>3, <2>1 DEF Allocate, Idle, Splitting, F
  <2>7. Hand = 0 /\ Hand' = BlockSize[k] /\ BlockSize[k] \in Nat
    BY <2>2, <2>3, <2>6, AllocatorAssumption DEF Hand
  <2> QED BY <1>1, <1>2, <2>5, <2>6, <2>7 DEF Balanced, F, G
<1>4. ASSUME NEW o \in Offsets, Free(o)
      PROVE  Balanced'
  <2>1. /\ Idle /\ ~Idle' /\ call'.offset = o /\ o \in DOMAIN blocks
        /\ blocks'[o].size = blocks[o].size
        /\ free_lists' = free_lists /\ allocated_bytes' = allocated_bytes - blocks[o].size
    BY <1>4 DEF Free, Idle, Merging, SetBlock
  <2>2. blocks[o].size \in Nat
    BY <2>1, BlockType DEF Ind
  <2>3. Hand = 0 /\ Hand' = blocks[o].size
    BY <2>1 DEF Hand
  <2> QED BY <1>1, <1>2, <2>1, <2>2, <2>3 DEF Balanced, F
<1>5. CASE Split
  <2> DEFINE o == call.offset
             k == call.order - 1
  <2>1. call.kind = "split" /\ ~Idle /\ call.order > call.target
    BY <1>5 DEF Split, Idle
  <2>2. k \in Orders /\ BlockSize[call.order] = 2 * BlockSize[k] /\ o \in Offsets
    <3>1. call.order \in Orders /\ call.target \in Orders /\ o \in Offsets
      BY <2>1, CallType DEF Ind
    <3>2. k \in Orders /\ call.order \in 1 .. MaxOrder
      <4>1. MaxOrder \in Nat
        BY AllocatorAssumption
      <4>2. \A m, t \in 0 .. MaxOrder : m > t => m - 1 \in 0 .. MaxOrder /\ m \in 1 .. MaxOrder
        BY <4>1
      <4> QED BY <2>1, <3>1, <4>2 DEF Orders
    <3> QED BY <3>1, <3>2, AllocatorAssumption
  <2>3. blocks[o].size = BlockSize[call.order]
    BY <2>1 DEF Ind, HandOK
  <2>4. /\ free_lists' = [free_lists EXCEPT ![k] = Append(@, o + BlockSize[k])]
        /\ call' = Splitting(o, k, call.target) /\ allocated_bytes' = allocated_bytes
    BY <1>5 DEF Split
  <2>5. blocks'[o].size = BlockSize[k]
    <3>1. o # o + BlockSize[k]
      BY <2>2, AllocatorAssumption DEF Offsets
    <3> QED BY <1>5, <3>1 DEF Split, SetBlock
  <2> HIDE DEF o, k
  <2>6. Len(G[k]) = Len(F[k]) + 1 /\ \A j \in Orders \ {k} : G[j] = F[j]
    BY <1>1, <2>2, <2>4 DEF F, G
  <2>7. FreeBytes(G) = FreeBytes(F) + BlockSize[k]
    BY <1>1, <2>2, <2>6, FreeBytesMoves, Zenon
  <2>8. Hand = 2 * BlockSize[k] /\ Hand' = BlockSize[k] /\ BlockSize[k] \in Nat
    BY <2>1, <2>2, <2>3, <2>4, <2>5, AllocatorAssumption DEF Hand, Idle, Splitting, o
  <2> QED BY <1>1, <1>2, <2>4, <2>7, <2>8 DEF Balanced, F, G
<1>6. CASE ReturnBlock
  <2>1. /\ ~Idle /\ Idle' /\ free_lists' = free_lists
        /\ allocated_bytes' = allocated_bytes + blocks[call.offset].size
    BY <1>6 DEF ReturnBlock, Idle, NoCall
  <2>2. Hand = blocks[call.offset].size /\ Hand' = 0
    BY <2>1 DEF Hand
  <2>3. blocks[call.offset].size \in Nat
    BY <2>1, BlockType DEF Ind, HandOK
  <2> QED BY <1>1, <1>2, <2>1, <2>2, <2>3 DEF Balanced, F
<1>7. CASE Merge
  <2> DEFINE o == call.offset
             size == blocks[o].size
             buddy == BuddyOf(o, size)
             low == IF buddy < o THEN buddy ELSE o
  <2>1. call.kind = "merge" /\ ~Idle /\ o \in DOMAIN blocks /\ InHand = {o}
    BY <1>7, Zenon DEF Merge, Ind, HandOK, Idle, InHand
  <2>2. PICK k \in Orders : size = BlockSize[k]
    BY <2>1, BlockType DEF Ind
  <2>3. buddy \in DOMAIN blocks /\ ~blocks[buddy].allocated /\ blocks[buddy].size = size
    BY <1>7 DEF Merge, BuddyIsFree
  <2>4. o \in Nat /\ buddy \in Nat /\ size \in Nat \ {0} /\ (buddy = o + size \/ buddy = o - size)
    BY <2>1, <2>3, BlockType DEF Ind, BuddyOf
  <2>5. /\ free_lists' = [free_lists EXCEPT ![k] = RemoveFrom(@, buddy)]
        /\ call' = Merging(low) /\ allocated_bytes' = allocated_bytes
    BY <1>7, <2>2, OrderOfSize, Zenon DEF Merge
  <2>6. blocks'[low].size = 2 * size
    <3>1. low \in DOMAIN blocks /\ low # (IF buddy < o THEN o ELSE buddy)
      BY <2>1, <2>3, <2>4
    <3> QED BY <1>7, <3>1, Zenon DEF Merge
  <2>7. PICK j \in Orders : \E i \in DOMAIN F[j] : F[j][i] = buddy
    BY <2>1, <2>3, <2>4 DEF Ind, FreeListsExact, F
  <2>8. PICK i \in DOMAIN F[j] : F[j][i] = buddy
    BY <2>7
  <2> HIDE DEF o, size, buddy, low
  <2>9. /\ blocks[buddy] = [size |-> BlockSize[j], allocated |-> FALSE]
        /\ \A m \in DOMAIN F[j] : F[j][m] = buddy => m = i
    BY <2>8 DEF Ind, FreeListsExact, F
  <2>10. j = k
    <3>1. BlockSize[j] = BlockSize[k]
      BY <2>2, <2>3, <2>9
    <3> QED BY <3>1, OrderOfSize
  <2>11. Len(RemoveFrom(F[k], buddy)) = Len(F[k]) - 1
    <3>1. F[k] \in Seq(Offsets)
      BY <1>1
    <3> QED BY <2>8, <2>9, <2>10, <3>1, RemoveOnce
  <2>12. Len(G[k]) = Len(F[k]) + (-1) /\ \A m \in Orders \ {k} : G[m] = F[m]
    <3>1. Len(F[k]) \in Nat
      BY <1>1
    <3>2. G[k] = RemoveFrom(F[k], buddy) /\ \A m \in Orders \ {k} : G[m] = F[m]
      BY <1>1, <2>5 DEF F, G
    <3> QED BY <2>11, <3>1, <3>2
  <2>13. FreeBytes(G) = FreeBytes(F) + (-BlockSize[k])
    BY <1>1, <2>12, FreeBytesFewer, Zenon
  <2>14. Hand = size /\ Hand' = 2 * size
    BY <2>1, <2>5, <2>6 DEF Hand, Idle, Merging, o, size
  <2>15. allocated_bytes + FreeBytes(F) + size = PoolSize
    BY <2>14 DEF Balanced, F
  <2>16. allocated_bytes + FreeBytes(G) + 2 * size = PoolSize
    <3>1. FreeBytes(G) = FreeBytes(F) + (-size) /\ size \in Int
      BY <2>2, <2>4, <2>13
    <3>2. \A b, f, z, p \in Int : b + f + z = p => b + (f + (-z)) + 2 * z = p
      OBVIOUS
    <3>3. PoolSize \in Int
      BY <1>1
    <3> QED BY <1>1, <1>2, <2>15, <3>1, <3>2, <3>3
  <2> QED BY <2>5, <2>14, <2>16 DEF Balanced, G
<1>8. CASE ReturnFreed
  <2> DEFINE o == call.offset
  <2>1. ~Idle /\ Idle' /\ o \in DOMAIN blocks /\ UNCHANGED <<blocks, allocated_bytes>>
    BY <1>8 DEF ReturnFreed, Ind, HandOK, Idle, NoCall
  <2>2. PICK k \in Orders : blocks[o].size = BlockSize[k]
    BY <2>1, BlockType DEF Ind
  <2>3. free_lists' = [free_lists EXCEPT ![k] = Append(@, o)]
    BY <1>8, <2>2, OrderOfSize, Zenon DEF ReturnFreed
  <2> HIDE DEF o
  <2>4. Len(G[k]) = Len(F[k]) + 1 /\ \A j \in Orders \ {k} : G[j] = F[j]
    BY <1>1, <2>3 DEF F, G
  <2>5. FreeBytes(G) = FreeBytes(F) + BlockSize[k]
    BY <1>1, <2>4, FreeBytesMoves, Zenon
  <2>6. Hand = BlockSize[k] /\ Hand' = 0 /\ BlockSize[k] \in Nat
    BY <2>1, <2>2, AllocatorAssumption DEF Hand, o
  <2> QED BY <1>1, <1>2, <2>1, <2>5, <2>6 DEF Balanced, F, G
<1>9. CASE UNCHANGED vars
  BY <1>9 DEF vars, Balanced, Hand, Idle
<1> QED BY <1>3, <1>4, <1>5, <1>6, <1>7, <1>8, <1>9 DEF Next, Loop

(* Every block is a whole number of smallest blocks.                       *)
LEMMA WholeBlocks ==
  ASSUME NEW k \in Orders
  PROVE  /\ BlockSize[k] \div BlockSize[0] \in Nat
         /\ (BlockSize[k] \div BlockSize[0]) * BlockSize[0] = BlockSize[k]
<1> DEFINE b == BlockSize[0]
           T == {n \in Orders : ~(\E q \in Nat : BlockSize[n] = q * b)}
<1>1. 0 \in Orders /\ b \in Nat \ {0} /\ T \in SUBSET Nat
  BY AllocatorAssumption DEF Orders
<1>2. T = {}
  <2>1. SUFFICES ASSUME T # {} PROVE FALSE
    OBVIOUS
  <2>2. PICK n \in T : \A m \in T : n <= m
    BY <1>1, <2>1, LeastElement, Zenon
  <2>3. n \in Orders /\ ~(\E q \in Nat : BlockSize[n] = q * b)
    BY <2>2
  <2>4. n # 0
    <3>1. b = 1 * b /\ 1 \in Nat
      BY <1>1
    <3> QED BY <2>3, <3>1
  <2>5. n \in 1 .. MaxOrder /\ n - 1 \in Orders /\ ~(n <= n - 1)
    BY <2>3, <2>4, AllocatorAssumption DEF Orders
  <2>6. PICK q \in Nat : BlockSize[n - 1] = q * b
    BY <2>2, <2>5
  <2>7. BlockSize[n] = 2 * (q * b)
    BY <2>5, <2>6, AllocatorAssumption
  <2>8. 2 * (q * b) = (2 * q) * b /\ 2 * q \in Nat
    BY <1>1
  <2> QED BY <2>3, <2>7, <2>8
<1>3. PICK q \in Nat : BlockSize[k] = q * b
  BY <1>2
<1>4. (q * b) \div b = q
  BY <1>1
<1> QED BY <1>3, <1>4

(* A sum of multiples is the multiple of the sum.                          *)
Scaled(a, c, b) == b \in Nat /\ \A k \in Orders : c[k] = a[k] * b

LEMMA SumScales ==
  ASSUME NEW a, NEW c, NEW g, NEW h, NEW b, SumsTo(g, a), SumsTo(h, c), Scaled(a, c, b)
  PROVE  h[MaxOrder] = g[MaxOrder] * b
<1> DEFINE T == {m \in Orders : h[m] # g[m] * b}
<1>1. MaxOrder \in Nat /\ MaxOrder \in Orders /\ T \in SUBSET Nat /\ b \in Nat
  BY AllocatorAssumption DEF Orders, Scaled
<1>2. SUFFICES ASSUME T # {} PROVE FALSE
  BY <1>1
<1>3. PICK n \in T : \A m \in T : n <= m
  BY <1>1, <1>2, LeastElement, Zenon
<1>4. n \in Orders /\ h[n] # g[n] * b /\ n - 1 \in -1 .. MaxOrder
  BY <1>1, <1>3 DEF Orders
<1>5. /\ g[n] = g[n - 1] + a[n] /\ h[n] = h[n - 1] + a[n] * b
      /\ g[n - 1] \in Int /\ a[n] \in Int
  BY <1>4 DEF SumsTo, Scaled
<1>6. h[n - 1] = g[n - 1] * b
  <2>1. CASE n = 0
    <3>1. n - 1 = -1 /\ 0 * b = 0
      BY <1>1, <2>1
    <3>2. g[-1] = 0 /\ h[-1] = 0
      BY DEF SumsTo
    <3> QED BY <3>1, <3>2
  <2>2. CASE n # 0
    <3>1. n - 1 \in Orders /\ ~(n <= n - 1)
      BY <1>1, <1>4, <2>2 DEF Orders
    <3> QED BY <1>3, <3>1
  <2> QED BY <2>1, <2>2
<1>7. \A x, y \in Int : (x + y) * b = x * b + y * b
  BY <1>1
<1> QED BY <1>4, <1>5, <1>6, <1>7, Zenon

(* count_free_slots() counts every list in smallest blocks when it is      *)
(* asked for the smallest size, and so measures all the listed bytes.      *)
SlotCounts(F) == [k \in Orders |-> Len(F[k]) * (BlockSize[k] \div BlockSize[0])]

LEMMA SlotCountsType ==
  ASSUME NEW F \in [Orders -> Seq(Offsets)]
  PROVE  /\ SlotCounts(F) \in [Orders -> Int]
         /\ Scaled(SlotCounts(F), ListBytes(F), BlockSize[0])
<1>1. ASSUME NEW k \in Orders
      PROVE  /\ Len(F[k]) * (BlockSize[k] \div BlockSize[0]) \in Int
             /\ Len(F[k]) * BlockSize[k]
                  = (Len(F[k]) * (BlockSize[k] \div BlockSize[0])) * BlockSize[0]
  <2> DEFINE n == Len(F[k])
             q == BlockSize[k] \div BlockSize[0]
             b == BlockSize[0]
  <2>1. n \in Nat /\ q \in Nat /\ b \in Nat /\ q * b = BlockSize[k]
    <3>1. n \in Nat /\ b \in Nat
      BY AllocatorAssumption DEF Orders
    <3>2. q \in Nat /\ q * b = BlockSize[k]
      BY WholeBlocks, Zenon
    <3> QED BY <3>1, <3>2
  <2> HIDE DEF n, q, b
  <2>2. n * q \in Int /\ n * (q * b) = (n * q) * b
    BY <2>1
  <2> QED BY <2>1, <2>2 DEF n, q, b
<1>2. BlockSize[0] \in Nat
  BY AllocatorAssumption DEF Orders
<1> QED BY <1>1, <1>2 DEF SlotCounts, ListBytes, Scaled

LEMMA SlotsMeasureBytes ==
  ASSUME free_lists \in [Orders -> Seq(Offsets)]
  PROVE  CountFreeSlots(1) * BlockSize[0] = FreeBytes(free_lists)
<1> DEFINE F == free_lists
           a == SlotCounts(F)
           t == SizeToOrder(1)
           Turn(f) == [k \in (t - 1) .. MaxOrder |->
                         IF k < t THEN 0
                         ELSE f[k - 1] + Len(free_lists[k]) * (BlockSize[k] \div BlockSize[t])]
           count == CHOOSE f : f = Turn(f)
<1>1. MaxOrder \in Nat /\ 0 \in Orders /\ BlockSize[0] \in Nat
  BY AllocatorAssumption DEF Orders
<1>2. SizeToOrder(1) = 0
  <2>1. OrdersFor(1) = Orders
    BY AllocatorAssumption DEF OrdersFor
  <2>2. \A j \in Orders : 0 <= j /\ (j <= 0 => j = 0)
    BY <1>1 DEF Orders
  <2> QED BY <1>1, <2>1, <2>2 DEF SizeToOrder
<1>3. CountFreeSlots(1) = count[MaxOrder]
  BY DEF CountFreeSlots
<1>4. a \in [Orders -> Int] /\ Scaled(a, ListBytes(F), BlockSize[0])
  BY SlotCountsType
<1>5. ASSUME NEW f
      PROVE  Turn(f) = [k \in -1 .. MaxOrder |-> IF k < 0 THEN 0 ELSE f[k - 1] + a[k]]
  <2>1. t = 0 /\ t - 1 = -1
    BY <1>2
  <2>2. \A k \in -1 .. MaxOrder : ~(k < 0) => k \in Orders
    BY <1>1 DEF Orders
  <2>3. \A k \in Orders : a[k] = Len(free_lists[k]) * (BlockSize[k] \div BlockSize[t])
    BY <2>1 DEF SlotCounts
  <2> HIDE DEF a, t
  <2> QED BY <2>1, <2>2, <2>3
<1> HIDE DEF a, Turn
<1>6. count = Turn(count)
  <2>1. PICK g : SumsTo(g, a)
    BY <1>4, SumExists
  <2>2. g = Turn(g)
    <3>1. ASSUME NEW k \in -1 .. MaxOrder
          PROVE  g[k] = IF k < 0 THEN 0 ELSE g[k - 1] + a[k]
      BY <1>1, <2>1 DEF SumsTo, Orders
    <3>2. g = [k \in -1 .. MaxOrder |-> g[k]]
      BY <2>1 DEF SumsTo
    <3> QED BY <1>5, <3>1, <3>2, Zenon
  <2> QED BY <2>2, Zenon
<1> HIDE DEF count
<1>7. count = [k \in -1 .. MaxOrder |-> IF k < 0 THEN 0 ELSE count[k - 1] + a[k]]
  BY <1>5, <1>6
<1>8. count[-1] = 0 /\ \A k \in Orders : count[k] = count[k - 1] + a[k]
  BY <1>1, <1>7 DEF Orders
<1>9. \A k \in -1 .. MaxOrder : count[k] \in Int
  <2> DEFINE T == {n \in 0 .. MaxOrder + 1 : count[n - 1] \notin Int}
  <2>1. SUFFICES ASSUME T # {} PROVE FALSE
    <3>1. ASSUME NEW k \in -1 .. MaxOrder, T = {} PROVE count[k] \in Int
      <4>1. k + 1 \in 0 .. MaxOrder + 1 /\ (k + 1) - 1 = k
        BY <1>1
      <4> QED BY <3>1, <4>1
    <3> QED BY <3>1
  <2>2. T \in SUBSET Nat
    OBVIOUS
  <2>3. PICK n \in T : \A m \in T : n <= m
    BY <2>1, <2>2, LeastElement, Zenon
  <2>4. n \in 0 .. MaxOrder + 1 /\ count[n - 1] \notin Int
    BY <2>3
  <2>5. n # 0
    BY <1>8, <2>4
  <2>6. n - 1 \in 0 .. MaxOrder + 1 /\ ~(n <= n - 1) /\ n - 1 \in Orders
    BY <1>1, <2>4, <2>5 DEF Orders
  <2>7. count[(n - 1) - 1] \in Int
    BY <2>3, <2>6
  <2>8. count[n - 1] = count[(n - 1) - 1] + a[n - 1] /\ a[n - 1] \in Int
    BY <1>4, <1>8, <2>6
  <2> QED BY <2>4, <2>7, <2>8
<1>10. SumsTo(count, a)
  <2>1. count \in [-1 .. MaxOrder -> Int]
    <3>1. count = [k \in -1 .. MaxOrder |-> count[k]]
      BY <1>7
    <3> QED BY <1>9, <3>1
  <2> QED BY <1>4, <1>8, <2>1 DEF SumsTo
<1>11. PICK h : SumsTo(h, ListBytes(F))
  BY ListBytesType, SumExists, Zenon
<1>12. h[MaxOrder] = count[MaxOrder] * BlockSize[0]
  BY <1>1, <1>4, <1>10, <1>11, SumScales
<1>13. FreeBytes(F) = h[MaxOrder]
  BY <1>11, FreeBytesIs
<1> QED BY <1>3, <1>12, <1>13

(* get_stats() never loses a byte: between two calls of allocate() and     *)
(* free(), the bytes reported as allocated and the smallest blocks that    *)
(* count_free_slots() finds add up to the pool, after every sequence of    *)
(* calls and for every size of pool.                                       *)
THEOREM BytesAlwaysAccounted == Spec => []BytesAccounted
<1>1. Init => Ind /\ Balanced
  BY InitInd, BalancedInit
<1>2. (Ind /\ Balanced) /\ [Next]_vars => (Ind /\ Balanced)'
  BY NextInd, BalancedNext
<1>3. Ind /\ Balanced => BytesAccounted
  <2> SUFFICES ASSUME Ind, Balanced, Idle
               PROVE  allocated_bytes + CountFreeSlots(1) * BlockSize[0] = PoolSize
    BY DEF BytesAccounted
  <2>1. free_lists \in [Orders -> Seq(Offsets)] /\ allocated_bytes \in Int
    BY DEF Ind, TypeOK
  <2>2. FreeBytes(free_lists) \in Int
    <3>1. PICK g : SumsTo(g, ListBytes(free_lists))
      BY <2>1, ListBytesType, SumExists, Zenon
    <3> QED BY <2>1, <3>1, FreeBytesIs
  <2>3. CountFreeSlots(1) * BlockSize[0] = FreeBytes(free_lists)
    BY <2>1, SlotsMeasureBytes
  <2>4. allocated_bytes + FreeBytes(free_lists) + 0 = PoolSize
    BY DEF Balanced, Hand
  <2> QED BY <2>1, <2>2, <2>3, <2>4
<1> QED BY <1>1, <1>2, <1>3, PTL DEF Spec

=============================================================================
