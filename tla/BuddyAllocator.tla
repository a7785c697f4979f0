--------------------------- MODULE BuddyAllocator ---------------------------
(***************************************************************************)
(* The memory pool that transfers are staged in                            *)
(* (disaggregation/transport/allocator.py): a buddy system with one free   *)
(* list per power-of-two block size.                                       *)
(*                                                                         *)
(* Every method holds the allocator's lock from its first access to the    *)
(* state to its return.  `call` is the method that holds it, and a turn of *)
(* one of the two loops (splitting a block, merging a block with its       *)
(* buddy) is a step, so that what is true between the turns can be stated. *)
(***************************************************************************)
EXTENDS Integers, Sequences, FiniteSets

CONSTANTS
  MaxOrder,     \* _max_order
  BlockSize,    \* BlockSize[k] = _min_block_size << k
  AskedSizes    \* the sizes callers ask for, in bytes

Orders == 0 .. MaxOrder
PoolSize == BlockSize[MaxOrder]
Offsets == 0 .. (PoolSize - 1)

ASSUME AllocatorAssumption ==
  /\ MaxOrder \in Nat
  /\ BlockSize \in [Orders -> Nat \ {0}]
  /\ \A k \in 1 .. MaxOrder : BlockSize[k] = 2 * BlockSize[k - 1]
  /\ AskedSizes \subseteq Nat

VARIABLES
  blocks,           \* offset -> [size, allocated], for the offsets a block starts at
  free_lists,       \* order -> offsets of free blocks
  allocated_bytes,
  call              \* the method that holds the lock, and how far it is

vars == <<blocks, free_lists, allocated_bytes, call>>

NoCall == [kind |-> "none"]
Splitting(o, k, t) == [kind |-> "split", offset |-> o, order |-> k, target |-> t]
Merging(o) == [kind |-> "merge", offset |-> o]

Calls ==
  {NoCall} \cup {Splitting(o, k, t) : o \in Offsets, k \in Orders, t \in Orders}
    \cup {Merging(o) : o \in Offsets}

Idle == call.kind = "none"

(* The block the running method works on: in no free list, not allocated.  *)
InHand == IF Idle THEN {} ELSE {call.offset}

----------------------------------------------------------------------------
(* _size_to_order: the loop ends at the first order whose blocks are large *)
(* enough.  Sizes beyond the pool have an order beyond MaxOrder.           *)
OrdersFor(size) == {k \in Orders : BlockSize[k] >= size}
SizeToOrder(size) == CHOOSE k \in OrdersFor(size) : \A j \in OrdersFor(size) : k <= j

(* offset ^ size, for a size that is a power of two.                       *)
BuddyOf(o, size) == IF (o \div size) % 2 = 0 THEN o + size ELSE o - size

(* list.remove(x): the first occurrence goes.                              *)
RemoveFrom(list, x) ==
  LET i == CHOOSE i \in DOMAIN list : list[i] = x /\ \A j \in 1 .. (i - 1) : list[j] # x
  IN  SubSeq(list, 1, i - 1) \o SubSeq(list, i + 1, Len(list))

SetBlock(o, size, allocated) ==
  [p \in DOMAIN blocks \cup {o} |->
     IF p = o THEN [size |-> size, allocated |-> allocated] ELSE blocks[p]]

(* __init__: one free block, the whole pool.                               *)
Init ==
  /\ blocks = [o \in {0} |-> [size |-> PoolSize, allocated |-> FALSE]]
  /\ free_lists = [k \in Orders |-> IF k = MaxOrder THEN <<0>> ELSE <<>>]
  /\ allocated_bytes = 0
  /\ call = NoCall

(* _allocate_locked: the smallest free block that is large enough.         *)
Usable(target) == {k \in target .. MaxOrder : free_lists[k] # <<>>}

Allocate(size) ==
  /\ Idle
  /\ size > 0 /\ OrdersFor(size) # {}
  /\ LET target == SizeToOrder(size)
     IN  \E k \in Usable(target) :
           /\ \A j \in Usable(target) : k <= j
           /\ call' = Splitting(Head(free_lists[k]), k, target)
           /\ free_lists' = [free_lists EXCEPT ![k] = Tail(@)]
  /\ UNCHANGED <<blocks, allocated_bytes>>

(* block.size is not updated.                                              *)
SplitKeepsSize ==
  /\ call.kind = "split"
  /\ call.order > call.target
  /\ LET k == call.order - 1
         buddy == call.offset + BlockSize[k]
     IN  /\ blocks' = SetBlock(buddy, BlockSize[k], FALSE)
         /\ free_lists' = [free_lists EXCEPT ![k] = Append(@, buddy)]
         /\ call' = Splitting(call.offset, k, call.target)
  /\ UNCHANGED allocated_bytes

(* A turn of the loop: the upper half becomes a free block of its own.     *)
Split ==
  /\ call.kind = "split"
  /\ call.order > call.target
  /\ LET o == call.offset
         k == call.order - 1
         buddy == o + BlockSize[k]
         half == SetBlock(o, BlockSize[k], FALSE)
     IN  /\ blocks' = [p \in DOMAIN half \cup {buddy} |->
                         IF p = buddy THEN [size |-> BlockSize[k], allocated |-> FALSE]
                         ELSE half[p]]
         /\ free_lists' = [free_lists EXCEPT ![k] = Append(@, buddy)]
         /\ call' = Splitting(o, k, call.target)
  /\ UNCHANGED allocated_bytes

ReturnBlock ==
  /\ call.kind = "split"
  /\ call.order = call.target
  /\ blocks' = SetBlock(call.offset, blocks[call.offset].size, TRUE)
  /\ allocated_bytes' = allocated_bytes + blocks[call.offset].size
  /\ call' = NoCall
  /\ UNCHANGED free_lists

(* The counter is not decremented.                                         *)
FreeKeepsBytes(o) ==
  /\ Idle
  /\ o \in DOMAIN blocks /\ blocks[o].allocated
  /\ blocks' = SetBlock(o, blocks[o].size, FALSE)
  /\ call' = Merging(o)
  /\ UNCHANGED <<free_lists, allocated_bytes>>

(* _free_locked: an offset that is not that of an allocated block is       *)
(* refused and nothing changes.                                            *)
Free(o) ==
  /\ Idle
  /\ o \in DOMAIN blocks /\ blocks[o].allocated
  /\ blocks' = SetBlock(o, blocks[o].size, FALSE)
  /\ allocated_bytes' = allocated_bytes - blocks[o].size
  /\ call' = Merging(o)
  /\ UNCHANGED free_lists

(* Only the upper buddy is looked for.                                     *)
BuddyIsFreeAbove(o) ==
  LET buddy == o + blocks[o].size
  IN  /\ blocks[o].size < PoolSize
      /\ buddy \in DOMAIN blocks
      /\ ~blocks[buddy].allocated
      /\ blocks[buddy].size = blocks[o].size
      /\ buddy = BuddyOf(o, blocks[o].size)

(* _coalesce: the buddy can be merged with.                                *)
BuddyIsFree(o) ==
  LET size == blocks[o].size
      buddy == BuddyOf(o, size)
  IN  /\ size < PoolSize
      /\ buddy \in DOMAIN blocks
      /\ ~blocks[buddy].allocated
      /\ blocks[buddy].size = size

(* The buddy stays on its free list.                                       *)
MergeKeepsListed ==
  /\ call.kind = "merge"
  /\ BuddyIsFree(call.offset)
  /\ LET size == blocks[call.offset].size
         buddy == BuddyOf(call.offset, size)
         low == IF buddy < call.offset THEN buddy ELSE call.offset
         high == IF buddy < call.offset THEN call.offset ELSE buddy
     IN  /\ blocks' = [p \in DOMAIN blocks \ {high} |->
                         IF p = low THEN [size |-> 2 * size, allocated |-> FALSE]
                         ELSE blocks[p]]
         /\ call' = Merging(low)
  /\ UNCHANGED <<free_lists, allocated_bytes>>

(* The loop turns to the buddy, but neither block grows.                   *)
MergeSwaps ==
  /\ call.kind = "merge"
  /\ BuddyIsFree(call.offset)
  /\ call' = Merging(BuddyOf(call.offset, blocks[call.offset].size))
  /\ UNCHANGED <<blocks, free_lists, allocated_bytes>>

(* A turn of the loop: the buddy leaves its list and the lower of the two  *)
(* takes over both halves.                                                 *)
Merge ==
  /\ call.kind = "merge"
  /\ BuddyIsFree(call.offset)
  /\ LET size == blocks[call.offset].size
         buddy == BuddyOf(call.offset, size)
         low == IF buddy < call.offset THEN buddy ELSE call.offset
         high == IF buddy < call.offset THEN call.offset ELSE buddy
     IN  /\ free_lists' = [free_lists EXCEPT ![SizeToOrder(size)] = RemoveFrom(@, buddy)]
         /\ blocks' = [p \in DOMAIN blocks \ {high} |->
                         IF p = low THEN [size |-> 2 * size, allocated |-> FALSE]
                         ELSE blocks[p]]
         /\ call' = Merging(low)
  /\ UNCHANGED allocated_bytes

ReturnFreed ==
  /\ call.kind = "merge"
  /\ ~BuddyIsFree(call.offset)
  /\ free_lists' = [free_lists EXCEPT ![SizeToOrder(blocks[call.offset].size)] =
                      Append(@, call.offset)]
  /\ call' = NoCall
  /\ UNCHANGED <<blocks, allocated_bytes>>

Loop == Split \/ ReturnBlock \/ Merge \/ ReturnFreed

Next ==
  \/ \E size \in AskedSizes : Allocate(size)
  \/ \E o \in Offsets : Free(o)
  \/ Loop

Spec == Init /\ [][Next]_vars

(* Both loops run in the thread that holds the lock.                       *)
FairSpec == Spec /\ WF_vars(Loop)

----------------------------------------------------------------------------
(* count_free_slots: count[k] is the count after the turn for order k of   *)
(* the loop over the orders from the target on.                            *)
CountFreeSlots(size) ==
  LET target == SizeToOrder(size)
      count[k \in (target - 1) .. MaxOrder] ==
        IF k < target THEN 0
        ELSE count[k - 1] + Len(free_lists[k]) * (BlockSize[k] \div BlockSize[target])
  IN  count[MaxOrder]

(* Where a slot of this size could be: aligned to its size, clear of every *)
(* allocated block.                                                        *)
Holes(size) ==
  LET bytes == BlockSize[SizeToOrder(size)]
  IN  {o \in Offsets :
         /\ o % bytes = 0
         /\ \A p \in DOMAIN blocks : blocks[p].allocated =>
              p + blocks[p].size <= o \/ o + bytes <= p}

----------------------------------------------------------------------------
(* The type of the state.  It includes that a list only ever holds offsets *)
(* of the pool.                                                            *)
TypeOK ==
  /\ DOMAIN blocks \subseteq Offsets
  /\ \A o \in DOMAIN blocks :
       blocks[o] \in [size : {BlockSize[k] : k \in Orders}, allocated : BOOLEAN]
  /\ free_lists \in [Orders -> Seq(Offsets)]
  /\ allocated_bytes \in Int
  /\ call \in Calls

(* No two blocks overlap, and none reaches beyond the pool.  In particular *)
(* no two slots handed out by allocate() share a byte: neither a split of  *)
(* a block in use nor a merge with one ever happens.                       *)
NoOverlap ==
  \A o \in DOMAIN blocks :
    /\ o + blocks[o].size <= PoolSize
    /\ \A p \in DOMAIN blocks : o < p => o + blocks[o].size <= p

(* The free lists are exactly the free blocks: every listed offset is a    *)
(* free block of the size of its list, listed once, and a free block that  *)
(* the running method does not hold is listed.  So allocate() never hands  *)
(* out a block in use and _free_lists[order].remove() never raises.        *)
FreeListsExact ==
  /\ \A k \in Orders : \A i \in DOMAIN free_lists[k] :
       LET o == free_lists[k][i]
       IN  /\ o \in DOMAIN blocks \ InHand
           /\ blocks[o] = [size |-> BlockSize[k], allocated |-> FALSE]
           /\ \A j \in DOMAIN free_lists[k] : free_lists[k][j] = o => i = j
  /\ \A o \in DOMAIN blocks \ InHand : ~blocks[o].allocated =>
       \E k \in Orders : \E i \in DOMAIN free_lists[k] : free_lists[k][i] = o

(* "Count how many allocations of the given size can fit": between calls   *)
(* count_free_slots() is the number of aligned gaps between the allocated  *)
(* blocks, for every size.  So allocate() fails only when nothing fits,    *)
(* no memory is lost by splitting, and coalescing never leaves two free    *)
(* buddies apart: when everything has been freed the pool is one block.    *)
CountFreeSlotsExact ==
  Idle => \A size \in AskedSizes : size > 0 /\ OrdersFor(size) # {} =>
    CountFreeSlots(size) = Cardinality(Holes(size))

(* get_stats(): between calls, the bytes reported as allocated and those   *)
(* in the free lists add up to the pool.                                   *)
BytesAccounted ==
  Idle => allocated_bytes + CountFreeSlots(1) * BlockSize[0] = PoolSize

(* Every call returns: both loops end and the lock is released.            *)
CallsReturn == ~Idle ~> Idle
=============================================================================
