----------------------------- MODULE PowerOfTwo -----------------------------
(***************************************************************************)
(* The size arithmetic of transport/allocator.py as the code computes it:  *)
(* rounding up to a power of two by smearing bits, and counting the order  *)
(* of a size in a loop.  BuddyAllocator states directly which order an     *)
(* allocation gets; here the two are compared over a set of sizes.         *)
(***************************************************************************)
EXTENDS Integers, FiniteSets, Bitwise

CONSTANTS
  Sizes,        \* the sizes to compare on
  MinBlocks,    \* values of min_block_size, powers of two
  PoolBytes     \* size of the pool the orders are compared in

ASSUME SizesAssumption ==
  /\ Sizes \subseteq Nat /\ IsFiniteSet(Sizes)
  /\ \A b \in MinBlocks : \E j, k \in 0 .. 30 : b = 2^j /\ PoolBytes = 2^k /\ j <= k

(* The allocator of the pool with the given minimal block.                 *)
TopOrder(min) == CHOOSE k \in 0 .. 30 : min * 2^k = PoolBytes
Buddy(min) == INSTANCE BuddyAllocator WITH
  MaxOrder <- TopOrder(min),
  BlockSize <- [k \in 0 .. TopOrder(min) |-> min * 2^k],
  AskedSizes <- Sizes,
  blocks <- <<>>, free_lists <- <<>>, allocated_bytes <- 0, call <- 0

----------------------------------------------------------------------------
Smear(n, shift) == n | shiftR(n, shift)

(* Mutant of NextPowerOf2: n itself is smeared, so a power of two is       *)
(* doubled.                                                                *)
NextPowerOf2Doubles(n) ==
  IF n <= 0 THEN 1
  ELSE Smear(Smear(Smear(Smear(Smear(Smear(n, 1), 2), 4), 8), 16), 32) + 1

(* _next_power_of_2                                                        *)
NextPowerOf2(n) ==
  IF n <= 0 THEN 1
  ELSE Smear(Smear(Smear(Smear(Smear(Smear(n - 1, 1), 2), 4), 8), 16), 32) + 1

(* _size_to_order: while s < size: s <<= 1, order += 1                     *)
RECURSIVE OrderLoop(_, _, _)
OrderLoop(s, order, bytes) == IF s < bytes THEN OrderLoop(2 * s, order + 1, bytes) ELSE order

(* allocate(): alloc_size, then the order of alloc_size.                   *)
TargetOrder(min, bytes) ==
  LET rounded == NextPowerOf2(bytes)
  IN  OrderLoop(min, 0, IF rounded > min THEN rounded ELSE min)

----------------------------------------------------------------------------
(* The order allocate() computes is the smallest whose blocks hold the     *)
(* size, and is beyond the pool exactly when no block does.                *)
OrdersFit ==
  \A min \in MinBlocks : \A size \in Sizes \ {0} :
    IF Buddy(min)!OrdersFor(size) = {} THEN TargetOrder(min, size) > TopOrder(min)
    ELSE TargetOrder(min, size) = Buddy(min)!SizeToOrder(size)
=============================================================================
