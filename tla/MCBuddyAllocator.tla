-------------------------- MODULE MCBuddyAllocator --------------------------
(* BuddyAllocator and its arithmetic for TLC.                              *)
EXTENDS BuddyAllocator, PowerOfTwo

(* Minimal blocks of two bytes.                                            *)
TwoByteBlocks == [k \in Orders |-> 2 * 2^k]

(* Every small size, and those around larger powers of two.                *)
TestSizes == 0 .. 130 \cup {2^k + d : k \in 8 .. 28, d \in -1 .. 1}

(* Whenever a method may be called, allocate() would ask for the smallest  *)
(* order whose blocks hold the size, at every power of two and next to it: *)
(* rounding twice, to a power of two by smearing bits and to the minimal   *)
(* block, loses nothing, and the order BuddyAllocator uses is the code's.  *)
OrderIsSmallestFit == Idle => OrdersFit
=============================================================================
