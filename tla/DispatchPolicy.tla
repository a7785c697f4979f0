--------------------------- MODULE DispatchPolicy ---------------------------
(***************************************************************************)
(* The two capacity-aware dispatch policies of                             *)
(* disaggregation/dispatch_policy.py.  A policy object has one integer of  *)
(* state, its cursor: RoundRobin._next or MaxFreeSlotsFirst._tiebreak      *)
(* (kept modulo the number of instances, which is all the code reads of    *)
(* it).  The operators give the instance select_with_capacity returns and  *)
(* the cursor it leaves.  They are stated without the code's loops;        *)
(* DispatchLoops holds the loops and is checked to agree with them.        *)
(***************************************************************************)
EXTENDS Integers

(* What select_with_capacity returns when every instance is full.          *)
NoInstance == -1

Policies == {"round_robin", "max_free_slots"}

(* Instances are 0 .. n-1, and free[i] is the number of free slots of i.   *)
HasCapacity(n, free) == \E i \in 0 .. n-1 : free[i] > 0

----------------------------------------------------------------------------
(* RoundRobin: the first instance with a free slot, scanning n instances   *)
(* from the cursor.                                                        *)
RoundRobinOffset(n, free, next) ==
  CHOOSE k \in 0 .. n-1 :
    /\ free[(next + k) % n] > 0
    /\ \A j \in 0 .. k-1 : ~ free[(next + j) % n] > 0

RoundRobinSelect(n, free, next) ==
  IF HasCapacity(n, free)
    THEN (next + RoundRobinOffset(n, free, next)) % n
    ELSE NoInstance

(* The cursor moves past the chosen instance; a scan that finds nothing    *)
(* moves it n times, back to where it was.                                 *)
RoundRobinCursor(n, free, next) ==
  IF HasCapacity(n, free)
    THEN (RoundRobinSelect(n, free, next) + 1) % n
    ELSE next

----------------------------------------------------------------------------
(* MaxFreeSlotsFirst: the instances with the most free slots.              *)
MostFree(n, free) ==
  {i \in 0 .. n-1 : free[i] > 0 /\ \A j \in 0 .. n-1 : free[j] <= free[i]}

(* The cursor's instance when it is among them, else the lowest index.     *)
MaxFreeSelect(n, free, tiebreak) ==
  IF MostFree(n, free) = {} THEN NoInstance
  ELSE IF tiebreak % n \in MostFree(n, free) THEN tiebreak % n
  ELSE CHOOSE i \in MostFree(n, free) : \A j \in MostFree(n, free) : i <= j

(* The tie-break counter advances on every call, also on a None.           *)
MaxFreeCursor(n, tiebreak) == (tiebreak + 1) % n

----------------------------------------------------------------------------
SelectWithCapacity(policy, n, free, cursor) ==
  IF policy = "round_robin"
    THEN RoundRobinSelect(n, free, cursor)
    ELSE MaxFreeSelect(n, free, cursor)

CursorAfter(policy, n, free, cursor) ==
  IF policy = "round_robin"
    THEN RoundRobinCursor(n, free, cursor)
    ELSE MaxFreeCursor(n, cursor)
=============================================================================
