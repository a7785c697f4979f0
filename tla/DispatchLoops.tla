---------------------------- MODULE DispatchLoops ----------------------------
(***************************************************************************)
(* The loops of dispatch_policy.py as written, and a pool driven by them:  *)
(* dispatches take a slot of the chosen instance, completions give slots   *)
(* back in any order.  TLC checks on every reachable pool that the loops   *)
(* compute what the operators of DispatchPolicy state, and what each       *)
(* policy promises over a sequence of dispatches.                          *)
(***************************************************************************)
EXTENDS DispatchPolicy, Sequences

CONSTANTS
  NumInstances,         \* size of the pool
  Capacity              \* slots per instance

ASSUME DispatchAssumption ==
  /\ NumInstances \in Nat \ {0}
  /\ Capacity \in Nat \ {0}

VARIABLES
  policy,       \* the policy the server was started with
  free,         \* free[i]: free slots of instance i
  cursor,       \* _next or _tiebreak
  waits         \* waits[i]: selections since i last was chosen or full, up to n

vars == <<policy, free, cursor, waits>>

Instances == 0 .. NumInstances - 1

----------------------------------------------------------------------------
(* A round-robin loop that forgets to advance the cursor once it has       *)
(* found an instance (a faulty variant of RoundRobinLoop).                 *)
RoundRobinLoopStuck(n, f, next) ==
  LET scan[k \in 0 .. n] ==
        IF k = 0 THEN <<NoInstance, next>>
        ELSE IF scan[k-1][1] # NoInstance THEN scan[k-1]
        ELSE IF f[scan[k-1][2]] > 0 THEN <<scan[k-1][2], scan[k-1][2]>>
        ELSE <<NoInstance, (scan[k-1][2] + 1) % n>>
  IN scan[n]

(* RoundRobin.select_with_capacity: scan[k] is <<idx once it is returned,  *)
(* _next>> after k turns of the loop.                                      *)
RoundRobinLoop(n, f, next) ==
  LET scan[k \in 0 .. n] ==
        IF k = 0 THEN <<NoInstance, next>>
        ELSE IF scan[k-1][1] # NoInstance THEN scan[k-1]
        ELSE IF f[scan[k-1][2]] > 0 THEN <<scan[k-1][2], (scan[k-1][2] + 1) % n>>
        ELSE <<NoInstance, (scan[k-1][2] + 1) % n>>
  IN scan[n]

(* A scan that compares with >= and so ignores the tie-break (a faulty     *)
(* variant of MaxFreeLoop).                                                *)
MaxFreeLoopNoTie(n, f, tiebreak) ==
  LET best[i \in 0 .. n] ==
        IF i = 0 THEN <<NoInstance, 0>>
        ELSE IF f[i-1] >= best[i-1][2] THEN <<i-1, f[i-1]>>
        ELSE best[i-1]
  IN <<best[n][1], (tiebreak + 1) % n>>

(* A scan in which the tie-break wins over every instance it finds room    *)
(* after (a faulty variant of MaxFreeLoop).                                *)
MaxFreeLoopAnyTie(n, f, tiebreak) ==
  LET best[i \in 0 .. n] ==
        IF i = 0 THEN <<NoInstance, 0>>
        ELSE IF f[i-1] > best[i-1][2] THEN <<i-1, f[i-1]>>
        ELSE IF f[i-1] > 0 /\ i-1 = tiebreak % n THEN <<i-1, best[i-1][2]>>
        ELSE best[i-1]
  IN <<best[n][1], (tiebreak + 1) % n>>

(* MaxFreeSlotsFirst.select_with_capacity: best[i] is <<best_id,           *)
(* best_free>> after the first i instances.                                *)
MaxFreeLoop(n, f, tiebreak) ==
  LET best[i \in 0 .. n] ==
        IF i = 0 THEN <<NoInstance, 0>>
        ELSE IF f[i-1] > best[i-1][2] THEN <<i-1, f[i-1]>>
        ELSE IF /\ f[i-1] = best[i-1][2]
                /\ best[i-1][2] > 0
                /\ i-1 = tiebreak % n
          THEN <<i-1, best[i-1][2]>>
        ELSE best[i-1]
  IN <<best[n][1], (tiebreak + 1) % n>>

SelectLoop(f, c) ==
  IF policy = "round_robin"
    THEN RoundRobinLoop(NumInstances, f, c)
    ELSE MaxFreeLoop(NumInstances, f, c)

----------------------------------------------------------------------------
Init ==
  /\ policy \in Policies
  /\ free = [i \in Instances |-> Capacity]
  /\ cursor = 0
  /\ waits = [i \in Instances |-> 0]

(* One turn of a drain loop: select, and take a slot of the instance.      *)
Dispatch ==
  LET sel == SelectLoop(free, cursor) IN
  /\ sel[1] # NoInstance
  /\ cursor' = sel[2]
  /\ free' = [free EXCEPT ![sel[1]] = @ - 1]
  /\ waits' = [i \in Instances |->
                IF i = sel[1] \/ free[i] = 0 THEN 0
                ELSE IF waits[i] < NumInstances THEN waits[i] + 1
                ELSE waits[i]]
  /\ UNCHANGED policy

(* A drain loop that finds every instance full: only the cursor may move.  *)
DispatchNone ==
  LET sel == SelectLoop(free, cursor) IN
  /\ sel[1] = NoInstance
  /\ cursor' = sel[2]
  /\ UNCHANGED <<policy, free, waits>>

(* An instance completes a request and its slot is given back.             *)
Complete(i) ==
  /\ free[i] < Capacity
  /\ free' = [free EXCEPT ![i] = @ + 1]
  /\ UNCHANGED <<policy, cursor, waits>>

Next == Dispatch \/ DispatchNone \/ \E i \in Instances : Complete(i)

Spec == Init /\ [][Next]_vars

----------------------------------------------------------------------------
(* The loops of both policies compute what DispatchPolicy states, for the  *)
(* result and for the cursor, on every reachable pool.                     *)
LoopsAgree ==
  SelectLoop(free, cursor) =
    <<SelectWithCapacity(policy, NumInstances, free, cursor),
      CursorAfter(policy, NumInstances, free, cursor)>>

(* RoundRobin passes over an instance that has room for fewer than         *)
(* NumInstances selections in a row, whatever completes in between.        *)
BoundedOvertaking ==
  policy = "round_robin" => \A i \in Instances : waits[i] < NumInstances

(* MaxFreeSlotsFirst keeps the pool balanced as it fills: a dispatch never *)
(* goes to an instance with fewer free slots than another one has.         *)
DispatchesToMostFree ==
  [][policy = "max_free_slots" =>
       \A i, j \in Instances : free'[i] < free[i] => free[j] <= free[i]]_vars
=============================================================================
