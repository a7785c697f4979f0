------------------------- MODULE DispatchLockProofs --------------------------
(***************************************************************************)
(* Proofs about two parts that stand alone.                                *)
(*                                                                         *)
(* The loops of dispatch_policy.py compute what DispatchPolicy states, for *)
(* any number of instances and slots, and what the policies promise over a *)
(* sequence of dispatches.  Induction over the turns of a loop is done by  *)
(* minimal counterexample (LeastNat).                                      *)
(*                                                                         *)
(* The reader-writer lock excludes, counts and wakes correctly for every   *)
(* number of readers and writers, with cancellation or without.            *)
(***************************************************************************)
EXTENDS DispatchLoops, RWLock, WellFoundedInduction, TLAPS

----------------------------------------------------------------------------
(* What select_with_capacity returns.                                      *)

(* A non-empty set of natural numbers has a least element.                 *)
LEMMA LeastNat ==
  ASSUME NEW S \in SUBSET Nat, S # {}
  PROVE  \E k \in S : \A j \in S : k <= j
<1> DEFINE R == {ss \in Nat \X Nat : ss[1] < ss[2]}
<1>1. IsWellFoundedOn(R, Nat)
  BY NatLessThanWellFounded, Zenon DEF OpToRel
<1> HIDE DEF R
<1>2. PICK k \in S : \A j \in S : ~ (<<j, k>> \in R)
  BY <1>1, WFMin, Zenon
<1>3. \A j \in S : k <= j
  <2> SUFFICES ASSUME NEW j \in S PROVE k <= j
    OBVIOUS
  <2>1. j \in Nat /\ k \in Nat
    OBVIOUS
  <2>2. ~ (j < k)
    BY <1>2, <2>1, Zenon DEF R
  <2> QED
    BY <2>1, <2>2
<1> QED
  BY <1>3

(* Division with remainder is unique, for a quotient that is 0.            *)
LEMMA SmallRemainder ==
  ASSUME NEW n \in Nat \ {0}, NEW q \in Int,
         NEW m \in 0 .. n-1, NEW i \in 0 .. n-1,
         (n * q) + m = i
  PROVE  m = i
<1>1. CASE q >= 1
  <2>1. n * q >= n
    BY <1>1, SMT
  <2> QED
    BY <2>1
<1>2. CASE q <= -1
  <2>1. n * q <= -n
    BY <1>2, SMT
  <2> QED
    BY <2>1
<1>3. CASE q = 0
  <2>1. n * q = 0
    BY <1>3
  <2> QED
    BY <2>1
<1> QED
  BY <1>1, <1>2, <1>3

(* The remainders the policies compute: an index below n, or one that has  *)
(* wrapped around once.                                                    *)
LEMMA Remainder ==
  ASSUME NEW n \in Nat \ {0}, NEW i \in 0 .. n-1
  PROVE  i % n = i /\ (n + i) % n = i
<1>1. \A a \in Nat : /\ a % n \in 0 .. n-1
                     /\ a \div n \in Int
                     /\ a = (n * (a \div n)) + (a % n)
  BY SMT
<1>2. i % n = i
  BY <1>1, SmallRemainder
<1>3. (n + i) % n = i
  <2> DEFINE d == (n + i) \div n
             e == (n + i) % n
  <2>1. d \in Int /\ e \in 0 .. n-1 /\ n + i = (n * d) + e
    BY <1>1, SMTT(20)
  <2> HIDE DEF d, e
  <2>2. n * (d - 1) = (n * d) - n /\ n * d \in Int
    BY <2>1, SMT
  <2>3. (n * (d - 1)) + e = i
    BY <2>1, <2>2
  <2>4. e = i
    BY <2>1, <2>3, SmallRemainder
  <2> QED
    BY <2>4 DEF e
<1> QED
  BY <1>2, <1>3

(* A scan of n instances from the cursor visits every one of them.         *)
LEMMA ScanVisitsAll ==
  ASSUME NEW n \in Nat \ {0}, NEW next \in 0 .. n-1, NEW i \in 0 .. n-1
  PROVE  \E k \in 0 .. n-1 : (next + k) % n = i
<1>1. CASE next <= i
  <2>1. i - next \in 0 .. n-1 /\ next + (i - next) = i
    BY <1>1
  <2> QED
    BY <2>1, Remainder, Zenon
<1>2. CASE next > i
  <2>1. n + i - next \in 0 .. n-1 /\ next + (n + i - next) = n + i
    BY <1>2
  <2> QED
    BY <2>1, Remainder, Zenon
<1> QED
  BY <1>1, <1>2

(* The remainder of a scan position is an instance.                        *)
LEMMA ScanStaysInside ==
  ASSUME NEW n \in Nat \ {0}, NEW a \in Nat
  PROVE  a % n \in 0 .. n-1
  BY SMT

(* Among n instances one has the most free slots.  The proof is by         *)
(* minimal counterexample: the least m such that the first m instances     *)
(* have no maximum would be one more than a number that has one.           *)
LEMMA SomeInstanceHasMost ==
  ASSUME NEW n \in Nat \ {0}, NEW f \in [0 .. n-1 -> Int]
  PROVE  \E i \in 0 .. n-1 : \A j \in 0 .. n-1 : f[j] <= f[i]
<1> DEFINE HasMost(m) == \E i \in 0 .. m-1 : \A j \in 0 .. m-1 : f[j] <= f[i]
           S == {m \in 1 .. n : ~ HasMost(m)}
<1>1. SUFFICES ASSUME ~ HasMost(n) PROVE FALSE
  OBVIOUS
<1>2. n \in S
  BY <1>1
<1>3. \A m \in S : m \in Nat
  OBVIOUS
<1> HIDE DEF S
<1>4. PICK m \in S : \A k \in S : m <= k
  BY <1>2, <1>3, LeastNat, Zenon
<1>5. m \in 1 .. n /\ ~ HasMost(m)
  BY <1>4 DEF S
<1>6. m # 1
  <2>1. ASSUME m = 1 PROVE HasMost(m)
    <3>1. f[0] <= f[0] /\ 0 \in 0 .. m-1 /\ \A j \in 0 .. m-1 : j = 0
      BY <2>1
    <3> QED
      BY <3>1
  <2> QED
    BY <2>1, <1>5
<1>7. m - 1 \in 1 .. n /\ m - 1 \notin S
  BY <1>4, <1>5, <1>6
<1>8. HasMost(m - 1)
  BY <1>7 DEF S
<1>9. PICK i \in 0 .. (m-1)-1 : \A j \in 0 .. (m-1)-1 : f[j] <= f[i]
  BY <1>8, SMTT(20)
<1>10. \A j \in 0 .. m-1 : j \in 0 .. (m-1)-1 \/ j = m - 1
  BY <1>5
<1>11. \A j \in 0 .. m-1 : f[j] \in Int
  BY <1>5
<1>12. i \in 0 .. m-1 /\ m - 1 \in 0 .. m-1
  BY <1>5, <1>9
<1>13. CASE f[m - 1] <= f[i]
  <2>1. \A j \in 0 .. m-1 : f[j] <= f[i]
    BY <1>9, <1>10, <1>13
  <2> QED
    BY <2>1, <1>12, <1>5
<1>14. CASE f[i] < f[m - 1]
  <2>1. \A j \in 0 .. m-1 : f[j] <= f[m - 1]
    BY <1>9, <1>10, <1>11, <1>12, <1>14, SMTT(20)
  <2> QED
    BY <2>1, <1>12, <1>5
<1> QED
  BY <1>11, <1>12, <1>13, <1>14

(* RoundRobin returns an instance with a free slot, or None when there is  *)
(* no such instance, and leaves its cursor on an instance.                 *)
LEMMA RoundRobinSelects ==
  ASSUME NEW n \in Nat \ {0}, NEW f \in [0 .. n-1 -> Int], NEW next \in 0 .. n-1
  PROVE  LET i == RoundRobinSelect(n, f, next)
         IN  /\ \/ i \in 0 .. n-1 /\ f[i] > 0
                \/ i = NoInstance /\ \A j \in 0 .. n-1 : f[j] <= 0
             /\ RoundRobinCursor(n, f, next) \in 0 .. n-1
<1>1. CASE ~ HasCapacity(n, f)
  BY <1>1 DEF HasCapacity, RoundRobinSelect, RoundRobinCursor
<1>2. CASE HasCapacity(n, f)
  <2> DEFINE P == {k \in 0 .. n-1 : f[(next + k) % n] > 0}
  <2>1. P \in SUBSET Nat /\ P # {}
    <3>1. PICK i \in 0 .. n-1 : f[i] > 0
      BY <1>2 DEF HasCapacity
    <3>2. PICK k \in 0 .. n-1 : (next + k) % n = i
      BY ScanVisitsAll, Zenon
    <3>3. k \in P
      BY <3>1, <3>2
    <3>4. \A j \in P : j \in Nat
      OBVIOUS
    <3> HIDE DEF P
    <3> QED
      BY <3>3, <3>4
  <2> HIDE DEF P
  <2>2. PICK k \in P : \A j \in P : k <= j
    BY <2>1, LeastNat, Zenon
  <2>3. /\ k \in 0 .. n-1
        /\ f[(next + k) % n] > 0
        /\ \A j \in 0 .. k-1 : ~ f[(next + j) % n] > 0
    <3>1. k \in 0 .. n-1 /\ f[(next + k) % n] > 0
      BY DEF P
    <3>2. ASSUME NEW j \in 0 .. k-1, f[(next + j) % n] > 0 PROVE FALSE
      <4>1. j \in 0 .. n-1 /\ ~ (k <= j)
        BY <3>1
      <4>2. j \in P
        BY <3>2, <4>1 DEF P
      <4> QED
        BY <2>2, <4>1, <4>2
    <3> QED
      BY <3>1, <3>2, Zenon
  <2> DEFINE o == RoundRobinOffset(n, f, next)
  <2>4. o \in 0 .. n-1 /\ f[(next + o) % n] > 0
    BY <2>3, Zenon DEF RoundRobinOffset
  <2>5. RoundRobinSelect(n, f, next) = (next + o) % n
    BY <1>2 DEF RoundRobinSelect
  <2> HIDE DEF o
  <2>6. next + o \in Nat
    BY <2>4
  <2>7. (next + o) % n \in 0 .. n-1
    BY <2>6, ScanStaysInside, Zenon
  <2>8. RoundRobinCursor(n, f, next) \in 0 .. n-1
    <3>1. ((next + o) % n) + 1 \in Nat
      BY <2>7
    <3>2. (((next + o) % n) + 1) % n \in 0 .. n-1
      BY <3>1, ScanStaysInside, Zenon
    <3> QED
      BY <1>2, <2>5, <3>2 DEF RoundRobinCursor
  <2> QED
    BY <2>4, <2>5, <2>7, <2>8
<1> QED
  BY <1>1, <1>2

(* MaxFreeSlotsFirst likewise; what it returns has the most free slots.    *)
LEMMA MaxFreeSelects ==
  ASSUME NEW n \in Nat \ {0}, NEW f \in [0 .. n-1 -> Int], NEW tiebreak \in Nat
  PROVE  LET i == MaxFreeSelect(n, f, tiebreak)
         IN  /\ \/ i \in MostFree(n, f)
                \/ i = NoInstance /\ \A j \in 0 .. n-1 : f[j] <= 0
             /\ MaxFreeCursor(n, tiebreak) \in 0 .. n-1
<1>1. MaxFreeCursor(n, tiebreak) \in 0 .. n-1
  BY ScanStaysInside DEF MaxFreeCursor
<1>2. CASE MostFree(n, f) = {}
  <2>1. PICK i \in 0 .. n-1 : \A j \in 0 .. n-1 : f[j] <= f[i]
    BY SomeInstanceHasMost, Zenon
  <2>2. ~ (f[i] > 0)
    BY <1>2, <2>1 DEF MostFree
  <2>3. \A j \in 0 .. n-1 : f[j] <= 0
    BY <2>1, <2>2
  <2> QED
    BY <1>1, <1>2, <2>3 DEF MaxFreeSelect
<1>3. CASE MostFree(n, f) # {}
  <2>1. MostFree(n, f) \in SUBSET Nat
    BY DEF MostFree
  <2>2. \E i \in MostFree(n, f) : \A j \in MostFree(n, f) : i <= j
    BY <1>3, <2>1, LeastNat
  <2>3. MaxFreeSelect(n, f, tiebreak) \in MostFree(n, f)
    BY <1>3, <2>2 DEF MaxFreeSelect
  <2> QED
    BY <1>1, <2>3
<1> QED
  BY <1>2, <1>3

(* select_with_capacity never names an instance without a free slot, finds *)
(* one whenever there is one, and keeps the cursor within the instances.   *)
THEOREM SelectWithCapacityCorrect ==
  ASSUME NEW n \in Nat \ {0}, NEW f \in [0 .. n-1 -> Int],
         NEW c \in 0 .. n-1, NEW p \in Policies
  PROVE  LET i == SelectWithCapacity(p, n, f, c)
         IN  /\ \/ i \in 0 .. n-1 /\ f[i] > 0
                \/ i = NoInstance /\ \A j \in 0 .. n-1 : f[j] <= 0
             /\ CursorAfter(p, n, f, c) \in 0 .. n-1
<1>1. CASE p = "round_robin"
  BY <1>1, RoundRobinSelects, Zenon DEF SelectWithCapacity, CursorAfter
<1>2. CASE p = "max_free_slots"
  <2>1. \A i \in MostFree(n, f) : i \in 0 .. n-1 /\ f[i] > 0
    BY DEF MostFree
  <2>2. c \in Nat
    OBVIOUS
  <2> QED
    BY <1>2, <2>1, <2>2, MaxFreeSelects, Zenon DEF SelectWithCapacity, CursorAfter
<1> QED
  BY <1>1, <1>2 DEF Policies

----------------------------------------------------------------------------
(* The loops.                                                              *)

(* The values of a loop that starts with v0 and computes value k from      *)
(* value k-1 exist.                                                        *)
LoopHasValues(n, V, v0, step) ==
  \E g \in [0 .. n -> V] : g[0] = v0 /\ \A k \in 1 .. n : g[k] = step[<<k, g[k-1]>>]

LEMMA LoopValues ==
  ASSUME NEW n \in Nat, NEW V, NEW v0 \in V, NEW step \in [(1 .. n) \X V -> V]
  PROVE  LoopHasValues(n, V, v0, step)
<1> DEFINE Has(m) == \E g \in [0 .. m -> V] :
                       g[0] = v0 /\ \A k \in 1 .. m : g[k] = step[<<k, g[k-1]>>]
           S == {m \in 0 .. n : ~ Has(m)}
<1>1. SUFFICES ASSUME ~ Has(n) PROVE FALSE
  BY DEF LoopHasValues
<1>2. S \in SUBSET Nat /\ n \in S
  BY <1>1
<1>3. PICK m \in S : \A j \in S : m <= j
  <2> HIDE DEF S
  <2> QED
    BY <1>2, LeastNat
<1>4. m # 0
  <2> DEFINE z == [k \in 0 .. 0 |-> v0]
  <2>1. z \in [0 .. 0 -> V] /\ z[0] = v0 /\ \A k \in 1 .. 0 : z[k] = step[<<k, z[k-1]>>]
    OBVIOUS
  <2> HIDE DEF z
  <2>2. Has(0)
    BY <2>1
  <2> QED
    BY <2>2, Zenon
<1>5. m \in 1 .. n /\ m - 1 \in 0 .. n /\ m - 1 \notin S
  BY <1>3, <1>4
<1>6. Has(m - 1)
  BY <1>5
<1>7. PICK g \in [0 .. m - 1 -> V] :
        g[0] = v0 /\ \A k \in 1 .. m - 1 : g[k] = step[<<k, g[k-1]>>]
  BY <1>6
<1> DEFINE h == [k \in 0 .. m |-> IF k = m THEN step[<<m, g[m-1]>>] ELSE g[k]]
<1>8. step[<<m, g[m-1]>>] \in V
  <2>1. g[m-1] \in V
    BY <1>5, <1>7
  <2> QED
    BY <1>5, <2>1
<1>9. h \in [0 .. m -> V] /\ h[0] = v0
  BY <1>5, <1>7, <1>8
<1>10. ASSUME NEW k \in 1 .. m PROVE h[k] = step[<<k, h[k-1]>>]
  <2>1. CASE k = m
    <3>1. h[m-1] = g[m-1] /\ h[m] = step[<<m, g[m-1]>>]
      BY <1>5
    <3> HIDE DEF h
    <3> QED
      BY <2>1, <3>1
  <2>2. CASE k # m
    <3>1. k \in 1 .. m - 1 /\ k - 1 \in 0 .. m - 1 /\ k - 1 # m
      BY <1>5, <2>2
    <3>2. h[k] = g[k] /\ h[k-1] = g[k-1]
      BY <1>5, <2>2, <3>1
    <3> HIDE DEF h
    <3> QED
      BY <1>7, <3>1, <3>2
  <2> QED
    BY <2>1, <2>2
<1> HIDE DEF h
<1>11. Has(m)
  BY <1>9, <1>10
<1> QED
  BY <1>3, <1>11

(* Induction over the turns of a loop.                                     *)
LEMMA LoopInduction ==
  ASSUME NEW n \in Nat, NEW Good \in SUBSET (0 .. n), 0 \in Good,
         \A k \in 1 .. n : k - 1 \in Good => k \in Good
  PROVE  n \in Good
<1> DEFINE S == (0 .. n) \ Good
<1> SUFFICES ASSUME n \notin Good PROVE FALSE
  OBVIOUS
<1>1. S \in SUBSET Nat /\ S # {}
  OBVIOUS
<1>2. PICK m \in S : \A j \in S : m <= j
  <2> HIDE DEF S
  <2> QED
    BY <1>1, LeastNat
<1>3. m \in 1 .. n /\ m - 1 \in 0 .. n
  BY <1>2
<1>4. m - 1 \in Good
  BY <1>2, <1>3
<1> QED
  BY <1>2, <1>3, <1>4

(* Arithmetic on a circle of n instances.                                  *)
LEMMA NextOnCircle ==
  ASSUME NEW n \in Nat \ {0}, NEW a \in 0 .. 2 * n - 2
  PROVE  a % n \in 0 .. n-1 /\ ((a % n) + 1) % n = (a + 1) % n
<1>1. CASE a < n
  <2>1. a \in 0 .. n-1
    BY <1>1
  <2>2. a % n = a
    BY <2>1, Remainder
  <2> QED
    BY <2>1, <2>2
<1>2. CASE a >= n
  <2>1. a - n \in 0 .. n-1 /\ a - n + 1 \in 0 .. n-1 /\ n + (a - n) = a
        /\ n + (a - n + 1) = a + 1
    BY <1>2
  <2>2. a % n = a - n /\ (a + 1) % n = a - n + 1 /\ (a - n + 1) % n = a - n + 1
    BY <2>1, Remainder
  <2> QED
    BY <2>1, <2>2
<1> QED
  BY <1>1, <1>2

----------------------------------------------------------------------------
(* RoundRobin.  What the loop has after k turns: it has passed over k full *)
(* instances, or it has returned the first that was not.                   *)
Passed(n, f, next, k) == \A j \in 0 .. k-1 : ~ f[(next + j) % n] > 0

ScanIs(n, f, next, k, v) ==
  \/ v = <<NoInstance, (next + k) % n>> /\ Passed(n, f, next, k)
  \/ \E o \in 0 .. k-1 :
       /\ v = <<(next + o) % n, (next + o + 1) % n>>
       /\ f[(next + o) % n] > 0
       /\ Passed(n, f, next, o)

ScanStep(n, f, v) ==
  IF v[1] # NoInstance THEN v
  ELSE IF f[v[2]] > 0 THEN <<v[2], (v[2] + 1) % n>>
  ELSE <<NoInstance, (v[2] + 1) % n>>

LEMMA ScanTurn ==
  ASSUME NEW n \in Nat \ {0}, NEW f \in [0 .. n-1 -> Int], NEW next \in 0 .. n-1,
         NEW k \in 1 .. n, NEW v, ScanIs(n, f, next, k-1, v)
  PROVE  ScanIs(n, f, next, k, ScanStep(n, f, v))
<1> DEFINE a == next + (k - 1)
<1>1. a \in 0 .. 2 * n - 2 /\ a + 1 = next + k
  OBVIOUS
<1>2. a % n \in 0 .. n-1 /\ ((a % n) + 1) % n = (next + k) % n
  <2> HIDE DEF a
  <2> QED
    BY <1>1, NextOnCircle, Zenon
<1>3. CASE v = <<NoInstance, a % n>> /\ Passed(n, f, next, k-1)
  <2>1. v[1] = NoInstance /\ v[2] = a % n
    BY <1>3
  <2>2. CASE f[a % n] > 0
    <3>1. ScanStep(n, f, v) = <<a % n, ((a % n) + 1) % n>>
      BY <2>1, <2>2 DEF ScanStep
    <3>2. ScanStep(n, f, v) = <<(next + (k-1)) % n, (next + (k-1) + 1) % n>>
      BY <3>1, <1>1, <1>2
    <3>3. k - 1 \in 0 .. k - 1
      OBVIOUS
    <3> QED
      BY <3>2, <3>3, <2>2, <1>3, Zenon DEF ScanIs
  <2>3. CASE ~ f[a % n] > 0
    <3>1. ScanStep(n, f, v) = <<NoInstance, (next + k) % n>>
      BY <1>2, <2>1, <2>3 DEF ScanStep
    <3>2. ASSUME NEW j \in 0 .. k-1 PROVE ~ f[(next + j) % n] > 0
      <4>1. CASE j = k-1
        BY <2>3, <4>1
      <4>2. CASE j # k-1
        <5>1. j \in 0 .. (k-1) - 1
          BY <4>2
        <5> QED
          BY <1>3, <5>1, Zenon DEF Passed
      <4> QED
        BY <4>1, <4>2
    <3>3. Passed(n, f, next, k)
      BY <3>2, Zenon DEF Passed
    <3> QED
      BY <3>1, <3>3, Zenon DEF ScanIs
  <2> QED
    BY <2>2, <2>3
<1>4. ASSUME NEW o \in 0 .. k-2,
             v = <<(next + o) % n, (next + o + 1) % n>>,
             f[(next + o) % n] > 0, Passed(n, f, next, o)
      PROVE  ScanIs(n, f, next, k, ScanStep(n, f, v))
  <2>1. next + o \in 0 .. 2 * n - 2 /\ o \in 0 .. k-1
    OBVIOUS
  <2>2. (next + o) % n \in 0 .. n-1
    BY <2>1, NextOnCircle, Zenon
  <2>3. v[1] # NoInstance
    BY <1>4, <2>2 DEF NoInstance
  <2>4. ScanStep(n, f, v) = v
    BY <2>3 DEF ScanStep
  <2> QED
    BY <1>4, <2>1, <2>4, Zenon DEF ScanIs
<1> QED
  BY <1>3, <1>4 DEF ScanIs

(* The loop of RoundRobin.select_with_capacity.                            *)
LEMMA RoundRobinRuns ==
  ASSUME NEW n \in Nat \ {0}, NEW f \in [0 .. n-1 -> Int], NEW next \in 0 .. n-1
  PROVE  ScanIs(n, f, next, n, RoundRobinLoop(n, f, next))
<1> DEFINE V == (-1 .. n-1) \X (0 .. n-1)
           v0 == <<NoInstance, next>>
           Turn(g) == [k \in 0 .. n |-> IF k = 0 THEN v0 ELSE ScanStep(n, f, g[k-1])]
           step == [p \in (1 .. n) \X V |-> ScanStep(n, f, p[2])]
           scan == CHOOSE g : g = Turn(g)
<1>1. v0 \in V
  BY DEF NoInstance
<1>2. ASSUME NEW v \in V PROVE ScanStep(n, f, v) \in V
  <2>1. /\ v[1] \in -1 .. n-1 /\ v[2] \in 0 .. n-1
        /\ NoInstance \in -1 .. n-1
    BY DEF NoInstance
  <2>2. (v[2] + 1) % n \in 0 .. n-1
    <3>1. v[2] + 1 \in Nat
      BY <2>1
    <3> HIDE DEF V
    <3> QED
      BY <3>1, ScanStaysInside, Zenon
  <2>3. v[2] \in -1 .. n-1
    BY <2>1
  <2> QED
    BY <2>1, <2>2, <2>3 DEF ScanStep
<1>3. step \in [(1 .. n) \X V -> V]
  <2> HIDE DEF V
  <2>1. \A p \in (1 .. n) \X V : p[2] \in V
    OBVIOUS
  <2> QED
    BY <1>2, <2>1
<1>4. \E g : g = Turn(g)
  <2>1. PICK g \in [0 .. n -> V] : g[0] = v0 /\ \A k \in 1 .. n : g[k] = step[<<k, g[k-1]>>]
    <3> HIDE DEF V, v0, step
    <3>1. n \in Nat
      OBVIOUS
    <3>2. LoopHasValues(n, V, v0, step)
      BY <1>1, <1>3, <3>1, LoopValues, Zenon
    <3> QED
      BY <3>2, Zenon DEF LoopHasValues
  <2>2. ASSUME NEW k \in 1 .. n PROVE g[k] = ScanStep(n, f, g[k-1])
    <3> HIDE DEF V
    <3>1. k - 1 \in 0 .. n
      OBVIOUS
    <3>2. <<k, g[k-1]>> \in (1 .. n) \X V
      BY <3>1
    <3>3. step[<<k, g[k-1]>>] = ScanStep(n, f, g[k-1])
      BY <3>2
    <3> QED
      BY <2>1, <3>3, Zenon
  <2>3. ASSUME NEW k \in 0 .. n
        PROVE  g[k] = IF k = 0 THEN v0 ELSE ScanStep(n, f, g[k-1])
    <3> HIDE DEF V, v0
    <3> QED
      BY <2>1, <2>2
  <2>4. g = Turn(g)
    <3> HIDE DEF V, v0
    <3> QED
      BY <2>3
  <2> QED
    BY <2>4, Zenon
<1>5. scan = Turn(scan)
  <2> HIDE DEF Turn
  <2> QED
    BY <1>4, Zenon
<1>6. RoundRobinLoop(n, f, next) = scan[n]
  BY Zenon DEF RoundRobinLoop, ScanStep
<1> HIDE DEF scan
<1>7. scan[0] = v0 /\ \A k \in 1 .. n : scan[k] = ScanStep(n, f, scan[k-1])
  <2> HIDE DEF v0
  <2>1. \A k \in 0 .. n : scan[k] = IF k = 0 THEN v0 ELSE ScanStep(n, f, scan[k-1])
    BY <1>5, Zenon
  <2> QED
    BY <2>1
<1> DEFINE Good == {k \in 0 .. n : ScanIs(n, f, next, k, scan[k])}
<1>8. 0 \in Good
  <2>1. (next + 0) % n = next
    <3>1. next + 0 = next
      OBVIOUS
    <3> QED
      BY <3>1, Remainder, Zenon
  <2>2. scan[0] = <<NoInstance, (next + 0) % n>> /\ Passed(n, f, next, 0)
    BY <1>7, <2>1 DEF Passed
  <2> QED
    BY <2>2 DEF ScanIs
<1>9. \A k \in 1 .. n : k - 1 \in Good => k \in Good
  <2> SUFFICES ASSUME NEW k \in 1 .. n, k - 1 \in Good PROVE ScanIs(n, f, next, k, scan[k])
    OBVIOUS
  <2>1. ScanIs(n, f, next, k-1, scan[k-1])
    OBVIOUS
  <2> QED
    BY <1>7, <2>1, ScanTurn, Zenon
<1>10. n \in Good
  <2>1. Good \in SUBSET (0 .. n)
    OBVIOUS
  <2> HIDE DEF Good
  <2> QED
    BY <1>8, <1>9, <2>1, LoopInduction
<1> QED
  BY <1>6, <1>10

LEMMA RoundRobinAgrees ==
  ASSUME NEW n \in Nat \ {0}, NEW f \in [0 .. n-1 -> Int], NEW next \in 0 .. n-1
  PROVE  RoundRobinLoop(n, f, next) =
           <<RoundRobinSelect(n, f, next), RoundRobinCursor(n, f, next)>>
<1> DEFINE v == RoundRobinLoop(n, f, next)
<1>1. ScanIs(n, f, next, n, v)
  BY RoundRobinRuns
<1> HIDE DEF v
<1>2. CASE v = <<NoInstance, (next + n) % n>> /\ Passed(n, f, next, n)
  <2>1. (next + n) % n = next
    <3>1. next + n = n + next
      OBVIOUS
    <3> QED
      BY <3>1, Remainder
  <2>2. ~ HasCapacity(n, f)
    <3> SUFFICES ASSUME NEW i \in 0 .. n-1 PROVE ~ f[i] > 0
      BY DEF HasCapacity
    <3>1. PICK k \in 0 .. n-1 : (next + k) % n = i
      BY ScanVisitsAll, Zenon
    <3> QED
      BY <1>2, <3>1, Zenon DEF Passed
  <2> QED
    BY <1>2, <2>1, <2>2 DEF v, RoundRobinSelect, RoundRobinCursor
<1>3. ASSUME NEW o \in 0 .. n-1,
             v = <<(next + o) % n, (next + o + 1) % n>>,
             f[(next + o) % n] > 0, Passed(n, f, next, o)
      PROVE  v = <<RoundRobinSelect(n, f, next), RoundRobinCursor(n, f, next)>>
  <2>1. next + o \in 0 .. 2 * n - 2
    OBVIOUS
  <2>2. (next + o) % n \in 0 .. n-1 /\ (((next + o) % n) + 1) % n = (next + o + 1) % n
    BY <2>1, NextOnCircle, Zenon
  <2>3. HasCapacity(n, f)
    BY <1>3, <2>2 DEF HasCapacity
  <2>4. RoundRobinOffset(n, f, next) = o
    <3> DEFINE First(k) == f[(next + k) % n] > 0 /\ \A j \in 0 .. k-1 : ~ f[(next + j) % n] > 0
    <3>1. First(o)
      BY <1>3 DEF Passed
    <3>2. ASSUME NEW k \in 0 .. n-1, First(k) PROVE k = o
      <4>1. ~ k \in 0 .. o-1
        BY <3>1, <3>2
      <4>2. ~ o \in 0 .. k-1
        BY <1>3, <3>2
      <4> QED
        BY <4>1, <4>2
    <3>3. RoundRobinOffset(n, f, next) = CHOOSE k \in 0 .. n-1 : First(k)
      BY Zenon DEF RoundRobinOffset
    <3> HIDE DEF First
    <3> QED
      BY <3>1, <3>2, <3>3
  <2> QED
    BY <1>3, <2>2, <2>3, <2>4 DEF RoundRobinSelect, RoundRobinCursor
<1> QED
  BY <1>1, <1>2, <1>3 DEF ScanIs, v

----------------------------------------------------------------------------
(* The loop of MaxFreeSlotsFirst.select_with_capacity, m being the         *)
(* instance of the tie-break.  After the first i instances <<best_id,      *)
(* best_free>> is the one with the most free slots among them: m if it is  *)
(* one of these, else the lowest.                                          *)
BestOf(f, m, i, b) ==
  /\ f[b] > 0
  /\ \A j \in 0 .. i-1 : f[j] <= f[b]
  /\ b = m \/ /\ \A j \in 0 .. b-1 : f[j] < f[b]
              /\ m \in 0 .. i-1 => f[m] # f[b]

BestIs(f, m, i, v) ==
  \/ v = <<NoInstance, 0>> /\ \A j \in 0 .. i-1 : f[j] <= 0
  \/ \E b \in 0 .. i-1 : v = <<b, f[b]>> /\ BestOf(f, m, i, b)

BestStep(f, m, i, v) ==
  IF f[i-1] > v[2] THEN <<i-1, f[i-1]>>
  ELSE IF f[i-1] = v[2] /\ v[2] > 0 /\ i-1 = m THEN <<i-1, v[2]>>
  ELSE v

LEMMA BestTurn ==
  ASSUME NEW n \in Nat \ {0}, NEW f \in [0 .. n-1 -> Int], NEW m \in 0 .. n-1,
         NEW i \in 1 .. n, NEW v, BestIs(f, m, i-1, v)
  PROVE  BestIs(f, m, i, BestStep(f, m, i, v))
<1>1. i-1 \in 0 .. n-1 /\ i-1 \in 0 .. i-1 /\ f[i-1] \in Int
  OBVIOUS
<1>2. \A j \in 0 .. i-1 : j = i-1 \/ j \in 0 .. (i-1) - 1
  OBVIOUS
<1>3. \A j \in 0 .. i-1 : j \in 0 .. n-1 /\ f[j] \in Int
  OBVIOUS
<1>4. CASE v = <<NoInstance, 0>> /\ \A j \in 0 .. (i-1) - 1 : f[j] <= 0
  <2>1. CASE f[i-1] > 0
    <3>1. BestStep(f, m, i, v) = <<i-1, f[i-1]>>
      BY <1>4, <2>1 DEF BestStep
    <3>2. BestOf(f, m, i, i-1)
      BY <1>1, <1>2, <1>3, <1>4, <2>1, SMTT(20) DEF BestOf
    <3> QED
      BY <1>1, <3>1, <3>2 DEF BestIs
  <2>2. CASE ~ f[i-1] > 0
    <3>1. BestStep(f, m, i, v) = v
      BY <1>4, <2>2 DEF BestStep
    <3>2. \A j \in 0 .. i-1 : f[j] <= 0
      BY <1>1, <1>2, <1>3, <1>4, <2>2
    <3> QED
      BY <1>4, <3>1, <3>2, Zenon DEF BestIs
  <2> QED
    BY <2>1, <2>2
<1>5. ASSUME NEW b \in 0 .. (i-1) - 1, v = <<b, f[b]>>, BestOf(f, m, i-1, b)
      PROVE  BestIs(f, m, i, BestStep(f, m, i, v))
  <2>1. b \in 0 .. i-1 /\ f[b] \in Int
    BY <1>3
  <2>2. CASE f[i-1] > f[b]
    <3>1. BestStep(f, m, i, v) = <<i-1, f[i-1]>>
      BY <1>5, <2>2 DEF BestStep
    <3>2. \A j \in 0 .. (i-1) - 1 : f[j] < f[i-1]
      BY <1>1, <1>3, <1>5, <2>1, <2>2 DEF BestOf
    <3>3. f[i-1] > 0
      BY <1>1, <1>5, <2>1, <2>2 DEF BestOf
    <3>4. \A j \in 0 .. i-1 : f[j] <= f[i-1]
      BY <1>1, <1>2, <1>3, <3>2
    <3>5. i-1 = m \/ (m \in 0 .. i-1 => f[m] # f[i-1])
      BY <1>1, <1>2, <1>3, <3>2
    <3>6. BestOf(f, m, i, i-1)
      BY <3>2, <3>3, <3>4, <3>5, Zenon DEF BestOf
    <3> QED
      BY <1>1, <3>1, <3>6 DEF BestIs
  <2>3. CASE f[i-1] = f[b] /\ i-1 = m
    <3>1. f[b] > 0
      BY <1>5 DEF BestOf
    <3>2. BestStep(f, m, i, v) = <<i-1, f[i-1]>>
      BY <1>1, <1>5, <2>1, <2>3, <3>1 DEF BestStep
    <3>3. BestOf(f, m, i, i-1)
      BY <1>1, <1>2, <1>3, <1>5, <2>3 DEF BestOf
    <3> QED
      BY <1>1, <3>2, <3>3 DEF BestIs
  <2>4. CASE ~ f[i-1] > f[b] /\ ~ (f[i-1] = f[b] /\ i-1 = m)
    <3>1. BestStep(f, m, i, v) = v
      BY <1>5, <2>4 DEF BestStep
    <3>2. \A j \in 0 .. i-1 : f[j] <= f[b]
      BY <1>1, <1>2, <1>3, <1>5, <2>1, <2>4 DEF BestOf
    <3>3. b = m \/ /\ \A j \in 0 .. b-1 : f[j] < f[b]
                   /\ m \in 0 .. i-1 => f[m] # f[b]
      BY <1>2, <1>5, <2>4, Zenon DEF BestOf
    <3>4. BestOf(f, m, i, b)
      BY <1>5, <3>2, <3>3 DEF BestOf
    <3> QED
      BY <1>5, <2>1, <3>1, <3>4, Zenon DEF BestIs
  <2> QED
    BY <2>2, <2>3, <2>4
<1> QED
  BY <1>4, <1>5 DEF BestIs

LEMMA MaxFreeRuns ==
  ASSUME NEW n \in Nat \ {0}, NEW f \in [0 .. n-1 -> Int], NEW tiebreak \in Nat
  PROVE  \E v : /\ BestIs(f, tiebreak % n, n, v)
                /\ MaxFreeLoop(n, f, tiebreak) = <<v[1], (tiebreak + 1) % n>>
<1> DEFINE m == tiebreak % n
           V == (-1 .. n-1) \X Int
           v0 == <<NoInstance, 0>>
           Turn(g) == [i \in 0 .. n |-> IF i = 0 THEN v0 ELSE BestStep(f, m, i, g[i-1])]
           step == [p \in (1 .. n) \X V |-> BestStep(f, m, p[1], p[2])]
           best == CHOOSE g : g = Turn(g)
<1>1. v0 \in V
  BY DEF NoInstance
<1>2. ASSUME NEW i \in 1 .. n, NEW v \in V PROVE BestStep(f, m, i, v) \in V
  <2>1. v[2] \in Int /\ i-1 \in -1 .. n-1 /\ f[i-1] \in Int
    OBVIOUS
  <2> HIDE DEF m
  <2> QED
    BY <2>1 DEF BestStep
<1>3. step \in [(1 .. n) \X V -> V]
  <2> HIDE DEF V, m
  <2>1. \A p \in (1 .. n) \X V : p[1] \in 1 .. n /\ p[2] \in V
    OBVIOUS
  <2> QED
    BY <1>2, <2>1
<1>4. \E g : g = Turn(g)
  <2>1. PICK g \in [0 .. n -> V] : g[0] = v0 /\ \A i \in 1 .. n : g[i] = step[<<i, g[i-1]>>]
    <3> HIDE DEF V, v0, step
    <3>1. n \in Nat
      OBVIOUS
    <3>2. LoopHasValues(n, V, v0, step)
      BY <1>1, <1>3, <3>1, LoopValues, Zenon
    <3> QED
      BY <3>2, Zenon DEF LoopHasValues
  <2> HIDE DEF m
  <2>2. ASSUME NEW i \in 1 .. n PROVE g[i] = BestStep(f, m, i, g[i-1])
    <3> HIDE DEF V
    <3>1. i - 1 \in 0 .. n
      OBVIOUS
    <3>2. <<i, g[i-1]>> \in (1 .. n) \X V
      BY <3>1
    <3>3. step[<<i, g[i-1]>>] = BestStep(f, m, i, g[i-1])
      BY <3>2
    <3> QED
      BY <2>1, <3>3, Zenon
  <2>3. ASSUME NEW i \in 0 .. n
        PROVE  g[i] = IF i = 0 THEN v0 ELSE BestStep(f, m, i, g[i-1])
    <3> HIDE DEF V, v0
    <3> QED
      BY <2>1, <2>2
  <2>4. g = Turn(g)
    <3> HIDE DEF V, v0
    <3> QED
      BY <2>3
  <2> QED
    BY <2>4, Zenon
<1>5. best = Turn(best)
  <2> HIDE DEF Turn
  <2> QED
    BY <1>4, Zenon
<1>6. MaxFreeLoop(n, f, tiebreak) = <<best[n][1], (tiebreak + 1) % n>>
  BY ZenonT(30) DEF MaxFreeLoop, BestStep
<1> HIDE DEF best
<1>7. best[0] = v0 /\ \A i \in 1 .. n : best[i] = BestStep(f, m, i, best[i-1])
  <2> HIDE DEF v0, m
  <2>1. \A i \in 0 .. n : best[i] = IF i = 0 THEN v0 ELSE BestStep(f, m, i, best[i-1])
    BY <1>5, Zenon
  <2> QED
    BY <2>1
<1>8. m \in 0 .. n-1
  BY ScanStaysInside
<1> HIDE DEF m
<1> DEFINE Good == {i \in 0 .. n : BestIs(f, m, i, best[i])}
<1>9. 0 \in Good
  BY <1>7 DEF BestIs
<1>10. \A i \in 1 .. n : i - 1 \in Good => i \in Good
  <2> SUFFICES ASSUME NEW i \in 1 .. n, i - 1 \in Good PROVE BestIs(f, m, i, best[i])
    OBVIOUS
  <2>1. BestIs(f, m, i-1, best[i-1])
    OBVIOUS
  <2> QED
    BY <1>7, <1>8, <2>1, BestTurn, Zenon
<1>11. n \in Good
  <2>1. Good \in SUBSET (0 .. n)
    OBVIOUS
  <2> HIDE DEF Good
  <2> QED
    BY <1>9, <1>10, <2>1, LoopInduction
<1> QED
  BY <1>6, <1>11 DEF m

LEMMA MaxFreeAgrees ==
  ASSUME NEW n \in Nat \ {0}, NEW f \in [0 .. n-1 -> Int], NEW tiebreak \in Nat
  PROVE  MaxFreeLoop(n, f, tiebreak) =
           <<MaxFreeSelect(n, f, tiebreak), MaxFreeCursor(n, tiebreak)>>
<1> DEFINE m == tiebreak % n
           most == MostFree(n, f)
<1>1. PICK v : /\ BestIs(f, m, n, v)
               /\ MaxFreeLoop(n, f, tiebreak) = <<v[1], (tiebreak + 1) % n>>
  BY MaxFreeRuns, Zenon
<1>2. m \in 0 .. n-1
  BY ScanStaysInside
<1> HIDE DEF m
<1>3. MaxFreeSelect(n, f, tiebreak) =
        IF most = {} THEN NoInstance
        ELSE IF m \in most THEN m
        ELSE CHOOSE i \in most : \A j \in most : i <= j
  BY DEF MaxFreeSelect, m
<1>4. CASE v = <<NoInstance, 0>> /\ \A j \in 0 .. n-1 : f[j] <= 0
  <2>1. most = {}
    BY <1>4 DEF MostFree
  <2> QED
    BY <1>1, <1>3, <1>4, <2>1 DEF MaxFreeCursor
<1>5. ASSUME NEW b \in 0 .. n-1, v = <<b, f[b]>>, BestOf(f, m, n, b)
      PROVE  v[1] = MaxFreeSelect(n, f, tiebreak)
  <2>1. b \in most
    BY <1>5 DEF MostFree, BestOf
  <2>2. \A j \in most : j \in 0 .. n-1 /\ f[j] = f[b]
    BY <1>5 DEF MostFree, BestOf
  <2> HIDE DEF most
  <2>3. CASE b = m
    BY <1>3, <1>5, <2>1, <2>3
  <2>4. CASE b # m
    <3>1. (\A j \in 0 .. b-1 : f[j] < f[b]) /\ f[m] # f[b]
      BY <1>2, <1>5, <2>4 DEF BestOf
    <3>2. m \notin most
      BY <2>2, <3>1
    <3>3. \A j \in most : b <= j
      BY <2>2, <3>1
    <3>4. \A i \in most : (\A j \in most : i <= j) => i = b
      BY <2>1, <2>2, <3>3
    <3>5. b = CHOOSE i \in most : \A j \in most : i <= j
      BY <2>1, <3>3, <3>4, Zenon
    <3> QED
      BY <1>3, <1>5, <2>1, <3>2, <3>5
  <2> QED
    BY <2>3, <2>4
<1> QED
  BY <1>1, <1>4, <1>5 DEF BestIs, MaxFreeCursor

----------------------------------------------------------------------------
(* How many steps the cursor of RoundRobin is behind instance i.           *)
Ahead(n, next, i) == IF i >= next THEN i - next ELSE i - next + n

LEMMA AheadInside ==
  ASSUME NEW n \in Nat \ {0}, NEW next \in 0 .. n-1, NEW i \in 0 .. n-1
  PROVE  Ahead(n, next, i) \in 0 .. n-1
  BY DEF Ahead

(* A selection that does not choose an instance with room brings the       *)
(* cursor closer to it.                                                    *)
LEMMA CursorCloser ==
  ASSUME NEW n \in Nat \ {0}, NEW f \in [0 .. n-1 -> Int], NEW next \in 0 .. n-1,
         NEW o \in 0 .. n-1, Passed(n, f, next, o),
         NEW i \in 0 .. n-1, f[i] > 0, i # (next + o) % n
  PROVE  Ahead(n, (next + o + 1) % n, i) < Ahead(n, next, i)
<1> DEFINE a == Ahead(n, next, i)
<1>1. a \in 0 .. n-1 /\ (next + a = i \/ next + a = n + i)
  BY DEF Ahead
<1>2. (next + a) % n = i
  <2> HIDE DEF a
  <2> QED
    BY <1>1, Remainder, Zenon
<1>3. a > o
  <2> HIDE DEF a
  <2>1. a # o
    BY <1>2, Zenon
  <2>2. a \notin 0 .. o-1
    BY <1>2, Zenon DEF Passed
  <2> QED
    BY <1>1, <2>1, <2>2
<1>4. CASE next + o + 1 <= n-1
  <2>1. (next + o + 1) % n = next + o + 1
    <3>1. next + o + 1 \in 0 .. n-1
      BY <1>4
    <3> QED
      BY <3>1, Remainder, Zenon
  <2> QED
    BY <1>1, <1>3, <1>4, <2>1, SMTT(20) DEF Ahead
<1>5. CASE next + o + 1 >= n
  <2>1. (next + o + 1) % n = next + o + 1 - n
    <3>1. next + o + 1 - n \in 0 .. n-1 /\ next + o + 1 = n + (next + o + 1 - n)
      BY <1>5
    <3> QED
      BY <3>1, Remainder, Zenon
  <2> QED
    BY <1>1, <1>3, <1>5, <2>1 DEF Ahead
<1> QED
  BY <1>4, <1>5

(* What a call of either loop returns in a state of the pool.              *)
LEMMA SelectLoopAgrees ==
  ASSUME DispatchAssumption, policy \in Policies, free \in [Instances -> Int], cursor \in Instances
  PROVE  LoopsAgree
<1> DEFINE n == NumInstances
<1>1. n \in Nat \ {0} /\ free \in [0 .. n-1 -> Int] /\ cursor \in 0 .. n-1 /\ cursor \in Nat
  BY DEF DispatchAssumption, Instances
<1> HIDE DEF n
<1>2. CASE policy = "round_robin"
  <2>1. RoundRobinLoop(n, free, cursor) =
          <<RoundRobinSelect(n, free, cursor), RoundRobinCursor(n, free, cursor)>>
    BY <1>1, RoundRobinAgrees
  <2> QED
    BY <1>2, <2>1 DEF LoopsAgree, SelectLoop, SelectWithCapacity, CursorAfter, n
<1>3. CASE policy # "round_robin"
  <2>1. MaxFreeLoop(n, free, cursor) =
          <<MaxFreeSelect(n, free, cursor), MaxFreeCursor(n, cursor)>>
    BY <1>1, MaxFreeAgrees
  <2> QED
    BY <1>3, <2>1 DEF LoopsAgree, SelectLoop, SelectWithCapacity, CursorAfter, n
<1> QED
  BY <1>2, <1>3

(* The result is an instance with a free slot, or none, and the cursor     *)
(* stays on the pool.                                                      *)
LEMMA SelectLoopResult ==
  ASSUME DispatchAssumption, policy \in Policies, free \in [Instances -> Int], cursor \in Instances
  PROVE  /\ SelectLoop(free, cursor)[2] \in Instances
         /\ \/ SelectLoop(free, cursor)[1] = NoInstance
            \/ /\ SelectLoop(free, cursor)[1] \in Instances
               /\ free[SelectLoop(free, cursor)[1]] > 0
<1> DEFINE n == NumInstances
<1>1. n \in Nat \ {0} /\ free \in [0 .. n-1 -> Int] /\ cursor \in 0 .. n-1 /\ cursor \in Nat
  BY DEF DispatchAssumption, Instances
<1>2. SelectLoop(free, cursor) =
        <<SelectWithCapacity(policy, n, free, cursor), CursorAfter(policy, n, free, cursor)>>
  BY SelectLoopAgrees DEF LoopsAgree
<1> HIDE DEF n
<1>3. CASE policy = "round_robin"
  <2>1. /\ \/ /\ RoundRobinSelect(n, free, cursor) \in 0 .. n-1
              /\ free[RoundRobinSelect(n, free, cursor)] > 0
           \/ RoundRobinSelect(n, free, cursor) = NoInstance
        /\ RoundRobinCursor(n, free, cursor) \in 0 .. n-1
    BY <1>1, RoundRobinSelects
  <2> QED
    BY <1>2, <1>3, <2>1 DEF SelectWithCapacity, CursorAfter, Instances, n
<1>4. CASE policy # "round_robin"
  <2>1. /\ \/ MaxFreeSelect(n, free, cursor) \in MostFree(n, free)
           \/ MaxFreeSelect(n, free, cursor) = NoInstance
        /\ MaxFreeCursor(n, cursor) \in 0 .. n-1
    BY <1>1, MaxFreeSelects
  <2> QED
    BY <1>2, <1>4, <2>1 DEF SelectWithCapacity, CursorAfter, MostFree, Instances, n
<1> QED
  BY <1>3, <1>4

----------------------------------------------------------------------------
(* The inductive invariant: a RoundRobin that has passed over i waits[i]   *)
(* times has come at least that much closer to it.                         *)
LoopType ==
  /\ policy \in Policies
  /\ free \in [Instances -> 0 .. Capacity]
  /\ cursor \in Instances
  /\ waits \in [Instances -> 0 .. NumInstances]

Approaching ==
  policy = "round_robin" =>
    \A i \in Instances : waits[i] + Ahead(NumInstances, cursor, i) <= NumInstances - 1

LoopInv == LoopType /\ Approaching

LEMMA LoopInit == Init => LoopInv
<1> SUFFICES ASSUME Init PROVE LoopInv
  OBVIOUS
<1>1. LoopType
  BY DispatchAssumption DEF Init, LoopType, DispatchAssumption, Instances
<1>2. Approaching
  BY DispatchAssumption DEF Init, Approaching, Ahead, DispatchAssumption, Instances
<1> QED
  BY <1>1, <1>2 DEF LoopInv

LEMMA TypedFree ==
  LoopType => policy \in Policies /\ free \in [Instances -> Int] /\ cursor \in Instances
  BY DispatchAssumption DEF LoopType, DispatchAssumption

LEMMA DispatchKeepsType ==
  ASSUME LoopType, Dispatch
  PROVE  LoopType'
<1> DEFINE i == SelectLoop(free, cursor)[1]
<1>1. /\ SelectLoop(free, cursor)[2] \in Instances
      /\ \/ i = NoInstance
         \/ i \in Instances /\ free[i] > 0
  <2>1. policy \in Policies /\ free \in [Instances -> Int] /\ cursor \in Instances
    BY TypedFree
  <2> QED
    BY DispatchAssumption, <2>1, SelectLoopResult
<1>2. /\ i # NoInstance /\ cursor' = SelectLoop(free, cursor)[2]
      /\ free' = [free EXCEPT ![i] = @ - 1]
      /\ waits' = [j \in Instances |->
                    IF j = i \/ free[j] = 0 THEN 0
                    ELSE IF waits[j] < NumInstances THEN waits[j] + 1
                    ELSE waits[j]]
      /\ policy' = policy
  BY DEF Dispatch
<1> HIDE DEF i
<1>3. free' \in [Instances -> 0 .. Capacity]
  BY DispatchAssumption, <1>1, <1>2 DEF LoopType, DispatchAssumption
<1>4. waits' \in [Instances -> 0 .. NumInstances]
  BY DispatchAssumption, <1>2 DEF LoopType, DispatchAssumption
<1> QED
  BY <1>1, <1>2, <1>3, <1>4 DEF LoopType

(* One selection of RoundRobin.                                            *)
LEMMA DispatchApproaches ==
  ASSUME LoopInv, Dispatch
  PROVE  Approaching'
<1> SUFFICES ASSUME policy = "round_robin", NEW i \in Instances
             PROVE  waits'[i] + Ahead(NumInstances, cursor', i) <= NumInstances - 1
  BY DEF Dispatch, Approaching
<1> DEFINE n == NumInstances
           v == SelectLoop(free, cursor)
<1>1. /\ n \in Nat \ {0} /\ cursor \in 0 .. n-1 /\ i \in 0 .. n-1 /\ waits[i] \in 0 .. n
      /\ free[i] \in Nat
  BY DispatchAssumption DEF LoopInv, LoopType, DispatchAssumption, Instances
<1>2. free \in [0 .. n-1 -> Int]
  BY TypedFree DEF LoopInv, Instances
<1>3. ScanIs(n, free, cursor, n, v)
  BY <1>1, <1>2, RoundRobinRuns DEF SelectLoop
<1>4. /\ v[1] # NoInstance /\ cursor' = v[2]
      /\ waits'[i] = IF i = v[1] \/ free[i] = 0 THEN 0
                     ELSE IF waits[i] < NumInstances THEN waits[i] + 1
                     ELSE waits[i]
  BY DEF Dispatch
<1>5. waits[i] + Ahead(n, cursor, i) <= n - 1
  BY DEF LoopInv, Approaching
<1> HIDE DEF v, n
<1>6. PICK o \in 0 .. n-1 :
        /\ v = <<(cursor + o) % n, (cursor + o + 1) % n>>
        /\ Passed(n, free, cursor, o)
  BY <1>3, <1>4 DEF ScanIs
<1>7. v[1] = (cursor + o) % n /\ cursor' = (cursor + o + 1) % n
  BY <1>4, <1>6
<1>8. cursor' \in 0 .. n-1
  <2>1. cursor + o + 1 \in Nat
    BY <1>1
  <2> QED
    BY <1>1, <1>7, <2>1, ScanStaysInside
<1>9. Ahead(n, cursor', i) \in 0 .. n-1 /\ Ahead(n, cursor, i) \in 0 .. n-1
  BY <1>1, <1>8, AheadInside, Zenon
<1>10. CASE i = v[1] \/ free[i] = 0
  BY <1>1, <1>4, <1>9, <1>10 DEF n
<1>11. CASE i # v[1] /\ free[i] > 0
  <2>1. Ahead(n, cursor', i) < Ahead(n, cursor, i)
    BY <1>1, <1>2, <1>6, <1>7, <1>11, CursorCloser, Zenon
  <2>2. waits'[i] <= waits[i] + 1 /\ waits'[i] \in Nat
    BY <1>1, <1>4, <1>11 DEF n
  <2> QED
    BY <1>1, <1>5, <1>9, <2>1, <2>2 DEF n
<1> QED
  BY <1>1, <1>10, <1>11

LEMMA LoopNext == LoopInv /\ [Next]_vars => LoopInv'
<1> SUFFICES ASSUME LoopInv, [Next]_vars PROVE LoopInv'
  OBVIOUS
<1>1. CASE Dispatch
  BY <1>1, DispatchKeepsType, DispatchApproaches DEF LoopInv
<1>2. CASE DispatchNone
  <2>1. /\ SelectLoop(free, cursor)[1] = NoInstance
        /\ cursor' = SelectLoop(free, cursor)[2]
        /\ policy' = policy /\ free' = free /\ waits' = waits
    BY <1>2 DEF DispatchNone
  <2>2. cursor' \in Instances
    BY <2>1, DispatchAssumption, TypedFree, SelectLoopResult DEF LoopInv
  <2>3. LoopType'
    BY <2>1, <2>2 DEF LoopInv, LoopType
  <2>4. policy = "round_robin" => cursor' = cursor
    <3> SUFFICES ASSUME policy = "round_robin" PROVE cursor' = cursor
      OBVIOUS
    <3>1. SelectLoop(free, cursor) =
            <<RoundRobinSelect(NumInstances, free, cursor),
              RoundRobinCursor(NumInstances, free, cursor)>>
      BY DispatchAssumption, TypedFree, SelectLoopAgrees
         DEF LoopInv, LoopsAgree, SelectWithCapacity, CursorAfter
    <3>2. /\ NumInstances \in Nat \ {0} /\ cursor \in 0 .. NumInstances - 1
          /\ free \in [0 .. NumInstances - 1 -> Int]
      BY DispatchAssumption, TypedFree DEF LoopInv, DispatchAssumption, Instances
    <3>3. RoundRobinSelect(NumInstances, free, cursor) = NoInstance
      BY <2>1, <3>1
    <3>4. ~ HasCapacity(NumInstances, free)
      <4>1. \/ RoundRobinSelect(NumInstances, free, cursor) \in 0 .. NumInstances - 1
            \/ \A j \in 0 .. NumInstances - 1 : free[j] <= 0
        BY <3>2, RoundRobinSelects, Zenon
      <4>2. NoInstance \notin 0 .. NumInstances - 1
        BY DEF NoInstance
      <4> QED
        BY <3>2, <3>3, <4>1, <4>2 DEF HasCapacity
    <3> QED
      BY <2>1, <3>1, <3>4 DEF RoundRobinCursor
  <2> QED
    BY <2>1, <2>3, <2>4 DEF LoopInv, Approaching
<1>3. ASSUME NEW i \in Instances, Complete(i) PROVE LoopInv'
  <2>1. /\ free[i] < Capacity /\ free' = [free EXCEPT ![i] = @ + 1]
        /\ policy' = policy /\ cursor' = cursor /\ waits' = waits
    BY <1>3 DEF Complete
  <2>2. free' \in [Instances -> 0 .. Capacity]
    BY DispatchAssumption, <2>1 DEF LoopInv, LoopType, DispatchAssumption
  <2> QED
    BY <2>1, <2>2 DEF LoopInv, LoopType, Approaching
<1>4. CASE UNCHANGED vars
  BY <1>4 DEF vars, LoopInv, LoopType, Approaching
<1> QED
  BY <1>1, <1>2, <1>3, <1>4 DEF Next

LEMMA LoopInvariant == Spec => []LoopInv
  BY LoopInit, LoopNext, PTL DEF Spec

(* In every pool of any size that a sequence of dispatches and completions *)
(* reaches, the loops of RoundRobin and MaxFreeSlotsFirst return the       *)
(* instance and leave the cursor that DispatchPolicy states.               *)
THEOREM LoopsAlwaysAgree == Spec => []LoopsAgree
<1>1. LoopInv => LoopsAgree
  BY DispatchAssumption, TypedFree, SelectLoopAgrees DEF LoopInv
<1> QED
  BY <1>1, LoopInvariant, PTL

(* RoundRobin never passes over an instance with room as many times as     *)
(* there are instances, whatever completes between its selections.         *)
THEOREM OvertakingAlwaysBounded == Spec => []BoundedOvertaking
<1>1. LoopInv => BoundedOvertaking
  <2> SUFFICES ASSUME LoopInv, policy = "round_robin", NEW i \in Instances
               PROVE  waits[i] < NumInstances
    BY DEF BoundedOvertaking
  <2>1. waits[i] + Ahead(NumInstances, cursor, i) <= NumInstances - 1
    BY DEF LoopInv, Approaching
  <2>2. /\ waits[i] \in Nat /\ Ahead(NumInstances, cursor, i) \in Nat
        /\ NumInstances \in Nat
    BY DispatchAssumption DEF LoopInv, LoopType, Ahead, Instances, DispatchAssumption
  <2> QED
    BY <2>1, <2>2
<1> QED
  BY <1>1, LoopInvariant, PTL

(* A dispatch of MaxFreeSlotsFirst takes its slot from an instance no      *)
(* other one has more free slots than.                                     *)
THEOREM AlwaysDispatchesToMostFree == Spec => DispatchesToMostFree
<1> DEFINE Balanced == policy = "max_free_slots" =>
             \A i, j \in Instances : free'[i] < free[i] => free[j] <= free[i]
<1>1. LoopInv /\ [Next]_vars => [Balanced]_vars
  <2> SUFFICES ASSUME LoopInv, Next, policy = "max_free_slots",
                      NEW i \in Instances, NEW j \in Instances, free'[i] < free[i]
               PROVE  free[j] <= free[i]
    OBVIOUS
  <2>1. free \in [Instances -> Int]
    BY TypedFree DEF LoopInv
  <2>2. CASE Dispatch
    <3> DEFINE s == SelectLoop(free, cursor)[1]
    <3>1. s # NoInstance /\ free' = [free EXCEPT ![s] = @ - 1]
      BY <2>2 DEF Dispatch
    <3>2. s = MaxFreeSelect(NumInstances, free, cursor)
      BY DispatchAssumption, TypedFree, SelectLoopAgrees
         DEF LoopInv, LoopsAgree, SelectWithCapacity
    <3>3. s = i
      <4> HIDE DEF s
      <4> QED
        BY <2>1, <3>1
    <3>4. /\ NumInstances \in Nat \ {0} /\ cursor \in Nat
          /\ free \in [0 .. NumInstances - 1 -> Int]
      BY DispatchAssumption, TypedFree DEF LoopInv, DispatchAssumption, Instances
    <3>5. \/ MaxFreeSelect(NumInstances, free, cursor) \in MostFree(NumInstances, free)
          \/ MaxFreeSelect(NumInstances, free, cursor) = NoInstance
      BY <3>4, MaxFreeSelects
    <3>6. i \in MostFree(NumInstances, free)
      BY <3>1, <3>2, <3>3, <3>5
    <3> QED
      BY <3>6 DEF MostFree, Instances
  <2>3. CASE DispatchNone
    BY <2>1, <2>3 DEF DispatchNone
  <2>4. ASSUME NEW k \in Instances, Complete(k) PROVE FALSE
    BY <2>1, <2>4 DEF Complete
  <2> QED
    BY <2>2, <2>3, <2>4 DEF Next
<1>2. Spec => [][Balanced]_vars
  <2> HIDE DEF Balanced
  <2> QED
    BY <1>1, LoopInvariant, PTL DEF Spec
<1> QED
  BY <1>2 DEF DispatchesToMostFree

----------------------------------------------------------------------------
(* The reader-writer lock.                                                 *)

INSTANCE FiniteSetTheorems

(* The inductive invariant is the conjunction of what the runs check: that *)
(* the counters are exact is what makes the waiting conditions, which look *)
(* only at the counters, exclude the other tasks.                          *)
LockInd == LockTypeOK /\ MutualExclusion /\ CountsExact /\ NoLostWakeup

(* What a step that changes the state of one task does to the sets of      *)
(* tasks that hold the lock and that wait for it.                          *)
LEMMA InChanged ==
  ASSUME LockTypeOK, NEW t \in Users, NEW new \in {"idle", "waiting", "holding"},
         state' = [state EXCEPT ![t] = new]
  PROVE  \A S \in {Readers, Writers, Users} : \A s \in {"waiting", "holding"} :
           {u \in S : state'[u] = s} =
             IF t \in S /\ new = s THEN {u \in S : state[u] = s} \cup {t}
                                   ELSE {u \in S : state[u] = s} \ {t}
<1>1. Readers \subseteq Users /\ Writers \subseteq Users
  BY DEF Users
<1>2. \A u \in Users : state'[u] = IF u = t THEN new ELSE state[u]
  BY DEF LockTypeOK
<1> QED
  BY <1>1, <1>2

(* Sets of tasks are finite, so that counting them makes sense.            *)
LEMMA InFinite ==
  ASSUME NEW S \in {Readers, Writers}, NEW s
  PROVE  /\ IsFiniteSet(In(S, s))
         /\ Cardinality(In(S, s)) \in Nat
         /\ Cardinality(In(S, s)) = 0 <=> In(S, s) = {}
<1>1. IsFiniteSet(S)
  BY LockAssumption
<1>2. In(S, s) \subseteq S
  BY DEF In
<1>3. IsFiniteSet(In(S, s))
  BY <1>1, <1>2, FS_Subset
<1> QED
  BY <1>3, FS_CardinalityType, FS_EmptySet

(* Adding a task to a count or taking it off.                              *)
LEMMA CountChanged ==
  ASSUME NEW S, IsFiniteSet(S), NEW t
  PROVE  /\ t \notin S => Cardinality(S \cup {t}) = Cardinality(S) + 1
         /\ t \in S => Cardinality(S \ {t}) = Cardinality(S) - 1
         /\ t \in S => S \cup {t} = S
         /\ t \notin S => S \ {t} = S
  BY FS_AddElement, FS_RemoveElement

(* The lock is free at first.                                              *)
LEMMA LockInitInd == LockInit => LockInd
<1> SUFFICES ASSUME LockInit PROVE LockInd
  OBVIOUS
<1>1. \A S \in {Readers, Writers, Users} : \A s \in {"waiting", "holding"} : In(S, s) = {}
  BY DEF LockInit, In, Users
<1>2. Cardinality({}) = 0
  BY FS_EmptySet
<1>3. LockTypeOK
  BY Zenon DEF LockInit, LockTypeOK
<1>4. MutualExclusion
  BY DEF LockInit, MutualExclusion, Users
<1>5. CountsExact
  BY <1>1, <1>2 DEF LockInit, CountsExact
<1>6. NoLostWakeup
  BY <1>1 DEF NoLostWakeup
<1> QED
  BY <1>3, <1>4, <1>5, <1>6 DEF LockInd

(* A task that starts to wait holds nothing and takes nothing away: some   *)
(* other task holds the lock, or it is a reader and no writer's wake-up is *)
(* concerned.                                                              *)
LEMMA ReaderWaits ==
  ASSUME LockInd, NEW t \in Readers, AcquireReader(t), ReaderMustWait
  PROVE  LockInd'
<1>1. /\ t \in Users /\ t \notin Writers
      /\ state' = [state EXCEPT ![t] = "waiting"] /\ notified' = notified \ {t}
      /\ state[t] = "idle" \/ state[t] = "waiting"
      /\ readers' = readers /\ writer_active' = writer_active
      /\ waiting_writers' = waiting_writers
  BY LockAssumption DEF LockInd, LockTypeOK, AcquireReader, Wait, Users, In
<1>2. /\ In(Readers, "holding")' = In(Readers, "holding")
      /\ In(Writers, "holding")' = In(Writers, "holding")
      /\ In(Writers, "waiting")' = In(Writers, "waiting")
      /\ In(Users, "holding")' = In(Users, "holding")
      /\ In(Users, "waiting")' = In(Users, "waiting") \cup {t}
  <2>1. /\ t \notin In(Readers, "holding") /\ t \notin In(Writers, "holding")
        /\ t \notin In(Writers, "waiting") /\ t \notin In(Users, "holding")
    BY <1>1 DEF In
  <2> QED
    BY <1>1, <2>1, InChanged, Zenon DEF LockInd, In
<1>3. LockTypeOK'
  BY <1>1, <1>2 DEF LockInd, LockTypeOK
<1>4. MutualExclusion'
  BY <1>1 DEF LockInd, LockTypeOK, MutualExclusion, Users
<1>5. CountsExact'
  BY <1>1, <1>2 DEF LockInd, CountsExact
<1>6. NoLostWakeup'
  <2>1. t \notin In(Writers, "waiting")
    BY <1>1 DEF In
  <2> QED
    BY <1>1, <1>2, <2>1 DEF LockInd, NoLostWakeup
<1> QED
  BY <1>3, <1>4, <1>5, <1>6 DEF LockInd

(* A reader that gets in finds no writer, because writer_active is exact.  *)
LEMMA ReaderHolds ==
  ASSUME LockInd, NEW t \in Readers, AcquireReader(t), ~ReaderMustWait
  PROVE  LockInd'
<1>1. /\ t \in Users /\ t \notin Writers
      /\ state' = [state EXCEPT ![t] = "holding"] /\ notified' = notified \ {t}
      /\ state[t] = "idle" \/ state[t] = "waiting"
      /\ readers' = readers + 1 /\ writer_active' = writer_active
      /\ waiting_writers' = waiting_writers
  BY LockAssumption DEF LockInd, LockTypeOK, AcquireReader, Hold, Users, In
<1>2. /\ In(Readers, "holding")' = In(Readers, "holding") \cup {t}
      /\ In(Writers, "holding")' = In(Writers, "holding")
      /\ In(Writers, "waiting")' = In(Writers, "waiting")
      /\ In(Users, "holding")' = In(Users, "holding") \cup {t}
      /\ In(Users, "waiting")' = In(Users, "waiting") \ {t}
  <2>1. t \notin In(Writers, "holding") /\ t \notin In(Writers, "waiting")
    BY <1>1 DEF In
  <2> QED
    BY <1>1, <2>1, InChanged, Zenon DEF LockInd, In
<1>3. LockTypeOK'
  BY <1>1, <1>2 DEF LockInd, LockTypeOK
<1>4. MutualExclusion'
  <2>1. \A w \in Writers : state[w] # "holding"
    BY DEF LockInd, CountsExact, ReaderMustWait, In, LockTypeOK
  <2> QED
    BY <1>1, <2>1 DEF LockInd, LockTypeOK, MutualExclusion, Users
<1>5. CountsExact'
  <2>1. t \notin In(Readers, "holding")
    BY <1>1 DEF In
  <2>2. Cardinality(In(Readers, "holding") \cup {t}) = Cardinality(In(Readers, "holding")) + 1
    BY <2>1, InFinite, CountChanged
  <2> QED
    BY <1>1, <1>2, <2>2 DEF LockInd, CountsExact
<1>6. NoLostWakeup'
  BY <1>1, <1>2 DEF NoLostWakeup
<1> QED
  BY <1>3, <1>4, <1>5, <1>6 DEF LockInd

(* A writer that waits: whatever makes it wait is a task that holds the    *)
(* lock, because the counters are exact, and that task will notify it.     *)
LEMMA WriterWaits ==
  ASSUME LockInd, NEW t \in Writers, AcquireWriter(t), WriterMustWait
  PROVE  LockInd'
<1>1. /\ t \in Users /\ t \notin Readers
      /\ state' = [state EXCEPT ![t] = "waiting"] /\ notified' = notified \ {t}
      /\ state[t] = "idle" \/ state[t] = "waiting"
      /\ readers' = readers /\ writer_active' = writer_active
      /\ waiting_writers' = waiting_writers + (IF state[t] = "idle" THEN 1 ELSE 0)
  BY LockAssumption DEF LockInd, LockTypeOK, AcquireWriter, Wait, Users, In
<1>2. /\ In(Readers, "holding")' = In(Readers, "holding")
      /\ In(Writers, "holding")' = In(Writers, "holding")
      /\ In(Writers, "waiting")' = In(Writers, "waiting") \cup {t}
      /\ In(Users, "holding")' = In(Users, "holding")
      /\ In(Users, "waiting")' = In(Users, "waiting") \cup {t}
  <2>1. /\ t \notin In(Readers, "holding") /\ t \notin In(Writers, "holding")
        /\ t \notin In(Users, "holding")
    BY <1>1 DEF In
  <2> QED
    BY <1>1, <2>1, InChanged, Zenon DEF LockInd, In
<1>3. LockTypeOK'
  BY <1>1, <1>2 DEF LockInd, LockTypeOK
<1>4. MutualExclusion'
  BY <1>1 DEF LockInd, LockTypeOK, MutualExclusion, Users
<1>5. CountsExact'
  <2>1. CASE state[t] = "idle"
    <3>1. t \notin In(Writers, "waiting")
      BY <2>1 DEF In
    <3>2. Cardinality(In(Writers, "waiting") \cup {t}) = Cardinality(In(Writers, "waiting")) + 1
      BY <3>1, InFinite, CountChanged
    <3> QED
      BY <1>1, <1>2, <2>1, <3>2 DEF LockInd, CountsExact
  <2>2. CASE state[t] = "waiting"
    <3>1. In(Writers, "waiting") \cup {t} = In(Writers, "waiting")
      BY <2>2 DEF In
    <3> QED
      BY <1>1, <1>2, <2>2, <3>1 DEF LockInd, CountsExact, LockTypeOK
  <2> QED
    BY <1>1, <2>1, <2>2
<1>6. NoLostWakeup'
  <2>1. In(Writers, "holding") # {} \/ In(Readers, "holding") # {}
    BY InFinite DEF LockInd, CountsExact, WriterMustWait
  <2>2. In(Users, "holding") # {}
    BY <2>1 DEF In, Users
  <2> QED
    BY <1>2, <2>2 DEF NoLostWakeup
<1> QED
  BY <1>3, <1>4, <1>5, <1>6 DEF LockInd

(* A writer that gets in finds nobody, because both counters are exact.    *)
LEMMA WriterHolds ==
  ASSUME LockInd, NEW t \in Writers, AcquireWriter(t), ~WriterMustWait
  PROVE  LockInd'
<1>1. /\ t \in Users /\ t \notin Readers
      /\ state' = [state EXCEPT ![t] = "holding"] /\ notified' = notified \ {t}
      /\ state[t] = "idle" \/ state[t] = "waiting"
      /\ readers' = readers /\ writer_active' = TRUE
      /\ waiting_writers' = waiting_writers + (IF state[t] = "idle" THEN 1 ELSE 0) - 1
  BY LockAssumption DEF LockInd, LockTypeOK, AcquireWriter, Hold, Users, In
<1>2. /\ In(Readers, "holding")' = In(Readers, "holding")
      /\ In(Writers, "holding")' = In(Writers, "holding") \cup {t}
      /\ In(Writers, "waiting")' = In(Writers, "waiting") \ {t}
      /\ In(Users, "holding")' = In(Users, "holding") \cup {t}
      /\ In(Users, "waiting")' = In(Users, "waiting") \ {t}
  <2>1. t \notin In(Readers, "holding")
    BY <1>1 DEF In
  <2> QED
    BY <1>1, <2>1, InChanged, Zenon DEF LockInd, In
<1>3. waiting_writers' = Cardinality(In(Writers, "waiting") \ {t}) /\ waiting_writers' \in Nat
  <2>1. /\ IsFiniteSet(In(Writers, "waiting")) /\ Cardinality(In(Writers, "waiting")) \in Nat
        /\ waiting_writers = Cardinality(In(Writers, "waiting"))
    BY InFinite DEF LockInd, CountsExact
  <2>2. CASE state[t] = "idle"
    <3>1. In(Writers, "waiting") \ {t} = In(Writers, "waiting")
      BY <2>2 DEF In
    <3> QED
      BY <1>1, <2>1, <2>2, <3>1
  <2>3. CASE state[t] = "waiting"
    <3>1. t \in In(Writers, "waiting")
      BY <2>3 DEF In
    <3>2. Cardinality(In(Writers, "waiting") \ {t}) = Cardinality(In(Writers, "waiting")) - 1
      BY <2>1, <3>1, CountChanged
    <3>3. Cardinality(In(Writers, "waiting")) # 0
      BY <3>1, InFinite
    <3> QED
      BY <1>1, <2>1, <2>3, <3>2, <3>3
  <2> QED
    BY <1>1, <2>2, <2>3
<1>4. LockTypeOK'
  BY <1>1, <1>2, <1>3 DEF LockInd, LockTypeOK
<1>5. MutualExclusion'
  <2>1. In(Readers, "holding") = {} /\ In(Writers, "holding") = {}
    BY InFinite DEF LockInd, CountsExact, WriterMustWait, LockTypeOK
  <2>2. \A u \in Users : state[u] # "holding"
    BY <2>1 DEF In, Users
  <2> QED
    BY <1>1, <2>2 DEF LockInd, LockTypeOK, MutualExclusion, Users
<1>6. CountsExact'
  BY <1>1, <1>2, <1>3, Zenon DEF LockInd, CountsExact
<1>7. NoLostWakeup'
  BY <1>2 DEF NoLostWakeup
<1> QED
  BY <1>4, <1>5, <1>6, <1>7 DEF LockInd

(* A reader that leaves notifies everybody exactly when no reader is left; *)
(* until then the others hold the lock.                                    *)
LEMMA ReaderReleases ==
  ASSUME LockInd, NEW t \in Readers, ReleaseReader(t)
  PROVE  LockInd'
<1>1. /\ t \in Users /\ t \notin Writers /\ state[t] = "holding"
      /\ state' = [state EXCEPT ![t] = "idle"]
      /\ notified' = IF readers = 1 THEN In(Users, "waiting") ELSE notified
      /\ readers' = readers - 1 /\ writer_active' = writer_active
      /\ waiting_writers' = waiting_writers
  BY LockAssumption DEF ReleaseReader, Users, NotifyAll
<1>2. /\ In(Readers, "holding")' = In(Readers, "holding") \ {t}
      /\ In(Writers, "holding")' = In(Writers, "holding")
      /\ In(Writers, "waiting")' = In(Writers, "waiting")
      /\ In(Users, "holding")' = In(Users, "holding") \ {t}
      /\ In(Users, "waiting")' = In(Users, "waiting")
  <2>1. /\ t \notin In(Writers, "holding") /\ t \notin In(Writers, "waiting")
        /\ t \notin In(Users, "waiting")
    BY <1>1 DEF In
  <2>2. LockTypeOK /\ t \in Users /\ state' = [state EXCEPT ![t] = "idle"]
    BY <1>1 DEF LockInd
  <2>3. \A S \in {Readers, Writers, Users} : \A s \in {"waiting", "holding"} :
          {u \in S : state'[u] = s} = {u \in S : state[u] = s} \ {t}
    BY <2>2 DEF Users, LockTypeOK
  <2> QED
    BY <2>1, <2>3 DEF In
<1>3. /\ readers' = Cardinality(In(Readers, "holding") \ {t})
      /\ readers' \in Nat
  <2>1. IsFiniteSet(In(Readers, "holding")) /\ Cardinality(In(Readers, "holding")) \in Nat
    BY InFinite
  <2>2. t \in In(Readers, "holding")
    BY <1>1 DEF In
  <2>3. Cardinality(In(Readers, "holding") \ {t}) = Cardinality(In(Readers, "holding")) - 1
    BY <2>1, <2>2, CountChanged
  <2>4. Cardinality(In(Readers, "holding")) # 0
    BY <2>2, InFinite
  <2> QED
    BY <1>1, <2>1, <2>3, <2>4 DEF LockInd, CountsExact
<1>4. LockTypeOK'
  BY <1>1, <1>2, <1>3 DEF LockInd, LockTypeOK
<1>5. MutualExclusion'
  BY <1>1 DEF LockInd, LockTypeOK, MutualExclusion, Users
<1>6. CountsExact'
  BY <1>1, <1>2, <1>3, Zenon DEF LockInd, CountsExact
<1>7. NoLostWakeup'
  <2>1. CASE readers = 1
    <3>1. In(Writers, "waiting") \subseteq In(Users, "waiting")
      BY DEF In, Users
    <3> QED
      BY <1>1, <1>2, <2>1, <3>1 DEF NoLostWakeup
  <2>2. CASE readers # 1
    <3>1. Cardinality(In(Readers, "holding") \ {t}) # 0
      BY <1>1, <1>3, <2>2 DEF LockInd, LockTypeOK
    <3>2. In(Readers, "holding") \ {t} # {}
      BY <3>1, FS_EmptySet
    <3>3. In(Users, "holding") \ {t} # {}
      BY <3>2 DEF In, Users
    <3> QED
      BY <1>2, <3>3 DEF NoLostWakeup
  <2> QED
    BY <2>1, <2>2
<1> QED
  BY <1>4, <1>5, <1>6, <1>7 DEF LockInd

(* A writer that leaves was alone, and notifies everybody.                 *)
LEMMA WriterReleases ==
  ASSUME LockInd, NEW t \in Writers, ReleaseWriter(t)
  PROVE  LockInd'
<1>1. /\ t \in Users /\ t \notin Readers /\ state[t] = "holding"
      /\ state' = [state EXCEPT ![t] = "idle"]
      /\ notified' = In(Users, "waiting")
      /\ readers' = readers /\ writer_active' = FALSE
      /\ waiting_writers' = waiting_writers
  BY LockAssumption DEF ReleaseWriter, Users, NotifyAll
<1>2. /\ In(Readers, "holding")' = In(Readers, "holding")
      /\ In(Writers, "holding")' = In(Writers, "holding") \ {t}
      /\ In(Writers, "waiting")' = In(Writers, "waiting")
      /\ In(Users, "waiting")' = In(Users, "waiting")
  <2>1. /\ t \notin In(Readers, "holding") /\ t \notin In(Writers, "waiting")
        /\ t \notin In(Users, "waiting")
    BY <1>1 DEF In
  <2>2. LockTypeOK /\ t \in Users /\ state' = [state EXCEPT ![t] = "idle"]
    BY <1>1 DEF LockInd
  <2>3. \A S \in {Readers, Writers, Users} : \A s \in {"waiting", "holding"} :
          {u \in S : state'[u] = s} = {u \in S : state[u] = s} \ {t}
    BY <2>2 DEF Users, LockTypeOK
  <2> QED
    BY <2>1, <2>3 DEF In
<1>3. LockTypeOK'
  BY <1>1, <1>2, Zenon DEF LockInd, LockTypeOK
<1>4. MutualExclusion'
  BY <1>1 DEF LockInd, LockTypeOK, MutualExclusion, Users
<1>5. CountsExact'
  <2>1. In(Writers, "holding") \ {t} = {}
    BY <1>1 DEF LockInd, MutualExclusion, In, Users
  <2> QED
    BY <1>1, <1>2, <2>1 DEF LockInd, CountsExact
<1>6. NoLostWakeup'
  <2>1. In(Writers, "waiting") \subseteq In(Users, "waiting")
    BY DEF In, Users
  <2> QED
    BY <1>1, <1>2, <2>1 DEF NoLostWakeup
<1> QED
  BY <1>3, <1>4, <1>5, <1>6 DEF LockInd

(* A cancelled task was not holding the lock; a cancelled writer is taken  *)
(* off the count.                                                          *)
LEMMA WaitCancelled ==
  ASSUME LockInd, NEW t \in Users, Cancel(t)
  PROVE  LockInd'
<1>1. /\ state[t] = "waiting"
      /\ state' = [state EXCEPT ![t] = "idle"] /\ notified' = notified \ {t}
      /\ readers' = readers /\ writer_active' = writer_active
      /\ waiting_writers' = IF t \in Writers THEN waiting_writers - 1 ELSE waiting_writers
  BY DEF Cancel
<1>2. /\ In(Readers, "holding")' = In(Readers, "holding")
      /\ In(Writers, "holding")' = In(Writers, "holding")
      /\ In(Writers, "waiting")' = In(Writers, "waiting") \ {t}
      /\ In(Users, "holding")' = In(Users, "holding")
      /\ In(Users, "waiting")' = In(Users, "waiting") \ {t}
  <2>1. /\ t \notin In(Readers, "holding") /\ t \notin In(Writers, "holding")
        /\ t \notin In(Users, "holding")
    BY <1>1 DEF In
  <2> QED
    BY <1>1, <2>1, InChanged, Zenon DEF LockInd, In
<1>3. waiting_writers' = Cardinality(In(Writers, "waiting") \ {t}) /\ waiting_writers' \in Nat
  <2>1. /\ IsFiniteSet(In(Writers, "waiting")) /\ Cardinality(In(Writers, "waiting")) \in Nat
        /\ waiting_writers = Cardinality(In(Writers, "waiting"))
    BY InFinite DEF LockInd, CountsExact
  <2>2. CASE t \in Writers
    <3>1. t \in In(Writers, "waiting")
      BY <1>1, <2>2 DEF In
    <3>2. Cardinality(In(Writers, "waiting") \ {t}) = Cardinality(In(Writers, "waiting")) - 1
      BY <2>1, <3>1, CountChanged
    <3>3. Cardinality(In(Writers, "waiting")) # 0
      BY <3>1, InFinite
    <3> QED
      BY <1>1, <2>1, <2>2, <3>2, <3>3
  <2>3. CASE t \notin Writers
    <3>1. In(Writers, "waiting") \ {t} = In(Writers, "waiting")
      BY <2>3 DEF In
    <3> QED
      BY <1>1, <2>1, <2>3, <3>1
  <2> QED
    BY <2>2, <2>3
<1>4. LockTypeOK'
  BY <1>1, <1>2, <1>3 DEF LockInd, LockTypeOK
<1>5. MutualExclusion'
  BY <1>1 DEF LockInd, LockTypeOK, MutualExclusion, Users
<1>6. CountsExact'
  BY <1>1, <1>2, <1>3, Zenon DEF LockInd, CountsExact
<1>7. NoLostWakeup'
  BY <1>1, <1>2 DEF LockInd, NoLostWakeup
<1> QED
  BY <1>4, <1>5, <1>6, <1>7 DEF LockInd

(* Every step keeps the inductive invariant.                               *)
LEMMA LockNextInd == LockInd /\ [LockNext]_lockVars => LockInd'
<1> SUFFICES ASSUME LockInd, [LockNext]_lockVars PROVE LockInd'
  OBVIOUS
<1>1. CASE UNCHANGED lockVars
  BY <1>1 DEF lockVars, LockInd, LockTypeOK, MutualExclusion, CountsExact, NoLostWakeup, In
<1>2. ASSUME NEW t \in Users, AcquireReader(t) PROVE LockInd'
  BY <1>2, ReaderWaits, ReaderHolds DEF AcquireReader
<1>3. ASSUME NEW t \in Users, AcquireWriter(t) PROVE LockInd'
  BY <1>3, WriterWaits, WriterHolds, Zenon DEF AcquireWriter
<1>4. ASSUME NEW t \in Users, ReleaseLock(t) PROVE LockInd'
  BY <1>4, ReaderReleases, WriterReleases, Zenon DEF ReleaseLock, ReleaseReader, ReleaseWriter
<1> QED
  BY <1>1, <1>2, <1>3, <1>4, WaitCancelled DEF LockNext, AcquireLock

LEMMA LockInvariant == LockSpec => []LockInd
  BY LockInitInd, LockNextInd, PTL DEF LockSpec

(* For any readers and writers, whatever is cancelled while it waits: a    *)
(* task inside writer_lock is alone in the lock.                           *)
THEOREM WriterAlwaysAlone == LockSpec => []MutualExclusion
<1>1. LockInd => MutualExclusion
  BY DEF LockInd
<1> QED
  BY <1>1, LockInvariant, PTL

(* _readers, _writer_active and _waiting_writers count the tasks that hold *)
(* the lock and the writers that wait, also after a cancelled wait.        *)
THEOREM CountsAlwaysExact == LockSpec => []CountsExact
<1>1. LockInd => CountsExact
  BY DEF LockInd
<1> QED
  BY <1>1, LockInvariant, PTL

(* No wake-up of a writer is lost: while nobody holds the lock every       *)
(* waiting writer has been notified, although release_reader notifies only *)
(* when the last reader leaves.                                            *)
THEOREM WakeupNeverLost == LockSpec => []NoLostWakeup
<1>1. LockInd => NoLostWakeup
  BY DEF LockInd
<1> QED
  BY <1>1, LockInvariant, PTL
==============================================================================
