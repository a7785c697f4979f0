------------------------ MODULE DisaggPipelineProofs ------------------------
(***************************************************************************)
(* Proofs about the pipeline, for every number of instances, requests and  *)
(* slots, with timeouts and every fault allowed: type correctness, the     *)
(* accounting of the clients' requests, work conservation, and that the    *)
(* pipeline implements the service its clients see.                        *)
(***************************************************************************)
EXTENDS DisaggRefinement, WellFoundedInduction, TLAPS

----------------------------------------------------------------------------
(* Facts about the constants and the operators of the model.               *)

(* Every role has at least one instance.                                   *)
LEMMA NumType == \A role : Num(role) \in Nat \ {0} /\ Capacity(role) \in Nat
  BY NetworkAssumption, ServerAssumption DEF Num, Capacity

(* Instances are pairs of a role and an index.                             *)
LEMMA InstPairs ==
  /\ \A x \in Inst : x[1] \in Roles /\ x[2] \in Nat /\ x = <<x[1], x[2]>>
  /\ \A role \in Roles : \A i \in Indices(role) : <<role, i>> \in Inst
  BY NumType DEF Inst, InstancesOf, Indices, Roles

(* Connections are pairs of an instance and a socket.                      *)
LEMMA ConnectionPairs ==
  /\ \A c \in Connections : c[1] \in Inst /\ c[2] \in {"main", "rdma"}
  /\ \A x \in Inst : <<x, "main">> \in Connections /\ <<x, "rdma">> \in Connections
  BY DEF Connections

(* The states of a record, and what makes one absent.                      *)
States == ActiveStates \cup TerminalStates

(* transition keeps records well formed.  It neither adds nor removes a    *)
(* request, and towards an active state it creates no terminal record.     *)
LEMMA TransitionType ==
  ASSUME NEW t \in [Requests -> RequestRecord], NEW r \in Requests, NEW new \in States
  PROVE  /\ Transition(t, r, new) \in [Requests -> RequestRecord]
         /\ \A q \in Requests : Tracked(Transition(t, r, new), q) <=> Tracked(t, q)
         /\ \A q \in Requests : q # r => Transition(t, r, new)[q] = t[q]
         /\ new \in ActiveStates =>
              \A q \in Requests : t[q].state \notin TerminalStates
                => Transition(t, r, new)[q].state \notin TerminalStates
<1>1. CASE CanTransition(t[r].state, new)
  <2>1. t[r].state # "ABSENT" /\ new # "ABSENT"
    BY <1>1 DEF CanTransition, ActiveStates, TerminalStates, ValidTransitions, States
  <2>2. Transition(t, r, new) = [t EXCEPT ![r].state = new]
    BY <1>1 DEF Transition
  <2>3. new \in ActiveStates => new \notin TerminalStates
    BY DEF ActiveStates, TerminalStates
  <2> HIDE DEF Transition, CanTransition
  <2>4. [t EXCEPT ![r].state = new] \in [Requests -> RequestRecord]
    BY DEF RequestRecord, States
  <2> QED
    BY <2>1, <2>2, <2>3, <2>4 DEF Tracked, RequestRecord
<1>2. CASE ~ CanTransition(t[r].state, new)
  BY <1>2 DEF Transition
<1> QED
  BY <1>1, <1>2

(* The same for transition with an instance.                               *)
LEMMA TransitionAtType ==
  ASSUME NEW t \in [Requests -> RequestRecord], NEW r \in Requests,
         NEW new \in ActiveStates, NEW role \in Roles, NEW i \in Nat
  PROVE  /\ TransitionAt(t, r, new, role, i) \in [Requests -> RequestRecord]
         /\ \A q \in Requests : Tracked(TransitionAt(t, r, new, role, i), q) <=> Tracked(t, q)
         /\ \A q \in Requests : t[q].state \notin TerminalStates
              => TransitionAt(t, r, new, role, i)[q].state \notin TerminalStates
<1>1. CASE CanTransition(t[r].state, new)
  <2>1. t[r].state # "ABSENT" /\ new # "ABSENT" /\ new \notin TerminalStates
    BY <1>1 DEF CanTransition, ActiveStates, TerminalStates, ValidTransitions
  <2> DEFINE f == TransitionAt(t, r, new, role, i)
  <2>2. /\ f \in [Requests -> RequestRecord]
        /\ f[r].state = new
        /\ \A q \in Requests : q # r => f[q] = t[q]
    <3>1. CASE role = "encoder"
      <4>1. f = [t EXCEPT ![r].state = new, ![r].encoder_instance = i]
        BY <1>1, <3>1 DEF TransitionAt
      <4> HIDE DEF f
      <4> QED
        BY <4>1, Zenon DEF RequestRecord
    <3>2. CASE role = "denoiser"
      <4>1. f = [t EXCEPT ![r].state = new, ![r].denoiser_instance = i]
        BY <1>1, <3>2 DEF TransitionAt
      <4> HIDE DEF f
      <4> QED
        BY <4>1, Zenon DEF RequestRecord
    <3>3. CASE role = "decoder"
      <4>1. f = [t EXCEPT ![r].state = new, ![r].decoder_instance = i]
        BY <1>1, <3>3 DEF TransitionAt
      <4> HIDE DEF f
      <4> QED
        BY <4>1, Zenon DEF RequestRecord
    <3> QED
      BY <3>1, <3>2, <3>3 DEF Roles
  <2> HIDE DEF f
  <2>3. /\ \A q \in Requests : Tracked(f, q) <=> Tracked(t, q)
        /\ \A q \in Requests : t[q].state \notin TerminalStates
                                  => f[q].state \notin TerminalStates
    BY <2>1, <2>2 DEF Tracked
  <2> QED
    BY <2>2, <2>3 DEF f
<1>2. CASE ~ CanTransition(t[r].state, new)
  BY <1>2 DEF TransitionAt
<1> QED
  BY <1>1, <1>2

(* remove forgets one request and no other.                                *)
LEMMA RemoveType ==
  ASSUME NEW t \in [Requests -> RequestRecord], NEW r \in Requests
  PROVE  /\ Remove(t, r) \in [Requests -> RequestRecord]
         /\ ~ Tracked(Remove(t, r), r)
         /\ \A q \in Requests : q # r => Remove(t, r)[q] = t[q]
         /\ Remove(t, r)[r].state \notin TerminalStates
  BY DEF Remove, NoRecord, RequestRecord, Tracked, TerminalStates, None

(* submit starts tracking one request.                                     *)
LEMMA SubmitType ==
  ASSUME NEW t \in [Requests -> RequestRecord], NEW r \in Requests, ~ Tracked(t, r)
  PROVE  /\ Submit(t, r) \in [Requests -> RequestRecord]
         /\ Tracked(Submit(t, r), r)
         /\ \A q \in Requests : q # r => Submit(t, r)[q] = t[q]
         /\ Submit(t, r)[r].state \notin TerminalStates
  BY DEF Submit, NoRecord, RequestRecord, Tracked, TerminalStates, ActiveStates, None

(* Taking a request out of a queue leaves a queue of requests.             *)
LEMMA WithoutType ==
  ASSUME NEW q \in Seq(Requests), NEW r
  PROVE  Without(q, r) \in Seq(Requests)
  BY DEF Without

(* The head of a non-empty queue is an element of it.                      *)
LEMMA HeadTail ==
  ASSUME NEW S, NEW q \in Seq(S), q # <<>>
  PROVE  Head(q) \in S /\ Tail(q) \in Seq(S) /\ Len(q) > 0
  OBVIOUS

(* The kinds of message have the fields their handlers read.               *)
LEMMA ResultFields ==
  ASSUME NEW m \in ResultMsg
  PROVE  /\ m.type # "register" => m.id \in Requests
         /\ m.type \in {"staged", "done"} => m.size \in Sizes
         /\ m.type = "result" => m.outcome \in Outcomes
  BY DEF ResultMsg, TransferRegisterMsg

(* Likewise for the messages of an instance.                               *)
LEMMA WorkFields ==
  ASSUME NEW m \in WorkMsg
  PROVE  /\ m.id \in Requests
         /\ m.type = "push" => m.dest \in Dest
         /\ m.type = "ready" => m.slot \in Slots \cup {NoSlot}
  BY DEF WorkMsg

----------------------------------------------------------------------------
(* The type invariant.                                                     *)

(* The cursor of a dispatch policy names an instance.                      *)
CursorOK == \A role \in Roles : cursor[role] \in Indices(role)

(* A free-slot counter is never negative.                                  *)
NonNegative == \A x \in Inst : free[x] >= 0

(* DS reads its frontend only when it has polled it readable, and it is    *)
(* the only reader.                                                        *)
FrontendReadable == "frontend" \in events \/ phase = "frontend" => frontend # <<>>

TypeInv == TypeOK /\ CursorOK /\ NonNegative /\ FrontendReadable

(* The initial state is well typed.                                        *)
LEMMA TypeInit == Init => TypeInv
<1> SUFFICES ASSUME Init PROVE TypeInv
  OBVIOUS
<1>1. NetworkTypeOK
  <2>1. TransferRegisterMsg \in ResultMsg
    BY DEF ResultMsg
  <2>2. <<TransferRegisterMsg>> \in Seq(ResultMsg) /\ <<>> \in Seq(ResultMsg)
    BY <2>1
  <2>3. result \in [Connections -> Seq(ResultMsg)]
    BY <2>2 DEF Init, NetworkInit
  <2> QED
    BY <2>3 DEF Init, NetworkInit, NetworkTypeOK
<1>2. ServerTypeOK
  BY NumType, InstPairs
  DEF Init, ServerInit, ServerTypeOK, Phases, RequestRecord, NoRecord, Xfer, NoXfer, None
<1>3. InstanceTypeOK
  BY DEF Init, InstanceInit, InstanceTypeOK
<1>4. CursorOK
  BY NumType DEF Init, ServerInit, CursorOK, Indices
<1>5. NonNegative
  BY NumType DEF Init, ServerInit, NonNegative
<1>6. FrontendReadable
  BY DEF Init, ServerInit, FrontendReadable
<1> QED
  BY <1>1, <1>2, <1>3, <1>4, <1>5, <1>6 DEF TypeOK, TypeInv

(* A message DS takes from a result socket is well formed.                 *)
LEMMA ReceiveType ==
  ASSUME TypeOK, NEW c \in Connections, NEW type, Receive(c, type)
  PROVE  /\ result' \in [Connections -> Seq(ResultMsg)]
         /\ type \in {"staged", "allocated", "pushed", "done", "done_error", "error", "result"}
              => Head(result[c]).id \in Requests
         /\ type \in {"staged", "done"} => Head(result[c]).size \in Nat
         /\ type = "result" => Head(result[c]).outcome \in Outcomes
<1>1. result[c] \in Seq(ResultMsg) /\ result[c] # <<>>
  BY DEF TypeOK, NetworkTypeOK, Receive
<1>2. Head(result[c]) \in ResultMsg /\ Tail(result[c]) \in Seq(ResultMsg)
  BY <1>1, HeadTail
<1>3. Head(result[c]).type = type
  BY DEF Receive
<1>4. result' \in [Connections -> Seq(ResultMsg)]
  BY <1>2 DEF Receive, TypeOK, NetworkTypeOK
<1>5. Sizes \subseteq Nat
  BY NetworkAssumption
<1> QED
  BY <1>2, <1>3, <1>4, <1>5, ResultFields, Zenon

(* A dispatch policy never names an instance without a free slot, finds    *)
(* one whenever there is one, and keeps its cursor within the instances.   *)
(* DispatchLoopsProofs shows the same for the pool that it drives; here    *)
(* the facts about a scan are steps of the lemma, which keeps them out of  *)
(* the way of what follows.                                                *)
LEMMA SelectionCorrect ==
  \A n \in Nat \ {0} : \A f \in [0 .. n-1 -> Int] : \A c \in 0 .. n-1 : \A p \in Policies :
    /\ \/ /\ SelectWithCapacity(p, n, f, c) \in 0 .. n-1
          /\ f[SelectWithCapacity(p, n, f, c)] > 0
       \/ SelectWithCapacity(p, n, f, c) = NoInstance /\ \A j \in 0 .. n-1 : f[j] <= 0
    /\ CursorAfter(p, n, f, c) \in 0 .. n-1
(* A non-empty set of natural numbers has a least element.                 *)
<1>LeastNat. 
      ASSUME NEW S \in SUBSET Nat, S # {}
      PROVE  \E k \in S : \A j \in S : k <= j
  <2> USE <1>LeastNat
  <2> DEFINE R == {ss \in Nat \X Nat : ss[1] < ss[2]}
  <2>1. IsWellFoundedOn(R, Nat)
    BY NatLessThanWellFounded, Zenon DEF OpToRel
  <2> HIDE DEF R
  <2>2. PICK k \in S : \A j \in S : ~ (<<j, k>> \in R)
    BY <2>1, WFMin, Zenon
  <2>3. \A j \in S : k <= j
    <3> SUFFICES ASSUME NEW j \in S PROVE k <= j
      OBVIOUS
    <3>1. j \in Nat /\ k \in Nat
      OBVIOUS
    <3>2. ~ (j < k)
      BY <2>2, <3>1, Zenon DEF R
    <3> QED
      BY <3>1, <3>2
  <2> QED
    BY <2>3
(* Division with remainder is unique, for a quotient that is 0.            *)
<1>SmallRemainder. 
      ASSUME NEW n \in Nat \ {0}, NEW q \in Int,
             NEW m \in 0 .. n-1, NEW i \in 0 .. n-1,
             (n * q) + m = i
      PROVE  m = i
  <2> USE <1>SmallRemainder
  <2>1. CASE q >= 1
    <3>1. n * q >= n
      BY <2>1, SMT
    <3> QED
      BY <3>1
  <2>2. CASE q <= -1
    <3>1. n * q <= -n
      BY <2>2, SMT
    <3> QED
      BY <3>1
  <2>3. CASE q = 0
    <3>1. n * q = 0
      BY <2>3
    <3> QED
      BY <3>1
  <2> QED
    BY <2>1, <2>2, <2>3
(* The remainders the policies compute: an index below n, or one that has  *)
(* wrapped around once.                                                    *)
<1>Remainder. 
      ASSUME NEW n \in Nat \ {0}, NEW i \in 0 .. n-1
      PROVE  i % n = i /\ (n + i) % n = i
  <2> USE <1>Remainder
  <2>1. \A a \in Nat : /\ a % n \in 0 .. n-1
                       /\ a \div n \in Int
                       /\ a = (n * (a \div n)) + (a % n)
    BY SMT
  <2>2. i % n = i
    BY <2>1, <1>SmallRemainder
  <2>3. (n + i) % n = i
    <3> DEFINE d == (n + i) \div n
               e == (n + i) % n
    <3>1. d \in Int /\ e \in 0 .. n-1 /\ n + i = (n * d) + e
      BY <2>1, SMTT(20)
    <3> HIDE DEF d, e
    <3>2. n * (d - 1) = (n * d) - n /\ n * d \in Int
      BY <3>1, SMT
    <3>3. (n * (d - 1)) + e = i
      BY <3>1, <3>2
    <3>4. e = i
      BY <3>1, <3>3, <1>SmallRemainder
    <3> QED
      BY <3>4 DEF e
  <2> QED
    BY <2>2, <2>3
(* A scan of n instances from the cursor visits every one of them.         *)
<1>ScanVisitsAll. 
      ASSUME NEW n \in Nat \ {0}, NEW next \in 0 .. n-1, NEW i \in 0 .. n-1
      PROVE  \E k \in 0 .. n-1 : (next + k) % n = i
  <2> USE <1>ScanVisitsAll
  <2>1. CASE next <= i
    <3>1. i - next \in 0 .. n-1 /\ next + (i - next) = i
      BY <2>1
    <3> QED
      BY <3>1, <1>Remainder, Zenon
  <2>2. CASE next > i
    <3>1. n + i - next \in 0 .. n-1 /\ next + (n + i - next) = n + i
      BY <2>2
    <3> QED
      BY <3>1, <1>Remainder, Zenon
  <2> QED
    BY <2>1, <2>2
(* The remainder of a scan position is an instance.                        *)
<1>ScanStaysInside. 
      ASSUME NEW n \in Nat \ {0}, NEW a \in Nat
      PROVE  a % n \in 0 .. n-1
  BY <1>ScanStaysInside, SMT
(* Among n instances one has the most free slots.  The proof is by         *)
(* minimal counterexample: the least m such that the first m instances     *)
(* have no maximum would be one more than a number that has one.           *)
<1>SomeInstanceHasMost. 
      ASSUME NEW n \in Nat \ {0}, NEW f \in [0 .. n-1 -> Int]
      PROVE  \E i \in 0 .. n-1 : \A j \in 0 .. n-1 : f[j] <= f[i]
  <2> USE <1>SomeInstanceHasMost
  <2> DEFINE HasMost(m) == \E i \in 0 .. m-1 : \A j \in 0 .. m-1 : f[j] <= f[i]
             S == {m \in 1 .. n : ~ HasMost(m)}
  <2>1. SUFFICES ASSUME ~ HasMost(n) PROVE FALSE
    OBVIOUS
  <2>2. n \in S
    BY <2>1
  <2>3. \A m \in S : m \in Nat
    OBVIOUS
  <2> HIDE DEF S
  <2>4. PICK m \in S : \A k \in S : m <= k
    BY <2>2, <2>3, <1>LeastNat, Zenon
  <2>5. m \in 1 .. n /\ ~ HasMost(m)
    BY <2>4 DEF S
  <2>6. m # 1
    <3>1. ASSUME m = 1 PROVE HasMost(m)
      <4>1. f[0] <= f[0] /\ 0 \in 0 .. m-1 /\ \A j \in 0 .. m-1 : j = 0
        BY <3>1
      <4> QED
        BY <4>1
    <3> QED
      BY <3>1, <2>5
  <2>7. m - 1 \in 1 .. n /\ m - 1 \notin S
    BY <2>4, <2>5, <2>6
  <2>8. HasMost(m - 1)
    BY <2>7 DEF S
  <2>9. PICK i \in 0 .. (m-1)-1 : \A j \in 0 .. (m-1)-1 : f[j] <= f[i]
    BY <2>8
  <2>10. \A j \in 0 .. m-1 : j \in 0 .. (m-1)-1 \/ j = m - 1
    BY <2>5
  <2>11. \A j \in 0 .. m-1 : f[j] \in Int
    BY <2>5
  <2>12. i \in 0 .. m-1 /\ m - 1 \in 0 .. m-1
    BY <2>5, <2>9
  <2>13. CASE f[m - 1] <= f[i]
    <3>1. \A j \in 0 .. m-1 : f[j] <= f[i]
      BY <2>9, <2>10, <2>13, Zenon
    <3> QED
      BY <3>1, <2>12, <2>5
  <2>14. CASE f[i] < f[m - 1]
    <3>1. \A j \in 0 .. m-1 : f[j] <= f[m - 1]
      BY <2>9, <2>10, <2>11, <2>12, <2>14, SMTT(20)
    <3> QED
      BY <3>1, <2>12, <2>5
  <2> QED
    BY <2>11, <2>12, <2>13, <2>14
(* RoundRobin returns an instance with a free slot, or None when there is  *)
(* no such instance, and leaves its cursor on an instance.                 *)
<1>RoundRobinSelects. 
      ASSUME NEW n \in Nat \ {0}, NEW f \in [0 .. n-1 -> Int], NEW next \in 0 .. n-1
      PROVE  LET i == RoundRobinSelect(n, f, next)
             IN  /\ \/ i \in 0 .. n-1 /\ f[i] > 0
                    \/ i = NoInstance /\ \A j \in 0 .. n-1 : f[j] <= 0
                 /\ RoundRobinCursor(n, f, next) \in 0 .. n-1
  <2> USE <1>RoundRobinSelects
  <2>1. CASE ~ HasCapacity(n, f)
    BY <2>1 DEF HasCapacity, RoundRobinSelect, RoundRobinCursor
  <2>2. CASE HasCapacity(n, f)
    <3> DEFINE P == {k \in 0 .. n-1 : f[(next + k) % n] > 0}
    <3>1. P \in SUBSET Nat /\ P # {}
      <4>1. PICK i \in 0 .. n-1 : f[i] > 0
        BY <2>2 DEF HasCapacity
      <4>2. PICK k \in 0 .. n-1 : (next + k) % n = i
        BY <1>ScanVisitsAll, Zenon
      <4>3. k \in P
        BY <4>1, <4>2
      <4>4. \A j \in P : j \in Nat
        OBVIOUS
      <4> HIDE DEF P
      <4> QED
        BY <4>3, <4>4
    <3> HIDE DEF P
    <3>2. PICK k \in P : \A j \in P : k <= j
      BY <3>1, <1>LeastNat, Zenon
    <3>3. /\ k \in 0 .. n-1
          /\ f[(next + k) % n] > 0
          /\ \A j \in 0 .. k-1 : ~ f[(next + j) % n] > 0
      <4>1. k \in 0 .. n-1 /\ f[(next + k) % n] > 0
        BY DEF P
      <4>2. ASSUME NEW j \in 0 .. k-1, f[(next + j) % n] > 0 PROVE FALSE
        <5>1. j \in 0 .. n-1 /\ ~ (k <= j)
          BY <4>1
        <5>2. j \in P
          BY <4>2, <5>1 DEF P
        <5> QED
          BY <3>2, <5>1, <5>2
      <4> QED
        BY <4>1, <4>2, Zenon
    <3> DEFINE o == RoundRobinOffset(n, f, next)
    <3>4. o \in 0 .. n-1 /\ f[(next + o) % n] > 0
      BY <3>3, Zenon DEF RoundRobinOffset
    <3>5. RoundRobinSelect(n, f, next) = (next + o) % n
      BY <2>2 DEF RoundRobinSelect
    <3> HIDE DEF o
    <3>6. next + o \in Nat
      BY <3>4
    <3>7. (next + o) % n \in 0 .. n-1
      BY <3>6, <1>ScanStaysInside, Zenon
    <3>8. RoundRobinCursor(n, f, next) \in 0 .. n-1
      <4>1. ((next + o) % n) + 1 \in Nat
        BY <3>7
      <4>2. (((next + o) % n) + 1) % n \in 0 .. n-1
        BY <4>1, <1>ScanStaysInside, Zenon
      <4> QED
        BY <2>2, <3>5, <4>2 DEF RoundRobinCursor
    <3> QED
      BY <3>4, <3>5, <3>7, <3>8
  <2> QED
    BY <2>1, <2>2
(* MaxFreeSlotsFirst likewise; what it returns has the most free slots.    *)
<1>MaxFreeSelects. 
      ASSUME NEW n \in Nat \ {0}, NEW f \in [0 .. n-1 -> Int], NEW tiebreak \in Nat
      PROVE  LET i == MaxFreeSelect(n, f, tiebreak)
             IN  /\ \/ i \in MostFree(n, f)
                    \/ i = NoInstance /\ \A j \in 0 .. n-1 : f[j] <= 0
                 /\ MaxFreeCursor(n, tiebreak) \in 0 .. n-1
  <2> USE <1>MaxFreeSelects
  <2>1. MaxFreeCursor(n, tiebreak) \in 0 .. n-1
    BY <1>ScanStaysInside DEF MaxFreeCursor
  <2>2. CASE MostFree(n, f) = {}
    <3>1. PICK i \in 0 .. n-1 : \A j \in 0 .. n-1 : f[j] <= f[i]
      BY <1>SomeInstanceHasMost, Zenon
    <3>2. ~ (f[i] > 0)
      BY <2>2, <3>1 DEF MostFree
    <3>3. \A j \in 0 .. n-1 : f[j] <= 0
      BY <3>1, <3>2
    <3> QED
      BY <2>1, <2>2, <3>3 DEF MaxFreeSelect
  <2>3. CASE MostFree(n, f) # {}
    <3>1. MostFree(n, f) \in SUBSET Nat
      BY DEF MostFree
    <3>2. \E i \in MostFree(n, f) : \A j \in MostFree(n, f) : i <= j
      BY <2>3, <3>1, <1>LeastNat
    <3>3. MaxFreeSelect(n, f, tiebreak) \in MostFree(n, f)
      BY <2>3, <3>2 DEF MaxFreeSelect
    <3> QED
      BY <2>1, <3>3
  <2> QED
    BY <2>2, <2>3
<1> SUFFICES ASSUME NEW n \in Nat \ {0}, NEW f \in [0 .. n-1 -> Int],
                    NEW c \in 0 .. n-1, NEW p \in Policies
             PROVE  /\ \/ /\ SelectWithCapacity(p, n, f, c) \in 0 .. n-1
                          /\ f[SelectWithCapacity(p, n, f, c)] > 0
                       \/ /\ SelectWithCapacity(p, n, f, c) = NoInstance
                          /\ \A j \in 0 .. n-1 : f[j] <= 0
                    /\ CursorAfter(p, n, f, c) \in 0 .. n-1
  BY Zenon
<1>1. CASE p = "round_robin"
  BY <1>1, <1>RoundRobinSelects, Zenon DEF SelectWithCapacity, CursorAfter
<1>2. CASE p = "max_free_slots"
  <2>1. \A i \in MostFree(n, f) : i \in 0 .. n-1 /\ f[i] > 0
    BY DEF MostFree
  <2>2. c \in Nat
    OBVIOUS
  <2> QED
    BY <1>2, <2>1, <2>2, <1>MaxFreeSelects, Zenon DEF SelectWithCapacity, CursorAfter
<1> QED
  BY <1>1, <1>2 DEF Policies

(* A dispatch policy selects an instance with a free slot, if there is one.*)
LEMMA SelectType ==
  ASSUME TypeInv, NEW role \in Roles
  PROVE  /\ \/ /\ Select(role) \in Indices(role)
               /\ Select(role) # NoInstance
               /\ free[<<role, Select(role)>>] > 0
            \/ /\ Select(role) = NoInstance
               /\ \A i \in Indices(role) : free[<<role, i>>] = 0
         /\ CursorAfter(Policy, Num(role), FreeSlots(role), cursor[role]) \in Indices(role)
<1> DEFINE n == Num(role)
           f == FreeSlots(role)
<1>1. n \in Nat \ {0}
  BY NumType
<1>2. \A i \in Indices(role) : <<role, i>> \in Inst /\ free[<<role, i>>] \in Int
                               /\ free[<<role, i>>] >= 0
  BY InstPairs DEF TypeInv, TypeOK, ServerTypeOK, NonNegative
<1>3. f \in [0 .. n - 1 -> Int] /\ \A i \in Indices(role) : f[i] = free[<<role, i>>]
  BY <1>2 DEF FreeSlots, Indices
<1>4. cursor[role] \in 0 .. n - 1
  BY DEF TypeInv, CursorOK, Indices
<1>5. Policy \in Policies
  BY ServerAssumption
<1> HIDE DEF n, f
<1>6. /\ \/ /\ SelectWithCapacity(Policy, n, f, cursor[role]) \in 0 .. n - 1
           /\ f[SelectWithCapacity(Policy, n, f, cursor[role])] > 0
        \/ /\ SelectWithCapacity(Policy, n, f, cursor[role]) = NoInstance
           /\ \A i \in 0 .. n - 1 : f[i] <= 0
      /\ CursorAfter(Policy, n, f, cursor[role]) \in 0 .. n - 1
  BY <1>1, <1>3, <1>4, <1>5, SelectionCorrect, Zenon
<1>7. Indices(role) = 0 .. n - 1 /\ Select(role) = SelectWithCapacity(Policy, n, f, cursor[role])
  BY DEF n, f, Indices, Select
<1>8. \A i \in 0 .. n - 1 : i # NoInstance
  BY DEF NoInstance
<1>9. CursorAfter(Policy, n, f, cursor[role]) \in Indices(role)
  BY <1>6, <1>7
<1>10. \A i \in Indices(role) : f[i] <= 0 => free[<<role, i>>] = 0
  BY <1>2, <1>3
<1>11. \/ /\ Select(role) \in Indices(role)
          /\ Select(role) # NoInstance
          /\ free[<<role, Select(role)>>] > 0
       \/ /\ Select(role) = NoInstance
          /\ \A i \in Indices(role) : free[<<role, i>>] = 0
  BY <1>3, <1>6, <1>7, <1>8, <1>10, Zenon
<1> QED
  BY <1>9, <1>11 DEF n, f

(* Dispatching takes a free slot of an existing instance.                  *)
LEMMA DispatchType ==
  ASSUME TypeInv, NEW role \in Roles, NEW r, NEW state \in ActiveStates,
         Dispatch(role, r, Select(role), state)
  PROVE  /\ r \in Requests
         /\ Select(role) \in Indices(role)
         /\ tta' \in [Roles -> Seq(Requests)]
         /\ free' \in [Inst -> Int] /\ NonNegative'
         /\ cursor' \in [Roles -> Nat] /\ CursorOK'
         /\ tracker' \in [Requests -> RequestRecord]
<1> DEFINE i == Select(role)
<1>1. i \in Indices(role) /\ free[<<role, i>>] > 0
  BY SelectType DEF Dispatch
<1>2. i \in Nat /\ <<role, i>> \in Inst
  BY <1>1, NumType, InstPairs DEF Indices
<1>3. tta[role] \in Seq(Requests) /\ tta[role] # <<>>
  BY DEF TypeInv, TypeOK, ServerTypeOK, Dispatch
<1>4. r \in Requests /\ Tail(tta[role]) \in Seq(Requests)
  BY <1>3, HeadTail DEF Dispatch
<1>5. tta' \in [Roles -> Seq(Requests)]
  BY <1>4 DEF Dispatch, TypeInv, TypeOK, ServerTypeOK
<1> DEFINE x == <<role, i>>
           next == CursorAfter(Policy, Num(role), FreeSlots(role), cursor[role])
<1>6. free' = [free EXCEPT ![x] = @ - 1]
  BY DEF Dispatch
<1>7. cursor' = [cursor EXCEPT ![role] = next]
  BY DEF Dispatch
<1>8. next \in Indices(role) /\ next \in Nat
  <2>1. next \in Indices(role)
    BY SelectType, Zenon
  <2> HIDE DEF next
  <2> QED
    BY <2>1, NumType DEF Indices
<1>9. tracker' \in [Requests -> RequestRecord]
  BY <1>2, <1>4, TransitionAtType, Zenon DEF Dispatch, TypeInv, TypeOK, ServerTypeOK
<1>10. free' \in [Inst -> Int] /\ NonNegative'
  <2>1. free \in [Inst -> Int] /\ \A y \in Inst : free[y] >= 0
    BY DEF TypeInv, TypeOK, ServerTypeOK, NonNegative
  <2>2. x \in Inst /\ free[x] > 0
    BY <1>1, <1>2
  <2> HIDE DEF x
  <2>3. free' \in [Inst -> Int] /\ \A y \in Inst : free'[y] >= 0
    BY <1>6, <2>1, <2>2
  <2> QED
    BY <2>3 DEF NonNegative
<1>11. cursor' \in [Roles -> Nat] /\ CursorOK'
  <2> HIDE DEF next
  <2> QED
    BY <1>7, <1>8 DEF TypeInv, TypeOK, ServerTypeOK, CursorOK
<1> QED
  BY <1>1, <1>4, <1>5, <1>9, <1>10, <1>11, SMTT(20)

(* A message taken from an instance's socket is well formed.               *)
LEMMA TakeType ==
  ASSUME TypeOK, NEW x \in Inst, NEW type, Take(x, type)
  PROVE  /\ work' \in [Inst -> Seq(WorkMsg)]
         /\ Head(work[x]) \in WorkMsg
         /\ Head(work[x]).type = type
<1>1. work[x] \in Seq(WorkMsg) /\ work[x] # <<>>
  BY DEF TypeOK, NetworkTypeOK, Take
<1>2. Head(work[x]) \in WorkMsg /\ Tail(work[x]) \in Seq(WorkMsg)
  BY <1>1, HeadTail
<1> QED
  BY <1>2 DEF Take, TypeOK, NetworkTypeOK

(* So is an item taken from the queue of the main thread.                  *)
LEMMA DequeueType ==
  ASSUME TypeOK, NEW x \in Inst, NEW kind, Dequeue(x, kind)
  PROVE  /\ compute_ready_queue' \in [Inst -> Seq(ReadyItem)]
         /\ Head(compute_ready_queue[x]).id \in Requests
<1>1. compute_ready_queue[x] \in Seq(ReadyItem) /\ compute_ready_queue[x] # <<>>
  BY DEF TypeOK, InstanceTypeOK, Dequeue
<1>2. /\ Head(compute_ready_queue[x]) \in ReadyItem
      /\ Tail(compute_ready_queue[x]) \in Seq(ReadyItem)
  BY <1>1, HeadTail
<1>3. Head(compute_ready_queue[x]).id \in Requests
  BY <1>2, Zenon DEF ReadyItem
<1> QED
  BY <1>2, <1>3 DEF Dequeue, TypeOK, InstanceTypeOK

(* Every report an instance can make is a message of the protocol.         *)
LEMMA ReportFields ==
  /\ \A r \in Requests :
       /\ \A size \in Sizes : TransferStagedMsg(r, size) \in ResultMsg
                              /\ TransferDoneMsg(r, size) \in ResultMsg
       /\ TransferAllocatedMsg(r) \in ResultMsg
       /\ TransferPushedMsg(r) \in ResultMsg
       /\ TransferDoneError(r) \in ResultMsg
       /\ ErrorFrames(r) \in ResultMsg
       /\ \A outcome \in Outcomes : ResultFrames(r, outcome) \in ResultMsg
  BY DEF ResultMsg, TransferStagedMsg, TransferDoneMsg, TransferAllocatedMsg,
         TransferPushedMsg, TransferDoneError, ErrorFrames, ResultFrames

(* Every step preserves the type invariant.                                *)
LEMMA TypeNext == TypeInv /\ [Next]_vars => TypeInv'
(* A released slot is one more free slot of one instance.                  *)
<1>ReleaseType.
  ASSUME NEW f \in [Inst -> Int], NEW role, NEW i
  PROVE  /\ Release(f, role, i) \in [Inst -> Int]
         /\ \A x \in Inst : Release(f, role, i)[x] >= f[x]
  <2> DEFINE y == <<role, i>>
             g == [f EXCEPT ![y] = @ + 1]
  <2>1. g \in [Inst -> Int] /\ \A x \in Inst : g[x] = IF x = y THEN f[x] + 1 ELSE f[x]
    <3> HIDE DEF y
    <3>1. CASE y \in Inst
      BY <3>1
    <3>2. CASE y \notin Inst
      <4>1. g = f
        BY <3>2
      <4> HIDE DEF g
      <4> QED
        BY <3>2, <4>1
    <3> QED
      BY <3>1, <3>2
  <2>2. Release(f, role, i) = f \/ Release(f, role, i) = g
    BY DEF Release
  <2> HIDE DEF g, y
  <2>3. \A x \in Inst : g[x] >= f[x]
    BY <2>1
  <2> QED
    BY <2>1, <2>2, <2>3
(* So is a slot freed for a record that timed out.                         *)
<1>FreeSlotType.
  ASSUME NEW f \in [Inst -> Int], NEW record
  PROVE  /\ FreeSlotForRecord(f, record) \in [Inst -> Int]
         /\ \A x \in Inst : FreeSlotForRecord(f, record)[x] >= f[x]
    BY <1>ReleaseType DEF FreeSlotForRecord
(* A function on 1 .. n is a sequence.                                     *)
<1>FcnIsSeq.
  ASSUME NEW S, NEW n \in Nat, NEW f \in [1 .. n -> S]
  PROVE  f \in Seq(S)
    OBVIOUS
(* Adding an element to one of a family of queues.                         *)
<1>AppendAt.
  ASSUME NEW S, NEW T, NEW f \in [S -> Seq(T)], NEW x, NEW m \in T
  PROVE  [f EXCEPT ![x] = Append(@, m)] \in [S -> Seq(T)]
  <2>1. CASE x \in S
    BY <2>1
  <2>2. CASE x \notin S
    <3>1. [f EXCEPT ![x] = Append(@, m)] = f
      BY <2>2
    <3> QED
      BY <3>1, Zenon
  <2> QED
    BY <2>1, <2>2
(* The parts of a step that many actions share.                            *)
<1>AdvanceType.
  ASSUME TypeInv, Advance
  PROVE  /\ phase' \in Phases /\ events' \subseteq Sockets
         /\ frontend' = frontend => FrontendReadable'
         /\ phase = "frontend" => FrontendReadable'
  <2> USE <1>AdvanceType
  <2>1. phase' \in Phases /\ events' \subseteq Sockets
    BY DEF TypeInv, TypeOK, ServerTypeOK, Advance, NextPhase, AfterTimeouts, AfterFrontend,
           AfterEncoder, AfterDenoiser, Phases, Sockets, Roles
  <2>2. phase' = "frontend" => phase = "timeouts" /\ "frontend" \in events
    BY DEF Advance, NextPhase, AfterTimeouts, AfterFrontend, AfterEncoder, AfterDenoiser
  <2> QED
    BY <2>1, <2>2 DEF Advance, TypeInv, FrontendReadable
(* Answering a client and forgetting its request keeps the types.          *)
<1>FinishType.
  ASSUME TypeOK, NEW r \in Requests, NEW state \in States, NEW outcome \in Outcomes,
         Finish(tracker, r, state, outcome)
  PROVE  /\ tracker' \in [Requests -> RequestRecord]
         /\ pending' \subseteq Requests
         /\ replies' \in [Requests -> Seq(Outcomes)]
  <2> USE <1>FinishType
  <2>1. Transition(tracker, r, state) \in [Requests -> RequestRecord]
    BY TransitionType, Zenon DEF TypeOK, ServerTypeOK
  <2>2. tracker' \in [Requests -> RequestRecord]
    BY <2>1, RemoveType DEF Finish
  <2>3. replies' \in [Requests -> Seq(Outcomes)]
    BY DEF Finish, TypeOK, NetworkTypeOK
  <2> QED
    BY <2>2, <2>3 DEF Finish, TypeOK, ServerTypeOK
(* A well-formed message sent to an instance, existing or not.             *)
<1>SendType.
  ASSUME TypeOK, NEW x, NEW m \in WorkMsg, Send(x, m)
  PROVE  work' \in [Inst -> Seq(WorkMsg)]
    BY <1>SendType, <1>AppendAt, Zenon DEF TypeOK, NetworkTypeOK, Send
(* Queueing a request for a role.                                          *)
<1>EnqueueType.
  ASSUME TypeOK, NEW role, NEW r \in Requests, Enqueue(role, r)
  PROVE  tta' \in [Roles -> Seq(Requests)]
    BY <1>EnqueueType, <1>AppendAt, Zenon DEF TypeOK, ServerTypeOK, Enqueue
(* Freeing a slot keeps the counters typed and not negative.               *)
<1>ReleaseOK.
  ASSUME TypeInv, NEW role, NEW i, free' = Release(free, role, i)
  PROVE  free' \in [Inst -> Int] /\ NonNegative'
  <2> USE <1>ReleaseOK
  <2>1. free \in [Inst -> Int] /\ \A x \in Inst : free[x] >= 0
    BY DEF TypeInv, TypeOK, ServerTypeOK, NonNegative
  <2>2. free' \in [Inst -> Int] /\ \A x \in Inst : free'[x] >= free[x]
    BY <2>1, <1>ReleaseType
  <2> QED
    BY <2>1, <2>2 DEF NonNegative
(* The steps of the server preserve the type invariant.                    *)
<1>TypePoll.
  ASSUME TypeInv, Poll, UNCHANGED instVars
  PROVE  TypeInv'
  <2> USE <1>TypePoll
  <2>1. ReadableSockets \subseteq Sockets
    BY DEF ReadableSockets, Sockets
  <2>2. "timeouts" \in Phases
    BY DEF Phases
  <2>3. FrontendReadable'
    BY DEF FrontendReadable, Poll, ReadableSockets, Roles, netVars
  <2> QED
    BY <2>1, <2>2, <2>3, Zenon
    DEF TypeInv, TypeOK, NetworkTypeOK, ServerTypeOK, InstanceTypeOK, CursorOK,
        NonNegative, Poll, netVars, instVars
(* _handle_timeouts.                                                       *)
<1>TypeTimeout.
  ASSUME TypeInv, NEW r \in Requests, HandleTimeout(r), UNCHANGED instVars
  PROVE  TypeInv'
  <2> USE <1>TypeTimeout
  <2> USE DEF TypeInv
  <2>1. /\ tracker' \in [Requests -> RequestRecord]
        /\ pending' \subseteq Requests
        /\ replies' \in [Requests -> Seq(Outcomes)]
    BY <1>FinishType DEF HandleTimeout, CompleteWithError, States, TerminalStates, Outcomes
  <2>2. free' \in [Inst -> Int] /\ NonNegative'
    <3>1. free \in [Inst -> Int] /\ \A x \in Inst : free[x] >= 0
      BY DEF TypeOK, ServerTypeOK, NonNegative
    <3>2. free' \in [Inst -> Int] /\ \A x \in Inst : free'[x] >= free[x]
      BY <3>1, <1>FreeSlotType DEF HandleTimeout
    <3> QED
      BY <3>1, <3>2 DEF NonNegative
  <2>3. tta' \in [Roles -> Seq(Requests)]
    BY WithoutType DEF HandleTimeout, TypeOK, ServerTypeOK
  <2> QED
    BY <2>1, <2>2, <2>3, Zenon
    DEF TypeOK, NetworkTypeOK, ServerTypeOK, InstanceTypeOK, CursorOK, FrontendReadable,
        HandleTimeout, instVars
(* The end of _handle_timeouts.                                            *)
<1>TypeTimeoutsDone.
  ASSUME TypeInv, TimeoutsDone, UNCHANGED instVars
  PROVE  TypeInv'
  <2> USE <1>TypeTimeoutsDone
  <2>1. phase' \in Phases /\ events' \subseteq Sockets /\ FrontendReadable'
    BY <1>AdvanceType DEF TypeInv, TimeoutsDone, netVars
  <2> QED
    BY <2>1, Zenon
    DEF TypeInv, TypeOK, NetworkTypeOK, ServerTypeOK, InstanceTypeOK, CursorOK,
        NonNegative, TimeoutsDone, netVars, instVars
(* _handle_client_request: the frontend is not empty when it is read.      *)
<1>TypeClientRequest.
  ASSUME TypeInv, HandleClientRequest, UNCHANGED instVars
  PROVE  TypeInv'
  <2> USE <1>TypeClientRequest
  <2> USE DEF TypeInv
  <2> DEFINE r == Head(frontend)
  <2>1. r \in Requests /\ frontend' \in Seq(Requests)
    BY HeadTail DEF TypeOK, NetworkTypeOK, HandleClientRequest, FrontendReadable
  <2>2. phase' \in Phases /\ events' \subseteq Sockets /\ FrontendReadable'
    BY <1>AdvanceType DEF HandleClientRequest
  <2>3. /\ tracker' \in [Requests -> RequestRecord]
        /\ pending' \subseteq Requests
        /\ tta' \in [Roles -> Seq(Requests)]
    <3>1. CASE Tracked(tracker, r)
      BY <3>1 DEF HandleClientRequest, TypeOK, ServerTypeOK
    <3>2. CASE ~ Tracked(tracker, r)
      <4>1. Submit(tracker, r) \in [Requests -> RequestRecord]
        BY <2>1, <3>2, SubmitType DEF TypeOK, ServerTypeOK
      <4>2. Transition(Submit(tracker, r), r, "ENCODER_WAITING") \in [Requests -> RequestRecord]
        BY <2>1, <4>1, TransitionType DEF States, ActiveStates
      <4>3. /\ tracker' = Transition(Submit(tracker, r), r, "ENCODER_WAITING")
            /\ pending' = pending \cup {r}
            /\ Enqueue("encoder", r)
        BY <3>2 DEF HandleClientRequest
      <4> HIDE DEF r
      <4> QED
        BY <2>1, <4>2, <4>3, <1>EnqueueType, Zenon DEF TypeOK, ServerTypeOK
    <3> QED
      BY <3>1, <3>2
  <2> QED
    BY <2>1, <2>2, <2>3, Zenon
    DEF TypeOK, NetworkTypeOK, ServerTypeOK, InstanceTypeOK, CursorOK, NonNegative,
        HandleClientRequest, instVars
(* _handle_role_error_frames.                                              *)
<1>TypeErrorFrames.
  ASSUME TypeInv, NEW c \in Connections, HandleRoleErrorFrames(c), UNCHANGED instVars
  PROVE  TypeInv'
  <2> USE <1>TypeErrorFrames
  <2> USE DEF TypeInv
  <2> DEFINE r == Head(result[c]).id
  <2>0. Receive(c, "error") /\ Advance /\ frontend' = frontend
    BY DEF HandleRoleErrorFrames
  <2>1. result' \in [Connections -> Seq(ResultMsg)] /\ r \in Requests
    BY <2>0, ReceiveType
  <2>2. phase' \in Phases /\ events' \subseteq Sockets /\ FrontendReadable'
    BY <2>0, <1>AdvanceType
  <2>3. /\ tracker' \in [Requests -> RequestRecord]
        /\ pending' \subseteq Requests
        /\ replies' \in [Requests -> Seq(Outcomes)]
    BY <2>1, <1>FinishType
    DEF HandleRoleErrorFrames, CompleteWithError, States, TerminalStates, Outcomes
  <2> QED
    BY <2>1, <2>2, <2>3, Zenon
    DEF TypeOK, NetworkTypeOK, ServerTypeOK, InstanceTypeOK, CursorOK, NonNegative,
        HandleRoleErrorFrames, instVars
(* _handle_transfer_register.                                              *)
<1>TypeRegister.
  ASSUME TypeInv, NEW c \in Connections, HandleTransferRegister(c), UNCHANGED instVars
  PROVE  TypeInv'
  <2> USE <1>TypeRegister
  <2> USE DEF TypeInv
  <2>0. Receive(c, "register") /\ Advance /\ frontend' = frontend
    BY DEF HandleTransferRegister
  <2>1. result' \in [Connections -> Seq(ResultMsg)]
    BY <2>0, ReceiveType
  <2>2. phase' \in Phases /\ events' \subseteq Sockets /\ FrontendReadable'
    BY <2>0, <1>AdvanceType
  <2>3. peers' \in [Inst -> Seq([slot : Slots, size : Nat])]
    <3> DEFINE all == [k \in 1 .. NumPrealloc |-> [slot |-> k - 1, size |-> PreallocSize]]
    <3>1. all \in Seq([slot : Slots, size : Nat])
      <4>1. \A k \in 1 .. NumPrealloc :
              [slot |-> k - 1, size |-> PreallocSize] \in [slot : Slots, size : Nat]
        BY NetworkAssumption DEF Slots
      <4>2. all \in [1 .. NumPrealloc -> [slot : Slots, size : Nat]]
        BY <4>1
      <4> HIDE DEF all
      <4> QED
        BY <4>2, <1>FcnIsSeq, NetworkAssumption, Zenon
    <3>2. peers' = [peers EXCEPT ![c[1]] = IF c[1] \in Receivers THEN all ELSE <<>>]
      BY DEF HandleTransferRegister
    <3> HIDE DEF all
    <3>3. (IF c[1] \in Receivers THEN all ELSE <<>>) \in Seq([slot : Slots, size : Nat])
      BY <3>1
    <3> QED
      BY <3>2, <3>3, Zenon DEF TypeOK, ServerTypeOK
  <2> QED
    BY <2>1, <2>2, <2>3, Zenon
    DEF TypeOK, NetworkTypeOK, ServerTypeOK, InstanceTypeOK, CursorOK, NonNegative,
        HandleTransferRegister, instVars
(* _handle_transfer_staged, for a tracked and for a forgotten request.     *)
<1>TypeStaged.
  ASSUME TypeInv, NEW c \in Connections, HandleTransferStaged(c), UNCHANGED instVars
  PROVE  TypeInv'
  <2> USE <1>TypeStaged
  <2> USE DEF TypeInv
  <2> DEFINE m == Head(result[c])
             r == m.id
             s == IF Tracked(tracker, r) THEN tracker[r].encoder_instance ELSE 0
  <2>0. Receive(c, "staged") /\ Advance /\ frontend' = frontend
    BY Zenon DEF HandleTransferStaged
  <2>1. result' \in [Connections -> Seq(ResultMsg)] /\ r \in Requests /\ m.size \in Nat
    BY <2>0, ReceiveType, Zenon
  <2>2. phase' \in Phases /\ events' \subseteq Sockets /\ FrontendReadable'
    BY <2>0, <1>AdvanceType
  <2>3. xfer' \in [Requests -> Xfer]
    <3>1. s \in Nat \cup {None}
      BY <2>1 DEF TypeOK, ServerTypeOK, RequestRecord
    <3>2. xfer' = [xfer EXCEPT ![r] =
                    [sender |-> s, receiver |-> None, size |-> m.size, slot |-> NoSlot]]
      BY Zenon DEF HandleTransferStaged
    <3> HIDE DEF s, r, m
    <3>3. [sender |-> s, receiver |-> None, size |-> m.size, slot |-> NoSlot] \in Xfer
      BY <2>1, <3>1, SMTT(20) DEF Xfer
    <3> QED
      BY <3>2, <3>3, Zenon DEF TypeOK, ServerTypeOK
  <2>4. tracker' \in [Requests -> RequestRecord]
    <3>1. Transition(tracker, r, "ENCODER_DONE") \in [Requests -> RequestRecord]
      BY <2>1, TransitionType, Zenon DEF TypeOK, ServerTypeOK, States, ActiveStates
    <3> QED
      BY <2>1, <3>1, TransitionType, Zenon DEF HandleTransferStaged, States, ActiveStates
  <2>5. tta' \in [Roles -> Seq(Requests)]
    BY <2>1, <1>EnqueueType, Zenon DEF HandleTransferStaged
  <2> QED
    BY <2>1, <2>2, <2>3, <2>4, <2>5, Zenon
    DEF TypeOK, NetworkTypeOK, ServerTypeOK, InstanceTypeOK, CursorOK, NonNegative,
        HandleTransferStaged, instVars
(* _handle_transfer_allocated, the death of the event loop included.       *)
<1>TypeAllocated.
  ASSUME TypeInv, NEW c \in Connections, HandleTransferAllocated(c), UNCHANGED instVars
  PROVE  TypeInv'
  <2> USE <1>TypeAllocated
  <2> USE DEF TypeInv
  <2> DEFINE r == Head(result[c]).id
             msg == TransferPushMsg(r, c[1], NoSlot)
  <2>1. result' \in [Connections -> Seq(ResultMsg)] /\ r \in Requests
    <3>1. Receive(c, "allocated")
      BY Zenon DEF HandleTransferAllocated
    <3> QED
      BY <3>1, ReceiveType
  <2>2. msg \in WorkMsg
    BY <2>1, ConnectionPairs, SMTT(20) DEF TransferPushMsg, WorkMsg, Dest
  <2> HIDE DEF msg
  <2>3. \/ Advance /\ UNCHANGED work
        \/ Advance /\ \E x : Send(x, msg)
        \/ phase' = "dead" /\ UNCHANGED <<events, work>>
    BY Zenon DEF HandleTransferAllocated, msg
  <2>4. UNCHANGED frontend
    BY DEF HandleTransferAllocated
  <2>5. phase' \in Phases /\ events' \subseteq Sockets /\ FrontendReadable'
    <3>1. CASE Advance
      BY <3>1, <2>4, <1>AdvanceType
    <3>2. CASE phase' = "dead" /\ UNCHANGED <<events, work>>
      BY <3>2, <2>4 DEF Phases, TypeOK, ServerTypeOK, FrontendReadable
    <3> QED
      BY <2>3, <3>1, <3>2
  <2>6. work' \in [Inst -> Seq(WorkMsg)]
    BY <2>2, <2>3, <1>SendType DEF TypeOK, NetworkTypeOK
  <2> QED
    BY <2>1, <2>5, <2>6, Zenon
    DEF TypeOK, NetworkTypeOK, ServerTypeOK, InstanceTypeOK, CursorOK, NonNegative,
        HandleTransferAllocated, instVars
(* _handle_transfer_pushed.                                                *)
<1>TypePushed.
  ASSUME TypeInv, NEW c \in Connections, HandleTransferPushed(c), UNCHANGED instVars
  PROVE  TypeInv'
  <2> USE <1>TypePushed
  <2> USE DEF TypeInv
  <2> DEFINE r == Head(result[c]).id
             msg == TransferReadyMsg(r, xfer[r].slot)
  <2>0. Receive(c, "pushed") /\ Advance /\ frontend' = frontend
    BY Zenon DEF HandleTransferPushed
  <2>1. result' \in [Connections -> Seq(ResultMsg)] /\ r \in Requests
    BY <2>0, ReceiveType
  <2>2. phase' \in Phases /\ events' \subseteq Sockets /\ FrontendReadable'
    BY <2>0, <1>AdvanceType, Zenon
  <2>3. msg \in WorkMsg
    <3>1. xfer[r].slot \in Slots \cup {NoSlot}
      BY <2>1 DEF TypeOK, ServerTypeOK, Xfer
    <3> QED
      BY <2>1, <3>1, Zenon DEF TransferReadyMsg, WorkMsg
  <2> HIDE DEF msg
  <2>4. /\ UNCHANGED work \/ \E x : Send(x, msg)
        /\ UNCHANGED free \/ \E role, i : free' = Release(free, role, i)
    BY Zenon DEF HandleTransferPushed, msg
  <2>5. work' \in [Inst -> Seq(WorkMsg)]
    BY <2>3, <2>4, <1>SendType DEF TypeOK, NetworkTypeOK
  <2>6. free' \in [Inst -> Int] /\ NonNegative'
    BY <2>4, <1>ReleaseOK, Zenon DEF TypeOK, ServerTypeOK, NonNegative
  <2> QED
    BY <2>1, <2>2, <2>5, <2>6, Zenon
    DEF TypeOK, NetworkTypeOK, ServerTypeOK, InstanceTypeOK, CursorOK,
        HandleTransferPushed, instVars
(* _recycle_prealloc_slot gives back a slot with its size.                 *)
<1>TypeRecycle.
  ASSUME TypeOK, NEW r \in Requests, RecyclePreallocSlot(r)
  PROVE  peers' \in [Inst -> Seq([slot : Slots, size : Nat])]
  <2> USE <1>TypeRecycle
  <2>1. CASE xfer[r].slot = NoSlot
    BY <2>1, Zenon DEF RecyclePreallocSlot, TypeOK, ServerTypeOK
  <2>2. CASE xfer[r].slot # NoSlot
    <3> DEFINE e == [slot |-> xfer[r].slot, size |-> xfer[r].size]
               x == <<"denoiser", xfer[r].receiver>>
               P == [slot : Slots, size : Nat]
    <3>1. e \in P
      BY <2>2 DEF TypeOK, ServerTypeOK, Xfer
    <3>2. peers' = [peers EXCEPT ![x] = Append(@, e)]
      BY <2>2 DEF RecyclePreallocSlot
    <3>3. peers \in [Inst -> Seq(P)]
      BY Zenon DEF TypeOK, ServerTypeOK
    <3> HIDE DEF e, x, P
    <3>4. [peers EXCEPT ![x] = Append(@, e)] \in [Inst -> Seq(P)]
      BY <3>1, <3>3, <1>AppendAt
    <3> QED
      BY <3>2, <3>4, Zenon DEF P
  <2> QED
    BY <2>1, <2>2, Zenon
(* _handle_transfer_done with an error.                                    *)
<1>TypeDoneError.
  ASSUME TypeInv, NEW c \in Connections, HandleTransferDoneError(c), UNCHANGED instVars
  PROVE  TypeInv'
  <2> USE <1>TypeDoneError
  <2> USE DEF TypeInv
  <2> DEFINE r == Head(result[c]).id
  <2>0. Receive(c, "done_error") /\ Advance /\ frontend' = frontend
    BY DEF HandleTransferDoneError
  <2>1. result' \in [Connections -> Seq(ResultMsg)] /\ r \in Requests
    BY <2>0, ReceiveType
  <2>2. phase' \in Phases /\ events' \subseteq Sockets /\ FrontendReadable'
    BY <2>0, <1>AdvanceType, Zenon
  <2>3. /\ tracker' \in [Requests -> RequestRecord]
        /\ pending' \subseteq Requests
        /\ replies' \in [Requests -> Seq(Outcomes)]
    BY <2>1, <1>FinishType
    DEF HandleTransferDoneError, CompleteWithError, States, TerminalStates, Outcomes
  <2>4. free' \in [Inst -> Int] /\ NonNegative'
    BY <1>ReleaseOK, Zenon DEF HandleTransferDoneError
  <2>5. peers' \in [Inst -> Seq([slot : Slots, size : Nat])]
    BY <2>1, <1>TypeRecycle, Zenon DEF HandleTransferDoneError
  <2>6. xfer' \in [Requests -> Xfer]
    <3>1. xfer' = [xfer EXCEPT ![r].slot = NoSlot]
      BY DEF HandleTransferDoneError
    <3> HIDE DEF r
    <3> QED
      BY <2>1, <3>1, Zenon DEF TypeOK, ServerTypeOK, Xfer
  <2> QED
    BY <2>1, <2>2, <2>3, <2>4, <2>5, <2>6, Zenon
    DEF TypeOK, NetworkTypeOK, ServerTypeOK, InstanceTypeOK, CursorOK,
        HandleTransferDoneError, instVars
(* _handle_transfer_done with a staged output.                             *)
<1>TypeDone.
  ASSUME TypeInv, NEW c \in Connections, HandleTransferDone(c), UNCHANGED instVars
  PROVE  TypeInv'
  <2> USE <1>TypeDone
  <2> USE DEF TypeInv
  <2> DEFINE m == Head(result[c])
             r == m.id
             done == Transition(tracker, r, "DENOISING_DONE")
             s == IF Tracked(tracker, r) THEN tracker[r].denoiser_instance ELSE 0
  <2>0. Receive(c, "done") /\ Advance /\ frontend' = frontend
    BY DEF HandleTransferDone
  <2>1. result' \in [Connections -> Seq(ResultMsg)] /\ r \in Requests /\ m.size \in Nat
    BY <2>0, ReceiveType
  <2>2. phase' \in Phases /\ events' \subseteq Sockets /\ FrontendReadable'
    BY <2>0, <1>AdvanceType
  <2>3. peers' \in [Inst -> Seq([slot : Slots, size : Nat])]
    BY <2>1, <1>TypeRecycle, Zenon DEF HandleTransferDone
  <2>4. done \in [Requests -> RequestRecord]
    BY <2>1, TransitionType, Zenon DEF TypeOK, ServerTypeOK, States, ActiveStates
  <2>5. /\ tracker' \in [Requests -> RequestRecord]
        /\ free' \in [Inst -> Int] /\ NonNegative'
        /\ tta' \in [Roles -> Seq(Requests)]
        /\ xfer' \in [Requests -> Xfer]
    <3>1. CASE xfer[r] = NoXfer
      <4>1. /\ tracker' = done
            /\ free' = Release(free, "denoiser", tracker[r].denoiser_instance)
            /\ UNCHANGED <<tta, xfer>>
        BY <3>1 DEF HandleTransferDone
      <4> QED
        BY <2>4, <4>1, <1>ReleaseOK, Zenon DEF TypeOK, ServerTypeOK
    <3>2. CASE xfer[r] # NoXfer
      <4>1. /\ xfer' = [xfer EXCEPT ![r] = [sender |-> s, receiver |-> @.receiver,
                                            size |-> m.size, slot |-> NoSlot]]
            /\ tracker' = Transition(done, r, "DECODER_WAITING")
            /\ Enqueue("decoder", r)
            /\ UNCHANGED free
        BY <3>2 DEF HandleTransferDone
      <4>2. s \in Nat \cup {None}
        BY <2>1, Zenon DEF TypeOK, ServerTypeOK, RequestRecord
      <4> HIDE DEF done, s, m, r
      <4>3. xfer' \in [Requests -> Xfer]
        <5> DEFINE y == [sender |-> s, receiver |-> xfer[r].receiver,
                         size |-> m.size, slot |-> NoSlot]
        <5>1. xfer \in [Requests -> Xfer]
          BY DEF TypeOK, ServerTypeOK
        <5>2. y \in Xfer
          BY <2>1, <4>2, <5>1, Zenon DEF Xfer
        <5>3. xfer' = [xfer EXCEPT ![r] = y]
          BY <4>1
        <5> HIDE DEF y
        <5> QED
          BY <2>1, <5>1, <5>2, <5>3
      <4>4. tracker' \in [Requests -> RequestRecord]
        BY <2>1, <2>4, <4>1, TransitionType, Zenon DEF States, ActiveStates
      <4>5. tta' \in [Roles -> Seq(Requests)]
        BY <2>1, <4>1, <1>EnqueueType
      <4> QED
        BY <4>1, <4>3, <4>4, <4>5, Zenon DEF TypeOK, ServerTypeOK, NonNegative
    <3> QED
      BY <3>1, <3>2, Zenon
  <2> QED
    BY <2>1, <2>2, <2>3, <2>5, Zenon
    DEF TypeOK, NetworkTypeOK, ServerTypeOK, InstanceTypeOK, CursorOK,
        HandleTransferDone, instVars
(* _handle_decoder_result_frames.                                          *)
<1>TypeResult.
  ASSUME TypeInv, NEW c \in Connections, HandleDecoderResultFrames(c), UNCHANGED instVars
  PROVE  TypeInv'
  <2> USE <1>TypeResult
  <2> USE DEF TypeInv
  <2> DEFINE m == Head(result[c])
             r == m.id
             state == IF m.outcome = "ok" THEN "DONE" ELSE "FAILED"
  <2>0. Receive(c, "result") /\ Advance /\ frontend' = frontend
    BY Zenon DEF HandleDecoderResultFrames
  <2>1. result' \in [Connections -> Seq(ResultMsg)] /\ r \in Requests /\ m.outcome \in Outcomes
    BY <2>0, ReceiveType
  <2>2. phase' \in Phases /\ events' \subseteq Sockets /\ FrontendReadable'
    BY <2>0, <1>AdvanceType
  <2>3. /\ tracker' \in [Requests -> RequestRecord]
        /\ pending' \subseteq Requests
        /\ replies' \in [Requests -> Seq(Outcomes)]
    <3>1. Finish(tracker, r, state, m.outcome)
      BY DEF HandleDecoderResultFrames
    <3>2. state \in States
      BY DEF States, TerminalStates
    <3> HIDE DEF state, r, m
    <3> QED
      BY <2>1, <3>1, <3>2, <1>FinishType, Zenon
  <2>4. free' \in [Inst -> Int] /\ NonNegative'
    BY <1>ReleaseOK, Zenon DEF HandleDecoderResultFrames
  <2>5. xfer' \in [Requests -> Xfer]
    <3>1. xfer' = xfer \/ xfer' = [xfer EXCEPT ![r] = NoXfer]
      BY DEF HandleDecoderResultFrames
    <3> HIDE DEF r
    <3>2. NoXfer \in Xfer
      BY DEF NoXfer, Xfer, None, NoSlot
    <3> QED
      BY <3>1, <3>2, Zenon DEF TypeOK, ServerTypeOK
  <2> QED
    BY <2>1, <2>2, <2>3, <2>4, <2>5, Zenon
    DEF TypeOK, NetworkTypeOK, ServerTypeOK, InstanceTypeOK, CursorOK,
        HandleDecoderResultFrames, instVars
(* _dispatch_to_encoder.                                                   *)
<1>TypeDrainEncoder.
  ASSUME TypeInv, DrainEncoder, UNCHANGED instVars
  PROVE  TypeInv'
  <2> USE <1>TypeDrainEncoder
  <2> DEFINE r == Head(tta["encoder"])
             i == Select("encoder")
  <2>1. Dispatch("encoder", r, i, "ENCODER_RUNNING") /\ Send(<<"encoder", i>>, WorkFrame(r))
    BY DEF DrainEncoder
  <2>2. /\ r \in Requests
        /\ tta' \in [Roles -> Seq(Requests)]
        /\ free' \in [Inst -> Int] /\ NonNegative'
        /\ cursor' \in [Roles -> Nat] /\ CursorOK'
        /\ tracker' \in [Requests -> RequestRecord]
    BY <2>1, DispatchType, Zenon DEF Roles, ActiveStates
  <2>3. WorkFrame(r) \in WorkMsg
    BY <2>2 DEF WorkFrame, WorkMsg
  <2>4. work' \in [Inst -> Seq(WorkMsg)]
    BY <2>1, <2>3, <1>SendType DEF TypeInv
  <2> QED
    BY <2>2, <2>4, Zenon
    DEF TypeInv, TypeOK, NetworkTypeOK, ServerTypeOK, InstanceTypeOK, FrontendReadable,
        DrainEncoder, instVars
(* Starting a transfer sends one well-formed message.                      *)
<1>StartTransferType.
  ASSUME TypeOK, NEW r \in Requests, NEW upstream, NEW x \in Inst, StartTransfer(r, upstream, x)
  PROVE  /\ work' \in [Inst -> Seq(WorkMsg)]
         /\ xfer' \in [Requests -> Xfer]
         /\ peers' \in [Inst -> Seq([slot : Slots, size : Nat])]
  <2> USE <1>StartTransferType
  <2>1. xfer \in [Requests -> Xfer] /\ x[2] \in Nat
    BY InstPairs DEF TypeOK, ServerTypeOK
  <2>2. CASE FastPath(x, r)
    <3> DEFINE P == [slot : Slots, size : Nat]
               s == Head(peers[x]).slot
               push == TransferPushMsg(r, x, s)
    <3>1. /\ Send(<<upstream, xfer[r].sender>>, push)
          /\ xfer' = [xfer EXCEPT ![r].receiver = x[2], ![r].slot = s]
          /\ peers' = [peers EXCEPT ![x] = Tail(@)]
      BY <2>2 DEF StartTransfer
    <3>2. peers \in [Inst -> Seq(P)] /\ peers[x] # <<>>
      BY <2>2, Zenon DEF FastPath, TypeOK, ServerTypeOK
    <3>3. s \in Slots /\ Tail(peers[x]) \in Seq(P)
      <4>1. Head(peers[x]) \in P /\ Tail(peers[x]) \in Seq(P)
        <5> HIDE DEF P
        <5> QED
          BY <3>2, HeadTail, Zenon
      <4> QED
        BY <4>1
    <3> HIDE DEF s
    <3>4. push \in WorkMsg
      BY <3>3 DEF TransferPushMsg, WorkMsg, Dest
    <3>5. xfer' \in [Requests -> Xfer]
      BY <2>1, <3>1, <3>3, Zenon DEF Xfer
    <3> HIDE DEF push
    <3>6. work' \in [Inst -> Seq(WorkMsg)]
      BY <3>1, <3>4, <1>SendType
    <3>7. peers' \in [Inst -> Seq(P)]
      <4> HIDE DEF P
      <4> QED
        BY <3>1, <3>2, <3>3
    <3> QED
      BY <3>5, <3>6, <3>7, Zenon
  <2>3. CASE ~ FastPath(x, r)
    <3>1. /\ Send(x, TransferAllocMsg(r))
          /\ xfer' = [xfer EXCEPT ![r].receiver = x[2]]
          /\ peers' = peers
      BY <2>3 DEF StartTransfer
    <3>2. TransferAllocMsg(r) \in WorkMsg
      BY DEF TransferAllocMsg, WorkMsg
    <3>3. work' \in [Inst -> Seq(WorkMsg)]
      BY <3>1, <3>2, <1>SendType
    <3>4. xfer' \in [Requests -> Xfer]
      BY <2>1, <3>1 DEF Xfer
    <3> QED
      BY <3>1, <3>3, <3>4, Zenon DEF TypeOK, ServerTypeOK
  <2> QED
    BY <2>2, <2>3, Zenon
(* _transfer_dispatch_to_denoiser and _transfer_dispatch_to_decoder.       *)
<1>TypeDrainReceiver.
  ASSUME TypeInv, NEW role \in Roles, NEW upstream, NEW state \in ActiveStates,
         DrainReceiver(role, upstream, state), UNCHANGED instVars
  PROVE  TypeInv'
  <2> USE <1>TypeDrainReceiver
  <2> DEFINE r == Head(tta[role])
             i == Select(role)
             x == <<role, i>>
  <2>1. Dispatch(role, r, i, state) /\ StartTransfer(r, upstream, x)
    BY DEF DrainReceiver
  <2>2. /\ r \in Requests
        /\ i \in Indices(role)
        /\ tta' \in [Roles -> Seq(Requests)]
        /\ free' \in [Inst -> Int] /\ NonNegative'
        /\ cursor' \in [Roles -> Nat] /\ CursorOK'
        /\ tracker' \in [Requests -> RequestRecord]
    BY <2>1, DispatchType
  <2>3. x \in Inst
    BY <2>2, InstPairs
  <2>4. /\ work' \in [Inst -> Seq(WorkMsg)]
        /\ xfer' \in [Requests -> Xfer]
        /\ peers' \in [Inst -> Seq([slot : Slots, size : Nat])]
    <3> HIDE DEF r, x
    <3> QED
      BY <2>1, <2>2, <2>3, <1>StartTransferType, Zenon DEF TypeInv
  <2> QED
    BY <2>2, <2>4, Zenon
    DEF TypeInv, TypeOK, NetworkTypeOK, ServerTypeOK, InstanceTypeOK, FrontendReadable,
        DrainReceiver, instVars
(* The end of a drain.                                                     *)
<1>TypeDrainDone.
  ASSUME TypeInv, NEW role \in Roles, DrainDone(role), UNCHANGED instVars
  PROVE  TypeInv'
  <2> USE <1>TypeDrainDone
  <2> DEFINE next == CursorAfter(Policy, Num(role), FreeSlots(role), cursor[role])
  <2>1. next \in Indices(role)
    BY SelectType, Zenon
  <2>2. cursor' = cursor \/ cursor' = [cursor EXCEPT ![role] = next]
    BY DEF DrainDone
  <2> HIDE DEF next
  <2>3. next \in Nat
    BY <2>1, NumType DEF Indices
  <2>4. cursor' \in [Roles -> Nat] /\ CursorOK'
    BY <2>1, <2>2, <2>3, Zenon DEF TypeInv, TypeOK, ServerTypeOK, CursorOK
  <2>5. phase' \in Phases /\ events' \subseteq Sockets /\ FrontendReadable'
    BY <1>AdvanceType, Zenon DEF DrainDone, netVars
  <2> QED
    BY <2>4, <2>5, Zenon
    DEF TypeInv, TypeOK, NetworkTypeOK, ServerTypeOK, InstanceTypeOK, NonNegative,
        DrainDone, netVars, instVars
(* The steps of the instances preserve the type invariant.                 *)
<1>InstanceStepType.
  ASSUME TypeInv, UNCHANGED serverVars, UNCHANGED <<unsent, frontend, replies>>,
         work' \in [Inst -> Seq(WorkMsg)], result' \in [Connections -> Seq(ResultMsg)],
         InstanceTypeOK'
  PROVE  TypeInv'
    BY <1>InstanceStepType, Zenon DEF TypeInv, TypeOK, NetworkTypeOK, ServerTypeOK, CursorOK, NonNegative,
           FrontendReadable, serverVars
(* A report of an instance reaches one connection.                         *)
<1>ReportType.
  ASSUME TypeOK, NEW x, NEW socket, NEW m \in ResultMsg, Report(x, socket, m)
  PROVE  result' \in [Connections -> Seq(ResultMsg)]
    BY <1>ReportType, <1>AppendAt, Zenon DEF TypeOK, NetworkTypeOK, Report
(* _disagg_encoder_step.                                                   *)
<1>TypeEncoderStep.
  ASSUME TypeInv, NEW x \in Inst, EncoderStep(x), UNCHANGED serverVars
  PROVE  TypeInv'
  <2> USE <1>TypeEncoderStep
  <2> USE DEF TypeInv
  <2> DEFINE r == Head(work[x]).id
  <2>1. work' \in [Inst -> Seq(WorkMsg)] /\ r \in Requests
    BY TakeType, WorkFields, Zenon DEF EncoderStep
  <2>2. \/ \E size \in Sizes : Stage(x, r, TransferStagedMsg(r, size))
        \/ Report(x, "main", ErrorFrames(r)) /\ UNCHANGED staged
        \/ Raise(x, r)
    BY Zenon DEF EncoderStep
  <2> HIDE DEF r
  <2>3. result' \in [Connections -> Seq(ResultMsg)]
    BY <2>1, <2>2, <1>ReportType, ReportFields DEF Stage, Raise, TypeOK, NetworkTypeOK
  <2>4. staged' \in [Inst -> SUBSET Requests]
    <3>1. staged \in [Inst -> SUBSET Requests]
      BY DEF TypeOK, InstanceTypeOK
    <3>2. \E S \in {{}, {r}} : staged' = [staged EXCEPT ![x] = @ \cup S]
      BY <2>2, <3>1 DEF Stage, Raise
    <3> QED
      BY <2>1, <3>1, <3>2
  <2>5. InstanceTypeOK'
    BY <2>4, Zenon DEF EncoderStep, TypeOK, InstanceTypeOK
  <2> QED
    BY <2>1, <2>3, <2>5, <1>InstanceStepType DEF EncoderStep
(* _handle_transfer_push.                                                  *)
<1>TypePush.
  ASSUME TypeInv, NEW x \in Inst, HandleTransferPush(x), UNCHANGED serverVars
  PROVE  TypeInv'
  <2> USE <1>TypePush
  <2> USE DEF TypeInv
  <2> DEFINE m == Head(work[x])
             P == [id : Requests, dest : Dest]
             item == [id |-> m.id, dest |-> m.dest]
  <2>1. work' \in [Inst -> Seq(WorkMsg)] /\ m \in WorkMsg /\ m.type = "push"
    BY TakeType, Zenon DEF HandleTransferPush
  <2>2. item \in P
    BY <2>1, WorkFields
  <2>3. /\ rdma_push_queue' = [rdma_push_queue EXCEPT ![x] = Append(@, item)]
        /\ rdma_push_queue \in [Inst -> Seq(P)]
    BY Zenon DEF HandleTransferPush, TypeOK, InstanceTypeOK
  <2>4. rdma_push_queue' \in [Inst -> Seq(P)]
    <3> HIDE DEF P, item
    <3> QED
      BY <2>2, <2>3
  <2>5. InstanceTypeOK'
    BY <2>4, Zenon DEF HandleTransferPush, TypeOK, InstanceTypeOK
  <2> QED
    BY <2>1, <2>5, <1>InstanceStepType, Zenon DEF HandleTransferPush, TypeOK, NetworkTypeOK
(* _rdma_push_loop.                                                        *)
<1>TypeRdmaPush.
  ASSUME TypeInv, NEW x \in Inst, RdmaPush(x), UNCHANGED serverVars
  PROVE  TypeInv'
  <2> USE <1>TypeRdmaPush
  <2> USE DEF TypeInv
  <2> DEFINE P == [id : Requests, dest : Dest]
             item == Head(rdma_push_queue[x])
  <2>1. rdma_push_queue' \in [Inst -> Seq(P)] /\ item \in P
    <3>1. rdma_push_queue \in [Inst -> Seq(P)] /\ rdma_push_queue[x] # <<>>
      BY Zenon DEF RdmaPush, TypeOK, InstanceTypeOK
    <3>2. rdma_push_queue' = [rdma_push_queue EXCEPT ![x] = Tail(@)]
      BY Zenon DEF RdmaPush
    <3> HIDE DEF P
    <3>3. item \in P /\ Tail(rdma_push_queue[x]) \in Seq(P)
      BY <3>1, HeadTail
    <3> QED
      BY <3>1, <3>2, <3>3
  <2>2. item.id \in Requests /\ item.dest \in Dest
    BY <2>1, Zenon
  <2>3. /\ \/ Write(item.id, item.dest) /\ staged' = [staged EXCEPT ![x] = @ \ {item.id}]
           \/ UNCHANGED <<staged, prealloc_data, block_data>>
        /\ Report(x, "rdma", TransferPushedMsg(item.id)) \/ UNCHANGED result
    BY DEF RdmaPush
  <2> HIDE DEF item
  <2>4. result' \in [Connections -> Seq(ResultMsg)]
    BY <2>2, <2>3, <1>ReportType, ReportFields DEF TypeOK, NetworkTypeOK
  <2>5. staged' \in [Inst -> SUBSET Requests]
    BY <2>2, <2>3, Zenon DEF TypeOK, InstanceTypeOK
  <2>6. block_data' \in [Inst -> SUBSET Requests]
    <3>1. block_data \in [Inst -> SUBSET Requests]
      BY DEF TypeOK, InstanceTypeOK
    <3>2. \/ block_data' = block_data
          \/ block_data' = [block_data EXCEPT ![item.dest.inst] = @ \cup {item.id}]
      BY <2>3 DEF Write
    <3>3. item.dest.inst \in Inst
      BY <2>2 DEF Dest
    <3> QED
      BY <2>2, <3>1, <3>2, <3>3
  <2>7. prealloc_data' \in [Inst -> [Slots -> Requests \cup {NoData}]]
    <3>1. prealloc_data \in [Inst -> [Slots -> Requests \cup {NoData}]]
      BY DEF TypeOK, InstanceTypeOK
    <3>2. \/ prealloc_data' = prealloc_data
          \/ /\ item.dest.slot # NoSlot
             /\ prealloc_data' = [prealloc_data EXCEPT ![item.dest.inst][item.dest.slot] = item.id]
      BY <2>3 DEF Write
    <3>3. item.dest.inst \in Inst /\ item.dest.slot \in Slots \cup {NoSlot}
      BY <2>2 DEF Dest
    <3> QED
      BY <2>2, <3>1, <3>2, <3>3
  <2>8. InstanceTypeOK'
    BY <2>1, <2>5, <2>6, <2>7, Zenon DEF RdmaPush, TypeOK, InstanceTypeOK
  <2> QED
    BY <2>4, <2>8, <1>InstanceStepType, Zenon DEF RdmaPush, TypeOK, NetworkTypeOK
(* _recv_prefetch_loop on READY.                                           *)
<1>TypeReady.
  ASSUME TypeInv, NEW x \in Inst, PrefetchTransferReady(x), UNCHANGED serverVars
  PROVE  TypeInv'
  <2> USE <1>TypeReady
  <2> USE DEF TypeInv
  <2> DEFINE m == Head(work[x])
             item == [kind |-> "transfer_compute", id |-> m.id, slot |-> m.slot]
  <2>1. work' \in [Inst -> Seq(WorkMsg)] /\ m \in WorkMsg /\ m.type = "ready"
    BY TakeType DEF PrefetchTransferReady
  <2>2. item \in ReadyItem
    <3>1. m.id \in Requests /\ m.slot \in Slots \cup {NoSlot}
      BY <2>1, WorkFields, Zenon
    <3> QED
      BY <3>1 DEF ReadyItem
  <2>3. \/ compute_ready_queue' = [compute_ready_queue EXCEPT ![x] = Append(@, item)]
        \/ compute_ready_queue' = compute_ready_queue
    BY DEF PrefetchTransferReady
  <2> HIDE DEF item, m
  <2>4. compute_ready_queue' \in [Inst -> Seq(ReadyItem)]
    <3>1. compute_ready_queue \in [Inst -> Seq(ReadyItem)]
      BY DEF TypeOK, InstanceTypeOK
    <3>2. [compute_ready_queue EXCEPT ![x] = Append(@, item)] \in [Inst -> Seq(ReadyItem)]
      BY <2>2, <3>1, <1>AppendAt
    <3> QED
      BY <2>3, <3>1, <3>2, Zenon
  <2>5. pending_receives' \in [Inst -> SUBSET Requests]
    <3>1. pending_receives \in [Inst -> SUBSET Requests] /\ m.id \in Requests
      BY <2>1, WorkFields DEF TypeOK, InstanceTypeOK
    <3>2. \E held \in {pending_receives[x], pending_receives[x] \cup {m.id}} :
            pending_receives' = [pending_receives EXCEPT ![x] = held]
      BY Zenon DEF PrefetchTransferReady, m
    <3> QED
      BY <3>1, <3>2
  <2>6. InstanceTypeOK'
    BY <2>4, <2>5, Zenon DEF PrefetchTransferReady, TypeOK, InstanceTypeOK
  <2> QED
    BY <2>1, <2>6, <1>InstanceStepType, Zenon DEF PrefetchTransferReady, TypeOK, NetworkTypeOK
(* _recv_prefetch_loop on ALLOC.                                           *)
<1>TypeControl.
  ASSUME TypeInv, NEW x \in Inst, PrefetchControl(x), UNCHANGED serverVars
  PROVE  TypeInv'
  <2> USE <1>TypeControl
  <2> USE DEF TypeInv
  <2> DEFINE item == [kind |-> "transfer_control", id |-> Head(work[x]).id]
  <2>1. work' \in [Inst -> Seq(WorkMsg)] /\ Head(work[x]).id \in Requests
    <3>1. work' \in [Inst -> Seq(WorkMsg)] /\ Head(work[x]) \in WorkMsg
      BY TakeType, Zenon DEF PrefetchControl
    <3> QED
      BY <3>1, WorkFields, Zenon
  <2>2. item \in ReadyItem
    BY <2>1, Zenon DEF ReadyItem
  <2>3. compute_ready_queue' = [compute_ready_queue EXCEPT ![x] = Append(@, item)]
    BY DEF PrefetchControl
  <2> HIDE DEF item
  <2>4. compute_ready_queue' \in [Inst -> Seq(ReadyItem)]
    <3>1. compute_ready_queue \in [Inst -> Seq(ReadyItem)]
      BY DEF TypeOK, InstanceTypeOK
    <3>2. [compute_ready_queue EXCEPT ![x] = Append(@, item)] \in [Inst -> Seq(ReadyItem)]
      BY <2>2, <3>1, <1>AppendAt
    <3> QED
      BY <2>3, <3>1, <3>2
  <2>5. InstanceTypeOK'
    BY <2>4, Zenon DEF PrefetchControl, TypeOK, InstanceTypeOK
  <2> QED
    BY <2>1, <2>5, <1>InstanceStepType, SMTT(20) DEF PrefetchControl, TypeOK, NetworkTypeOK
(* _handle_transfer_alloc.                                                 *)
<1>TypeAlloc.
  ASSUME TypeInv, NEW x \in Inst, HandleTransferAlloc(x), UNCHANGED serverVars
  PROVE  TypeInv'
  <2> USE <1>TypeAlloc
  <2> USE DEF TypeInv
  <2> DEFINE r == Head(compute_ready_queue[x]).id
  <2>1. compute_ready_queue' \in [Inst -> Seq(ReadyItem)] /\ r \in Requests
    BY DequeueType, Zenon DEF HandleTransferAlloc
  <2>2. \/ /\ pending_receives' = [pending_receives EXCEPT ![x] = @ \cup {r}]
           /\ Report(x, "main", TransferAllocatedMsg(r))
        \/ UNCHANGED <<pending_receives, result>>
    BY Zenon DEF HandleTransferAlloc
  <2> HIDE DEF r
  <2>3. result' \in [Connections -> Seq(ResultMsg)]
    BY <2>1, <2>2, <1>ReportType, ReportFields DEF TypeOK, NetworkTypeOK
  <2>4. pending_receives' \in [Inst -> SUBSET Requests]
    <3>1. pending_receives \in [Inst -> SUBSET Requests]
      BY DEF TypeOK, InstanceTypeOK
    <3> QED
      BY <2>1, <2>2, <3>1
  <2>5. InstanceTypeOK'
    BY <2>1, <2>4, Zenon DEF HandleTransferAlloc, TypeOK, InstanceTypeOK
  <2> QED
    BY <2>3, <2>5, <1>InstanceStepType DEF HandleTransferAlloc, TypeOK, NetworkTypeOK
(* _disagg_denoiser_compute.                                               *)
<1>TypeDenoiserCompute.
  ASSUME TypeInv, NEW x \in Inst, DenoiserCompute(x), UNCHANGED serverVars
  PROVE  TypeInv'
  <2> USE <1>TypeDenoiserCompute
  <2> USE DEF TypeInv
  <2> DEFINE r == Head(compute_ready_queue[x]).id
  <2>1. compute_ready_queue' \in [Inst -> Seq(ReadyItem)] /\ r \in Requests
    <3>1. Dequeue(x, "transfer_compute")
      BY DEF DenoiserCompute
    <3> QED
      BY <3>1, DequeueType
  <2>2. /\ FreeReceiveSlot(x, Head(compute_ready_queue[x]))
        /\ \/ \E size \in Sizes : Stage(x, r, TransferDoneMsg(r, size))
           \/ Report(x, "main", TransferDoneError(r)) /\ UNCHANGED staged
           \/ Raise(x, r)
    BY Zenon DEF DenoiserCompute
  <2> HIDE DEF r
  <2>3. result' \in [Connections -> Seq(ResultMsg)]
    BY <2>1, <2>2, <1>ReportType, ReportFields DEF Stage, Raise, TypeOK, NetworkTypeOK
  <2>4. staged' \in [Inst -> SUBSET Requests]
    <3>1. staged \in [Inst -> SUBSET Requests]
      BY DEF TypeOK, InstanceTypeOK
    <3>2. \E S \in {{}, {r}} : staged' = [staged EXCEPT ![x] = @ \cup S]
      BY <2>2, <3>1 DEF Stage, Raise
    <3> QED
      BY <2>1, <3>1, <3>2
  <2>5. /\ pending_receives' \in [Inst -> SUBSET Requests]
        /\ block_data' \in [Inst -> SUBSET Requests]
    BY <2>1, <2>2, Zenon DEF FreeReceiveSlot, TypeOK, InstanceTypeOK
  <2>6. InstanceTypeOK'
    BY <2>1, <2>4, <2>5, Zenon DEF DenoiserCompute, TypeOK, InstanceTypeOK
  <2> QED
    BY <2>3, <2>6, <1>InstanceStepType, Zenon DEF DenoiserCompute, TypeOK, NetworkTypeOK
(* _disagg_decoder_compute.                                                *)
<1>TypeDecoderCompute.
  ASSUME TypeInv, NEW x \in Inst, DecoderCompute(x), UNCHANGED serverVars
  PROVE  TypeInv'
  <2> USE <1>TypeDecoderCompute
  <2> USE DEF TypeInv
  <2> DEFINE r == Head(compute_ready_queue[x]).id
  <2>1. compute_ready_queue' \in [Inst -> Seq(ReadyItem)] /\ r \in Requests
    BY DequeueType, Zenon DEF DecoderCompute
  <2>2. /\ FreeReceiveSlot(x, Head(compute_ready_queue[x]))
        /\ \/ \E outcome \in Outcomes : Report(x, "main", ResultFrames(r, outcome))
           \/ UNCHANGED result
    BY Zenon DEF DecoderCompute, Outcomes
  <2> HIDE DEF r
  <2>3. result' \in [Connections -> Seq(ResultMsg)]
    BY <2>1, <2>2, <1>ReportType, ReportFields DEF TypeOK, NetworkTypeOK
  <2>4. /\ pending_receives' \in [Inst -> SUBSET Requests]
        /\ block_data' \in [Inst -> SUBSET Requests]
    BY <2>1, <2>2, Zenon DEF FreeReceiveSlot, TypeOK, InstanceTypeOK
  <2>5. InstanceTypeOK'
    BY <2>1, <2>4, Zenon DEF DecoderCompute, TypeOK, InstanceTypeOK
  <2> QED
    BY <2>3, <2>5, <1>InstanceStepType, Zenon DEF DecoderCompute, TypeOK, NetworkTypeOK
<1> SUFFICES ASSUME TypeInv, [Next]_vars PROVE TypeInv'
  OBVIOUS
<1>1. CASE Client
  <2>1. PICK r \in Requests : ClientSend(r) /\ UNCHANGED <<serverVars, instVars>>
    BY <1>1 DEF Client
  <2>2. NetworkTypeOK'
    BY <2>1 DEF ClientSend, TypeInv, TypeOK, NetworkTypeOK
  <2>3. frontend' # <<>>
    <3>1. frontend \in Seq(Requests) /\ frontend' = Append(frontend, r)
      BY <2>1 DEF ClientSend, TypeInv, TypeOK, NetworkTypeOK
    <3> QED
      BY <3>1
  <2> QED
    BY <2>1, <2>2, <2>3, Zenon DEF TypeInv, TypeOK, ServerTypeOK, InstanceTypeOK, CursorOK,
       NonNegative, FrontendReadable, serverVars, instVars
<1>2. CASE Server
  <2> SUFFICES ASSUME ServerNext, UNCHANGED instVars PROVE TypeInv'
    BY <1>2 DEF Server
  <2>1. CASE HandleRoleResult
    BY <2>1, <1>TypeErrorFrames, <1>TypeRegister, <1>TypeStaged, <1>TypeAllocated, <1>TypePushed,
       <1>TypeDoneError, <1>TypeDone, <1>TypeResult, Zenon
    DEF HandleRoleResult
  <2>2. CASE DrainAllQueues
    BY <2>2, <1>TypeDrainEncoder, <1>TypeDrainReceiver, <1>TypeDrainDone
    DEF DrainAllQueues, DrainDenoiser, DrainDecoder, Roles, ActiveStates
  <2> QED
    BY <2>1, <2>2, <1>TypePoll, <1>TypeTimeout, <1>TypeTimeoutsDone, <1>TypeClientRequest DEF ServerNext
<1>3. CASE Clock
  BY <1>3, Zenon DEF Clock, Expire, TypeInv, TypeOK, NetworkTypeOK, ServerTypeOK, InstanceTypeOK,
     CursorOK, NonNegative, FrontendReadable, netVars, instVars
<1>4. CASE Instances
  BY <1>4, <1>TypeEncoderStep, <1>TypePush, <1>TypeRdmaPush, <1>TypeReady, <1>TypeControl, <1>TypeAlloc,
     <1>TypeDenoiserCompute, <1>TypeDecoderCompute, Zenon
  DEF Instances, InstanceNext, ReceiveThread, ComputeThread
<1>5. CASE UNCHANGED vars
  BY <1>5, Zenon DEF TypeInv, TypeOK, NetworkTypeOK, ServerTypeOK, InstanceTypeOK,
     CursorOK, NonNegative, FrontendReadable, vars, netVars, serverVars, instVars
<1> QED
  BY <1>1, <1>2, <1>3, <1>4, <1>5 DEF Next, Idle

(* Type correctness of the pipeline, and with it that a free-slot counter  *)
(* is never negative, a dispatch cursor is always within its role and DS   *)
(* never blocks on an empty frontend.                                      *)
THEOREM TypeCorrect == Spec => [](TypeOK /\ CursorOK /\ NonNegative /\ FrontendReadable)
<1>1. Spec => []TypeInv
  BY TypeInit, TypeNext, PTL DEF Spec
<1> QED
  BY <1>1, PTL DEF TypeInv

----------------------------------------------------------------------------
(* A client is never lost and never answered twice.  RequestsAccounted is  *)
(* inductive once a request is known to be in the frontend socket once.    *)
SentOnce == \A i, j \in 1 .. Len(frontend) : frontend[i] = frontend[j] => i = j

Accounted == RequestsAccounted /\ SentOnce

(* Initially every request is unsent.                                      *)
LEMMA AccountedInit == Init => Accounted
<1> SUFFICES ASSUME Init PROVE Accounted
  OBVIOUS
<1>1. /\ unsent = Requests /\ frontend = <<>> /\ pending = {}
      /\ tracker = [q \in Requests |-> NoRecord]
      /\ replies = [q \in Requests |-> <<>>]
  BY DEF Init, NetworkInit, ServerInit
<1>2. SentOnce /\ \A q \in Requests : ~ In(q, frontend)
  BY <1>1 DEF SentOnce, In
<1>3. \A q \in Requests : ~ Tracked(tracker, q) /\ tracker[q].state \notin TerminalStates
  BY <1>1, Zenon DEF Tracked, NoRecord, TerminalStates
<1> QED
  BY <1>1, <1>2, <1>3 DEF Accounted, RequestsAccounted

(* The empty sequence has length zero.                                     *)
LEMMA LenEmpty == Len(<<>>) = 0
  OBVIOUS

(* Every step keeps all requests accounted for.                            *)
LEMMA AccountedNext == TypeInv /\ Accounted /\ [Next]_vars => Accounted'
(* A step that keeps the clients' side as it is and only moves records     *)
(* between active states.                                                  *)
<1>AccountedKept.
  ASSUME Accounted, UNCHANGED <<unsent, frontend, pending, replies>>,
         \A q \in Requests : Tracked(tracker', q) <=> Tracked(tracker, q),
         \A q \in Requests : tracker[q].state \notin TerminalStates
                               => tracker'[q].state \notin TerminalStates
  PROVE  Accounted'
    BY <1>AccountedKept, Zenon DEF Accounted, RequestsAccounted, SentOnce, In, Tracked
(* Every way a request ends: its client is answered if it still waits, and *)
(* the request is forgotten.                                               *)
<1>AccountedFinish.
  ASSUME TypeOK, Accounted, UNCHANGED <<unsent, frontend>>,
         NEW r \in Requests, NEW state \in States, NEW outcome \in Outcomes,
         Finish(tracker, r, state, outcome)
  PROVE  Accounted'
  <2> USE <1>AccountedFinish
  <2> DEFINE t == Transition(tracker, r, state)
  <2>1. /\ t \in [Requests -> RequestRecord]
        /\ \A q \in Requests : q # r => t[q] = tracker[q]
    BY TransitionType, Zenon DEF TypeOK, ServerTypeOK
  <2>2. tracker' = Remove(t, r) /\ pending' = pending \ {r}
    BY DEF Finish
  <2> HIDE DEF t
  <2>3. /\ ~ Tracked(tracker', r)
        /\ tracker'[r].state \notin TerminalStates
        /\ \A q \in Requests : q # r => tracker'[q] = tracker[q]
    BY <2>1, <2>2, RemoveType
  <2>4. /\ r \in pending => Len(replies'[r]) = Len(replies[r]) + 1
        /\ r \notin pending => replies' = replies
        /\ \A q \in Requests : q # r => replies'[q] = replies[q]
    BY DEF Finish, TypeOK, NetworkTypeOK
  <2>5. \A q \in Requests : In(q, frontend)' <=> In(q, frontend)
    BY DEF In
  <2>6. ASSUME NEW q \in Requests
        PROVE  /\ Tracked(tracker', q) <=> q \in pending'
               /\ tracker'[q].state \notin TerminalStates
               /\ \/ q \in unsent' /\ ~ In(q, frontend)' /\ q \notin pending' /\ replies'[q] = <<>>
                  \/ q \notin unsent' /\ In(q, frontend)' /\ q \notin pending' /\ replies'[q] = <<>>
                  \/ q \notin unsent' /\ ~ In(q, frontend)' /\ q \in pending' /\ replies'[q] = <<>>
                  \/ q \notin unsent' /\ ~ In(q, frontend)' /\ q \notin pending' /\ Len(replies'[q]) = 1
    <3>1. CASE q # r
      BY <2>2, <2>3, <2>4, <2>5, <3>1, Zenon DEF Accounted, RequestsAccounted, Tracked
    <3>2. CASE q = r
      <4>1. CASE r \in pending
        <5>1. replies[r] = <<>> /\ r \notin unsent /\ ~ In(r, frontend)
          BY <4>1, Zenon DEF Accounted, RequestsAccounted
        <5>2. Len(replies[r]) = 0
          BY <5>1, LenEmpty, Zenon
        <5>3. Len(replies'[r]) = 1
          BY <2>4, <4>1, <5>2
        <5> QED
          BY <2>2, <2>3, <2>5, <3>2, <5>1, <5>3, Zenon
      <4>2. CASE r \notin pending
        BY <2>2, <2>3, <2>4, <2>5, <3>2, <4>2, Zenon DEF Accounted, RequestsAccounted
      <4> QED
        BY <4>1, <4>2, Zenon
    <3> QED
      BY <3>1, <3>2, Zenon
  <2>7. SentOnce'
    BY DEF Accounted, SentOnce
  <2> QED
    BY <2>6, <2>7, Zenon DEF Accounted, RequestsAccounted
(* A client's request enters the frontend socket once.                     *)
<1>AccountedClientSend.
  ASSUME TypeOK, Accounted, NEW r \in Requests, ClientSend(r), UNCHANGED serverVars
  PROVE  Accounted'
  <2> USE <1>AccountedClientSend
  <2>1. /\ frontend \in Seq(Requests)
        /\ frontend' = Append(frontend, r)
        /\ unsent' = unsent \ {r}
        /\ r \in unsent
    BY DEF TypeOK, NetworkTypeOK, ClientSend
  <2>2. /\ Len(frontend') = Len(frontend) + 1
        /\ frontend'[Len(frontend) + 1] = r
        /\ \A i \in 1 .. Len(frontend) : frontend'[i] = frontend[i]
    BY <2>1
  <2>3. \A q \in Requests : In(q, frontend)' <=> In(q, frontend) \/ q = r
    BY <2>1, <2>2 DEF In
  <2>4. ~ In(r, frontend) /\ r \notin pending /\ replies[r] = <<>>
    BY <2>1, Zenon DEF Accounted, RequestsAccounted
  <2>5. SentOnce'
    <3>1. \A i \in 1 .. Len(frontend) : frontend[i] # r
      BY <2>4 DEF In
    <3>2. Len(frontend) \in Nat
      BY <2>1
    <3>3. \A i, j \in 1 .. Len(frontend) : frontend[i] = frontend[j] => i = j
      BY DEF Accounted, SentOnce
    <3> QED
      BY <2>2, <3>1, <3>2, <3>3, SMTT(30) DEF SentOnce
  <2>6. RequestsAccounted'
    BY <2>1, <2>3, <2>4, Zenon
    DEF Accounted, RequestsAccounted, ClientSend, serverVars, Tracked
  <2> QED
    BY <2>5, <2>6 DEF Accounted
(* A request that DS takes from the socket starts being tracked in the     *)
(* same step that makes its client wait.                                   *)
<1>AccountedClientRequest.
  ASSUME TypeInv, Accounted, HandleClientRequest
  PROVE  Accounted'
  <2> USE <1>AccountedClientRequest
  <2> DEFINE r == Head(frontend)
             t == Submit(tracker, r)
  <2>1. frontend \in Seq(Requests) /\ frontend # <<>>
    BY DEF TypeInv, TypeOK, NetworkTypeOK, FrontendReadable, HandleClientRequest
  <2>2. /\ r \in Requests
        /\ Len(frontend) \in Nat \ {0}
        /\ frontend[1] = r
        /\ Len(Tail(frontend)) = Len(frontend) - 1
        /\ \A i \in 1 .. Len(frontend) - 1 : Tail(frontend)[i] = frontend[i + 1]
    BY <2>1
  <2>3. frontend' = Tail(frontend)
    BY DEF HandleClientRequest
  <2>4. In(r, frontend)
    BY <2>2 DEF In
  <2>5. ~ In(r, frontend')
    BY <2>2, <2>3 DEF In, Accounted, SentOnce
  <2>6. \A q \in Requests : q # r => (In(q, frontend') <=> In(q, frontend))
    <3> SUFFICES ASSUME NEW q \in Requests, q # r PROVE In(q, frontend') <=> In(q, frontend)
      OBVIOUS
    <3>1. ASSUME In(q, frontend') PROVE In(q, frontend)
      <4>1. PICK i \in 1 .. Len(frontend') : frontend'[i] = q
        BY <3>1 DEF In
      <4>2. i + 1 \in 1 .. Len(frontend) /\ frontend[i + 1] = q
        BY <2>2, <2>3, <4>1
      <4> QED
        BY <4>2 DEF In
    <3>2. ASSUME In(q, frontend) PROVE In(q, frontend')
      <4>1. PICK i \in 1 .. Len(frontend) : frontend[i] = q
        BY <3>2 DEF In
      <4>2. i - 1 \in 1 .. Len(frontend') /\ frontend'[i - 1] = q
        BY <2>2, <2>3, <4>1, SMTT(20)
      <4> QED
        BY <4>2 DEF In
    <3> QED
      BY <3>1, <3>2
  <2>7. ~ Tracked(tracker, r) /\ r \notin unsent /\ r \notin pending /\ replies[r] = <<>>
    BY <2>2, <2>4 DEF Accounted, RequestsAccounted
  <2>8. /\ tracker' = Transition(t, r, "ENCODER_WAITING")
        /\ pending' = pending \cup {r}
        /\ unsent' = unsent /\ replies' = replies
    BY <2>7, Zenon DEF HandleClientRequest
  <2>9. /\ t \in [Requests -> RequestRecord]
        /\ Tracked(t, r)
        /\ \A q \in Requests : q # r => t[q] = tracker[q]
        /\ t[r].state \notin TerminalStates
    BY <2>2, <2>7, SubmitType, Zenon DEF TypeInv, TypeOK, ServerTypeOK
  <2> HIDE DEF t, r
  <2>10. /\ \A q \in Requests : Tracked(tracker', q) <=> Tracked(t, q)
         /\ \A q \in Requests : t[q].state \notin TerminalStates
                                 => tracker'[q].state \notin TerminalStates
    BY <2>2, <2>8, <2>9, TransitionType, Zenon DEF States, ActiveStates
  <2>11. SentOnce'
    BY <2>2, <2>3 DEF Accounted, SentOnce
  <2>12. ASSUME NEW q \in Requests
         PROVE  /\ Tracked(tracker', q) <=> q \in pending'
                /\ tracker'[q].state \notin TerminalStates
                /\ \/ q \in unsent' /\ ~ In(q, frontend') /\ q \notin pending' /\ replies'[q] = <<>>
                   \/ q \notin unsent' /\ In(q, frontend') /\ q \notin pending' /\ replies'[q] = <<>>
                   \/ q \notin unsent' /\ ~ In(q, frontend') /\ q \in pending' /\ replies'[q] = <<>>
                   \/ q \notin unsent' /\ ~ In(q, frontend') /\ q \notin pending' /\ Len(replies'[q]) = 1
    <3>1. CASE q = r
      BY <2>5, <2>7, <2>8, <2>9, <2>10, <3>1, Zenon
    <3>2. CASE q # r
      <4>1. Tracked(t, q) <=> Tracked(tracker, q)
        BY <2>9, <3>2 DEF Tracked
      <4> QED
        BY <2>6, <2>8, <2>9, <2>10, <3>2, <4>1, Zenon DEF Accounted, RequestsAccounted
    <3> QED
      BY <3>1, <3>2, Zenon
  <2> QED
    BY <2>11, <2>12, Zenon DEF Accounted, RequestsAccounted
(* Messages that end a request.                                            *)
<1>AccountedEnd.
  ASSUME TypeOK, Accounted, NEW c \in Connections,
         HandleRoleErrorFrames(c) \/ HandleTransferDoneError(c) \/ HandleDecoderResultFrames(c)
  PROVE  Accounted'
  <2> USE <1>AccountedEnd
  <2> DEFINE r == Head(result[c]).id
  <2>1. "FAILED" \in States /\ "DONE" \in States /\ "error" \in Outcomes
    BY Zenon DEF States, TerminalStates, Outcomes
  <2>2. CASE HandleRoleErrorFrames(c)
    <3>1. /\ Receive(c, "error") /\ Finish(tracker, r, "FAILED", "error")
          /\ UNCHANGED <<unsent, frontend>>
      BY <2>2 DEF HandleRoleErrorFrames, CompleteWithError
    <3>2. r \in Requests
      BY <3>1, ReceiveType, Zenon
    <3> QED
      BY <2>1, <3>1, <3>2, <1>AccountedFinish, Zenon
  <2>3. CASE HandleTransferDoneError(c)
    <3>1. /\ Receive(c, "done_error") /\ Finish(tracker, r, "FAILED", "error")
          /\ UNCHANGED <<unsent, frontend>>
      BY <2>3, Zenon DEF HandleTransferDoneError, CompleteWithError
    <3>2. r \in Requests
      BY <3>1, ReceiveType
    <3> QED
      BY <2>1, <3>1, <3>2, <1>AccountedFinish, Zenon
  <2>4. CASE HandleDecoderResultFrames(c)
    <3> DEFINE o == Head(result[c]).outcome
               state == IF o = "ok" THEN "DONE" ELSE "FAILED"
    <3>1. Receive(c, "result")
      BY <2>4, Zenon DEF HandleDecoderResultFrames
    <3>2. r \in Requests /\ o \in Outcomes
      BY <3>1, ReceiveType
    <3>3. Finish(tracker, r, state, o) /\ UNCHANGED <<unsent, frontend>>
      BY <2>4, Zenon DEF HandleDecoderResultFrames
    <3>4. state \in States
      BY <2>1
    <3> HIDE DEF r, o, state
    <3> QED
      BY <3>2, <3>3, <3>4, <1>AccountedFinish
  <2> QED
    BY <2>2, <2>3, <2>4
(* Messages that move a request to its next stage.                         *)
<1>AccountedMove.
  ASSUME TypeOK, Accounted, NEW c \in Connections,
         HandleTransferStaged(c) \/ HandleTransferDone(c)
  PROVE  Accounted'
  <2> USE <1>AccountedMove
  <2> DEFINE r == Head(result[c]).id
  <2>1. \E s1, s2 \in ActiveStates :
          \/ tracker' = Transition(tracker, r, s1)
          \/ tracker' = Transition(Transition(tracker, r, s1), r, s2)
    BY Zenon DEF HandleTransferStaged, HandleTransferDone, ActiveStates
  <2>2. UNCHANGED <<unsent, frontend, pending, replies>>
    BY Zenon DEF HandleTransferStaged, HandleTransferDone
  <2>3. r \in Requests
    <3>1. Receive(c, "staged") \/ Receive(c, "done")
      BY Zenon DEF HandleTransferStaged, HandleTransferDone
    <3> QED
      BY <3>1, ReceiveType
  <2> HIDE DEF r
  <2>4. PICK s1 \in ActiveStates, s2 \in ActiveStates :
          \/ tracker' = Transition(tracker, r, s1)
          \/ tracker' = Transition(Transition(tracker, r, s1), r, s2)
    BY <2>1
  <2> DEFINE t == Transition(tracker, r, s1)
  <2>5. tracker \in [Requests -> RequestRecord] /\ s1 \in States /\ s2 \in States
    BY DEF TypeOK, ServerTypeOK, States
  <2>6. /\ t \in [Requests -> RequestRecord]
        /\ \A q \in Requests : Tracked(t, q) <=> Tracked(tracker, q)
        /\ \A q \in Requests : tracker[q].state \notin TerminalStates
                                => t[q].state \notin TerminalStates
    BY <2>3, <2>5, TransitionType, Zenon
  <2> HIDE DEF t
  <2>7. /\ \A q \in Requests : Tracked(Transition(t, r, s2), q) <=> Tracked(t, q)
        /\ \A q \in Requests : t[q].state \notin TerminalStates
                                => Transition(t, r, s2)[q].state \notin TerminalStates
    BY <2>3, <2>5, <2>6, TransitionType
  <2>8. tracker' = t \/ tracker' = Transition(t, r, s2)
    BY <2>4 DEF t
  <2>9. /\ \A q \in Requests : Tracked(tracker', q) <=> Tracked(tracker, q)
        /\ \A q \in Requests : tracker[q].state \notin TerminalStates
                                => tracker'[q].state \notin TerminalStates
    BY <2>6, <2>7, <2>8
  <2> QED
    BY <2>2, <2>9, <1>AccountedKept
(* A dispatch keeps the request tracked and its client waiting.            *)
<1>AccountedDispatch.
  ASSUME TypeInv, Accounted, NEW role \in Roles, NEW r, NEW state \in ActiveStates,
         Dispatch(role, r, Select(role), state),
         UNCHANGED <<unsent, frontend, pending, replies>>
  PROVE  Accounted'
  <2> USE <1>AccountedDispatch
  <2>1. r \in Requests /\ Select(role) \in Nat
    BY DispatchType, NumType DEF Indices
  <2>2. tracker' = TransitionAt(tracker, r, state, role, Select(role))
    BY DEF Dispatch
  <2>3. /\ \A q \in Requests : Tracked(tracker', q) <=> Tracked(tracker, q)
        /\ \A q \in Requests : tracker[q].state \notin TerminalStates
                                => tracker'[q].state \notin TerminalStates
    BY <2>1, <2>2, TransitionAtType, Zenon DEF TypeInv, TypeOK, ServerTypeOK
  <2> QED
    BY <2>3, <1>AccountedKept
<1> SUFFICES ASSUME TypeInv, Accounted, [Next]_vars PROVE Accounted'
  OBVIOUS
<1>1. CASE Client
  BY <1>1, <1>AccountedClientSend DEF Client, TypeInv
<1>2. CASE Server
  <2> SUFFICES ASSUME ServerNext PROVE Accounted'
    BY <1>2 DEF Server
  <2>1. CASE Poll \/ TimeoutsDone \/ \E role \in Roles : DrainDone(role)
    <3>1. UNCHANGED <<unsent, frontend, pending, replies, tracker>>
      BY <2>1, Zenon DEF Poll, TimeoutsDone, DrainDone, netVars
    <3> QED
      BY <3>1, <1>AccountedKept
  <2>2. CASE \E r \in Requests : HandleTimeout(r)
    BY <2>2, <1>AccountedFinish
    DEF HandleTimeout, CompleteWithError, States, TerminalStates, Outcomes, TypeInv
  <2>3. CASE HandleRoleResult
    <3>1. PICK c \in Connections :
            \/ HandleRoleErrorFrames(c) \/ HandleTransferDoneError(c)
            \/ HandleDecoderResultFrames(c)
            \/ HandleTransferStaged(c) \/ HandleTransferDone(c)
            \/ HandleTransferRegister(c) \/ HandleTransferAllocated(c)
            \/ HandleTransferPushed(c)
      BY <2>3 DEF HandleRoleResult
    <3>2. CASE HandleTransferRegister(c) \/ HandleTransferAllocated(c) \/ HandleTransferPushed(c)
      <4>1. UNCHANGED <<unsent, frontend, pending, replies, tracker>>
        BY <3>2, Zenon DEF HandleTransferRegister, HandleTransferAllocated, HandleTransferPushed
      <4> QED
        BY <4>1, <1>AccountedKept
    <3> QED
      BY <3>1, <3>2, <1>AccountedEnd, <1>AccountedMove DEF TypeInv
  <2>4. CASE DrainEncoder \/ DrainDenoiser \/ DrainDecoder
    BY <2>4, <1>AccountedDispatch
    DEF DrainEncoder, DrainDenoiser, DrainDecoder, DrainReceiver, Roles, ActiveStates
  <2> QED
    BY <2>1, <2>2, <2>3, <2>4, <1>AccountedClientRequest DEF ServerNext, DrainAllQueues
<1>3. CASE Clock \/ Instances \/ UNCHANGED vars
  <2>1. UNCHANGED <<unsent, frontend, pending, replies, tracker>>
    BY <1>3, Zenon DEF Clock, Expire, Instances, InstanceNext, ReceiveThread, ComputeThread,
       EncoderStep, HandleTransferPush, RdmaPush, PrefetchTransferReady, PrefetchControl,
       HandleTransferAlloc, DenoiserCompute, DecoderCompute, vars, netVars, serverVars
  <2> QED
    BY <2>1, <1>AccountedKept
<1> QED
  BY <1>1, <1>2, <1>3 DEF Next, Idle

(* No timeout, error or late message makes DS lose a client or answer one  *)
(* twice, however many instances, requests and slots there are.            *)
THEOREM RequestsAlwaysAccounted == Spec => []RequestsAccounted
<1>1. Init => Accounted
  BY AccountedInit
<1>2. Spec => []TypeInv
  BY TypeInit, TypeNext, PTL DEF Spec
<1>3. Spec => []Accounted
  BY <1>1, <1>2, AccountedNext, PTL DEF Spec
<1> QED
  BY <1>3, PTL DEF Accounted

----------------------------------------------------------------------------
(* Work conservation.  The queues are drained one after the other, so the  *)
(* invariant says which have been when the loop has reached a phase, and   *)
(* that a later drain does not undo an earlier one.                        *)
Drained(role) == tta[role] # <<>> => \A i \in Indices(role) : free[<<role, i>>] = 0

DrainOrder ==
  /\ phase \in {"drain_denoiser", "drain_decoder", "poll"} => Drained("encoder")
  /\ phase \in {"drain_decoder", "poll"} => Drained("denoiser")
  /\ phase = "poll" => Drained("decoder")

(* Every step keeps the order of the drains.                               *)
LEMMA DrainOrderNext == TypeInv /\ DrainOrder /\ [Next]_vars => DrainOrder'
(* Before the drains nothing is claimed.                                   *)
<1>BeforeDrains.
  ASSUME phase' \notin {"drain_denoiser", "drain_decoder", "poll"}
  PROVE  DrainOrder'
    BY <1>BeforeDrains DEF DrainOrder
(* A handler of the loop hands over to another handler or to the first     *)
(* drain.                                                                  *)
<1>HandlersBeforeDrains.
  ASSUME Advance, phase \in {"timeouts"} \cup Sockets
  PROVE  phase' \notin {"drain_denoiser", "drain_decoder", "poll"}
    BY <1>HandlersBeforeDrains, Zenon DEF Advance, NextPhase, AfterTimeouts, AfterFrontend, AfterEncoder, AfterDenoiser,
           Sockets, Roles
(* A dispatch to one role leaves the queue and the slots of the others.    *)
<1>DispatchKeepsDrained.
  ASSUME TypeInv, NEW role \in Roles, NEW r, NEW state \in ActiveStates,
         Dispatch(role, r, Select(role), state),
         NEW other \in Roles, other # role, Drained(other)
  PROVE  Drained(other)'
  <2> USE <1>DispatchKeepsDrained
  <2>1. tta'[other] = tta[other]
    BY SMTT(20) DEF Dispatch, TypeInv, TypeOK, ServerTypeOK
  <2>2. ASSUME NEW i \in Indices(other)
        PROVE  free'[<<other, i>>] = free[<<other, i>>]
    <3>1. <<other, i>> \in Inst /\ <<other, i>> # <<role, Select(role)>>
      BY InstPairs, Zenon
    <3> DEFINE x == <<role, Select(role)>>
               y == <<other, i>>
    <3>2. free' = [free EXCEPT ![x] = @ - 1] /\ free \in [Inst -> Int]
      BY DEF Dispatch, TypeInv, TypeOK, ServerTypeOK
    <3>3. y \in Inst /\ y # x
      BY <3>1
    <3> HIDE DEF x, y
    <3>4. free'[y] = free[y]
      BY <3>2, <3>3
    <3> QED
      BY <3>4, Zenon DEF y
  <2> QED
    BY <2>1, <2>2, Zenon DEF Drained
(* A drain stops only when nothing more can be dispatched.                 *)
<1>DrainDoneDrains.
  ASSUME TypeInv, NEW role \in Roles, DrainDone(role)
  PROVE  Drained(role)
  <2> USE <1>DrainDoneDrains
  <2>1. tta[role] = <<>> \/ Select(role) = NoInstance
    BY Zenon DEF DrainDone
  <2>2. Select(role) = NoInstance => \A i \in Indices(role) : free[<<role, i>>] = 0
    BY SelectType, Zenon
  <2> QED
    BY <2>1, <2>2, Zenon DEF Drained
<1> SUFFICES ASSUME TypeInv, DrainOrder, [Next]_vars PROVE DrainOrder'
  OBVIOUS
<1>1. CASE UNCHANGED <<phase, tta, free>>
  BY <1>1, Zenon DEF DrainOrder, Drained
<1>2. CASE Client \/ Clock \/ Instances \/ UNCHANGED vars
  BY <1>1, <1>2 DEF Client, Clock, Expire, Instances, vars, serverVars
<1>3. CASE Server
  <2> SUFFICES ASSUME ServerNext PROVE DrainOrder'
    BY <1>3 DEF Server
  <2>1. CASE Poll \/ \E r \in Requests : HandleTimeout(r)
    BY <2>1, <1>BeforeDrains DEF Poll, HandleTimeout
  <2>2. CASE TimeoutsDone \/ HandleClientRequest
    <3>1. Advance /\ phase \in {"timeouts"} \cup Sockets
      BY <2>2 DEF TimeoutsDone, HandleClientRequest, Sockets
    <3> QED
      BY <3>1, <1>HandlersBeforeDrains, <1>BeforeDrains
  <2>3. CASE HandleRoleResult
    <3>1. PICK c \in Connections :
            \/ HandleRoleErrorFrames(c) \/ HandleTransferDoneError(c)
            \/ HandleDecoderResultFrames(c)
            \/ HandleTransferStaged(c) \/ HandleTransferDone(c)
            \/ HandleTransferRegister(c) \/ HandleTransferAllocated(c)
            \/ HandleTransferPushed(c)
      BY <2>3 DEF HandleRoleResult
    <3>2. phase \in Roles
      BY <3>1, Zenon DEF HandleRoleErrorFrames, HandleTransferRegister, HandleTransferStaged,
         HandleTransferAllocated, HandleTransferPushed, HandleTransferDoneError,
         HandleTransferDone, HandleDecoderResultFrames, Receive
    <3>3. phase' = "dead" \/ Advance
      <4>1. CASE HandleTransferAllocated(c)
        BY <4>1, Zenon DEF HandleTransferAllocated
      <4>2. CASE ~ HandleTransferAllocated(c)
        BY <3>1, <4>2, Zenon DEF HandleRoleErrorFrames, HandleTransferRegister,
           HandleTransferStaged, HandleTransferPushed, HandleTransferDoneError,
           HandleTransferDone, HandleDecoderResultFrames
      <4> QED
        BY <4>1, <4>2
    <3> QED
      BY <3>2, <3>3, <1>HandlersBeforeDrains, <1>BeforeDrains DEF Sockets
  <2>4. CASE DrainEncoder
    BY <2>4, <1>BeforeDrains DEF DrainEncoder
  <2>5. CASE DrainDenoiser
    <3>1. phase = "drain_denoiser" /\ phase' = "drain_denoiser"
      BY <2>5 DEF DrainDenoiser, DrainReceiver
    <3>2. Drained("encoder")'
      BY <2>5, <3>1, <1>DispatchKeepsDrained
      DEF DrainOrder, DrainDenoiser, DrainReceiver, Roles, ActiveStates
    <3> QED
      BY <3>1, <3>2 DEF DrainOrder
  <2>6. CASE DrainDecoder
    <3>1. phase = "drain_decoder" /\ phase' = "drain_decoder"
      BY <2>6 DEF DrainDecoder, DrainReceiver
    <3>2. Drained("encoder")' /\ Drained("denoiser")'
      BY <2>6, <3>1, <1>DispatchKeepsDrained
      DEF DrainOrder, DrainDecoder, DrainReceiver, Roles, ActiveStates
    <3> QED
      BY <3>1, <3>2 DEF DrainOrder
  <2>7. CASE \E role \in Roles : DrainDone(role)
    <3>1. PICK role \in Roles : DrainDone(role)
      BY <2>7
    <3>2. Drained(role) /\ UNCHANGED <<tta, free>>
      BY <3>1, <1>DrainDoneDrains, Zenon DEF DrainDone
    <3>3. \A other : Drained(other)' <=> Drained(other)
      BY <3>2, Zenon DEF Drained
    <3>4. phase = DrainPhase(role) /\ phase' = NextPhase(phase)
      BY <3>1, Zenon DEF DrainDone, Advance
    <3>5. CASE role = "encoder"
      BY <3>2, <3>3, <3>4, <3>5 DEF DrainOrder, DrainPhase, NextPhase
    <3>6. CASE role = "denoiser"
      BY <3>2, <3>3, <3>4, <3>6 DEF DrainOrder, DrainPhase, NextPhase
    <3>7. CASE role = "decoder"
      BY <3>2, <3>3, <3>4, <3>7 DEF DrainOrder, DrainPhase, NextPhase
    <3> QED
      BY <3>5, <3>6, <3>7 DEF Roles
  <2> QED
    BY <2>1, <2>2, <2>3, <2>4, <2>5, <2>6, <2>7, Zenon DEF ServerNext, DrainAllQueues
<1> QED
  BY <1>2, <1>3 DEF Next, Idle

(* When a turn of the event loop ends, a request is still queued only if   *)
(* no instance of its role has a free slot, under either policy.           *)
THEOREM AlwaysWorkConserving == Spec => []WorkConserving
<1>1. Init => DrainOrder
  BY Zenon DEF Init, ServerInit, DrainOrder, Drained, Roles
<1>2. Spec => []TypeInv
  BY TypeInit, TypeNext, PTL DEF Spec
<1>3. Spec => []DrainOrder
  BY <1>1, <1>2, DrainOrderNext, PTL DEF Spec
<1>4. DrainOrder => WorkConserving
  BY DEF DrainOrder, Drained, WorkConserving, Roles
<1> QED
  BY <1>3, <1>4, PTL

----------------------------------------------------------------------------
(* The pipeline implements the service its clients see.  The refinement    *)
(* needs the invariant behind RequestsAccounted: it is why the early       *)
(* return of _handle_client_request is never taken.                        *)

(* Every step of the pipeline is a step of the service or invisible to it. *)
LEMMA StepRefines ==
  ASSUME TypeInv, Accounted, [Next]_vars
  PROVE  [Service!Next]_(Service!vars)
(* Ending a request is an Answer if its client still waits, and otherwise  *)
(* invisible: _pending.pop decides, whatever the tracker says.             *)
<1>FinishAnswers.
  ASSUME NEW r \in Requests, NEW state, NEW outcome \in Outcomes,
         Finish(tracker, r, state, outcome), UNCHANGED <<unsent, frontend>>
  PROVE  [Service!Next]_(Service!vars)
  <2> USE <1>FinishAnswers
  <2>1. /\ pending' = pending \ {r}
        /\ replies' = IF r \in pending THEN [replies EXCEPT ![r] = Append(@, outcome)] ELSE replies
    BY DEF Finish
  <2>2. CASE r \in pending
    <3>1. Service!Answer(r, outcome)
      BY <2>1, <2>2 DEF Service!Answer
    <3> QED
      BY <3>1 DEF Service!Next
  <2>3. CASE r \notin pending
    BY <2>1, <2>3 DEF Service!vars
  <2> QED
    BY <2>2, <2>3
(* The three messages that end a request.                                  *)
<1>EndAnswers.
  ASSUME TypeOK, NEW c \in Connections,
         HandleRoleErrorFrames(c) \/ HandleTransferDoneError(c) \/ HandleDecoderResultFrames(c)
  PROVE  [Service!Next]_(Service!vars)
  <2> USE <1>EndAnswers
  <2> DEFINE r == Head(result[c]).id
  <2>1. "error" \in Outcomes
    BY Zenon DEF Outcomes
  <2>2. CASE HandleRoleErrorFrames(c)
    <3>1. /\ Receive(c, "error") /\ Finish(tracker, r, "FAILED", "error")
          /\ UNCHANGED <<unsent, frontend>>
      BY <2>2, Zenon DEF HandleRoleErrorFrames, CompleteWithError
    <3>2. r \in Requests
      BY <3>1, ReceiveType
    <3> QED
      BY <2>1, <3>1, <3>2, <1>FinishAnswers, Zenon
  <2>3. CASE HandleTransferDoneError(c)
    <3>1. /\ Receive(c, "done_error") /\ Finish(tracker, r, "FAILED", "error")
          /\ UNCHANGED <<unsent, frontend>>
      BY <2>3, Zenon DEF HandleTransferDoneError, CompleteWithError
    <3>2. r \in Requests
      BY <3>1, ReceiveType
    <3> QED
      BY <2>1, <3>1, <3>2, <1>FinishAnswers, Zenon
  <2>4. CASE HandleDecoderResultFrames(c)
    <3> DEFINE o == Head(result[c]).outcome
               state == IF o = "ok" THEN "DONE" ELSE "FAILED"
    <3>1. Receive(c, "result")
      BY <2>4, Zenon DEF HandleDecoderResultFrames
    <3>2. r \in Requests /\ o \in Outcomes
      BY <3>1, ReceiveType
    <3>3. Finish(tracker, r, state, o) /\ UNCHANGED <<unsent, frontend>>
      BY <2>4, Zenon DEF HandleDecoderResultFrames
    <3> HIDE DEF r, o, state
    <3> QED
      BY <3>2, <3>3, <1>FinishAnswers
  <2> QED
    BY <2>2, <2>3, <2>4
(* Taking a request from the socket is an Accept: an id in the socket is   *)
(* not tracked yet.                                                        *)
<1>ClientRequestAccepts.
  ASSUME TypeInv, Accounted, HandleClientRequest
  PROVE  Service!Accept
  <2> USE <1>ClientRequestAccepts
  <2> DEFINE r == Head(frontend)
  <2>1. frontend \in Seq(Requests) /\ frontend # <<>>
    BY DEF TypeInv, TypeOK, NetworkTypeOK, FrontendReadable, HandleClientRequest
  <2>2. r \in Requests /\ Len(frontend) \in Nat \ {0} /\ frontend[1] = r
    BY <2>1
  <2>3. In(r, frontend)
    BY <2>2 DEF In
  <2>4. ~ Tracked(tracker, r)
    BY <2>2, <2>3, Zenon DEF Accounted, RequestsAccounted
  <2>5. pending' = pending \cup {r} /\ frontend' = Tail(frontend) /\ UNCHANGED <<unsent, replies>>
    BY <2>4 DEF HandleClientRequest
  <2> QED
    BY <2>1, <2>5, Zenon DEF Service!Accept
<1>1. ASSUME UNCHANGED <<unsent, frontend, pending, replies>>
      PROVE  [Service!Next]_(Service!vars)
  BY <1>1 DEF Service!vars
<1>2. CASE Client
  <2>1. PICK r \in Requests : ClientSend(r) /\ UNCHANGED <<serverVars, instVars>>
    BY <1>2 DEF Client
  <2>2. Service!Submit(r)
    BY <2>1 DEF ClientSend, serverVars, Service!Submit
  <2> QED
    BY <2>2 DEF Service!Next
<1>3. CASE Server
  <2> SUFFICES ASSUME ServerNext PROVE [Service!Next]_(Service!vars)
    BY <1>3 DEF Server
  <2>1. CASE Poll \/ TimeoutsDone \/ DrainAllQueues
    <3>1. UNCHANGED <<unsent, frontend, pending, replies>>
      BY <2>1, Zenon DEF Poll, TimeoutsDone, DrainAllQueues, DrainEncoder, DrainDenoiser,
         DrainDecoder, DrainReceiver, DrainDone, netVars
    <3> QED
      BY <3>1, <1>1
  <2>2. CASE \E r \in Requests : HandleTimeout(r)
    BY <2>2, <1>FinishAnswers DEF HandleTimeout, CompleteWithError, Outcomes
  <2>3. CASE HandleClientRequest
    BY <2>3, <1>ClientRequestAccepts DEF Service!Next
  <2>4. CASE HandleRoleResult
    <3>1. PICK c \in Connections :
            \/ HandleRoleErrorFrames(c) \/ HandleTransferDoneError(c)
            \/ HandleDecoderResultFrames(c)
            \/ HandleTransferStaged(c) \/ HandleTransferDone(c)
            \/ HandleTransferRegister(c) \/ HandleTransferAllocated(c)
            \/ HandleTransferPushed(c)
      BY <2>4 DEF HandleRoleResult
    <3>2. CASE \/ HandleTransferStaged(c) \/ HandleTransferDone(c)
               \/ HandleTransferRegister(c) \/ HandleTransferAllocated(c)
               \/ HandleTransferPushed(c)
      <4>1. UNCHANGED <<unsent, frontend, pending, replies>>
        BY <3>2, Zenon DEF HandleTransferStaged, HandleTransferDone, HandleTransferRegister,
           HandleTransferAllocated, HandleTransferPushed
      <4> QED
        BY <4>1, <1>1
    <3> QED
      BY <3>1, <3>2, <1>EndAnswers DEF TypeInv
  <2> QED
    BY <2>1, <2>2, <2>3, <2>4 DEF ServerNext
<1>4. CASE Clock \/ Instances \/ UNCHANGED vars
  <2>1. UNCHANGED <<unsent, frontend, pending, replies>>
    BY <1>4, Zenon DEF Clock, Expire, Instances, InstanceNext, ReceiveThread, ComputeThread,
       EncoderStep, HandleTransferPush, RdmaPush, PrefetchTransferReady, PrefetchControl,
       HandleTransferAlloc, DenoiserCompute, DecoderCompute, vars, netVars, serverVars
  <2> QED
    BY <2>1, <1>1
<1> QED
  BY <1>2, <1>3, <1>4 DEF Next, Idle

(* The event loop of DS, with its timeouts, error paths and late messages, *)
(* implements the client's view: requests are taken in the order sent and  *)
(* answered exactly once.                                                  *)
THEOREM ServiceImplemented == Spec => ImplementsService
<1>1. Init => Service!Init
  BY DEF Init, NetworkInit, ServerInit, Service!Init
<1>2. Init => Accounted
  BY AccountedInit
<1>3. Spec => []TypeInv
  BY TypeInit, TypeNext, PTL DEF Spec
<1>4. Spec => []Accounted
  BY <1>2, <1>3, AccountedNext, PTL DEF Spec
<1>5. TypeInv /\ Accounted /\ [Next]_vars => [Service!Next]_(Service!vars)
  BY StepRefines
<1> QED
  BY <1>1, <1>3, <1>4, <1>5, PTL DEF Spec, ImplementsService, Service!Spec
=============================================================================
