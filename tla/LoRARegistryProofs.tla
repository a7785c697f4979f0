------------------------ MODULE LoRARegistryProofs -------------------------
(* The theorems about the adapter registry.  LoRAUpdateProofs has the      *)
(* invariant of loads and unloads; here are the invariant of the requests  *)
(* that use adapters, the facts about finite sets that the lemmas assume,  *)
(* and the theorems that follow.                                           *)
EXTENDS LoRAUpdateProofs

----------------------------------------------------------------------------
(* Loads and unloads, whatever requests come.                              *)

(* At first no task is updating and the registry is what was loaded.       *)
LEMMA InitUpdateInv == Init => UpdateInv
(* The adapters loaded at first have ids of their own.                     *)
<1>InitialRegistry.
      ASSUME Init
      PROVE  /\ Sound(registry) /\ Len(registry) = Len(Loaded0)
             /\ \A r \in Range(registry) : r.id <= last_id
             /\ \A r, s \in Range(registry) : r.id = s.id => r = s
             /\ last_id \in 0 .. MaxId
  <2> USE <1>InitialRegistry
  <2> DEFINE n == Len(Loaded0)
  <2>1. /\ Loaded0 \in Seq(Names) /\ DOMAIN Loaded0 = 1 .. n /\ n \in Nat /\ n <= MaxId
        /\ MaxId \in Nat /\ \A i, j \in 1 .. n : Loaded0[i] = Loaded0[j] => i = j
    BY RegistryAssumption DEF IsInjective
  <2>2. registry = [i \in 1 .. n |-> [name |-> Loaded0[i], id |-> i]] /\ last_id = n
    BY DEF Init
  <2>3. \A i \in 1 .. n : Loaded0[i] \in Names /\ i \in Ids
    BY <2>1 DEF Ids
  <2> HIDE DEF n
  <2>4. registry \in Seq(LoRARef) /\ Len(registry) = n /\ DOMAIN registry = 1 .. n
    BY <2>1, <2>2, <2>3 DEF LoRARef
  <2>5. \A i \in 1 .. n : registry[i].name = Loaded0[i] /\ registry[i].id = i
    BY <2>2
  <2>6. UniqueNames(registry)
    BY <2>1, <2>4, <2>5 DEF UniqueNames
  <2>7. \A r \in Range(registry) : \E i \in 1 .. n : r = registry[i]
    BY <2>4 DEF Range
  <2>8. \A r \in Range(registry) : r.id <= n
    BY <2>1, <2>5, <2>7
  <2>9. \A r, s \in Range(registry) : r.id = s.id => r = s
    BY <2>5, <2>7
  <2> QED
    BY <2>1, <2>2, <2>4, <2>6, <2>8, <2>9, SMTT(20) DEF Sound, n
<1> SUFFICES ASSUME Init PROVE UpdateInv
  OBVIOUS
<1>1. /\ Sound(registry) /\ Len(registry) = Len(Loaded0)
      /\ \A r \in Range(registry) : r.id <= last_id
      /\ \A r, s \in Range(registry) : r.id = s.id => r = s
      /\ last_id \in 0 .. MaxId
  BY <1>InitialRegistry
<1>2. /\ workload \in Workloads /\ loaded = Range(registry)
      /\ counters = [i \in Ids |-> 0] /\ dropped = {} /\ lock = <<>>
      /\ pc = [t \in Tasks |-> "start"]
      /\ todo = [t \in Tasks |-> <<>>] /\ victim = [t \in Tasks |-> NoId]
      /\ ids = [t \in Requests |-> <<>>]
      /\ running = [t \in Requests |-> {}] /\ known = [t \in Requests |-> DOMAIN Wants[t]]
      /\ owed = [i \in Ids |-> 0]
  BY DEF Init
<1>3. \A t \in Requests : DOMAIN Wants[t] \in SUBSET Nat
  <2>1. Wants \in [DOMAIN Wants -> Seq(Names) \ {<<>>}]
    BY <1>2, RegistryAssumption, Zenon DEF Wants
  <2>2. \A t \in Requests : Wants[t] \in Seq(Names)
    BY <2>1, Zenon DEF Requests
  <2> QED
    BY <2>2
<1>4. TypeOK
  <2>1. registry \in Seq(LoRARef) /\ loaded \subseteq LoRARef
    BY <1>1, <1>2, Elements DEF Sound
  <2>2. /\ lock \in Seq(Tasks)
        /\ pc \in [Tasks -> {"start", "queued", "loading", "waiting", "unloading", "counting",
                             "acquired", "running", "failed", "done"}]
        /\ todo \in [Tasks -> Seq(Names)] /\ victim \in [Tasks -> Ids \cup {NoId}]
    BY <1>2
  <2>3. counters \in [Ids -> Int] /\ owed \in [Ids -> Nat]
    BY <1>2
  <2>4. known \in [Requests -> SUBSET Nat]
    BY <1>2, <1>3
  <2>5. ids \in [Requests -> Seq(Ids)] /\ running \in [Requests -> SUBSET Nat]
    BY <1>2
  <2> QED
    BY <1>1, <1>2, <2>1, <2>2, <2>3, <2>4, <2>5 DEF TypeOK
<1>5. \A t \in Tasks : pc[t] = "start"
  BY <1>2
<1>6. LockInv
  BY <1>2, <1>5 DEF LockInv, Updating
<1>7. TodoInv
  <2>1. \A t \in Requests : t \in Tasks /\ todo[t] = <<>>
    BY <1>2 DEF Tasks
  <2>2. \A S : <<>> \in Seq(S)
    OBVIOUS
  <2>3. \A t \in Requests : todo[t] \in Seq(Range(Wants[t]))
    BY <2>1, <2>2, Zenon
  <2>4. \A t \in Unloads : pc[t] = "start"
    BY <1>5 DEF Tasks
  <2>5. \A t \in Requests : pc[t] \notin Updating
    BY <1>5, <2>1 DEF Updating
  <2> QED
    BY <2>3, <2>4, <2>5 DEF TodoInv
<1>8. RegistryInv
  <2>1. Staying = loaded
    BY <1>5 DEF Staying, Evicting
  <2>2. Len(registry) <= MaxLoaded
    BY <1>1, RegistryAssumption
  <2>3. \A t \in Requests : pc[t] \notin Evicting
    BY <1>5 DEF Tasks, Evicting
  <2> QED
    BY <1>1, <1>2, <2>1, <2>2, <2>3 DEF RegistryInv
<1>9. DroppedInv
  BY <1>2, <1>5 DEF DroppedInv
<1> QED
  BY <1>4, <1>6, <1>7, <1>8, <1>9 DEF UpdateInv

(* A step that is elsewhere keeps the invariant.                           *)
LEMMA ElsewhereKeeps ==
  ASSUME Facts, FullHasUnpinned, RangesAreFinite, UpdateInv, Elsewhere
  PROVE  UpdateInv'
  BY UpdatesKeep

(* Every step keeps the invariant of loads and unloads.                    *)
LEMMA NextUpdateInv ==
  ASSUME Facts, FullHasUnpinned, RangesAreFinite
  PROVE  UpdateInv /\ [Next]_vars => UpdateInv'
<1>ServeKeeps.
      ASSUME UpdateInv, workload' = workload, NEW t \in Requests, Serve(t) \/ EndsEarly(t)
      PROVE  UpdateInv'
  <2> USE <1>ServeKeeps
  <2>1. /\ TypeOK /\ t \in Tasks /\ pc \in [Tasks -> Points]
        /\ counters \in [Ids -> Int] /\ running \in [Requests -> SUBSET Nat]
        /\ known \in [Requests -> SUBSET Nat] /\ owed \in [Ids -> Nat]
        /\ ids[t] \in Seq(Ids) /\ Prompts(t) \subseteq Nat
    <3>1. TypeOK
      BY DEF UpdateInv
    <3>2. Prompts(t) \subseteq Nat
      BY <3>1, RequestsAre DEF Prompts
    <3> QED
      BY <3>1, <3>2 DEF TypeOK, Tasks, Points
  <2>2. CASE CountUses(t)
    <3>1. Counted(counters, ids[t]) \in [Ids -> Int]
      BY <2>1, CountedIs, Zenon
    <3>2. /\ pc[t] = "counting" /\ counters' = Counted(counters, ids[t])
          /\ pc' = [pc EXCEPT ![t] = "acquired"]
          /\ UNCHANGED <<registry, dropped, loaded, last_id, lock, todo, victim, ids,
                         running, known, owed>>
      BY <2>2 DEF CountUses, Goto, useVars
    <3>3. pc' \in [Tasks -> Points] /\ \A u \in Tasks : pc'[u] = IF u = t THEN "acquired" ELSE pc[u]
      BY <2>1, <3>2, Goes, Zenon DEF Points
    <3> QED
      BY <2>1, <3>1, <3>2, <3>3, ElsewhereKeeps, Zenon DEF Elsewhere
  <2>3. CASE Send(t)
    <3>1. /\ pc[t] = "acquired" /\ running' = [running EXCEPT ![t] = Prompts(t)]
          /\ pc' = [pc EXCEPT ![t] = "running"]
          /\ UNCHANGED <<registry, counters, dropped, loaded, last_id, lock, todo, victim, ids,
                         known, owed>>
      BY <2>3 DEF Send, Goto, updateVars
    <3>2. pc' \in [Tasks -> Points] /\ \A u \in Tasks : pc'[u] = IF u = t THEN "running" ELSE pc[u]
      BY <2>1, <3>1, Goes, Zenon DEF Points
    <3>3. running' \in [Requests -> SUBSET Nat]
      BY <2>1, <3>1, SMTT(20)
    <3> QED
      BY <2>1, <3>1, <3>2, <3>3, ElsewhereKeeps, Zenon DEF Elsewhere
  <2>4. CASE Reject(t)
    <3>1. /\ pc[t] = "acquired" /\ known' = [known EXCEPT ![t] = {}]
          /\ pc' = [pc EXCEPT ![t] = "failed"]
          /\ UNCHANGED <<registry, counters, dropped, loaded, last_id, lock, todo, victim, ids,
                         running, owed>>
      BY <2>4 DEF Reject, Refuse, Goto, updateVars
    <3>2. pc' \in [Tasks -> Points] /\ \A u \in Tasks : pc'[u] = IF u = t THEN "failed" ELSE pc[u]
      BY <2>1, <3>1, Goes, Zenon DEF Points
    <3>3. known' \in [Requests -> SUBSET Nat]
      BY <2>1, <3>1
    <3> QED
      BY <2>1, <3>1, <3>2, <3>3, ElsewhereKeeps, Zenon DEF Elsewhere
  <2>5. CASE Disconnect(t)
    <3>1. /\ known' = [known EXCEPT ![t] = @ \ Prompts(t)]
          /\ UNCHANGED <<registry, counters, dropped, loaded, last_id, lock, todo, victim, ids,
                         pc, running, owed>>
      BY <2>5, Zenon DEF Disconnect, Forget, updateVars
    <3>2. known' \in [Requests -> SUBSET Nat]
      BY <2>1, <3>1, SMTT(20)
    <3> QED
      BY <2>1, <3>1, <3>2, ElsewhereKeeps, Zenon DEF Elsewhere
  <2>6. ASSUME NEW i \in Prompts(t), HandleBatchOutput(t, i) \/ HandleAbortReq(t, i)
        PROVE  UpdateInv'
    <3>1. /\ running' = [running EXCEPT ![t] = @ \ {i}] /\ known' = [known EXCEPT ![t] = @ \ {i}]
          /\ \/ owed' = owed
             \/ \E n \in Nat : owed' = [owed EXCEPT ![ids[t][i]] = @ + n]
          /\ UNCHANGED <<registry, counters, dropped, loaded, last_id, lock, todo, victim, ids, pc>>
      BY <2>6, Zenon DEF HandleBatchOutput, HandleAbortReq, Ends, Forget, Owe, updateVars
    <3>2. running' \in [Requests -> SUBSET Nat] /\ known' \in [Requests -> SUBSET Nat]
      BY <2>1, <3>1, Zenon
    <3>3. owed' \in [Ids -> Nat]
      <4>1. CASE owed' = owed
        BY <2>1, <4>1
      <4>2. ASSUME NEW n \in Nat, owed' = [owed EXCEPT ![ids[t][i]] = @ + n]
            PROVE  owed' \in [Ids -> Nat]
        <5> DEFINE id == ids[t][i]
        <5>1. owed \in [Ids -> Nat] /\ owed' = [owed EXCEPT ![id] = @ + n]
          BY <2>1, <4>2
        <5> HIDE DEF id
        <5>2. owed' = [k \in Ids |-> IF k = id THEN owed[k] + n ELSE owed[k]]
          BY <5>1, Zenon
        <5>3. \A k \in Ids : owed[k] \in Nat /\ owed[k] + n \in Nat
          BY <5>1
        <5> QED
          BY <5>2, <5>3, Zenon
      <4> QED
        BY <3>1, <4>1, <4>2
    <3> QED
      BY <2>1, <3>1, <3>2, <3>3, ElsewhereKeeps, Zenon DEF Elsewhere
  <2> QED
    BY <2>2, <2>3, <2>4, <2>5, <2>6, SMTT(20) DEF Serve, EndsEarly
<1>ReleaseKeeps.
      ASSUME UpdateInv, workload' = workload, NEW id \in Ids, Release(id)
      PROVE  UpdateInv'
  <2> USE <1>ReleaseKeeps
  <2>1. /\ pc \in [Tasks -> Points] /\ counters \in [Ids -> Int]
        /\ running \in [Requests -> SUBSET Nat]
        /\ known \in [Requests -> SUBSET Nat] /\ owed \in [Ids -> Nat]
    BY DEF UpdateInv, TypeOK, Points
  <2>2. owed' \in [Ids -> Nat] /\ counters' \in [Ids -> Int]
    BY <2>1 DEF Release
  <2> QED
    BY <2>1, <2>2, ElsewhereKeeps DEF Elsewhere, Release
<1> SUFFICES ASSUME UpdateInv, [Next]_vars PROVE UpdateInv'
  OBVIOUS
<1>1. workload' = workload
  BY DEF Next, vars
<1>2. ASSUME NEW t \in Tasks, Updates(t) PROVE UpdateInv'
  BY <1>1, <1>2, UpdatesKeep
<1>3. ASSUME NEW t \in Requests, Serve(t) \/ EndsEarly(t) PROVE UpdateInv'
  BY <1>1, <1>3, <1>ServeKeeps
<1>4. ASSUME NEW id \in Ids, Release(id) PROVE UpdateInv'
  BY <1>1, <1>4, <1>ReleaseKeeps
<1>5. CASE UNCHANGED vars
  <2>1. UNCHANGED <<registry, dropped, loaded, last_id, lock, todo, victim, ids, pc, counters,
                    running, known, owed>>
    BY <1>5, Zenon DEF vars, updateVars, useVars
  <2>2. /\ pc \in [Tasks -> Points] /\ counters \in [Ids -> Int]
        /\ running \in [Requests -> SUBSET Nat]
        /\ known \in [Requests -> SUBSET Nat] /\ owed \in [Ids -> Nat]
    BY DEF UpdateInv, TypeOK, Points
  <2> QED
    BY <1>1, <2>1, <2>2, ElsewhereKeeps DEF Elsewhere
<1> QED
  BY <1>2, <1>3, <1>4, <1>5, Zenon DEF Next, Progress

----------------------------------------------------------------------------
(* Requests and their uses, when requests name one adapter each.           *)

(* A request is not refused; it uses one adapter from the acquire until    *)
(* its prompt ends, and the backend has the adapter with its counter.      *)
UseInv ==
  \A t \in Requests :
    /\ pc[t] \notin {"failed", "counting"}
    /\ pc[t] \in {"acquired", "running"} => Len(ids[t]) = 1
    /\ running[t] \subseteq known[t] /\ known[t] \subseteq {1}
    /\ pc[t] # "running" => running[t] = {} /\ known[t] = {1}
    /\ Uses(t, 1) => ids[t][1] \notin dropped /\ \E r \in loaded : r.id = ids[t][1]

(* The counters are exact, and uses can be counted.                        *)
ExactInv ==
  \A id \in Ids :
    /\ IsFiniteSet(UsesOf(id))
    /\ id \notin dropped => counters[id] = Cardinality(UsesOf(id)) + owed[id]

(* The uses of an adapter, by the request.                                 *)
UsedBy(id) == {u \in Requests : Uses(u, 1) /\ ids[u][1] = id}

(* The inductive invariant when requests name one adapter each.            *)
RegularInv == UpdateInv /\ Regular /\ UseInv /\ ExactInv

(* Uses that stay as they are.                                             *)
SameUse(u) == (Uses(u, 1)' <=> Uses(u, 1)) /\ (Uses(u, 1) => ids'[u][1] = ids[u][1])

(* A request that names one adapter has one prompt.                        *)
LEMMA OnePrompt ==
  ASSUME TypeOK, Regular, NEW t \in Requests
  PROVE  /\ Wants[t] \in Seq(Names) /\ Len(Wants[t]) = 1 /\ Prompts(t) = {1}
         /\ Range(Wants[t]) = {Wants[t][1]}
<1>1. Wants[t] \in Seq(Names) /\ Len(Wants[t]) = 1
  BY RequestsAre DEF Regular
<1>2. DOMAIN Wants[t] = {1}
  BY <1>1
<1> QED
  BY <1>1, <1>2 DEF Prompts, Range

(* So the uses of an adapter are its requests.                             *)
LEMMA UsesOfIs ==
  TypeOK /\ Regular => \A id : UsesOf(id) = {<<t, 1>> : t \in UsedBy(id)}
<1> SUFFICES ASSUME TypeOK, Regular, NEW id
             PROVE  UsesOf(id) = {<<t, 1>> : t \in UsedBy(id)}
  OBVIOUS
<1>1. \A t \in Requests : Prompts(t) = {1}
  BY OnePrompt
<1>2. \A t \in Requests :
        {<<t, i>> : i \in {j \in Prompts(t) : Uses(t, j) /\ ids[t][j] = id}} =
          IF Uses(t, 1) /\ ids[t][1] = id THEN {<<t, 1>>} ELSE {}
  BY <1>1
<1>3. UsesOf(id) = UNION {IF Uses(t, 1) /\ ids[t][1] = id THEN {<<t, 1>>} ELSE {} : t \in Requests}
  BY <1>2 DEF UsesOf
<1> QED
  BY <1>3 DEF UsedBy

(* At first nothing is used.                                               *)
LEMMA InitRegularInv ==
  ASSUME Facts
  PROVE  Init => (Regular => RegularInv)
<1> SUFFICES ASSUME Init, Regular PROVE RegularInv
  OBVIOUS
<1>1. UpdateInv /\ TypeOK
  BY InitUpdateInv DEF UpdateInv
<1>2. /\ \A t \in Requests : pc[t] = "start" /\ ids[t] = <<>> /\ running[t] = {}
                             /\ known[t] = DOMAIN Wants[t]
      /\ \A id \in Ids : counters[id] = 0 /\ owed[id] = 0
  BY DEF Init, Tasks
<1>3. \A t \in Requests : known[t] = {1}
  BY <1>1, <1>2, OnePrompt DEF Prompts
<1>4. \A t \in Requests : ~ Uses(t, 1)
  BY <1>2 DEF Uses
<1>5. UseInv
  BY <1>2, <1>3, <1>4 DEF UseInv
<1>6. \A id : UsesOf(id) = {}
  <2>1. \A id : UsedBy(id) = {}
    BY <1>4 DEF UsedBy
  <2> QED
    BY <1>1, <2>1, UsesOfIs
<1>7. ExactInv
  BY <1>2, <1>6, Finite DEF ExactInv, Facts
<1> QED
  BY <1>1, <1>5, <1>7 DEF RegularInv

(* Every step keeps the invariant of the uses; one nested step per action. *)
LEMMA NextRegularInv ==
  ASSUME Facts, FullHasUnpinned, RangesAreFinite
  PROVE  UpdateInv /\ (Regular => RegularInv) /\ [Next]_vars => (Regular => RegularInv)'
(* Before and after a step.                                                *)
<1>UsesBoth.
      ASSUME TypeOK, TypeOK', Regular, workload' = workload
      PROVE  /\ \A id : UsesOf(id) = {<<t, 1>> : t \in UsedBy(id)}
             /\ \A id : UsesOf(id)' = {<<t, 1>> : t \in UsedBy(id)'}
  <2> USE <1>UsesBoth
  <2>1. (TypeOK /\ Regular => \A id : UsesOf(id) = {<<t, 1>> : t \in UsedBy(id)})'
    BY UsesOfIs, PTL
  <2> QED
    BY <2>1, UsesOfIs, SameRequests
<1>UsesSame.
      ASSUME TypeOK, TypeOK', Regular, workload' = workload, \A u \in Requests : SameUse(u)
      PROVE  \A id : UsesOf(id)' = UsesOf(id)
  <2> USE <1>UsesSame
  <2>1. \A id : UsedBy(id)' = UsedBy(id)
    BY SameRequests DEF UsedBy, SameUse
  <2> QED
    BY <2>1, <1>UsesBoth
(* A use begins.                                                           *)
<1>UseBegins.
      ASSUME TypeOK, TypeOK', Regular, workload' = workload,
             NEW t \in Requests, ~ Uses(t, 1), Uses(t, 1)', \A u \in Requests \ {t} : SameUse(u)
      PROVE  \A id : /\ <<t, 1>> \notin UsesOf(id)
                     /\ UsesOf(id)' = IF id = ids'[t][1] THEN UsesOf(id) \cup {<<t, 1>>} ELSE UsesOf(id)
  <2> USE <1>UseBegins
  <2>1. \A id : UsedBy(id)' = IF id = ids'[t][1] THEN UsedBy(id) \cup {t} ELSE UsedBy(id)
    BY SameRequests DEF UsedBy, SameUse
  <2>2. \A id : t \notin UsedBy(id)
    BY DEF UsedBy
  <2> SUFFICES ASSUME NEW id
               PROVE  /\ <<t, 1>> \notin UsesOf(id)
                      /\ UsesOf(id)' = IF id = ids'[t][1] THEN UsesOf(id) \cup {<<t, 1>>}
                                                         ELSE UsesOf(id)
    OBVIOUS
  <2>3. UsesOf(id) = {<<u, 1>> : u \in UsedBy(id)} /\ UsesOf(id)' = {<<u, 1>> : u \in UsedBy(id)'}
    BY <1>UsesBoth
  <2>4. <<t, 1>> \notin UsesOf(id)
    BY <2>2, <2>3
  <2>5. CASE id = ids'[t][1]
    <3>1. UsedBy(id)' = UsedBy(id) \cup {t}
      BY <2>1, <2>5
    <3>2. {<<u, 1>> : u \in UsedBy(id) \cup {t}} = {<<u, 1>> : u \in UsedBy(id)} \cup {<<t, 1>>}
      OBVIOUS
    <3> QED
      BY <2>3, <2>4, <2>5, <3>1, <3>2
  <2>6. CASE id # ids'[t][1]
    BY <2>1, <2>3, <2>4, <2>6
  <2> QED
    BY <2>5, <2>6
(* A use ends.                                                             *)
<1>UseEnds.
      ASSUME TypeOK, TypeOK', Regular, workload' = workload,
             NEW t \in Requests, Uses(t, 1), ~ Uses(t, 1)', \A u \in Requests \ {t} : SameUse(u)
      PROVE  \A id : /\ <<t, 1>> \in UsesOf(id) <=> id = ids[t][1]
                     /\ UsesOf(id)' = IF id = ids[t][1] THEN UsesOf(id) \ {<<t, 1>>} ELSE UsesOf(id)
  <2> USE <1>UseEnds
  <2>1. \A id : UsedBy(id)' = IF id = ids[t][1] THEN UsedBy(id) \ {t} ELSE UsedBy(id)
    BY SameRequests DEF UsedBy, SameUse
  <2>2. \A id : t \in UsedBy(id) <=> id = ids[t][1]
    BY DEF UsedBy
  <2> SUFFICES ASSUME NEW id
               PROVE  /\ <<t, 1>> \in UsesOf(id) <=> id = ids[t][1]
                      /\ UsesOf(id)' = IF id = ids[t][1] THEN UsesOf(id) \ {<<t, 1>>}
                                                        ELSE UsesOf(id)
    OBVIOUS
  <2>3. UsesOf(id) = {<<u, 1>> : u \in UsedBy(id)} /\ UsesOf(id)' = {<<u, 1>> : u \in UsedBy(id)'}
    BY <1>UsesBoth
  <2>4. <<t, 1>> \in UsesOf(id) <=> id = ids[t][1]
    BY <2>2, <2>3
  <2>5. CASE id = ids[t][1]
    <3>1. UsedBy(id)' = UsedBy(id) \ {t}
      BY <2>1, <2>5
    <3>2. {<<u, 1>> : u \in UsedBy(id) \ {t}} = {<<u, 1>> : u \in UsedBy(id)} \ {<<t, 1>>}
      OBVIOUS
    <3> QED
      BY <2>3, <2>4, <2>5, <3>1, <3>2
  <2>6. CASE id # ids[t][1]
    BY <2>1, <2>3, <2>4, <2>6
  <2> QED
    BY <2>5, <2>6
(* An adapter whose counter is zero and has not been deleted is in no use. *)
<1>ZeroUnused.
      ASSUME RegularInv, NEW t \in Requests, Uses(t, 1), ids[t][1] \in Ids \ dropped
      PROVE  counters[ids[t][1]] # 0
  <2> USE <1>ZeroUnused
  <2> DEFINE id == ids[t][1]
  <2>1. TypeOK /\ Regular
    BY DEF RegularInv, UpdateInv
  <2>2. <<t, 1>> \in UsesOf(id)
    BY <2>1, UsesOfIs DEF UsedBy
  <2>3. /\ IsFiniteSet(UsesOf(id)) /\ counters[id] = Cardinality(UsesOf(id)) + owed[id]
        /\ owed[id] \in Nat
    BY <2>1 DEF RegularInv, ExactInv, TypeOK
  <2> HIDE DEF id
  <2>4. Cardinality(UsesOf(id)) \in Nat /\ Cardinality(UsesOf(id)) # 0
    BY <2>2, <2>3, Finite
  <2> QED
    BY <2>3, <2>4 DEF id
(* Loads and unloads other than the acquire: the requests concerned do not *)
(* use an adapter yet, counters are deleted that are zero, and the backend *)
(* loses adapters whose counter has been deleted.                          *)
<1>UpdateKeepsUses.
      ASSUME RegularInv, UpdateInv',
             UNCHANGED <<workload, ids, counters, running, known, owed>>,
             \A u \in Requests : \/ pc'[u] = pc[u]
                                 \/ /\ pc[u] \notin {"acquired", "running"}
                                    /\ pc'[u] \notin {"acquired", "running", "failed", "counting"},
             dropped \subseteq dropped', \A id \in dropped' \ dropped : counters[id] = 0,
             \A r \in loaded : r.id \notin dropped => r \in loaded'
      PROVE  RegularInv'
  <2> USE <1>UpdateKeepsUses
  <2>1. /\ TypeOK /\ TypeOK' /\ Regular /\ Regular' /\ UseInv /\ ExactInv
        /\ Requests' = Requests
    BY SameRequests DEF RegularInv, UpdateInv
  <2>2. \A u \in Requests : SameUse(u)
    BY DEF SameUse, Uses
  <2>3. \A id : UsesOf(id)' = UsesOf(id)
    BY <2>1, <2>2, <1>UsesSame
  <2>4. ExactInv'
    BY <2>1, <2>3 DEF ExactInv
  <2>5. ASSUME NEW t \in Requests, Uses(t, 1)'
        PROVE  ids'[t][1] \notin dropped' /\ \E r \in loaded' : r.id = ids'[t][1]
    <3>1. Uses(t, 1) /\ ids'[t][1] = ids[t][1]
      BY <2>2, <2>5 DEF SameUse
    <3>2. ids[t][1] \notin dropped /\ \E r \in loaded : r.id = ids[t][1]
      BY <2>1, <3>1 DEF UseInv
    <3>3. ids[t][1] \in Ids
      BY <2>1, <3>2 DEF TypeOK, LoRARef
    <3>4. ids[t][1] \notin dropped'
      BY <3>1, <3>2, <3>3, <1>ZeroUnused, Zenon
    <3> QED
      BY <3>1, <3>2, <3>4
  <2>6. UseInv'
    <3>1. ASSUME NEW t \in Requests
          PROVE  /\ pc'[t] \notin {"failed", "counting"}
                 /\ pc'[t] \in {"acquired", "running"} => Len(ids'[t]) = 1
                 /\ running'[t] \subseteq known'[t] /\ known'[t] \subseteq {1}
                 /\ pc'[t] # "running" => running'[t] = {} /\ known'[t] = {1}
      BY <2>1 DEF UseInv
    <3> QED
      BY <2>1, <2>5, <3>1, Zenon DEF UseInv
  <2> QED
    BY <2>1, <2>4, <2>6 DEF RegularInv
(* The ids of a request that names one adapter.                            *)
<1>OneElement.
      ASSUME NEW S, NEW x \in S
      PROVE  /\ [i \in {1} |-> x] \in Seq(S) /\ Len([i \in {1} |-> x]) = 1
             /\ [i \in {1} |-> x][1] = x
  <2> USE <1>OneElement
  <2>1. <<x>> \in Seq(S) /\ Len(<<x>>) = 1 /\ DOMAIN <<x>> = {1} /\ <<x>>[1] = x
    OBVIOUS
  <2>2. <<x>> = [i \in {1} |-> x]
    OBVIOUS
  <2> QED
    BY <2>1, <2>2, Zenon
(* The acquire of a request whose adapter is registered: the use begins    *)
(* with the increment of the counter.                                      *)
<1>AcquireKeepsUses.
      ASSUME RegularInv, UpdateInv', NEW t \in Requests, pc[t] \notin {"acquired", "running"},
             NEW reg, Sound(reg), Acquire(t, reg), Registered(reg, Wants[t][1]),
             Range(reg) \subseteq loaded', \A r \in Range(reg) : r.id \notin dropped,
             UNCHANGED <<workload, dropped, running, owed>>,
             \A r \in loaded : r.id \notin dropped => r \in loaded'
      PROVE  RegularInv'
  <2> USE <1>AcquireKeepsUses
  <2> DEFINE w == Wants[t]
             found == [i \in Prompts(t) |-> IdOf(reg, w[i])]
             id0 == IdOf(reg, w[1])
  <2>1. /\ TypeOK /\ TypeOK' /\ Regular /\ Regular' /\ UseInv /\ ExactInv
        /\ Requests' = Requests /\ t \in Tasks
    BY SameRequests, Zenon DEF RegularInv, UpdateInv, Tasks
  <2>2. w \in Seq(Names) /\ Len(w) = 1 /\ Prompts(t) = {1}
    BY <2>1, OnePrompt
  <2>3. /\ ids' = [ids EXCEPT ![t] = found] /\ pc' = [pc EXCEPT ![t] = "acquired"]
        /\ counters' = Counted(counters, found) /\ known' = known
    <3>1. ~ \E i \in Prompts(t) : ~ Registered(reg, w[i])
      BY <2>2
    <3> QED
      BY <2>2, <3>1, Zenon DEF Acquire, Goto
  <2>4. PICK ref \in Range(reg) : ref \in LoRARef /\ ref.id = id0
    BY IdIs
  <2>5. id0 \in Ids /\ id0 \notin dropped /\ \E r \in loaded' : r.id = id0
    BY <2>4 DEF LoRARef
  <2> HIDE DEF id0
  <2>6. found = [i \in {1} |-> id0] /\ found \in Seq(Ids) /\ Len(found) = 1 /\ found[1] = id0
    <3>1. found = [i \in {1} |-> id0]
      BY <2>2 DEF id0
    <3> HIDE DEF found
    <3> QED
      BY <2>5, <3>1, <1>OneElement, Zenon
  <2> HIDE DEF found
  <2>7. counters' = [counters EXCEPT ![id0] = @ + 1]
    <3>1. counters \in [Ids -> Int]
      BY <2>1 DEF TypeOK
    <3> QED
      BY <2>3, <2>6, <3>1, CountedIs, Zenon
  <2>8. /\ \A u \in Requests \ {t} : pc'[u] = pc[u] /\ ids'[u] = ids[u]
        /\ pc'[t] = "acquired" /\ ids'[t] = found
    BY <2>1, <2>3, Zenon DEF TypeOK, Tasks
  <2>9. ~ Uses(t, 1) /\ Uses(t, 1)' /\ \A u \in Requests \ {t} : SameUse(u)
    <3>1. ~ Uses(t, 1)
      BY <2>1, Zenon DEF UseInv, Uses
    <3>2. Uses(t, 1)'
      BY <2>6, <2>8 DEF Uses
    <3>3. \A u \in Requests \ {t} : SameUse(u)
      BY <2>8 DEF SameUse, Uses
    <3> QED
      BY <3>1, <3>2, <3>3, Zenon
  <2>10. \A id : /\ <<t, 1>> \notin UsesOf(id)
                 /\ UsesOf(id)' = IF id = id0 THEN UsesOf(id) \cup {<<t, 1>>} ELSE UsesOf(id)
    <3>1. ids'[t][1] = id0
      BY <2>6, <2>8
    <3> QED
      BY <2>1, <2>9, <3>1, <1>UseBegins, Zenon
  <2>11. ExactInv'
    <3> SUFFICES ASSUME NEW id \in Ids
                 PROVE  /\ IsFiniteSet(UsesOf(id)')
                        /\ id \notin dropped' => counters'[id] = Cardinality(UsesOf(id)') + owed'[id]
      BY DEF ExactInv
    <3>1. /\ IsFiniteSet(UsesOf(id)) /\ counters \in [Ids -> Int] /\ owed[id] \in Nat
          /\ id \notin dropped => counters[id] = Cardinality(UsesOf(id)) + owed[id]
          /\ Cardinality(UsesOf(id)) \in Nat
      BY <2>1, Finite, Zenon DEF ExactInv, TypeOK
    <3>2. CASE id = id0
      <4>1. UsesOf(id)' = UsesOf(id) \cup {<<t, 1>>} /\ <<t, 1>> \notin UsesOf(id)
        BY <2>10, <3>2
      <4>2. IsFiniteSet(UsesOf(id)') /\ Cardinality(UsesOf(id)') = Cardinality(UsesOf(id)) + 1
        <5>1. /\ IsFiniteSet(UsesOf(id) \cup {<<t, 1>>})
              /\ Cardinality(UsesOf(id) \cup {<<t, 1>>}) = Cardinality(UsesOf(id)) + 1
          <6> DEFINE S == UsesOf(id)
          <6>1. IsFiniteSet(S) /\ <<t, 1>> \notin S
            BY <3>1, <4>1
          <6> HIDE DEF S
          <6>2. IsFiniteSet(S \cup {<<t, 1>>}) /\ Cardinality(S \cup {<<t, 1>>}) = Cardinality(S) + 1
            BY <6>1, CountChanged
          <6> QED
            BY <6>2 DEF S
        <5> QED
          BY <4>1, <5>1, Zenon
      <4>3. counters'[id] = counters[id] + 1
        BY <2>7, <3>1, <3>2, Zenon
      <4> QED
        BY <3>1, <4>2, <4>3
    <3>3. CASE id # id0
      <4>1. UsesOf(id)' = UsesOf(id)
        BY <2>10, <3>3, Zenon
      <4>2. counters'[id] = counters[id]
        BY <2>7, <3>1, <3>3, Zenon
      <4> QED
        BY <3>1, <4>1, <4>2, Zenon
    <3> QED
      BY <3>2, <3>3, Zenon
  <2>12. ASSUME NEW u \in Requests, Uses(u, 1)'
         PROVE  ids'[u][1] \notin dropped' /\ \E r \in loaded' : r.id = ids'[u][1]
    <3>1. CASE u = t
      BY <2>5, <2>6, <2>8, <3>1, Zenon
    <3>2. CASE u # t
      <4>1. Uses(u, 1) /\ ids'[u][1] = ids[u][1]
        BY <2>9, <2>12, <3>2 DEF SameUse
      <4> QED
        BY <2>1, <4>1 DEF UseInv
    <3> QED
      BY <3>1, <3>2
  <2>13. UseInv'
    <3>1. ASSUME NEW u \in Requests
          PROVE  /\ pc'[u] \notin {"failed", "counting"}
                 /\ pc'[u] \in {"acquired", "running"} => Len(ids'[u]) = 1
                 /\ running'[u] \subseteq known'[u] /\ known'[u] \subseteq {1}
                 /\ pc'[u] # "running" => running'[u] = {} /\ known'[u] = {1}
      <4>1. CASE u = t
        BY <2>1, <2>3, <2>6, <2>8, <4>1, Zenon DEF UseInv
      <4>2. CASE u # t
        BY <2>1, <2>3, <2>8, <4>2, Zenon DEF UseInv
      <4> QED
        BY <4>1, <4>2
    <3> QED
      BY <2>1, <2>12, <3>1, Zenon DEF UseInv
  <2> QED
    BY <2>1, <2>11, <2>13 DEF RegularInv
(* The prompt is sent to the scheduler: the use goes on.                   *)
<1>SendKeepsUses.
      ASSUME RegularInv, UpdateInv', workload' = workload, NEW t \in Requests, Send(t)
      PROVE  RegularInv'
  <2> USE <1>SendKeepsUses
  <2>1. /\ TypeOK /\ TypeOK' /\ Regular /\ Regular' /\ UseInv /\ ExactInv
        /\ Requests' = Requests /\ t \in Tasks
    BY SameRequests DEF RegularInv, UpdateInv, Tasks
  <2>2. /\ pc[t] = "acquired" /\ running' = [running EXCEPT ![t] = {1}]
        /\ pc' = [pc EXCEPT ![t] = "running"]
        /\ UNCHANGED <<counters, dropped, loaded, ids, known, owed>>
    BY <2>1, OnePrompt, Zenon DEF Send, Goto, updateVars
  <2>3. /\ \A u \in Requests \ {t} : pc'[u] = pc[u] /\ running'[u] = running[u]
        /\ pc'[t] = "running" /\ running'[t] = {1}
    BY <2>1, <2>2 DEF TypeOK, Tasks
  <2>4. \A u \in Requests : SameUse(u)
    <3>1. SameUse(t)
      BY <2>2, <2>3 DEF SameUse, Uses
    <3>2. \A u \in Requests \ {t} : SameUse(u)
      BY <2>2, <2>3 DEF SameUse, Uses
    <3> QED
      BY <3>1, <3>2
  <2>5. \A id : UsesOf(id)' = UsesOf(id)
    BY <2>1, <2>4, <1>UsesSame
  <2>6. ExactInv'
    BY <2>1, <2>2, <2>5, Zenon DEF ExactInv
  <2>7. UseInv'
    <3>1. ASSUME NEW u \in Requests
          PROVE  /\ pc'[u] \notin {"failed", "counting"}
                 /\ pc'[u] \in {"acquired", "running"} => Len(ids'[u]) = 1
                 /\ running'[u] \subseteq known'[u] /\ known'[u] \subseteq {1}
                 /\ pc'[u] # "running" => running'[u] = {} /\ known'[u] = {1}
      <4>1. CASE u = t
        BY <2>1, <2>2, <2>3, <4>1, Zenon DEF UseInv
      <4>2. CASE u # t
        BY <2>1, <2>2, <2>3, <4>2, Zenon DEF UseInv
      <4> QED
        BY <4>1, <4>2
    <3>2. ASSUME NEW u \in Requests, Uses(u, 1)'
          PROVE  ids'[u][1] \notin dropped' /\ \E r \in loaded' : r.id = ids'[u][1]
      BY <2>1, <2>2, <2>4, <3>2 DEF UseInv, SameUse
    <3> QED
      BY <2>1, <3>1, <3>2, Zenon DEF UseInv
  <2> QED
    BY <2>1, <2>6, <2>7 DEF RegularInv
(* A prompt ends: what was a use becomes a release that is owed.           *)
<1>EndKeepsUses.
      ASSUME RegularInv, UpdateInv', workload' = workload, NEW t \in Requests,
             NEW i \in Prompts(t), HandleBatchOutput(t, i) \/ HandleAbortReq(t, i)
      PROVE  RegularInv'
  <2> USE <1>EndKeepsUses
  <2> DEFINE id0 == ids[t][1]
  <2>1. /\ TypeOK /\ TypeOK' /\ Regular /\ Regular' /\ UseInv /\ ExactInv
        /\ Requests' = Requests /\ t \in Tasks /\ i = 1
    BY OnePrompt, SameRequests DEF RegularInv, UpdateInv, Tasks
  <2>2. /\ 1 \in running[t] /\ running' = [running EXCEPT ![t] = @ \ {1}]
        /\ known' = [known EXCEPT ![t] = @ \ {1}]
        /\ owed' = [owed EXCEPT ![id0] = @ + 1]
        /\ UNCHANGED <<counters, dropped, loaded, pc, ids>>
    <3>1. 1 \in running[t]
      BY <2>1 DEF HandleBatchOutput, HandleAbortReq
    <3>2. 1 \in known[t]
      BY <2>1, <3>1 DEF UseInv
    <3>3. "timeout" \notin Faults /\ "abort" \notin Faults
      BY <2>1, Zenon DEF Regular
    <3> QED
      BY <2>1, <3>1, <3>2, <3>3, Zenon
      DEF HandleBatchOutput, HandleAbortReq, Ends, Forget, Owe, updateVars
  <2>3. pc[t] = "running" /\ Len(ids[t]) = 1
    BY <2>1, <2>2, Zenon DEF UseInv
  <2>4. id0 \in Ids /\ DOMAIN ids[t] = {1} /\ Uses(t, 1)
    <3>1. ids[t] \in Seq(Ids)
      BY <2>1 DEF TypeOK
    <3> QED
      BY <2>2, <2>3, <3>1 DEF Uses
  <2> HIDE DEF id0
  <2>5. /\ \A u \in Requests \ {t} : running'[u] = running[u] /\ known'[u] = known[u]
        /\ running'[t] = running[t] \ {1} /\ known'[t] = known[t] \ {1}
    BY <2>1, <2>2 DEF TypeOK
  <2>6. ~ Uses(t, 1)' /\ \A u \in Requests \ {t} : SameUse(u)
    <3>1. ~ Uses(t, 1)'
      BY <2>2, <2>3, <2>5, Zenon DEF Uses
    <3>2. \A u \in Requests \ {t} : SameUse(u)
      BY <2>2, <2>5, Zenon DEF SameUse, Uses
    <3> QED
      BY <3>1, <3>2, Zenon
  <2>7. \A id : /\ <<t, 1>> \in UsesOf(id) <=> id = id0
                /\ UsesOf(id)' = IF id = id0 THEN UsesOf(id) \ {<<t, 1>>} ELSE UsesOf(id)
    BY <2>1, <2>4, <2>6, <1>UseEnds DEF id0
  <2>8. ExactInv'
    <3> SUFFICES ASSUME NEW id \in Ids
                 PROVE  /\ IsFiniteSet(UsesOf(id)')
                        /\ id \notin dropped' => counters'[id] = Cardinality(UsesOf(id)') + owed'[id]
      BY DEF ExactInv
    <3>1. /\ IsFiniteSet(UsesOf(id)) /\ owed \in [Ids -> Nat] /\ counters[id] \in Int
          /\ id \notin dropped => counters[id] = Cardinality(UsesOf(id)) + owed[id]
          /\ Cardinality(UsesOf(id)) \in Nat
      BY <2>1, Finite, Zenon DEF ExactInv, TypeOK
    <3>2. CASE id = id0
      <4>1. UsesOf(id)' = UsesOf(id) \ {<<t, 1>>} /\ <<t, 1>> \in UsesOf(id)
        BY <2>7, <3>2, Zenon
      <4>2. IsFiniteSet(UsesOf(id)') /\ Cardinality(UsesOf(id)') = Cardinality(UsesOf(id)) - 1
        BY <3>1, <4>1, CountChanged
      <4>3. owed'[id] = owed[id] + 1 /\ counters'[id] = counters[id] /\ owed[id] \in Nat
        BY <2>2, <3>1, <3>2, Zenon
      <4> QED
        BY <2>2, <3>1, <4>2, <4>3
    <3>3. CASE id # id0
      <4>1. UsesOf(id)' = UsesOf(id)
        BY <2>7, <3>3
      <4>2. owed'[id] = owed[id] /\ counters'[id] = counters[id]
        BY <2>2, <3>1, <3>3, Zenon
      <4> QED
        BY <2>2, <3>1, <4>1, <4>2, Zenon
    <3> QED
      BY <3>2, <3>3
  <2>9. UseInv'
    <3>1. ASSUME NEW u \in Requests
          PROVE  /\ pc'[u] \notin {"failed", "counting"}
                 /\ pc'[u] \in {"acquired", "running"} => Len(ids'[u]) = 1
                 /\ running'[u] \subseteq known'[u] /\ known'[u] \subseteq {1}
                 /\ pc'[u] # "running" => running'[u] = {} /\ known'[u] = {1}
      <4>1. CASE u = t
        BY <2>1, <2>2, <2>3, <2>5, <4>1, Zenon DEF UseInv
      <4>2. CASE u # t
        BY <2>1, <2>2, <2>5, <4>2, Zenon DEF UseInv
      <4> QED
        BY <4>1, <4>2, Zenon
    <3>2. ASSUME NEW u \in Requests, Uses(u, 1)'
          PROVE  ids'[u][1] \notin dropped' /\ \E r \in loaded' : r.id = ids'[u][1]
      <4>1. u # t
        BY <2>6, <3>2, Zenon
      <4>2. Uses(u, 1)
        BY <2>6, <3>2, <4>1 DEF SameUse
      <4> QED
        BY <2>1, <2>2, <4>2 DEF UseInv
    <3> QED
      BY <2>1, <3>1, <3>2, Zenon DEF UseInv
  <2> QED
    BY <2>1, <2>8, <2>9, Zenon DEF RegularInv
(* A release has run, or nothing has changed.                              *)
<1>ReleaseKeepsUses.
      ASSUME RegularInv, UpdateInv', workload' = workload,
             UNCHANGED <<dropped, loaded, pc, ids, running, known>>,
             (\E id \in Ids : Release(id)) \/ UNCHANGED <<counters, owed>>
      PROVE  RegularInv'
  <2> USE <1>ReleaseKeepsUses
  <2>1. /\ TypeOK /\ TypeOK' /\ Regular /\ Regular' /\ UseInv /\ ExactInv
        /\ Requests' = Requests
    BY SameRequests DEF RegularInv, UpdateInv
  <2>2. \A u \in Requests : SameUse(u)
    BY DEF SameUse, Uses
  <2>3. \A id : UsesOf(id)' = UsesOf(id)
    BY <2>1, <2>2, <1>UsesSame
  <2>4. ExactInv'
    <3> SUFFICES ASSUME NEW id \in Ids, id \notin dropped
                 PROVE  counters'[id] = Cardinality(UsesOf(id)) + owed'[id]
      BY <2>1, <2>3 DEF ExactInv
    <3>1. /\ counters[id] = Cardinality(UsesOf(id)) + owed[id] /\ IsFiniteSet(UsesOf(id))
          /\ owed \in [Ids -> Nat] /\ counters \in [Ids -> Int]
      BY <2>1 DEF ExactInv, TypeOK
    <3>2. Cardinality(UsesOf(id)) \in Nat
      BY <3>1, Finite
    <3>3. \/ counters'[id] = counters[id] /\ owed'[id] = owed[id]
          \/ counters'[id] = counters[id] - 1 /\ owed'[id] = owed[id] - 1
      BY <3>1 DEF Release
    <3>4. owed[id] \in Nat
      BY <3>1
    <3> QED
      BY <3>1, <3>2, <3>3, <3>4
  <2>5. UseInv'
    <3>1. \A u \in Requests : Uses(u, 1)' <=> Uses(u, 1)
      BY <2>2 DEF SameUse
    <3> QED
      BY <2>1, <3>1, Zenon DEF UseInv
  <2> QED
    BY <2>1, <2>4, <2>5 DEF RegularInv
(* The end of a load, with or without evictions: the adapter just loaded   *)
(* is registered when the request acquires it.                             *)
<1>EvictKeepsUses.
      ASSUME RegularInv, UpdateInv', workload' = workload, NEW t \in Requests, NEW reg,
             Answered(t, reg), pc[t] \in Working,
             Len(reg) <= MaxLoaded + 1, Len(reg) > MaxLoaded => reg[Len(reg)].name = Head(todo[t]),
             Evict(t, reg), \A r \in loaded : r.id \notin dropped => r \in loaded'
      PROVE  RegularInv'
  <2> USE <1>EvictKeepsUses
  <2>1. /\ TypeOK /\ LockInv /\ TodoInv /\ Regular /\ t \in Tasks /\ pc \in [Tasks -> Points]
        /\ pc[t] \notin {"acquired", "running"}
    BY Zenon DEF RegularInv, UpdateInv, Tasks, Working, TypeOK, Points
  <2>2. /\ Sound(reg) /\ Range(reg) = loaded' /\ Registered(reg, Head(todo[t]))
        /\ \A r \in Range(reg) : r.id \notin dropped
        /\ running' = running /\ owed' = owed
    BY DEF Answered, Consistent
  <2>3. CASE EndLoad(t, reg)
    <3>1. dropped' = dropped
      BY <2>3, Zenon DEF EndLoad
    <3>2. CASE Len(todo[t]) = 1
      <4>1. Acquire(t, reg)
        BY <2>3, <3>2 DEF EndLoad
      <4>2. Head(todo[t]) = Wants[t][1]
        <5>1. todo[t] \in Seq({Wants[t][1]}) /\ todo[t] # <<>>
          BY <2>1, OnePrompt, Zenon DEF TodoInv, Working, Updating
        <5> QED
          BY <5>1, RestIs
      <4> QED
        BY <2>1, <2>2, <3>1, <4>1, <4>2, <1>AcquireKeepsUses
    <3>3. CASE Len(todo[t]) # 1
      <4>1. pc' = [pc EXCEPT ![t] = "queued"] /\ UNCHANGED <<counters, ids, known>>
        BY <2>3, <3>3 DEF EndLoad, Goto
      <4>2. \A u \in Requests : pc'[u] = IF u = t THEN "queued" ELSE pc[u]
        BY <2>1, <4>1 DEF Tasks
      <4> QED
        BY <2>1, <2>2, <3>1, <4>1, <4>2, <1>UpdateKeepsUses, Zenon
    <3> QED
      BY <3>2, <3>3
  <2>4. ASSUME NEW n, StartUnload(t, reg, n), UNCHANGED <<counters, lock, todo, ids, known>>
        PROVE  RegularInv'
    <3>1. /\ \E p \in Evicting : pc' = [pc EXCEPT ![t] = p]
          /\ dropped \subseteq dropped' /\ \A id \in dropped' \ dropped : counters[id] = 0
      BY <2>4, Zenon DEF StartUnload, Goto, Evicting
    <3>2. PICK p \in Evicting : pc' = [pc EXCEPT ![t] = p]
      BY <3>1, Zenon
    <3>3. \A u \in Requests : pc'[u] = IF u = t THEN p ELSE pc[u]
      BY <2>1, <3>2 DEF Tasks
    <3>4. p \notin {"acquired", "running", "failed", "counting"}
      BY DEF Evicting
    <3> QED
      BY <2>1, <2>2, <2>4, <3>1, <3>3, <3>4, <1>UpdateKeepsUses, Zenon
  <2> QED
    BY <2>2, <2>3, <2>4, EvictIs, Zenon
<1>ResolveKeepsUses.
      ASSUME RegularInv, UpdateInv', workload' = workload, NEW t \in Tasks, Resolve(t)
      PROVE  RegularInv'
  <2> USE <1>ResolveKeepsUses
  <2> DEFINE registered == {n \in Range(Wants[t]) : Registered(registry, n)}
             unregistered == Range(Wants[t]) \ registered
  <2>1. /\ TypeOK /\ RegistryInv /\ DroppedInv /\ Regular /\ Sound(registry)
        /\ pc \in [Tasks -> Points]
    BY Zenon DEF RegularInv, UpdateInv, RegistryInv, TypeOK, Points
  <2>2. /\ t \in Requests /\ pc[t] = "start"
        /\ dropped' = dropped /\ loaded' = loaded /\ running' = running /\ owed' = owed
    BY Zenon DEF Resolve
  <2>3. PICK hits \in Orders(registered), misses \in Orders(unregistered) :
          IF unregistered = {}
            THEN Acquire(t, Touch(registry, hits)) /\ UNCHANGED <<todo, lock>>
            ELSE /\ registry' = Touch(registry, hits)
                 /\ todo' = [todo EXCEPT ![t] = misses]
                 /\ lock' = Append(lock, t)
                 /\ Goto(t, "queued")
                 /\ UNCHANGED <<counters, ids, known>>
    BY Zenon DEF Resolve
  <2>4. CASE unregistered = {}
    <3> DEFINE reg == Touch(registry, hits)
    <3>1. Acquire(t, reg)
      BY <2>3, <2>4
    <3>2. Registered(registry, Wants[t][1])
      BY <2>1, <2>2, <2>4, OnePrompt, Zenon
    <3>3. IsFiniteSet(registered) /\ registered \subseteq Names
      <4>1. IsFiniteSet(Range(Wants[t])) /\ Range(Wants[t]) \subseteq Names
        BY <2>1, <2>2, RequestsAre, RangeIs, Zenon
      <4> QED
        BY <4>1, Finite, Zenon
    <3>4. Len(hits) \in Nat
      <4> HIDE DEF registered
      <4>1. hits \in Seq(Names)
        BY <3>3, OrdersAre
      <4> QED
        BY <4>1
    <3>5. Sound(reg) /\ Range(reg) = Range(registry)
      BY <2>1, <3>4, TouchReorders, SMTT(20) DEF Reordered
    <3> HIDE DEF reg, registered, unregistered
    <3>6. Registered(reg, Wants[t][1])
      BY <3>2, <3>5 DEF Registered
    <3>7. Range(reg) \subseteq loaded' /\ \A r \in Range(reg) : r.id \notin dropped
      BY <2>1, <2>2, <3>5, Zenon DEF RegistryInv, Staying, DroppedInv
    <3> QED
      BY <2>2, <3>1, <3>5, <3>6, <3>7, <1>AcquireKeepsUses, Zenon
  <2>5. CASE unregistered # {}
    <3>1. pc' = [pc EXCEPT ![t] = "queued"] /\ UNCHANGED <<counters, ids, known>>
      BY <2>3, <2>5 DEF Goto
    <3>2. \A u \in Requests : pc'[u] = IF u = t THEN "queued" ELSE pc[u]
      BY <2>1, <3>1 DEF Tasks
    <3> QED
      BY <2>2, <3>1, <3>2, <1>UpdateKeepsUses
  <2> QED
    BY <2>4, <2>5, Zenon
<1>LoadDoneKeepsUses.
      ASSUME RegularInv, UpdateInv', workload' = workload, NEW t \in Tasks, LoadDone(t)
      PROVE  RegularInv'
  <2> USE <1>LoadDoneKeepsUses
  <2> DEFINE ref == [name |-> Head(todo[t]), id |-> last_id + 1]
  <2>1. /\ UpdateInv /\ Regular /\ pc[t] = "loading" /\ pc[t] \in Working
        /\ running' = running /\ owed' = owed
    BY Zenon DEF LoadDone, RegularInv, Working
  <2>2. /\ t \in Requests /\ Holds(t) /\ Consistent(registry, loaded, last_id)
    BY <2>1, Loading
  <2>3. CASE /\ last_id < MaxId /\ ref.name \notin NamesOf(loaded)
             /\ loaded' = loaded \cup {ref} /\ last_id' = ref.id
             /\ Evict(t, Append(registry, ref))
    <3> HIDE DEF ref
    <3>1. /\ Answered(t, Append(registry, ref))
          /\ Len(Append(registry, ref)) <= MaxLoaded + 1
          /\ Append(registry, ref)[Len(Append(registry, ref))].name = Head(todo[t])
      BY <2>1, <2>3, NewAdapter DEF ref
    <3> QED
      BY <2>1, <2>2, <2>3, <3>1, <1>EvictKeepsUses, Zenon
  <2>4. CASE /\ ref.name \in NamesOf(loaded) /\ Evict(t, registry)
             /\ loaded' = loaded /\ last_id' = last_id
    <3>1. /\ Len(registry) \in Nat /\ MaxLoaded \in Nat /\ Len(registry) <= MaxLoaded
          /\ last_id \in 0 .. MaxId /\ MaxId \in Nat /\ loaded \subseteq LoRARef
          /\ \A r \in Range(registry) : r.id \notin dropped
      BY <2>1, Bounds, Numbers
    <3>2. Registered(registry, Head(todo[t]))
      BY <2>2, <2>4 DEF Registered, Consistent
    <3>3. Consistent(registry, loaded', last_id')
      BY <2>2, <2>4
    <3>4. last_id' \in last_id .. MaxId
      BY <2>4, <3>1
    <3>5. Answered(t, registry)
      BY <2>1, <2>2, <2>4, <3>1, <3>2, <3>3, <3>4 DEF Answered
    <3>6. Len(registry) <= MaxLoaded + 1 /\ ~ (Len(registry) > MaxLoaded)
      BY <3>1
    <3> QED
      BY <2>1, <2>2, <2>4, <3>5, <3>6, <1>EvictKeepsUses
  <2>5. "load" \notin Faults
    BY <2>1 DEF Regular
  <2> QED
    BY <2>3, <2>4, <2>5, Zenon DEF LoadDone
<1>UnloadDoneKeepsUses.
      ASSUME RegularInv, UpdateInv', workload' = workload, NEW t \in Tasks, UnloadDone(t)
      PROVE  RegularInv'
  <2> USE <1>UnloadDoneKeepsUses
  <2>1. /\ TypeOK /\ LockInv /\ RegistryInv /\ DroppedInv /\ pc \in [Tasks -> Points]
    BY DEF RegularInv, UpdateInv, TypeOK, Points
  <2>2. /\ pc[t] = "unloading" /\ pc[t] \in Working
        /\ loaded' = {r \in loaded : r.id # victim[t]}
        /\ last_id' = last_id /\ running' = running /\ owed' = owed
    BY Zenon DEF UnloadDone, Working
  <2>3. victim[t] \in dropped
    BY <2>1, <2>2 DEF DroppedInv
  <2>4. \A r \in loaded : r.id \notin dropped => r \in loaded'
    BY <2>2, <2>3, Zenon
  <2>5. CASE t \in Unloads
    <3>1. /\ pc' = [pc EXCEPT ![t] = "done"] /\ UNCHANGED <<counters, dropped, ids, known>>
      BY <2>5, Zenon DEF UnloadDone, Goto
    <3>2. \A u \in Requests : pc'[u] = pc[u]
      BY <2>1, <2>5, <3>1, RequestsAre, Zenon DEF Tasks
    <3> QED
      BY <2>2, <2>4, <3>1, <3>2, <1>UpdateKeepsUses, Zenon
  <2>6. CASE t \notin Unloads
    <3>1. t \in Requests /\ Evict(t, registry)
      BY <2>6 DEF UnloadDone, Tasks
    <3>2. Holds(t)
      BY <2>1, <2>2, Holder
    <3>3. Consistent(registry, loaded', last_id')
      <4>1. \A u \in Tasks \ {t} : pc[u] \notin Evicting
        BY <3>2 DEF Holds, Working, Evicting
      <4>2. Staying = loaded'
        BY <2>2, <4>1 DEF Staying, Evicting
      <4> QED
        BY <2>1, <2>2, <4>2 DEF RegistryInv, Consistent
    <3>4. /\ Len(registry) \in Nat /\ MaxLoaded \in Nat /\ Len(registry) <= MaxLoaded
          /\ last_id \in 0 .. MaxId /\ MaxId \in Nat /\ loaded' \subseteq LoRARef
          /\ \A r \in Range(registry) : r.id \notin dropped
      <4>1. UpdateInv
        BY DEF RegularInv
      <4> QED
        BY <2>2, <4>1, Bounds, Numbers
    <3>5. Registered(registry, Head(todo[t]))
      BY <2>1, <2>2, <3>1, Zenon DEF RegistryInv, Evicting
    <3>6. last_id' \in last_id .. MaxId
      BY <2>2, <3>4
    <3>7. Answered(t, registry)
      BY <2>2, <3>1, <3>2, <3>3, <3>4, <3>5, <3>6, Zenon DEF Answered
    <3>8. Len(registry) <= MaxLoaded + 1 /\ ~ (Len(registry) > MaxLoaded)
      BY <3>4
    <3> QED
      BY <2>2, <2>4, <3>1, <3>7, <3>8, <1>EvictKeepsUses, Zenon
  <2> QED
    BY <2>5, <2>6, Zenon
(* The other steps of loads and unloads.                                   *)
<1>OthersKeepUses.
      ASSUME RegularInv, UpdateInv', workload' = workload, NEW t \in Tasks,
             UnloadLoraAdapter(t) \/ StartLoad(t) \/ Unload(t) \/ NoLongerUsed(t)
      PROVE  RegularInv'
  <2> USE <1>OthersKeepUses
  <2>1. TypeOK /\ pc \in [Tasks -> Points] /\ Requests \cap Unloads = {}
        /\ \A u \in Requests : u \in Tasks
    BY RequestsAre, Zenon DEF RegularInv, UpdateInv, TypeOK, Points
  <2>2. CASE UnloadLoraAdapter(t)
    <3>1. /\ t \in Unloads /\ pc' = [pc EXCEPT ![t] = "queued"]
          /\ UNCHANGED <<counters, dropped, loaded, ids, running, known, owed>>
      BY <2>2 DEF UnloadLoraAdapter, Goto, useVars
    <3>2. \A u \in Requests : pc'[u] = pc[u]
      BY <2>1, <3>1
    <3>3. /\ dropped \subseteq dropped' /\ \A id \in dropped' \ dropped : counters[id] = 0
          /\ \A r \in loaded : r.id \notin dropped => r \in loaded'
      BY <3>1, Zenon
    <3> QED
      BY <3>1, <3>2, <3>3, <1>UpdateKeepsUses, Zenon
  <2>3. CASE StartLoad(t)
    <3>1. /\ pc[t] = "queued" /\ pc' = [pc EXCEPT ![t] = "loading"]
          /\ UNCHANGED <<counters, dropped, loaded, ids, running, known, owed>>
      BY <2>3 DEF StartLoad, Goto, updateVars, useVars
    <3>2. \A u \in Requests : \/ pc'[u] = pc[u]
                              \/ /\ pc[u] \notin {"acquired", "running"}
                                 /\ pc'[u] \notin {"acquired", "running", "failed", "counting"}
      BY <2>1, <3>1, Zenon
    <3>3. /\ dropped \subseteq dropped' /\ \A id \in dropped' \ dropped : counters[id] = 0
          /\ \A r \in loaded : r.id \notin dropped => r \in loaded'
      BY <3>1
    <3> QED
      BY <3>1, <3>2, <3>3, <1>UpdateKeepsUses, Zenon
  <2>4. CASE Unload(t)
    <3>1. /\ t \in Unloads /\ UNCHANGED <<counters, loaded, ids, running, known, owed>>
          /\ \E p : pc' = [pc EXCEPT ![t] = p]
          /\ dropped \subseteq dropped' /\ \A id \in dropped' \ dropped : counters[id] = 0
      BY <2>4, Zenon DEF Unload, StartUnload, Goto, useVars
    <3>2. \A u \in Requests : pc'[u] = pc[u]
      BY <2>1, <3>1, Zenon
    <3>3. /\ dropped \subseteq dropped' /\ \A id \in dropped' \ dropped : counters[id] = 0
          /\ \A r \in loaded : r.id \notin dropped => r \in loaded'
      BY <3>1
    <3> QED
      BY <3>1, <3>2, <3>3, <1>UpdateKeepsUses, Zenon
  <2>5. CASE NoLongerUsed(t)
    <3>1. /\ pc[t] = "waiting" /\ pc' = [pc EXCEPT ![t] = "unloading"]
          /\ dropped' = dropped \cup {victim[t]} /\ counters[victim[t]] = 0
          /\ UNCHANGED <<counters, loaded, ids, running, known, owed>>
      BY <2>5, Zenon DEF NoLongerUsed, Goto, useVars
    <3>2. \A u \in Requests : \/ pc'[u] = pc[u]
                              \/ /\ pc[u] \notin {"acquired", "running"}
                                 /\ pc'[u] \notin {"acquired", "running", "failed", "counting"}
      BY <2>1, <3>1, Zenon
    <3>3. /\ dropped \subseteq dropped' /\ \A id \in dropped' \ dropped : counters[id] = 0
          /\ \A r \in loaded : r.id \notin dropped => r \in loaded'
      BY <3>1, Zenon
    <3> QED
      BY <3>1, <3>2, <3>3, <1>UpdateKeepsUses, Zenon
  <2> QED
    BY <2>2, <2>3, <2>4, <2>5
<1>ServeKeepsUses.
      ASSUME RegularInv, UpdateInv', workload' = workload, NEW t \in Requests,
             Serve(t) \/ EndsEarly(t)
      PROVE  RegularInv'
  <2> USE <1>ServeKeepsUses
  <2>1. pc[t] # "counting" /\ "reject" \notin Faults /\ "disconnect" \notin Faults
    BY DEF RegularInv, UseInv, Regular
  <2>2. Send(t) \/ \E i \in Prompts(t) : HandleBatchOutput(t, i) \/ HandleAbortReq(t, i)
    BY <2>1, Zenon DEF Serve, EndsEarly, CountUses, Reject, Disconnect
  <2> QED
    BY <2>2, <1>SendKeepsUses, <1>EndKeepsUses, Zenon
<1> SUFFICES ASSUME UpdateInv, Regular => RegularInv, [Next]_vars, Regular'
             PROVE  RegularInv'
  OBVIOUS
<1>1. workload' = workload
  BY DEF Next, vars
<1>2. RegularInv /\ UpdateInv'
  BY <1>1, SameRequests, NextUpdateInv, Zenon
<1>3. ASSUME NEW t \in Tasks, Updates(t) PROVE RegularInv'
  BY <1>1, <1>2, <1>3, <1>ResolveKeepsUses, <1>LoadDoneKeepsUses, <1>UnloadDoneKeepsUses,
     <1>OthersKeepUses, Zenon DEF Updates
<1>4. ASSUME NEW t \in Requests, Serve(t) \/ EndsEarly(t) PROVE RegularInv'
  BY <1>1, <1>2, <1>4, <1>ServeKeepsUses
<1>5. ASSUME NEW id \in Ids, Release(id) PROVE RegularInv'
  <2>1. UNCHANGED <<dropped, loaded, pc, ids, running, known>>
    BY <1>5 DEF Release
  <2> QED
    BY <1>1, <1>2, <1>5, <2>1, <1>ReleaseKeepsUses, Zenon
<1>6. CASE UNCHANGED vars
  <2>1. UNCHANGED <<dropped, loaded, pc, ids, running, known>> /\ UNCHANGED <<counters, owed>>
    BY <1>6, Zenon DEF vars, updateVars, useVars
  <2> QED
    BY <1>1, <1>2, <2>1, <1>ReleaseKeepsUses, Zenon
<1> QED
  BY <1>3, <1>4, <1>5, <1>6, Zenon DEF Next, Progress

----------------------------------------------------------------------------
(* The facts about finite sets and about induction that the lemmas above   *)
(* and those of LoRAUpdateProofs have as hypotheses.                       *)

INSTANCE FiniteSetTheorems

INSTANCE WellFoundedInduction

(* Induction over 0 .. n, by a least counterexample.                       *)
LEMMA UpTo ==
  ASSUME NEW n \in Nat, NEW Good \in SUBSET (0 .. n), 0 \in Good,
         \A k \in 1 .. n : k - 1 \in Good => k \in Good
  PROVE  n \in Good
<1> DEFINE R == {ss \in Nat \X Nat : ss[1] < ss[2]}
           S == (0 .. n) \ Good
<1> SUFFICES ASSUME n \notin Good PROVE FALSE
  OBVIOUS
<1>1. IsWellFoundedOn(R, Nat)
  BY NatLessThanWellFounded, Zenon DEF OpToRel
<1>2. S \in SUBSET Nat /\ S # {}
  OBVIOUS
<1>3. PICK m \in S : \A j \in S : ~ (<<j, m>> \in R)
  <2> HIDE DEF R, S
  <2> QED
    BY <1>1, <1>2, WFMin, Zenon
<1>4. m \in 1 .. n /\ m - 1 \in 0 .. n
  OBVIOUS
<1>5. <<m - 1, m>> \in R
  BY <1>4
<1>6. m - 1 \in Good
  <2> HIDE DEF R
  <2> QED
    BY <1>3, <1>4, <1>5
<1> QED
  BY <1>4, <1>6

(* The facts, from the library.                                            *)
LEMMA FactsHold == Facts
<1>1. ASSUME NEW S, IsFiniteSet(S)
      PROVE  /\ Cardinality(S) \in Nat /\ (Cardinality(S) = 0 <=> S = {})
             /\ \A T : T \subseteq S => IsFiniteSet(T)
  BY <1>1, FS_CardinalityType, FS_EmptySet, FS_Subset, Zenon
<1>2. ASSUME NEW S, IsFiniteSet(S), NEW t
      PROVE  /\ IsFiniteSet(S \cup {t}) /\ IsFiniteSet(S \ {t})
             /\ t \notin S => Cardinality(S \cup {t}) = Cardinality(S) + 1
             /\ t \in S => Cardinality(S \ {t}) = Cardinality(S) - 1
  BY <1>2, FS_AddElement, FS_RemoveElement, Zenon
<1>3. IsFiniteSet({}) /\ \A n \in Nat : IsFiniteSet(1 .. n)
  BY FS_EmptySet, FS_Interval, SMTT(20)
<1> QED
  BY <1>1, <1>2, <1>3, UpTo, Zenon DEF Facts

(* A registry that is full has an adapter that is not pinned among its     *)
(* first MaxLoaded.                                                        *)
LEMMA SomeUnpinned == FullHasUnpinned
<1> SUFFICES ASSUME NEW reg, Sound(reg), Len(reg) >= MaxLoaded
             PROVE  \E i \in 1 .. MaxLoaded : reg[i].name \notin Pinned
  BY DEF FullHasUnpinned
<1> DEFINE f == [i \in 1 .. MaxLoaded |-> reg[i].name]
<1> SUFFICES ASSUME \A i \in 1 .. MaxLoaded : reg[i].name \in Pinned PROVE FALSE
  BY Zenon
<1>1. MaxLoaded \in Nat /\ IsFiniteSet(Pinned) /\ Cardinality(Pinned) < MaxLoaded
  BY RegistryAssumption
<1>2. Len(reg) \in Nat
  BY Elements DEF Sound
<1>3. \A i, j \in 1 .. MaxLoaded : reg[i].name = reg[j].name => i = j
  BY <1>1, <1>2 DEF Sound, UniqueNames
<1>4. f \in Injection(1 .. MaxLoaded, Pinned)
  BY <1>3, Zenon DEF Injection, IsInjective
<1> HIDE DEF f
<1>5. Cardinality(1 .. MaxLoaded) <= Cardinality(Pinned)
  BY <1>1, <1>4, FS_Injection, Zenon
<1>6. Cardinality(1 .. MaxLoaded) = MaxLoaded
  BY <1>1, FS_Interval
<1>7. Cardinality(Pinned) \in Nat
  BY <1>1, FS_CardinalityType, Zenon
<1> QED
  BY <1>1, <1>5, <1>6, <1>7, SMTT(20)

(* A sequence has finitely many different elements.                        *)
LEMMA RangeFinite == RangesAreFinite
<1> SUFFICES ASSUME NEW S, NEW s \in Seq(S) PROVE IsFiniteSet(Range(s))
  BY DEF RangesAreFinite
<1> DEFINE n == Len(s)
<1>1. n \in Nat /\ DOMAIN s = 1 .. n
  OBVIOUS
<1>2. s \in Surjection(1 .. n, Range(s))
  BY <1>1 DEF Surjection, Range
<1> HIDE DEF n
<1>3. IsFiniteSet(1 .. n)
  BY <1>1, FS_Interval
<1> QED
  BY <1>1, <1>2, <1>3, FS_Surjection DEF Range

(* A registry holds as many adapters as it is long.                        *)
LEMMA RegistrySize ==
  ASSUME NEW reg, Sound(reg)
  PROVE  IsFiniteSet(Range(reg)) /\ Cardinality(Range(reg)) = Len(reg)
<1>1. Len(reg) \in Nat /\ DOMAIN reg = 1 .. Len(reg)
  BY Elements DEF Sound
<1>2. reg \in Bijection(1 .. Len(reg), Range(reg))
  <2>1. reg \in [1 .. Len(reg) -> Range(reg)]
    BY <1>1 DEF Sound, Range
  <2>2. \A i, j \in 1 .. Len(reg) : reg[i] = reg[j] => i = j
    BY DEF Sound, UniqueNames
  <2>3. \A r \in Range(reg) : \E i \in 1 .. Len(reg) : reg[i] = r
    BY <1>1 DEF Range
  <2> QED
    BY <1>1, <2>1, <2>2, <2>3, Zenon DEF Bijection, Injection, Surjection, IsInjective
<1>3. IsFiniteSet(1 .. Len(reg)) /\ Cardinality(1 .. Len(reg)) = Len(reg)
  <2> DEFINE n == Len(reg)
  <2> HIDE DEF n
  <2>1. n \in Nat
    BY <1>1 DEF n
  <2>2. IsFiniteSet(1 .. n) /\ Cardinality(1 .. n) = n
    BY <2>1, FS_Interval
  <2> QED
    BY <2>2 DEF n
<1> QED
  BY <1>2, <1>3, FS_Bijection DEF ExistsBijection

----------------------------------------------------------------------------
(* The theorems.                                                           *)

(* Whatever requests come, however they end, and for any limit that leaves *)
(* room for adapters that are not pinned.                                  *)
LEMMA UpdateInvariant == Spec => []UpdateInv
<1>1. UpdateInv /\ [Next]_vars => UpdateInv'
  BY FactsHold, SomeUnpinned, RangeFinite, NextUpdateInv, Zenon
<1> QED
  BY <1>1, InitUpdateInv, PTL DEF Spec

(* What the registry offers the backend has, under the same id, and no     *)
(* name is there twice: load_lora_adapter registers after the backend has  *)
(* answered, and unload_lora_adapter unregisters before it is asked.       *)
THEOREM RegistryAlwaysLoaded == Spec => []RegistryIsLoaded
<1>1. UpdateInv => RegistryIsLoaded
  <2> SUFFICES ASSUME UpdateInv PROVE RegistryIsLoaded
    BY Zenon
  <2>1. Sound(registry) /\ Range(registry) \subseteq loaded /\ DOMAIN registry = 1 .. Len(registry)
    BY SMTT(20) DEF UpdateInv, RegistryInv, Staying, Sound
  <2> QED
    BY <2>1 DEF RegistryIsLoaded, Sound, UniqueNames, IsInjective
<1> QED
  BY <1>1, UpdateInvariant, PTL

(* Whenever no load or unload is going on, at most max_loaded_loras        *)
(* adapters are in the registry and in the backend: the eviction loop of   *)
(* load_lora_adapter always finds an adapter that is not pinned.           *)
THEOREM LimitAlwaysRespected == Spec => []LimitRespected
<1>1. UpdateInv => LimitRespected
  <2> SUFFICES ASSUME UpdateInv, lock = <<>>
               PROVE  Len(registry) <= MaxLoaded /\ Cardinality(loaded) <= MaxLoaded
    BY DEF LimitRespected
  <2>1. \A t \in Tasks : pc[t] \notin Evicting
    BY DEF UpdateInv, LockInv, Updating, Evicting
  <2>2. Consistent(registry, loaded, last_id)
    BY <2>1, NobodyUnloads DEF UpdateInv
  <2>3. Cardinality(loaded) = Len(registry)
    BY <2>2, RegistrySize DEF Consistent
  <2> QED
    BY <2>3 DEF UpdateInv, RegistryInv
<1> QED
  BY <1>1, UpdateInvariant, PTL

(* If all requests name one adapter each, the uses and counters stay exact. *)
LEMMA RegularInvariant == Spec => [](Regular => RegularInv)
<1>1. Init => (Regular => RegularInv)
  BY FactsHold, InitRegularInv
<1>2. UpdateInv /\ (Regular => RegularInv) /\ [Next]_vars => (Regular => RegularInv)'
  BY FactsHold, SomeUnpinned, RangeFinite, NextRegularInv
<1> QED
  BY <1>1, <1>2, UpdateInvariant, PTL DEF Spec

(* Among regular requests no eviction or unload takes an adapter from one  *)
(* that uses it: the counter is deleted, which starts the unload at the    *)
(* backend, only when it is zero, and then nobody uses the adapter and     *)
(* nobody finds it in the registry any more.                               *)
THEOREM UsedAlwaysLoaded == Spec => []UsedIsLoaded
<1>1. (Regular => RegularInv) => UsedIsLoaded
  <2> SUFFICES ASSUME Regular, RegularInv, NEW t \in Requests, NEW i \in Prompts(t), Uses(t, i)
               PROVE  \E r \in loaded : r.id = ids[t][i]
    BY DEF UsedIsLoaded, HasUsed
  <2>1. i = 1
    BY OnePrompt, SMTT(20) DEF RegularInv, UpdateInv
  <2> QED
    BY <2>1, Zenon DEF RegularInv, UseInv
<1> QED
  BY <1>1, RegularInvariant, PTL

(* The counter that wait_for_unload waits for is the number of uses and of *)
(* releases that have not run yet.                                         *)
THEOREM CountersAlwaysExact == Spec => []CountersExact
<1>1. (Regular => RegularInv) => CountersExact
  BY Zenon DEF CountersExact, RegularInv, ExactInv
<1> QED
  BY <1>1, RegularInvariant, PTL

(* No regular request is refused because others load, evict or unload its  *)
(* adapter at the same time: _resolve_lora_path acquires in the step in    *)
(* which load_lora_adapter returns.                                        *)
THEOREM RegularNeverRefused == Spec => []NeverRefused
<1>1. (Regular => RegularInv) => NeverRefused
  BY DEF NeverRefused, RegularInv, UseInv
<1> QED
  BY <1>1, RegularInvariant, PTL
============================================================================
