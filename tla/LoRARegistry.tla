---------------------------- MODULE LoRARegistry ----------------------------
(***************************************************************************)
(* LoRA adapters that are loaded, evicted and unloaded while requests use  *)
(* them: the registry and its usage counters (srt/lora/lora_registry.py),  *)
(* the operations of the tokenizer manager that use it (load and unload in *)
(* tokenizer_control_mixin.py, _resolve_lora_path and the paths on which a *)
(* request ends in tokenizer_manager.py) and the adapters of the backend.  *)
(*                                                                         *)
(* All tasks run in one event loop, so a step is what a task does between  *)
(* two points where it is really suspended: a wait for lora_update_lock,   *)
(* for the backend, for a counter to become zero, for the tasks of a       *)
(* gather, for the tokenizer or for the scheduler.  No critical section of *)
(* the registry's reader-writer lock contains such a point.                *)
(*                                                                         *)
(* A request names one adapter (lora_path is a string) or one for each of  *)
(* its prompts (a list).                                                   *)
(***************************************************************************)
EXTENDS Integers, FiniteSets, Sequences, Functions

CONSTANTS
  Names,                \* adapters, all of them loaded once (lora_ref_cache)
  Pinned,               \* those that are not evicted
  Loaded0,              \* sequence of the adapters loaded at first
  MaxLoaded,            \* max_loaded_loras
  MaxId,                \* bound on the ids given out; uuid4 has none
  Unloads, Target,      \* Target[t]: the adapter unload operation t unloads
  Workloads             \* the sets of requests to consider

(* load: the backend cannot load an adapter; reject: tokenization or the   *)
(* validation of the input raises; disconnect: the client has gone away;   *)
(* abort: the client aborts a queued request; full: the scheduler's queue  *)
(* is full; timeout: a running request takes too long.                     *)
FaultKinds == {"load", "reject", "disconnect", "abort", "full", "timeout"}

(* Requests, wants[t] the sequence of the adapters request t names, and    *)
(* the ways they may end early.                                            *)
Workload(wants, faults) == [wants |-> wants, faults |-> faults]

(* The backend pins fewer adapters than max_loras_per_batch, "to avoid     *)
(* starvation for unpinned adapters", and max_loaded_loras is no less.  A  *)
(* request for more adapters than MaxLoaded is refused before all this.    *)
ASSUME RegistryAssumption ==
  /\ MaxLoaded \in Nat /\ MaxId \in Nat
  /\ Pinned \subseteq Names /\ IsFiniteSet(Pinned) /\ Cardinality(Pinned) < MaxLoaded
  /\ Loaded0 \in Seq(Names) /\ IsInjective(Loaded0)
  /\ Len(Loaded0) <= MaxLoaded /\ Len(Loaded0) <= MaxId
  /\ \A w \in Workloads :
       /\ w.wants \in [DOMAIN w.wants -> Seq(Names) \ {<<>>}]
       /\ DOMAIN w.wants \cap Unloads = {}
       /\ \A t \in DOMAIN w.wants : Cardinality(Range(w.wants[t])) <= MaxLoaded
       /\ w.faults \subseteq FaultKinds
  /\ \A t \in Unloads : Target[t] \in Names

VARIABLES
  workload,             \* the requests that come
  registry,             \* _registry: LoRARefs, least recently used first
  counters,             \* counters[id]: the value of the counter made for id
  dropped,              \* ids whose counter has been deleted from _counters
  loaded,               \* LoRARefs of the adapters the backend has
  last_id,              \* the last id given out
  lock,                 \* lora_update_lock: its holder and the tasks that wait
  pc,                   \* what each task waits for
  todo,                 \* todo[t]: adapters request t still has to load
  victim,               \* victim[t]: the id task t unloads
  ids,                  \* ids[t]: the ids request t was given (lora_id)
  running,              \* running[t]: prompts of t the scheduler has
  known,                \* known[t]: prompts of t that have a rid_to_state entry
  owed                  \* owed[id]: release calls that have not run yet

updateVars == <<registry, counters, dropped, loaded, last_id, lock, todo, victim>>
useVars == <<running, known, owed>>
vars == <<workload, updateVars, useVars, pc, ids>>

Wants == workload.wants
Faults == workload.faults
Requests == DOMAIN Wants
Tasks == Requests \cup Unloads
Ids == 1 .. MaxId
LoRARef == [name : Names, id : Ids]

NoId == 0

TypeOK ==
  /\ workload \in Workloads
  /\ registry \in Seq(LoRARef) /\ loaded \subseteq LoRARef
  /\ counters \in [Ids -> Int] /\ dropped \subseteq Ids /\ last_id \in 0 .. MaxId
  /\ lock \in Seq(Tasks)
  /\ pc \in [Tasks -> {"start", "queued", "loading", "waiting", "unloading", "counting",
                       "acquired", "running", "failed", "done"}]
  /\ todo \in [Tasks -> Seq(Names)] /\ victim \in [Tasks -> Ids \cup {NoId}]
  /\ ids \in [Requests -> Seq(Ids)]
  /\ running \in [Requests -> SUBSET Nat] /\ known \in [Requests -> SUBSET Nat]
  /\ owed \in [Ids -> Nat]

Init ==
  /\ workload \in Workloads
  /\ registry = [i \in 1 .. Len(Loaded0) |-> [name |-> Loaded0[i], id |-> i]]
  /\ loaded = Range(registry)
  /\ counters = [i \in Ids |-> 0] /\ dropped = {} /\ last_id = Len(Loaded0)
  /\ lock = <<>>
  /\ pc = [t \in Tasks |-> "start"]
  /\ todo = [t \in Tasks |-> <<>>] /\ victim = [t \in Tasks |-> NoId]
  /\ ids = [t \in Requests |-> <<>>]
  /\ running = [t \in Requests |-> {}] /\ known = [t \in Requests |-> DOMAIN Wants[t]]
  /\ owed = [i \in Ids |-> 0]

Goto(t, point) == pc' = [pc EXCEPT ![t] = point]
Prompts(t) == DOMAIN Wants[t]

----------------------------------------------------------------------------
(* The registry.                                                           *)
NamesOf(refs) == {r.name : r \in refs}
Registered(reg, n) == n \in NamesOf(Range(reg))
Position(reg, n) == CHOOSE i \in DOMAIN reg : reg[i].name = n
IdOf(reg, n) == reg[Position(reg, n)].id

(* The registry without the adapter n, which it has.                       *)
Without(reg, n) ==
  [i \in 1 .. Len(reg) - 1 |-> IF i < Position(reg, n) THEN reg[i] ELSE reg[i + 1]]

MoveToEnd(reg, n) ==
  IF Registered(reg, n) THEN Append(Without(reg, n), reg[Position(reg, n)]) ELSE reg

(* move_to_end for each name of a sequence that is registered.             *)
Touch(reg, names) ==
  LET after[k \in 0 .. Len(names)] ==
        IF k = 0 THEN reg ELSE MoveToEnd(after[k - 1], names[k])
  IN  after[Len(names)]

(* Mutant of LruLoraName: the most recently used adapter is taken.         *)
LruLoraNameLast(reg) ==
  {reg[i].name : i \in {j \in DOMAIN reg :
    reg[j].name \notin Pinned /\ \A k \in j + 1 .. Len(reg) : reg[k].name \in Pinned}}

(* lru_lora_name(exclude_pinned=True): one name, or none (None).           *)
LruLoraName(reg) ==
  {reg[i].name : i \in {j \in DOMAIN reg :
    reg[j].name \notin Pinned /\ \A k \in 1 .. j - 1 : reg[k].name \in Pinned}}

Counted(c, s) == [id \in DOMAIN c |-> c[id] + Cardinality({i \in DOMAIN s : s[i] = id})]

Refuse(t) == Goto(t, "failed") /\ known' = [known EXCEPT ![t] = {}]

(* acquire: look all names up, then count.  For a string nothing runs in   *)
(* between; for a list the increments are tasks of a gather.  A name that  *)
(* is not registered ends the lookup and the request.                      *)
Acquire(t, reg) ==
  LET w == Wants[t]
      Missing(i) == ~ Registered(reg, w[i])
  IN  IF \E i \in Prompts(t) : Missing(i)
        THEN /\ LET first == CHOOSE i \in Prompts(t) :
                               Missing(i) /\ \A j \in 1 .. i - 1 : ~Missing(j)
                IN  registry' = Touch(reg, SubSeq(w, 1, first - 1))
             /\ Refuse(t)
             /\ UNCHANGED <<ids, counters>>
        ELSE LET found == [i \in Prompts(t) |-> IdOf(reg, w[i])]
             IN  /\ registry' = Touch(reg, w)
                 /\ ids' = [ids EXCEPT ![t] = found]
                 /\ IF Len(w) = 1
                      THEN Goto(t, "acquired") /\ counters' = Counted(counters, found)
                      ELSE Goto(t, "counting") /\ UNCHANGED counters
                 /\ UNCHANGED known

----------------------------------------------------------------------------
(* Loading and unloading, under lora_update_lock.                          *)

(* Mutants of StartUnload: the adapter stays registered until the backend  *)
(* has dropped it; the counter is not waited for.                          *)
StartUnloadRegistered(t, reg, n) ==
  /\ registry' = reg
  /\ victim' = [victim EXCEPT ![t] = IdOf(reg, n)]
  /\ IF counters[IdOf(reg, n)] = 0
       THEN Goto(t, "unloading") /\ dropped' = dropped \cup {IdOf(reg, n)}
       ELSE Goto(t, "waiting") /\ UNCHANGED dropped

StartUnloadAtOnce(t, reg, n) ==
  /\ registry' = Without(reg, n)
  /\ victim' = [victim EXCEPT ![t] = IdOf(reg, n)]
  /\ Goto(t, "unloading") /\ dropped' = dropped \cup {IdOf(reg, n)}

(* _unload_lora_adapter_locked: unregister the adapter and, when its       *)
(* counter is zero, drop the counter and send the unload to the backend.   *)
StartUnload(t, reg, n) ==
  /\ registry' = Without(reg, n)
  /\ victim' = [victim EXCEPT ![t] = IdOf(reg, n)]
  /\ IF counters[IdOf(reg, n)] = 0
       THEN Goto(t, "unloading") /\ dropped' = dropped \cup {IdOf(reg, n)}
       ELSE Goto(t, "waiting") /\ UNCHANGED dropped

(* load_lora_adapter returns to _resolve_lora_path, which loads the next   *)
(* adapter or acquires all of them.                                        *)
EndLoad(t, reg) ==
  /\ todo' = [todo EXCEPT ![t] = Tail(@)]
  /\ IF Len(todo[t]) = 1
       THEN lock' = Tail(lock) /\ Acquire(t, reg)
       ELSE /\ lock' = Append(Tail(lock), t) /\ Goto(t, "queued")
            /\ registry' = reg /\ UNCHANGED <<counters, ids, known>>
  /\ UNCHANGED <<dropped, victim>>

(* load_lora_adapter reports an error that is not "already loaded".        *)
FailLoad(t, reg) ==
  /\ lock' = Tail(lock) /\ registry' = reg
  /\ Refuse(t)
  /\ UNCHANGED <<counters, dropped, victim, todo, ids>>

(* Mutant of Evict: one adapter too many is kept.                          *)
EvictLate(t, reg) ==
  CASE Len(reg) <= MaxLoaded + 1 -> EndLoad(t, reg)
    [] Len(reg) > MaxLoaded + 1 /\ LruLoraName(reg) = {} -> FailLoad(t, reg)
    [] OTHER -> /\ \E n \in LruLoraName(reg) : StartUnload(t, reg, n)
                /\ UNCHANGED <<counters, lock, todo, ids, known>>

(* The loop of load_lora_adapter that evicts until the limit is respected. *)
Evict(t, reg) ==
  CASE Len(reg) <= MaxLoaded -> EndLoad(t, reg)
    [] Len(reg) > MaxLoaded /\ LruLoraName(reg) = {} -> FailLoad(t, reg)
    [] OTHER -> /\ \E n \in LruLoraName(reg) : StartUnload(t, reg, n)
                /\ UNCHANGED <<counters, lock, todo, ids, known>>

(* The orders in which a set can be gone through.                          *)
Orders(S) == Bijection(1 .. Cardinality(S), S)

(* _resolve_lora_path: acquire at once when everything is registered,      *)
(* otherwise queue for the first load.  The names are taken from a set, in *)
(* any order, and looking a name up makes it the most recently used.       *)
Resolve(t) ==
  /\ t \in Requests /\ pc[t] = "start"
  /\ LET registered == {n \in Range(Wants[t]) : Registered(registry, n)}
         unregistered == Range(Wants[t]) \ registered
     IN  \E hits \in Orders(registered), misses \in Orders(unregistered) :
           IF unregistered = {}
             THEN Acquire(t, Touch(registry, hits)) /\ UNCHANGED <<todo, lock>>
             ELSE /\ registry' = Touch(registry, hits)
                  /\ todo' = [todo EXCEPT ![t] = misses]
                  /\ lock' = Append(lock, t)
                  /\ Goto(t, "queued")
                  /\ UNCHANGED <<counters, ids, known>>
  /\ UNCHANGED <<dropped, loaded, last_id, victim, running, owed>>

(* unload_lora_adapter queues for the lock.                                *)
UnloadLoraAdapter(t) ==
  /\ t \in Unloads /\ pc[t] = "start"
  /\ lock' = Append(lock, t)
  /\ Goto(t, "queued")
  /\ UNCHANGED <<registry, counters, dropped, loaded, last_id, todo, victim, ids, useVars>>

(* A request gets the lock and sends its load to the backend.              *)
StartLoad(t) ==
  /\ t \in Requests /\ pc[t] = "queued" /\ Head(lock) = t
  /\ Goto(t, "loading")
  /\ UNCHANGED <<updateVars, ids, useVars>>

(* An unload gets the lock.  An adapter that is not registered is an error.*)
Unload(t) ==
  /\ t \in Unloads /\ pc[t] = "queued" /\ Head(lock) = t
  /\ IF Registered(registry, Target[t])
       THEN StartUnload(t, registry, Target[t]) /\ UNCHANGED lock
       ELSE Goto(t, "failed") /\ lock' = Tail(lock) /\ UNCHANGED <<registry, victim, dropped>>
  /\ UNCHANGED <<counters, loaded, last_id, todo, ids, useVars>>

(* The answer of the backend to a load.  On success the new reference is   *)
(* registered with a new counter.  That the adapter is already loaded is   *)
(* no error to _resolve_lora_path.                                         *)
LoadDone(t) ==
  /\ pc[t] = "loading"
  /\ LET ref == [name |-> Head(todo[t]), id |-> last_id + 1]
     IN  \/ /\ last_id < MaxId
            /\ ref.name \notin NamesOf(loaded)
            /\ loaded' = loaded \cup {ref}
            /\ last_id' = ref.id
            /\ Evict(t, Append(registry, ref))
         \/ /\ ref.name \in NamesOf(loaded)
            /\ Evict(t, registry)
            /\ UNCHANGED <<loaded, last_id>>
         \/ /\ "load" \in Faults
            /\ FailLoad(t, registry)
            /\ UNCHANGED <<loaded, last_id>>
  /\ UNCHANGED <<running, owed>>

(* Mutant of NoLongerUsed: it waits for one release too many.              *)
NoLongerUsedBelowZero(t) ==
  /\ pc[t] = "waiting" /\ counters[victim[t]] < 0
  /\ dropped' = dropped \cup {victim[t]}
  /\ Goto(t, "unloading")
  /\ UNCHANGED <<registry, counters, loaded, last_id, lock, todo, victim, ids, useVars>>

(* wait_for_unload: the counter has become zero.                           *)
NoLongerUsed(t) ==
  /\ pc[t] = "waiting" /\ counters[victim[t]] = 0
  /\ dropped' = dropped \cup {victim[t]}
  /\ Goto(t, "unloading")
  /\ UNCHANGED <<registry, counters, loaded, last_id, lock, todo, victim, ids, useVars>>

(* Mutant of UnloadDone: the lock is not given up.                         *)
UnloadDoneKeepsLock(t) ==
  /\ pc[t] = "unloading"
  /\ loaded' = {r \in loaded : r.id # victim[t]}
  /\ IF t \in Unloads
       THEN /\ Goto(t, "done")
            /\ UNCHANGED <<registry, counters, dropped, lock, todo, victim, ids, known>>
       ELSE Evict(t, registry)
  /\ UNCHANGED <<last_id, running, owed>>

(* The answer of the backend to an unload.                                 *)
UnloadDone(t) ==
  /\ pc[t] = "unloading"
  /\ loaded' = {r \in loaded : r.id # victim[t]}
  /\ IF t \in Unloads
       THEN /\ Goto(t, "done") /\ lock' = Tail(lock)
            /\ UNCHANGED <<registry, counters, dropped, todo, victim, ids, known>>
       ELSE Evict(t, registry)
  /\ UNCHANGED <<last_id, running, owed>>

----------------------------------------------------------------------------
(* The life of an admitted request.                                        *)

(* The tasks of the gather in acquire have run.                            *)
CountUses(t) ==
  /\ pc[t] = "counting"
  /\ counters' = Counted(counters, ids[t])
  /\ Goto(t, "acquired")
  /\ UNCHANGED <<registry, dropped, loaded, last_id, lock, todo, victim, ids, useVars>>

(* The request has been tokenized and is sent to the scheduler.            *)
Send(t) ==
  /\ pc[t] = "acquired"
  /\ running' = [running EXCEPT ![t] = Prompts(t)]
  /\ Goto(t, "running")
  /\ UNCHANGED <<updateVars, ids, known, owed>>

(* Tokenization or validation raises: generate_request drops the entries   *)
(* of rid_to_state.                                                        *)
Reject(t) ==
  /\ "reject" \in Faults
  /\ pc[t] = "acquired"
  /\ Refuse(t)
  /\ UNCHANGED <<updateVars, ids, running, owed>>

Owe(t, i, n) == owed' = [owed EXCEPT ![ids[t][i]] = @ + n]
Ends(t, i) == running' = [running EXCEPT ![t] = @ \ {i}]
Forget(t, S) == known' = [known EXCEPT ![t] = @ \ S]

(* Mutant of HandleBatchOutput: the adapter is not released.               *)
HandleBatchOutputNoRelease(t, i) ==
  /\ i \in running[t]
  /\ Ends(t, i)
  /\ Forget(t, {i})
  /\ UNCHANGED <<updateVars, pc, ids, owed>>

(* _handle_batch_output, when a prompt is finished: without an entry the   *)
(* output is ignored; otherwise release is called.  A prompt that took too *)
(* long is released once more by the task that waits for it.               *)
HandleBatchOutput(t, i) ==
  /\ i \in running[t]
  /\ Ends(t, i)
  /\ Forget(t, {i})
  /\ \/ i \notin known[t] /\ UNCHANGED owed
     \/ i \in known[t] /\ Owe(t, i, 1)
     \/ i \in known[t] /\ "timeout" \in Faults /\ Owe(t, i, 2)
  /\ UNCHANGED <<updateVars, pc, ids>>

(* _handle_abort_req: the scheduler has dropped a queued prompt.  Only     *)
(* when it says that it is overloaded does the waiting task release.       *)
HandleAbortReq(t, i) ==
  /\ i \in running[t] \cap known[t]
  /\ Ends(t, i)
  /\ Forget(t, {i})
  /\ \/ "full" \in Faults /\ Owe(t, i, 1)
     \/ "abort" \in Faults /\ UNCHANGED owed
  /\ UNCHANGED <<updateVars, pc, ids>>

(* _wait_one_response finds the client gone and raises; the scheduler is   *)
(* told and goes on to report the end of the request.                      *)
Disconnect(t) ==
  /\ "disconnect" \in Faults
  /\ running[t] \cap known[t] # {}
  /\ Forget(t, Prompts(t))
  /\ UNCHANGED <<updateVars, pc, ids, running, owed>>

(* release.  When the counter has been deleted it raises.                  *)
Release(id) ==
  /\ owed[id] > 0
  /\ owed' = [owed EXCEPT ![id] = @ - 1]
  /\ counters' = IF id \in dropped THEN counters ELSE [counters EXCEPT ![id] = @ - 1]
  /\ UNCHANGED <<registry, dropped, loaded, last_id, lock, todo, victim,
                 pc, ids, running, known>>

----------------------------------------------------------------------------
Updates(t) ==
  Resolve(t) \/ UnloadLoraAdapter(t) \/ StartLoad(t) \/ Unload(t) \/ LoadDone(t)
    \/ NoLongerUsed(t) \/ UnloadDone(t)

Serve(t) == CountUses(t) \/ Send(t) \/ \E i \in Prompts(t) : HandleBatchOutput(t, i)

EndsEarly(t) == Reject(t) \/ Disconnect(t) \/ \E i \in Prompts(t) : HandleAbortReq(t, i)

Progress ==
  (\E t \in Tasks : Updates(t)) \/ (\E t \in Requests : Serve(t)) \/ \E id \in Ids : Release(id)

Next ==
  /\ Progress \/ \E t \in Requests : EndsEarly(t)
  /\ UNCHANGED workload

Spec == Init /\ [][Next]_vars

(* The event loop runs ready tasks, the backend answers, and the scheduler *)
(* finishes what it runs.  No operation can be repeated for ever, so weak  *)
(* fairness of all of them together is enough.                             *)
FairSpec == Spec /\ WF_vars(Progress /\ UNCHANGED workload)

----------------------------------------------------------------------------
(* The uses of an adapter: prompts that have been given its id and have    *)
(* not finished.                                                           *)
Uses(t, i) == i \in DOMAIN ids[t] /\ (pc[t] = "acquired" \/ i \in running[t])
UsesOf(id) ==
  UNION {{<<t, i>> : i \in {j \in Prompts(t) : Uses(t, j) /\ ids[t][j] = id}} : t \in Requests}

(* Requests that name one adapter each and end through the scheduler's     *)
(* output or a full queue.                                                 *)
Regular == (\A t \in Requests : Len(Wants[t]) = 1) /\ Faults \subseteq {"full"}

(* The backend has every adapter that an admitted request uses.            *)
HasUsed ==
  \A t \in Requests : \A i \in Prompts(t) :
    Uses(t, i) => \E r \in loaded : r.id = ids[t][i]

(* "Initiate the actual unloading operation at the backend processes only  *)
(* after all ongoing requests using this LoRA adapter are finished": among *)
(* regular requests no eviction or unload takes an adapter from one that   *)
(* uses it.  (HasUsed fails without the restriction: for a list of         *)
(* adapters, and with "timeout" among the faults.)                         *)
UsedIsLoaded == Regular => HasUsed

(* The counter that wait_for_unload waits for is the number of uses, and   *)
(* of uses that have ended and whose release has not run.                  *)
CountersExact ==
  Regular =>
    \A id \in Ids \ dropped : counters[id] = Cardinality(UsesOf(id)) + owed[id]

(* Whatever requests come and however they end, what the registry offers   *)
(* the backend has, under the same id, and no name is there twice.         *)
RegistryIsLoaded ==
  /\ Range(registry) \subseteq loaded
  /\ IsInjective([i \in DOMAIN registry |-> registry[i].name])

(* Whatever requests come and however they end, whenever no load or unload *)
(* is going on at most max_loaded_loras adapters are in the registry and   *)
(* in the backend.                                                         *)
LimitRespected ==
  lock = <<>> => Len(registry) <= MaxLoaded /\ Cardinality(loaded) <= MaxLoaded

(* A regular request is not refused because others load, evict or unload   *)
(* its adapter at the same time: it is loaded again, and nothing comes     *)
(* between the load and the acquire.                                       *)
NeverRefused == Regular => \A t \in Requests : pc[t] # "failed"

(* Every regular request and every unload comes to an end: no two of them  *)
(* wait for each other, although a load waits for the requests that use    *)
(* the adapter it evicts while others wait for the lock it holds.          *)
AllEnd ==
  Regular =>
    <>(/\ \A t \in Tasks : pc[t] \in {"running", "failed", "done"}
       /\ \A t \in Requests : running[t] = {})

(* Task t waits for the end of uses that have all ended.                   *)
WaitsForNothing(t) == t \in Tasks /\ pc[t] = "waiting" /\ UsesOf(victim[t]) = {}
Everyone == Unloads \cup UNION {DOMAIN w.wants : w \in Workloads}

(* "Waits until the usage counter for a LoRA adapter reaches zero,         *)
(* indicating that it is no longer in use": an unload waits no longer than *)
(* regular requests use the adapter.  (Without the restriction it fails    *)
(* with "reject", "disconnect" or "abort" among the faults.)               *)
WaitsForUsesOnly ==
  \A t \in Everyone : (Regular /\ WaitsForNothing(t)) ~> ~WaitsForNothing(t)
=============================================================================
