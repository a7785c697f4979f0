--------------------------- MODULE DisaggPipeline ---------------------------
(***************************************************************************)
(* The disaggregated diffusion pipeline: clients, the DiffusionServer, the *)
(* role instances and the sockets between them.                            *)
(***************************************************************************)
EXTENDS DiffusionServer, RoleInstance, FiniteSets

CONSTANT Timeouts       \* whether requests may outlive --disagg-timeout

ASSUME PipelineAssumption == Timeouts \in BOOLEAN

vars == <<netVars, serverVars, instVars>>

Init == NetworkInit /\ ServerInit /\ InstanceInit

Client == \E r \in Requests : ClientSend(r) /\ UNCHANGED <<serverVars, instVars>>

Server == ServerNext /\ UNCHANGED instVars

Clock == Timeouts /\ \E r \in Requests : Expire(r) /\ UNCHANGED instVars

Instances == InstanceNext /\ UNCHANGED serverVars

(* The poll times out and the turn finds nothing to do.                    *)
Idle ==
  /\ phase = "poll"
  /\ ~ HasWork
  /\ UNCHANGED vars

Next == Client \/ Server \/ Clock \/ Instances \/ Idle

Spec == Init /\ [][Next]_vars

----------------------------------------------------------------------------
(* Every queue, table and record of the server, of the instances and of the
   sockets between them holds only values of its declared type. *)
TypeOK == NetworkTypeOK /\ ServerTypeOK /\ InstanceTypeOK

(* A request is at any time in exactly one place: not sent, in the socket  *)
(* of DS, waiting for its reply and tracked in an active state, or         *)
(* answered exactly once.  No timeout, error or late message makes DS lose *)
(* a client (_pending and _tracker never disagree) or answer it twice.     *)
In(r, q) == \E i \in 1 .. Len(q) : q[i] = r

RequestsAccounted ==
  \A r \in Requests :
    /\ Tracked(tracker, r) <=> r \in pending
    /\ tracker[r].state \notin TerminalStates
    /\ \/ r \in unsent /\ ~ In(r, frontend) /\ r \notin pending /\ replies[r] = <<>>
       \/ r \notin unsent /\ In(r, frontend) /\ r \notin pending /\ replies[r] = <<>>
       \/ r \notin unsent /\ ~ In(r, frontend) /\ r \in pending /\ replies[r] = <<>>
       \/ r \notin unsent /\ ~ In(r, frontend) /\ r \notin pending /\ Len(replies[r]) = 1

(* The slot counters stay between zero and the capacity: no path through   *)
(* errors, timeouts and late messages takes a slot that is not free or     *)
(* gives one back twice.                                                   *)
SlotsBounded == \A x \in Inst : free[x] \in 0 .. Capacity(x[1])

(* When a turn of the loop ends, a request is left in a queue only if no   *)
(* instance of the role has a free slot.                                   *)
WorkConserving ==
  phase = "poll" =>
    \A role \in Roles :
      tta[role] # <<>> => \A i \in Indices(role) : free[<<role, i>>] = 0

(* The data of slot s of x, or of the slow-path block of r on x.           *)
Holds(x, r, s) == IF s = NoSlot THEN r \in block_data[x] ELSE prealloc_data[x][s] = r

(* When a receiver has been told that the data of a request is there, it   *)
(* is, and it stays until the main thread has waited for the load: a       *)
(* receive slot is not written for another request in between.             *)
DataIntegrity ==
  \A x \in Inst :
    /\ \A i \in 1 .. Len(work[x]) :
         work[x][i].type = "ready" => Holds(x, work[x][i].id, work[x][i].slot)
    /\ \A i \in 1 .. Len(compute_ready_queue[x]) :
         LET item == compute_ready_queue[x][i]
         IN  item.kind = "transfer_compute" => Holds(x, item.id, item.slot)

(* A pre-allocated receive slot on the free list of DS is listed once and  *)
(* is idle: no push to it is on its way and no load from it is due.        *)
FreeSlotsIdle ==
  \A x \in Inst : \A k \in 1 .. Len(peers[x]) :
    LET s == peers[x][k].slot
        dest == [inst |-> x, slot |-> s]
    IN  /\ \A j \in 1 .. Len(peers[x]) : peers[x][j].slot = s => j = k
        /\ \A y \in Inst :
             /\ \A i \in 1 .. Len(work[y]) :
                  work[y][i].type = "push" => work[y][i].dest # dest
             /\ \A i \in 1 .. Len(rdma_push_queue[y]) : rdma_push_queue[y][i].dest # dest
        /\ \A i \in 1 .. Len(work[x]) :
             work[x][i].type = "ready" => work[x][i].slot # s
        /\ \A i \in 1 .. Len(compute_ready_queue[x]) :
             compute_ready_queue[x][i].kind = "transfer_compute"
               => compute_ready_queue[x][i].slot # s

(* A push is asked only of the instance that holds the staged output, so   *)
(* DS has named the right sender although it keeps only its index and      *)
(* takes its role from the request's state.                                *)
PushesFromHolder ==
  \A x \in Inst :
    /\ \A i \in 1 .. Len(work[x]) :
         work[x][i].type = "push" => work[x][i].id \in staged[x]
    /\ \A i \in 1 .. Len(rdma_push_queue[x]) : rdma_push_queue[x][i].id \in staged[x]

(* The requests that occupy instance x.                                    *)
Occupants(x) ==
  staged[x] \cup pending_receives[x]
    \cup {work[x][i].id : i \in 1 .. Len(work[x])}
    \cup {compute_ready_queue[x][i].id : i \in 1 .. Len(compute_ready_queue[x])}

(* An instance is never given more requests than it has slots.             *)
CapacityRespected == \A x \in Inst : Cardinality(Occupants(x)) <= Capacity(x[1])

(* Every message has been handled and every queue is empty.                *)
Quiescent ==
  /\ phase = "poll"
  /\ frontend = <<>>
  /\ \A x \in Inst :
       work[x] = <<>> /\ rdma_push_queue[x] = <<>> /\ compute_ready_queue[x] = <<>>
  /\ \A c \in Connections : result[c] = <<>>
  /\ \A role \in Roles : tta[role] = <<>>

(* Once everything has been handled nothing is still taken: slots, staged  *)
(* outputs, receive blocks and transfer state have all been given back.    *)
NothingLeaked ==
  Quiescent =>
    /\ \A x \in Inst : free[x] = Capacity(x[1]) /\ staged[x] = {} /\ pending_receives[x] = {}
    /\ \A r \in Requests : xfer[r] = NoXfer

(* Once everything has been handled every instance has all its slots.  The *)
(* comments of the server say where a slot is freed: "Encoder slot freed   *)
(* later in _handle_transfer_pushed after RDMA completes" and, on a        *)
(* timeout, "Free the slot for the timed-out request".                     *)
SlotsReturned == Quiescent => \A x \in Inst : free[x] = Capacity(x[1])

----------------------------------------------------------------------------
(* Threads run; a client's request is received; an old request gets older. *)
ServerFairness == WF_vars(Server)
InstanceFairness ==
  \A x \in Inst :
    /\ WF_vars(ReceiveThread(x) /\ UNCHANGED serverVars)
    /\ WF_vars(RdmaPush(x) /\ UNCHANGED serverVars)
    /\ WF_vars(ComputeThread(x) /\ UNCHANGED serverVars)
ClockFairness ==
  \A r \in Requests : WF_vars(Timeouts /\ Expire(r) /\ UNCHANGED instVars)

FairSpec == Spec /\ ServerFairness /\ InstanceFairness /\ ClockFairness

(* Nothing is assumed of the instances: their threads may have ended, as   *)
(* the main thread does after _max_consecutive_errors exceptions in a row. *)
TimeoutSpec == Spec /\ ServerFairness /\ ClockFairness

(* Every request that reaches DS is answered: by the stages of the         *)
(* pipeline, by the error message of one of them, or by the timeout.       *)
Answered == \A r \in Requests : (In(r, frontend) \/ r \in pending) ~> replies[r] # <<>>
=============================================================================
