---------------------------- MODULE DisaggNetwork ----------------------------
(***************************************************************************)
(* What connects the DiffusionServer (DS) to its clients and to the role   *)
(* instances: ZeroMQ sockets, external to the repository and modelled from *)
(* how the code uses them.  DS holds one PUSH socket per instance (work),  *)
(* so an instance receives in the order DS sent.  An instance reaches the  *)
(* PULL socket of its role over one connection per PUSH socket it opens:   *)
(* the scheduler's own ("main") and, on a sender role, the one of its RDMA *)
(* push thread ("rdma").  A connection is FIFO; a PULL socket takes from   *)
(* its connections in any order, so the two connections of one instance    *)
(* are not ordered with each other.                                        *)
(***************************************************************************)
EXTENDS Integers, Sequences

CONSTANTS
  Requests,             \* request ids; a client waits for the reply of each
  NumEncoders, NumDenoisers, NumDecoders,
  Sizes,                \* sizes a staged output can have; it is never empty
  NumPrealloc,          \* receive slots a receiver pre-allocates
  PreallocSize          \* their size

ASSUME NetworkAssumption ==
  /\ NumEncoders \in Nat \ {0}
  /\ NumDenoisers \in Nat \ {0}
  /\ NumDecoders \in Nat \ {0}
  /\ Sizes \subseteq Nat \ {0}
  /\ NumPrealloc \in Nat
  /\ PreallocSize \in Nat

Roles == {"encoder", "denoiser", "decoder"}

Num(role) ==
  IF role = "encoder" THEN NumEncoders
  ELSE IF role = "denoiser" THEN NumDenoisers
  ELSE NumDecoders

(* An instance is named by its role and its index in the --*-urls list.    *)
Indices(role) == 0 .. Num(role) - 1
InstancesOf(role) == {role} \X Indices(role)
Inst == UNION {InstancesOf(role) : role \in Roles}
Senders == InstancesOf("encoder") \cup InstancesOf("denoiser")
Receivers == InstancesOf("denoiser") \cup InstancesOf("decoder")

Slots == 0 .. NumPrealloc - 1
NoSlot == -1

(* Where a push writes: pre-allocated slot `slot' of instance `inst', or,  *)
(* for NoSlot, the block `inst' allocated for this request.                *)
Dest == [inst : Inst, slot : Slots \cup {NoSlot}]

----------------------------------------------------------------------------
(* Messages from DS to an instance.                                        *)
WorkFrame(r) == [type |-> "work", id |-> r]
TransferAllocMsg(r) == [type |-> "alloc", id |-> r]
TransferPushMsg(r, inst, slot) ==
  [type |-> "push", id |-> r, dest |-> [inst |-> inst, slot |-> slot]]
TransferReadyMsg(r, slot) == [type |-> "ready", id |-> r, slot |-> slot]

WorkMsg ==
  [type : {"work", "alloc"}, id : Requests]
    \cup [type : {"push"}, id : Requests, dest : Dest]
    \cup [type : {"ready"}, id : Requests, slot : Slots \cup {NoSlot}]

(* Messages from an instance to DS.  The addresses they carry identify the *)
(* instance, which is the connection they arrive on.                       *)
TransferRegisterMsg == [type |-> "register"]
TransferStagedMsg(r, size) == [type |-> "staged", id |-> r, size |-> size]
TransferAllocatedMsg(r) == [type |-> "allocated", id |-> r]
TransferPushedMsg(r) == [type |-> "pushed", id |-> r]
TransferDoneMsg(r, size) == [type |-> "done", id |-> r, size |-> size]
TransferDoneError(r) == [type |-> "done_error", id |-> r]
ErrorFrames(r) == [type |-> "error", id |-> r]
ResultFrames(r, outcome) == [type |-> "result", id |-> r, outcome |-> outcome]

Outcomes == {"ok", "error"}

ResultMsg ==
  {TransferRegisterMsg}
    \cup [type : {"staged", "done"}, id : Requests, size : Sizes]
    \cup [type : {"allocated", "pushed", "done_error", "error"}, id : Requests]
    \cup [type : {"result"}, id : Requests, outcome : Outcomes]

Connections == Inst \X {"main", "rdma"}

----------------------------------------------------------------------------
VARIABLES
  unsent,       \* requests no client has sent yet
  frontend,     \* queue of the ROUTER socket
  work,         \* work[x]: from DS to instance x
  result,       \* result[<<x, s>>]: from socket s of instance x to DS
  replies       \* replies[r]: what the client of r has been sent

netVars == <<unsent, frontend, work, result, replies>>

NetworkTypeOK ==
  /\ unsent \subseteq Requests
  /\ frontend \in Seq(Requests)
  /\ work \in [Inst -> Seq(WorkMsg)]
  /\ result \in [Connections -> Seq(ResultMsg)]
  /\ replies \in [Requests -> Seq(Outcomes)]

(* Every instance registers on its main socket when it starts.  DS may     *)
(* serve requests before it handles the registration.                      *)
NetworkInit ==
  /\ unsent = Requests
  /\ frontend = <<>>
  /\ work = [x \in Inst |-> <<>>]
  /\ result = [c \in Connections |->
                IF c[2] = "main" THEN <<TransferRegisterMsg>> ELSE <<>>]
  /\ replies = [r \in Requests |-> <<>>]

(* The readable sockets of DS.                                             *)
ReadableSockets ==
  {role \in Roles : \E c \in Connections : c[1][1] = role /\ result[c] # <<>>}
    \cup (IF frontend = <<>> THEN {} ELSE {"frontend"})

Send(x, m) == work' = [work EXCEPT ![x] = Append(@, m)]

(* A client submits a request on its own REQ socket and waits.             *)
ClientSend(r) ==
  /\ r \in unsent
  /\ unsent' = unsent \ {r}
  /\ frontend' = Append(frontend, r)
  /\ UNCHANGED <<work, result, replies>>
=============================================================================
