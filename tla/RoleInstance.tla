---------------------------- MODULE RoleInstance ----------------------------
(***************************************************************************)
(* The encoder, denoiser and decoder instances                             *)
(* (disaggregation/scheduler_mixin.py, single rank) with the parts of the  *)
(* transfer manager (transport/manager.py) they use.                       *)
(*                                                                         *)
(* A sender role has an RDMA push thread fed by a bounded queue.  A        *)
(* receiver role has a receive thread that loads data that arrived and     *)
(* feeds the main thread through a bounded queue.  An encoder's main       *)
(* thread reads its socket itself.                                         *)
(*                                                                         *)
(* Memory is what a property needs of it: which request's data a           *)
(* pre-allocated receive slot holds, and which slow-path blocks have been  *)
(* written.                                                                *)
(***************************************************************************)
EXTENDS DisaggNetwork

CONSTANTS
  QueueSize,            \* maxsize of _rdma_push_queue and _compute_ready_queue
  Faults                \* the faults that may happen

(* compute: the model or the staging of its output reports an error;       *)
(* push: the transfer engine fails; alloc: no receive block is available;  *)
(* exception: a handler raises, which its loop logs.                       *)
FaultKinds == {"compute", "push", "alloc", "exception"}

ASSUME InstanceAssumption ==
  /\ QueueSize \in Nat \ {0}
  /\ Faults \subseteq FaultKinds

VARIABLES
  staged,               \* staged[x]: requests whose output x holds for a push
  rdma_push_queue,      \* pushes x has been asked for
  pending_receives,     \* requests x has allocated a block for
  compute_ready_queue,  \* work for x's main thread
  prealloc_data,        \* prealloc_data[x][s]: the request whose data slot s holds
  block_data            \* requests whose data has been written to their block of x

instVars == <<staged, rdma_push_queue, pending_receives,
              compute_ready_queue, prealloc_data, block_data>>

NoData == "NoData"

ReadyItem ==
  [kind : {"transfer_compute"}, id : Requests, slot : Slots \cup {NoSlot}]
    \cup [kind : {"transfer_control"}, id : Requests]

InstanceTypeOK ==
  /\ staged \in [Inst -> SUBSET Requests]
  /\ rdma_push_queue \in [Inst -> Seq([id : Requests, dest : Dest])]
  /\ pending_receives \in [Inst -> SUBSET Requests]
  /\ compute_ready_queue \in [Inst -> Seq(ReadyItem)]
  /\ prealloc_data \in [Inst -> [Slots -> Requests \cup {NoData}]]
  /\ block_data \in [Inst -> SUBSET Requests]

InstanceInit ==
  /\ staged = [x \in Inst |-> {}]
  /\ rdma_push_queue = [x \in Inst |-> <<>>]
  /\ pending_receives = [x \in Inst |-> {}]
  /\ compute_ready_queue = [x \in Inst |-> <<>>]
  /\ prealloc_data = [x \in Inst |-> [s \in Slots |-> NoData]]
  /\ block_data = [x \in Inst |-> {}]

----------------------------------------------------------------------------
Take(x, type) ==
  /\ work[x] # <<>>
  /\ Head(work[x]).type = type
  /\ work' = [work EXCEPT ![x] = Tail(@)]

Report(x, socket, m) == result' = [result EXCEPT ![<<x, socket>>] = Append(@, m)]

(* The output of r is staged on x and reported to DS.                      *)
Stage(x, r, m) ==
  /\ staged' = [staged EXCEPT ![x] = @ \cup {r}]
  /\ Report(x, "main", m)

(* The model or the reporting of its output raises, before or after the    *)
(* output was staged.  The loop logs the exception and goes on.  (After    *)
(* _max_consecutive_errors of them it ends, which is a behaviour of this   *)
(* model too: the instance takes no more steps.)                           *)
Raise(x, r) ==
  /\ "exception" \in Faults
  /\ \E S \in {{}, {r}} : staged' = [staged EXCEPT ![x] = @ \cup S]
  /\ UNCHANGED result

(* _disagg_encoder_step: stage the output, report an error, or raise.      *)
EncoderStep(x) ==
  /\ Take(x, "work")
  /\ LET r == Head(work[x]).id
     IN  \/ \E size \in Sizes : Stage(x, r, TransferStagedMsg(r, size))
         \/ "compute" \in Faults /\ Report(x, "main", ErrorFrames(r)) /\ UNCHANGED staged
         \/ Raise(x, r)
  /\ UNCHANGED <<unsent, frontend, replies, rdma_push_queue, pending_receives,
                 compute_ready_queue, prealloc_data, block_data>>

(* _handle_transfer_push, on the main thread of an encoder and on the      *)
(* receive thread of a denoiser.  The thread waits while the queue is full.*)
HandleTransferPush(x) ==
  /\ Take(x, "push")
  /\ Len(rdma_push_queue[x]) < QueueSize
  /\ rdma_push_queue' = [rdma_push_queue EXCEPT ![x] =
       Append(@, [id |-> Head(work[x]).id, dest |-> Head(work[x]).dest])]
  /\ UNCHANGED <<unsent, frontend, result, replies, staged, pending_receives,
                 compute_ready_queue, prealloc_data, block_data>>

(* A turn of _rdma_push_loop.  DS is told the push is over whether or not  *)
(* it succeeded; what was staged is freed only on success.  When the       *)
(* engine raises DS is told nothing.                                       *)
Write(r, dest) ==
  IF dest.slot = NoSlot
    THEN /\ block_data' = [block_data EXCEPT ![dest.inst] = @ \cup {r}]
         /\ UNCHANGED prealloc_data
    ELSE /\ prealloc_data' = [prealloc_data EXCEPT ![dest.inst][dest.slot] = r]
         /\ UNCHANGED block_data

RdmaPush(x) ==
  /\ rdma_push_queue[x] # <<>>
  /\ rdma_push_queue' = [rdma_push_queue EXCEPT ![x] = Tail(@)]
  /\ LET item == Head(rdma_push_queue[x])
     IN  \/ /\ item.id \in staged[x]
            /\ Write(item.id, item.dest)
            /\ staged' = [staged EXCEPT ![x] = @ \ {item.id}]
            /\ Report(x, "rdma", TransferPushedMsg(item.id))
         \/ /\ item.id \notin staged[x] \/ "push" \in Faults
            /\ Report(x, "rdma", TransferPushedMsg(item.id))
            /\ UNCHANGED <<staged, prealloc_data, block_data>>
         \/ /\ "exception" \in Faults
            /\ UNCHANGED <<staged, prealloc_data, block_data, result>>
  /\ UNCHANGED <<unsent, frontend, work, replies, pending_receives, compute_ready_queue>>

(* _recv_prefetch_loop, on READY: start the load and queue the request for *)
(* the main thread.  A pre-allocated slot is entered as the receive slot   *)
(* of the request; a slow-path request needs the block it was allocated,   *)
(* without which the load raises.                                          *)
PrefetchTransferReady(x) ==
  /\ Take(x, "ready")
  /\ LET m == Head(work[x])
         held == IF m.slot = NoSlot THEN pending_receives[x]
                 ELSE pending_receives[x] \cup {m.id}
     IN  /\ pending_receives' = [pending_receives EXCEPT ![x] = held]
         /\ \/ /\ m.id \in held
               /\ Len(compute_ready_queue[x]) < QueueSize
               /\ compute_ready_queue' = [compute_ready_queue EXCEPT ![x] =
                    Append(@, [kind |-> "transfer_compute", id |-> m.id, slot |-> m.slot])]
            \/ /\ m.id \notin held \/ "exception" \in Faults
               /\ UNCHANGED compute_ready_queue
  /\ UNCHANGED <<unsent, frontend, result, replies, staged, rdma_push_queue,
                 prealloc_data, block_data>>

(* _recv_prefetch_loop, on ALLOC: leave it to the main thread.             *)
PrefetchControl(x) ==
  /\ Take(x, "alloc")
  /\ Len(compute_ready_queue[x]) < QueueSize
  /\ compute_ready_queue' = [compute_ready_queue EXCEPT ![x] =
       Append(@, [kind |-> "transfer_control", id |-> Head(work[x]).id])]
  /\ UNCHANGED <<unsent, frontend, result, replies, staged, rdma_push_queue,
                 pending_receives, prealloc_data, block_data>>

----------------------------------------------------------------------------
(* _disagg_prefetch_event_loop: the main thread of a receiver.             *)
Dequeue(x, kind) ==
  /\ compute_ready_queue[x] # <<>>
  /\ Head(compute_ready_queue[x]).kind = kind
  /\ compute_ready_queue' = [compute_ready_queue EXCEPT ![x] = Tail(@)]

(* _handle_transfer_alloc: no answer when no block is available.           *)
HandleTransferAlloc(x) ==
  /\ Dequeue(x, "transfer_control")
  /\ LET r == Head(compute_ready_queue[x]).id
     IN  \/ /\ pending_receives' = [pending_receives EXCEPT ![x] = @ \cup {r}]
            /\ Report(x, "main", TransferAllocatedMsg(r))
         \/ "alloc" \in Faults /\ UNCHANGED <<pending_receives, result>>
  /\ UNCHANGED <<unsent, frontend, work, replies, staged, rdma_push_queue,
                 prealloc_data, block_data>>

(* Once the load is complete the receive block is freed; a pre-allocated   *)
(* slot is kept and only DS makes it available again.                      *)
FreeReceiveSlot(x, item) ==
  /\ pending_receives' = [pending_receives EXCEPT ![x] = @ \ {item.id}]
  /\ block_data' = IF item.slot = NoSlot
                     THEN [block_data EXCEPT ![x] = @ \ {item.id}] ELSE block_data

(* _disagg_denoiser_compute                                                *)
DenoiserCompute(x) ==
  /\ x[1] = "denoiser"
  /\ Dequeue(x, "transfer_compute")
  /\ LET r == Head(compute_ready_queue[x]).id
     IN  /\ FreeReceiveSlot(x, Head(compute_ready_queue[x]))
         /\ \/ \E size \in Sizes : Stage(x, r, TransferDoneMsg(r, size))
            \/ "compute" \in Faults /\ Report(x, "main", TransferDoneError(r)) /\ UNCHANGED staged
            \/ Raise(x, r)
  /\ UNCHANGED <<unsent, frontend, work, replies, rdma_push_queue, prealloc_data>>

(* _disagg_decoder_compute                                                 *)
DecoderCompute(x) ==
  /\ x[1] = "decoder"
  /\ Dequeue(x, "transfer_compute")
  /\ LET r == Head(compute_ready_queue[x]).id
     IN  /\ FreeReceiveSlot(x, Head(compute_ready_queue[x]))
         /\ \/ Report(x, "main", ResultFrames(r, "ok"))
            \/ "compute" \in Faults /\ Report(x, "main", ResultFrames(r, "error"))
            \/ "exception" \in Faults /\ UNCHANGED result
  /\ UNCHANGED <<unsent, frontend, work, replies, staged, rdma_push_queue, prealloc_data>>

----------------------------------------------------------------------------
(* The threads of an instance.                                             *)
ReceiveThread(x) ==
  EncoderStep(x) \/ HandleTransferPush(x) \/ PrefetchTransferReady(x) \/ PrefetchControl(x)
ComputeThread(x) == HandleTransferAlloc(x) \/ DenoiserCompute(x) \/ DecoderCompute(x)

InstanceNext == \E x \in Inst : ReceiveThread(x) \/ RdmaPush(x) \/ ComputeThread(x)
=============================================================================
