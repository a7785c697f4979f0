------------------------ MODULE DisaggHandlerProofs ------------------------
(***************************************************************************)
(* The steps of the instances and the handlers of the server for what they *)
(* report keep every request in one place and the slots accounted for.     *)
(***************************************************************************)
EXTENDS DisaggPipelineProofs, DisaggMailProofs

----------------------------------------------------------------------------
(* The steps of the instances.                                             *)

LEMMA SlotsInstances ==
  ASSUME TypeOK, SlotInv, Instances
  PROVE  SlotInv'
(* The boxes after a message was taken from a queue and, possibly, one was *)
(* added to another.                                                       *)
<1>TakeMail.
  ASSUME TypeOK, NEW x \in Inst, NEW type, Take(x, type)
  PROVE  /\ Mail[<<"work", x>>] # <<>> /\ <<"work", x>> \in Boxes
         /\ Head(work[x]).id \in Requests
         /\ Head(Mail[<<"work", x>>]) = Entry(Head(work[x]).id, type)
         /\ MailOf(frontend, tta, work', rdma_push_queue, compute_ready_queue, result)
              = Drop(Mail, <<"work", x>>)
  <2> USE <1>TakeMail
  <2>1. work \in [Inst -> Seq(WorkMsg)] /\ work[x] # <<>>
        /\ work' = [work EXCEPT ![x] = Tail(@)] /\ Head(work[x]).type = type
    BY DEF Take, TypeOK, NetworkTypeOK
  <2>2. Head(work[x]).id \in Requests
    BY TakeType, WorkFields
  <2>3. /\ Mail[<<"work", x>>] # <<>>
        /\ Head(Mail[<<"work", x>>]) = Entry(Head(work[x]).id, type)
    BY <2>1, HeadEntry
  <2>4. MailOf(frontend, tta, work', rdma_push_queue, compute_ready_queue, result)
          = Drop(Mail, <<"work", x>>)
    <3>1. Popped(work, work', x)
      BY <2>1 DEF Popped
    <3> QED
      BY <3>1, QueueTypes, WorkPop DEF Mail
  <2> QED
    BY <2>2, <2>3, <2>4, BoxNames, Zenon
<1>DequeueMail.
  ASSUME TypeOK, NEW x \in Inst, NEW kind, Dequeue(x, kind)
  PROVE  /\ Mail[<<"ready", x>>] # <<>> /\ <<"ready", x>> \in Boxes
         /\ Head(compute_ready_queue[x]).id \in Requests
         /\ Head(Mail[<<"ready", x>>]) = Entry(Head(compute_ready_queue[x]).id, kind)
         /\ MailOf(frontend, tta, work, rdma_push_queue, compute_ready_queue', result)
              = Drop(Mail, <<"ready", x>>)
  <2> USE <1>DequeueMail
  <2>1. compute_ready_queue \in [Inst -> Seq(ReadyItem)] /\ compute_ready_queue[x] # <<>>
        /\ compute_ready_queue' = [compute_ready_queue EXCEPT ![x] = Tail(@)]
        /\ Head(compute_ready_queue[x]).kind = kind
    BY DEF Dequeue, TypeOK, InstanceTypeOK
  <2>2. Head(compute_ready_queue[x]).id \in Requests
    BY DequeueType
  <2>3. /\ Mail[<<"ready", x>>] # <<>>
        /\ Head(Mail[<<"ready", x>>]) = Entry(Head(compute_ready_queue[x]).id, kind)
    BY <2>1, HeadEntry
  <2>4. MailOf(frontend, tta, work, rdma_push_queue, compute_ready_queue', result)
          = Drop(Mail, <<"ready", x>>)
    <3>1. Popped(compute_ready_queue, compute_ready_queue', x)
      BY <2>1 DEF Popped
    <3> QED
      BY <3>1, QueueTypes, ReadyPop DEF Mail
  <2> QED
    BY <2>2, <2>3, <2>4, BoxNames, Zenon
<1>ReportMail.
  ASSUME TypeOK, NEW x \in Inst, NEW socket, NEW m \in ResultMsg, Report(x, socket, m),
         NEW w, NEW p, NEW c
  PROVE  MailOf(frontend, tta, w, p, c, result')
           = Put(MailOf(frontend, tta, w, p, c, result), <<"result", <<x, socket>>>>, ResultEntry(m))
  <2> USE <1>ReportMail
  <2>1. result \in Queues(Connections, ResultMsg)
    BY QueueTypes
  <2> DEFINE c1 == <<x, socket>>
  <2>2. Added(result, result', c1, m)
    BY DEF Report, Added
  <2> HIDE DEF c1
  <2>3. MailOf(frontend, tta, w, p, c, result')
          = Put(MailOf(frontend, tta, w, p, c, result), <<"result", c1>>, ResultEntry(m))
    BY <2>1, <2>2, ResultAdd
  <2> QED
    BY <2>3 DEF c1
(* _disagg_encoder_step.                                                   *)
<1>SlotsEncoderStep.
  ASSUME TypeOK, SlotInv, NEW x \in Inst, EncoderStep(x), UNCHANGED serverVars
  PROVE  SlotInv'
  <2> USE <1>SlotsEncoderStep
  <2> DEFINE r == Head(work[x]).id
             from == <<"work", x>>
             to == <<"result", <<x, "main">>>>
  <2>1. Take(x, "work") /\ UNCHANGED <<frontend, unsent, rdma_push_queue, compute_ready_queue>>
        /\ UNCHANGED <<tta, tracker, xfer, free>>
    BY DEF EncoderStep, serverVars
  <2>2. /\ Mail[from] # <<>> /\ from \in Boxes /\ r \in Requests
        /\ Head(Mail[from]) = Entry(r, "work")
        /\ MailOf(frontend, tta, work', rdma_push_queue, compute_ready_queue, result) = Drop(Mail, from)
    BY <2>1, <1>TakeMail, Zenon
  <2>3. \/ result' = result
        \/ \E size \in Sizes : Report(x, "main", TransferStagedMsg(r, size))
        \/ Report(x, "main", ErrorFrames(r))
    BY Zenon DEF EncoderStep, Stage, Raise
  <2>4. \/ Mail' = Drop(Mail, from)
        \/ Mail' = Put(Drop(Mail, from), to, Entry(r, "staged"))
        \/ Mail' = Put(Drop(Mail, from), to, Entry(r, "error"))
    <3>1. CASE result' = result
      BY <2>1, <2>2, <3>1, Zenon DEF Mail
    <3>2. ASSUME NEW m \in ResultMsg, Report(x, "main", m)
          PROVE  Mail' = Put(Drop(Mail, from), to, ResultEntry(m))
      BY <2>1, <2>2, <3>2, <1>ReportMail DEF Mail
    <3> QED
      BY <2>2, <2>3, <3>1, <3>2, ReportFields, ReportEntries, Zenon
  <2>5. \A state : Fits(state, from, "work") => Fits(state, to, "staged") /\ Fits(state, to, "error")
    BY DEF Fits
  <2>6. /\ {"work", "staged", "error"} \subseteq Kinds \ {"register"}
        /\ "staged" \notin BeforePush /\ "error" \notin BeforePush
    BY DEF Kinds, BeforePush
  <2> HIDE DEF r, from, to
  <2> QED
    BY <2>1, <2>2, <2>4, <2>5, <2>6, InstanceMail, Zenon
(* _handle_transfer_push.                                                  *)
<1>SlotsHandleTransferPush.
  ASSUME TypeOK, SlotInv, NEW x \in Inst, HandleTransferPush(x), UNCHANGED serverVars
  PROVE  SlotInv'
  <2> USE <1>SlotsHandleTransferPush
  <2> DEFINE r == Head(work[x]).id
             from == <<"work", x>>
             to == <<"push", x>>
             item == [id |-> r, dest |-> Head(work[x]).dest]
  <2>1. Take(x, "push") /\ UNCHANGED <<frontend, unsent, result, compute_ready_queue>>
        /\ UNCHANGED <<tta, tracker, xfer, free>>
    BY DEF HandleTransferPush, serverVars
  <2>2. /\ Mail[from] # <<>> /\ from \in Boxes /\ r \in Requests
        /\ Head(Mail[from]) = Entry(r, "push")
        /\ MailOf(frontend, tta, work', rdma_push_queue, compute_ready_queue, result) = Drop(Mail, from)
    BY <2>1, <1>TakeMail, Zenon
  <2>3. rdma_push_queue \in Queues(Inst, PushItem)
    BY QueueTypes
  <2>4. item \in PushItem /\ item.id = r
    BY <2>1, <2>2, TakeType, WorkFields, Zenon DEF PushItem
  <2> HIDE DEF item
  <2>5. Added(rdma_push_queue, rdma_push_queue', x, item)
    BY DEF HandleTransferPush, Added, item
  <2>6. Mail' = Put(Drop(Mail, from), to, Entry(r, "rdma"))
    BY <2>1, <2>2, <2>3, <2>4, <2>5, PushAdd DEF Mail
  <2>7. \A state : Fits(state, from, "push") => Fits(state, to, "rdma")
    BY DEF Fits
  <2>8. {"push", "rdma"} \subseteq Kinds \ {"register"} /\ {"push", "rdma"} \subseteq BeforePush
    BY DEF Kinds, BeforePush
  <2> HIDE DEF r, from, to
  <2> QED
    BY <2>1, <2>2, <2>6, <2>7, <2>8, InstanceMail, Zenon
(* _rdma_push_loop.                                                        *)
<1>SlotsRdmaPush.
  ASSUME TypeOK, SlotInv, NEW x \in Inst, RdmaPush(x), UNCHANGED serverVars
  PROVE  SlotInv'
  <2> USE <1>SlotsRdmaPush
  <2> DEFINE r == Head(rdma_push_queue[x]).id
             from == <<"push", x>>
             to == <<"result", <<x, "rdma">>>>
  <2>1. UNCHANGED <<frontend, unsent, work, compute_ready_queue>>
        /\ UNCHANGED <<tta, tracker, xfer, free>>
    BY Zenon DEF RdmaPush, serverVars
  <2>2. rdma_push_queue \in [Inst -> Seq([id : Requests, dest : Dest])] /\ rdma_push_queue[x] # <<>>
    BY Zenon DEF RdmaPush, TypeOK, InstanceTypeOK
  <2>3. r \in Requests
    <3>1. rdma_push_queue[x] \in Seq([id : Requests, dest : Dest])
      BY <2>2, Zenon
    <3>2. Head(rdma_push_queue[x]) \in [id : Requests, dest : Dest]
      BY <2>2, <3>1, HeadTail, Zenon
    <3> QED
      BY <3>2
  <2>4. Mail[from] # <<>> /\ Head(Mail[from]) = Entry(r, "rdma")
    BY <2>2, HeadEntry, Zenon
  <2>5. from \in Boxes
    BY BoxNames, Zenon
  <2>6. Popped(rdma_push_queue, rdma_push_queue', x)
    BY <2>2, Zenon DEF Popped, RdmaPush
  <2>7. MailOf(frontend, tta, work, rdma_push_queue', compute_ready_queue, result) = Drop(Mail, from)
    BY <2>6, QueueTypes, PushPop DEF Mail
  <2>8. result' = result \/ Report(x, "rdma", TransferPushedMsg(r))
    BY Zenon DEF RdmaPush
  <2>9. Mail' = Drop(Mail, from) \/ Mail' = Put(Drop(Mail, from), to, Entry(r, "pushed"))
    <3>1. CASE result' = result
      BY <2>1, <2>7, <3>1 DEF Mail
    <3>2. ASSUME NEW m \in ResultMsg, Report(x, "rdma", m)
          PROVE  Mail' = Put(Drop(Mail, from), to, ResultEntry(m))
      BY <2>1, <2>7, <3>2, <1>ReportMail DEF Mail
    <3> QED
      BY <2>3, <2>8, <3>1, <3>2, ReportFields, ReportEntries, Zenon
  <2>10. \A state : Fits(state, from, "rdma") => Fits(state, to, "pushed")
    BY DEF Fits
  <2>11. {"pushed", "rdma"} \subseteq Kinds \ {"register"} /\ {"pushed", "rdma"} \subseteq BeforePush
    BY DEF Kinds, BeforePush
  <2> HIDE DEF r, from, to
  <2> QED
    BY <2>1, <2>3, <2>4, <2>5, <2>9, <2>10, <2>11, InstanceMail, Zenon
(* _recv_prefetch_loop, on READY.                                          *)
<1>SlotsPrefetchTransferReady.
  ASSUME TypeOK, SlotInv, NEW x \in Inst, PrefetchTransferReady(x), UNCHANGED serverVars
  PROVE  SlotInv'
  <2> USE <1>SlotsPrefetchTransferReady
  <2> DEFINE r == Head(work[x]).id
             from == <<"work", x>>
             to == <<"ready", x>>
             item == [kind |-> "transfer_compute", id |-> r, slot |-> Head(work[x]).slot]
  <2>1. Take(x, "ready") /\ UNCHANGED <<frontend, unsent, result, rdma_push_queue>>
        /\ UNCHANGED <<tta, tracker, xfer, free>>
    BY DEF PrefetchTransferReady, serverVars
  <2>2. /\ Mail[from] # <<>> /\ from \in Boxes /\ r \in Requests
        /\ Head(Mail[from]) = Entry(r, "ready")
        /\ MailOf(frontend, tta, work', rdma_push_queue, compute_ready_queue, result) = Drop(Mail, from)
    BY <2>1, <1>TakeMail, Zenon
  <2>3. compute_ready_queue \in Queues(Inst, ReadyItem)
    BY QueueTypes
  <2>4. item \in ReadyItem /\ item.id = r /\ item.kind = "transfer_compute"
    BY <2>1, <2>2, TakeType, WorkFields, Zenon DEF ReadyItem
  <2> HIDE DEF item
  <2>5. \/ compute_ready_queue' = compute_ready_queue
        \/ Added(compute_ready_queue, compute_ready_queue', x, item)
    BY DEF PrefetchTransferReady, Added, item
  <2>6. Mail' = Drop(Mail, from) \/ Mail' = Put(Drop(Mail, from), to, Entry(r, "transfer_compute"))
    <3>1. CASE compute_ready_queue' = compute_ready_queue
      BY <2>1, <2>2, <3>1, Zenon DEF Mail
    <3>2. CASE Added(compute_ready_queue, compute_ready_queue', x, item)
      BY <2>1, <2>2, <2>3, <2>4, <3>2, ReadyAdd DEF Mail
    <3> QED
      BY <2>5, <3>1, <3>2, Zenon
  <2>7. \A state : Fits(state, from, "ready") => Fits(state, to, "transfer_compute")
    BY DEF Fits, RoleOf
  <2>8. {"ready", "transfer_compute"} \subseteq Kinds \ {"register"} /\ "transfer_compute" \notin BeforePush
    BY DEF Kinds, BeforePush
  <2> HIDE DEF r, from, to
  <2> QED
    BY <2>1, <2>2, <2>6, <2>7, <2>8, InstanceMail, Zenon
(* _recv_prefetch_loop, on ALLOC.                                          *)
<1>SlotsPrefetchControl.
  ASSUME TypeOK, SlotInv, NEW x \in Inst, PrefetchControl(x), UNCHANGED serverVars
  PROVE  SlotInv'
  <2> USE <1>SlotsPrefetchControl
  <2> DEFINE r == Head(work[x]).id
             from == <<"work", x>>
             to == <<"ready", x>>
             item == [kind |-> "transfer_control", id |-> r]
  <2>1. Take(x, "alloc") /\ UNCHANGED <<frontend, unsent, result, rdma_push_queue>>
        /\ UNCHANGED <<tta, tracker, xfer, free>>
    BY DEF PrefetchControl, serverVars
  <2>2. /\ Mail[from] # <<>> /\ from \in Boxes /\ r \in Requests
        /\ Head(Mail[from]) = Entry(r, "alloc")
        /\ MailOf(frontend, tta, work', rdma_push_queue, compute_ready_queue, result) = Drop(Mail, from)
    BY <2>1, <1>TakeMail, Zenon
  <2>3. compute_ready_queue \in Queues(Inst, ReadyItem)
    BY QueueTypes
  <2>4. item \in ReadyItem /\ item.id = r /\ item.kind = "transfer_control"
    BY <2>2, Zenon DEF ReadyItem
  <2> HIDE DEF item
  <2>5. Added(compute_ready_queue, compute_ready_queue', x, item)
    BY DEF PrefetchControl, Added, item
  <2>6. Mail' = Put(Drop(Mail, from), to, Entry(r, "transfer_control"))
    BY <2>1, <2>2, <2>3, <2>4, <2>5, ReadyAdd DEF Mail
  <2>7. \A state : Fits(state, from, "alloc") => Fits(state, to, "transfer_control")
    BY DEF Fits, RoleOf
  <2>8. /\ {"alloc", "transfer_control"} \subseteq Kinds \ {"register"}
        /\ {"alloc", "transfer_control"} \subseteq BeforePush
    BY DEF Kinds, BeforePush
  <2> HIDE DEF r, from, to
  <2> QED
    BY <2>1, <2>2, <2>6, <2>7, <2>8, InstanceMail, Zenon
(* A step of the main thread of a receiver that handles the head of its    *)
(* queue and may report to the server.                                     *)
<1>ComputeStep.
  ASSUME TypeOK, SlotInv, NEW x \in Inst, NEW old \in {"transfer_compute", "transfer_control"},
         Dequeue(x, old), UNCHANGED <<frontend, unsent, work, rdma_push_queue>>,
         UNCHANGED serverVars,
         NEW kind \in Kinds \ {"register"}, NEW m \in ResultMsg,
         ResultEntry(m) = Entry(Head(compute_ready_queue[x]).id, kind),
         result' = result \/ Report(x, "main", m),
         \A state : Fits(state, <<"ready", x>>, old) => Fits(state, <<"result", <<x, "main">>>>, kind),
         kind \in BeforePush => old \in BeforePush
  PROVE  SlotInv'
  <2> USE <1>ComputeStep
  <2> DEFINE r == Head(compute_ready_queue[x]).id
             from == <<"ready", x>>
             to == <<"result", <<x, "main">>>>
  <2>1. UNCHANGED <<tta, tracker, xfer, free>>
    BY DEF serverVars
  <2>2. /\ Mail[from] # <<>> /\ from \in Boxes /\ r \in Requests
        /\ Head(Mail[from]) = Entry(r, old)
        /\ MailOf(frontend, tta, work, rdma_push_queue, compute_ready_queue', result) = Drop(Mail, from)
    BY <1>DequeueMail, Zenon
  <2>3. Mail' = Drop(Mail, from) \/ Mail' = Put(Drop(Mail, from), to, Entry(r, kind))
    <3>1. CASE result' = result
      BY <2>1, <2>2, <3>1, Zenon DEF Mail
    <3>2. CASE Report(x, "main", m)
      BY <2>1, <2>2, <3>2, <1>ReportMail DEF Mail
    <3> QED
      BY <3>1, <3>2, Zenon
  <2>4. old \in Kinds \ {"register"}
    BY DEF Kinds
  <2> HIDE DEF r, from, to
  <2> QED
    BY <2>1, <2>2, <2>3, <2>4, InstanceMail, Zenon DEF from, to
(* _handle_transfer_alloc.                                                 *)
<1>SlotsHandleTransferAlloc.
  ASSUME TypeOK, SlotInv, NEW x \in Inst, HandleTransferAlloc(x), UNCHANGED serverVars
  PROVE  SlotInv'
  <2> USE <1>SlotsHandleTransferAlloc
  <2> DEFINE r == Head(compute_ready_queue[x]).id
  <2>1. /\ Dequeue(x, "transfer_control") /\ UNCHANGED <<frontend, unsent, work, rdma_push_queue>>
        /\ result' = result \/ Report(x, "main", TransferAllocatedMsg(r))
    BY Zenon DEF HandleTransferAlloc
  <2>2. r \in Requests
    BY <2>1, DequeueType
  <2>3. TransferAllocatedMsg(r) \in ResultMsg
    BY <2>2, ReportFields, Zenon
  <2>4. ResultEntry(TransferAllocatedMsg(r)) = Entry(r, "allocated")
    BY <2>2, ReportEntries, Zenon
  <2>5. \A state : Fits(state, <<"ready", x>>, "transfer_control")
                     => Fits(state, <<"result", <<x, "main">>>>, "allocated")
    BY DEF Fits, RoleOf
  <2>6. "allocated" \in Kinds \ {"register"} /\ "transfer_control" \in BeforePush
    BY DEF Kinds, BeforePush
  <2> HIDE DEF r
  <2> QED
    BY <2>1, <2>3, <2>4, <2>5, <2>6, <1>ComputeStep, Zenon DEF r
(* _disagg_denoiser_compute.                                               *)
<1>SlotsDenoiserCompute.
  ASSUME TypeOK, SlotInv, NEW x \in Inst, DenoiserCompute(x), UNCHANGED serverVars
  PROVE  SlotInv'
  <2> USE <1>SlotsDenoiserCompute
  <2> DEFINE r == Head(compute_ready_queue[x]).id
  <2>1. /\ Dequeue(x, "transfer_compute") /\ UNCHANGED <<frontend, unsent, work, rdma_push_queue>>
        /\ x[1] = "denoiser"
    BY DEF DenoiserCompute
  <2>2. \/ \E size \in Sizes : Report(x, "main", TransferDoneMsg(r, size))
        \/ result' = result \/ Report(x, "main", TransferDoneError(r))
    BY Zenon DEF DenoiserCompute, Stage, Raise
  <2>3. r \in Requests
    BY <2>1, DequeueType
  <2>4. \A state : Fits(state, <<"ready", x>>, "transfer_compute")
                     => /\ Fits(state, <<"result", <<x, "main">>>>, "done")
                        /\ Fits(state, <<"result", <<x, "main">>>>, "done_error")
    BY <2>1, Zenon DEF Fits, RoleOf, RunningOn
  <2>5. {"done", "done_error"} \subseteq Kinds \ {"register"} /\ "done" \notin BeforePush
        /\ "done_error" \notin BeforePush
    BY DEF Kinds, BeforePush
  <2>6. ASSUME NEW size \in Sizes, Report(x, "main", TransferDoneMsg(r, size)) PROVE SlotInv'
    <3>1. TransferDoneMsg(r, size) \in ResultMsg
      BY <2>3, ReportFields, Zenon
    <3>2. ResultEntry(TransferDoneMsg(r, size)) = Entry(r, "done")
      BY <2>3, ReportEntries, Zenon
    <3> QED
      BY <2>1, <2>4, <2>5, <2>6, <3>1, <3>2, <1>ComputeStep, Zenon
  <2>7. CASE result' = result \/ Report(x, "main", TransferDoneError(r))
    <3>1. TransferDoneError(r) \in ResultMsg
      BY <2>3, ReportFields, Zenon
    <3>2. ResultEntry(TransferDoneError(r)) = Entry(r, "done_error")
      BY <2>3, ReportEntries, Zenon
    <3> QED
      BY <2>1, <2>4, <2>5, <2>7, <3>1, <3>2, <1>ComputeStep, Zenon
  <2> QED
    BY <2>2, <2>6, <2>7
(* _disagg_decoder_compute.                                                *)
<1>SlotsDecoderCompute.
  ASSUME TypeOK, SlotInv, NEW x \in Inst, DecoderCompute(x), UNCHANGED serverVars
  PROVE  SlotInv'
  <2> USE <1>SlotsDecoderCompute
  <2> DEFINE r == Head(compute_ready_queue[x]).id
  <2>1. /\ Dequeue(x, "transfer_compute") /\ UNCHANGED <<frontend, unsent, work, rdma_push_queue>>
        /\ x[1] = "decoder"
    BY Zenon DEF DecoderCompute
  <2>2. \E outcome \in Outcomes : result' = result \/ Report(x, "main", ResultFrames(r, outcome))
    BY DEF DecoderCompute, Outcomes
  <2>3. r \in Requests
    BY <2>1, DequeueType, Zenon
  <2>4. \A state : Fits(state, <<"ready", x>>, "transfer_compute")
                     => Fits(state, <<"result", <<x, "main">>>>, "result")
    BY <2>1 DEF Fits, RoleOf, RunningOn
  <2>5. "result" \in Kinds \ {"register"} /\ "result" \notin BeforePush
    BY DEF Kinds, BeforePush
  <2>6. ASSUME NEW outcome \in Outcomes, result' = result \/ Report(x, "main", ResultFrames(r, outcome))
        PROVE  SlotInv'
    <3>1. ResultFrames(r, outcome) \in ResultMsg
      BY <2>3, ReportFields
    <3>2. ResultEntry(ResultFrames(r, outcome)) = Entry(r, "result")
      BY <2>3, ReportEntries, Zenon
    <3> QED
      BY <2>1, <2>4, <2>5, <2>6, <3>1, <3>2, <1>ComputeStep, Zenon
  <2> QED
    BY <2>2, <2>6, Zenon
<1>1. UNCHANGED serverVars
  BY DEF Instances
<1>2. PICK x \in Inst : ReceiveThread(x) \/ RdmaPush(x) \/ ComputeThread(x)
  BY DEF Instances, InstanceNext
<1>3. CASE ReceiveThread(x)
  BY <1>1, <1>3, <1>SlotsEncoderStep, <1>SlotsHandleTransferPush, <1>SlotsPrefetchTransferReady,
     <1>SlotsPrefetchControl DEF ReceiveThread
<1>4. CASE RdmaPush(x)
  BY <1>1, <1>4, <1>SlotsRdmaPush
<1>5. CASE ComputeThread(x)
  BY <1>1, <1>5, <1>SlotsHandleTransferAlloc, <1>SlotsDenoiserCompute, <1>SlotsDecoderCompute
     DEF ComputeThread
<1> QED
  BY <1>2, <1>3, <1>4, <1>5

----------------------------------------------------------------------------
(* The handlers of the server.                                             *)

(* Two transitions in a row, as _handle_transfer_staged and _handle_       *)
(* transfer_done make them.                                                *)
LEMMA TransitionTwice ==
  ASSUME NEW t \in [Requests -> RequestRecord], NEW r \in Requests,
         NEW a \in States, NEW b \in States,
         NEW u, u = Transition(Transition(t, r, a), r, b)
  PROVE  /\ \A q \in Requests \ {r} : u[q] = t[q]
         /\ CanTransition(t[r].state, a) /\ CanTransition(a, b) =>
              u[r].state = b /\ SameInstances(u[r], t[r])
         /\ t[r].state = "ABSENT" => u = t
<1> DEFINE v == Transition(t, r, a)
<1>1. v \in [Requests -> RequestRecord]
  BY TransitionType
<1>2. /\ \A q \in Requests \ {r} : v[q] = t[q]
      /\ ~ CanTransition(t[r].state, a) => v = t
      /\ CanTransition(t[r].state, a) => v[r].state = a /\ SameInstances(v[r], t[r])
  BY TransitionRecord
<1>0. u = Transition(v, r, b)
  OBVIOUS
<1> HIDE DEF v
<1>3. /\ \A q \in Requests \ {r} : u[q] = v[q]
      /\ ~ CanTransition(v[r].state, b) => u = v
      /\ CanTransition(v[r].state, b) => u[r].state = b /\ SameInstances(u[r], v[r])
  BY <1>1, <1>0, TransitionRecord
<1>4. \A s \in States : ~ CanTransition("ABSENT", s)
  BY DEF CanTransition, ActiveStates, ValidTransitions
<1>5. t[r].state = "ABSENT" => u = t
  BY <1>2, <1>3, <1>4
<1>6. /\ \A q \in Requests \ {r} : u[q] = t[q]
      /\ CanTransition(t[r].state, a) /\ CanTransition(a, b) =>
           u[r].state = b /\ SameInstances(u[r], t[r])
  BY <1>2, <1>3 DEF SameInstances
<1> QED
  BY <1>5, <1>6

LEMMA FinishRecord ==
  ASSUME TypeOK, NEW r \in Requests, NEW state \in States, NEW outcome,
         Finish(tracker, r, state, outcome)
  PROVE  tracker'[r] = NoRecord /\ \A q \in Requests \ {r} : tracker'[q] = tracker[q]
<1> DEFINE t == Transition(tracker, r, state)
<1>1. tracker \in [Requests -> RequestRecord]
  BY DEF TypeOK, ServerTypeOK
<1>2. t \in [Requests -> RequestRecord] /\ \A q \in Requests : q # r => t[q] = tracker[q]
  BY <1>1, TransitionType
<1>3. tracker' = [t EXCEPT ![r] = NoRecord]
  BY DEF Finish, Remove
<1> HIDE DEF t
<1> QED
  BY <1>2, <1>3

LEMMA ReleaseAt ==
  ASSUME NEW f \in [Inst -> Int], NEW role, NEW i, NEW x \in Inst
  PROVE  Release(f, role, i)[x] = IF x[1] = role /\ x[2] = i THEN f[x] + 1 ELSE f[x]
<1> DEFINE y == <<role, i>>
           g == [f EXCEPT ![y] = @ + 1]
<1>1. x = y <=> x[1] = role /\ x[2] = i
  BY InstPairs
<1> HIDE DEF y
<1>2. g[x] = IF x = y THEN f[x] + 1 ELSE f[x]
  BY DEF g
<1>3. CASE i = None
  <2>1. x[2] # i
    BY <1>3, InstPairs DEF None
  <2> QED
    BY <1>3, <2>1 DEF Release
<1>4. CASE i # None
  <2>1. Release(f, role, i) = g
    BY <1>4 DEF Release, y
  <2> QED
    BY <1>1, <1>2, <2>1
<1> QED
  BY <1>3, <1>4

(* What is known when the server has taken a message from a connection.    *)
LEMMA ReceiveMail ==
  ASSUME TypeOK, SlotInv, NEW c \in Connections,
         NEW type \in {"staged", "allocated", "pushed", "done", "done_error", "error", "result"},
         Receive(c, type)
  PROVE  LET r == Head(result[c]).id
             from == <<"result", c>>
         IN  /\ from \in Boxes /\ Mail[from] # <<>>
             /\ r \in Requests /\ Head(Mail[from]) = Entry(r, type)
             /\ MailOf(frontend, tta, work, rdma_push_queue, compute_ready_queue, result')
                  = Drop(Mail, from)
             /\ type \in Kinds \ {"register"}
             /\ Tracked(tracker, r) => Fits(tracker[r].state, from, type)
             /\ type \in BeforePush => PushDue(Mail, r)
<1> DEFINE r == Head(result[c]).id
           from == <<"result", c>>
<1>1. r \in Requests
  BY ReceiveType
<1>2. result[c] # <<>> /\ Head(result[c]).type = type
  BY DEF Receive
<1>3. Mail[from] # <<>> /\ Head(Mail[from]) = Entry(r, type)
  <2>1. Mail[from] # <<>> /\ Head(Mail[from]) = ResultEntry(Head(result[c]))
    BY <1>2, HeadEntry
  <2> QED
    BY <1>2, <2>1 DEF ResultEntry
<1>4. from \in Boxes
  BY BoxNames
<1>5. Popped(result, result', c)
  BY DEF Popped, Receive, TypeOK, NetworkTypeOK
<1>6. MailOf(frontend, tta, work, rdma_push_queue, compute_ready_queue, result') = Drop(Mail, from)
  BY <1>5, QueueTypes, ResultPop DEF Mail
<1>7. type \in Kinds \ {"register"}
  BY DEF Kinds
<1> HIDE DEF r, from
<1>8. About(Head(Mail[from]), r) /\ Head(Mail[from]).kind = type
  BY <1>3, <1>7, EntryType
<1>9. /\ Tracked(tracker, r) => Fits(tracker[r].state, from, type)
      /\ type \in BeforePush => PushDue(Mail, r)
  BY <1>1, <1>3, <1>4, <1>8, HeadKnown
<1> QED
  BY <1>1, <1>3, <1>4, <1>6, <1>7, <1>9, Zenon DEF r, from

(* The end of a request whose message was just taken.                      *)
LEMMA SlotsEnd ==
  ASSUME TypeOK, TypeOK', SlotInv, NEW c \in Connections,
         NEW type \in {"done_error", "error", "result"}, Receive(c, type),
         UNCHANGED <<unsent, frontend, work, tta, rdma_push_queue, compute_ready_queue>>,
         NEW state \in States, NEW outcome,
         Finish(tracker, Head(result[c]).id, state, outcome),
         \A q \in Requests \ {Head(result[c]).id} : xfer'[q] = xfer[q],
         \A x \in Inst :
           \/ free'[x] = free[x]
           \/ /\ free'[x] = free[x] + 1
              /\ HoldsAs(tracker[Head(result[c]).id], PushDue(Mail, Head(result[c]).id), x)
  PROVE  SlotInv'
<1> DEFINE r == Head(result[c]).id
           from == <<"result", c>>
<1>1. /\ from \in Boxes /\ Mail[from] # <<>>
      /\ r \in Requests /\ Head(Mail[from]) = Entry(r, type)
      /\ type \in Kinds \ {"register"}
      /\ MailOf(frontend, tta, work, rdma_push_queue, compute_ready_queue, result')
           = Drop(Mail, from)
  BY ReceiveMail, Zenon
<1>2. Mail' = Drop(Mail, from)
  BY <1>1, Zenon DEF Mail
<1>3. tracker'[r] = NoRecord /\ \A q \in Requests \ {r} : tracker'[q] = tracker[q]
  BY <1>1, FinishRecord, Zenon
<1>4. /\ tracker'[r].state \in RestStates /\ tracker'[r].state \notin LaterStates
      /\ ~ Tracked(tracker', r)
  BY <1>3 DEF NoRecord, RestStates, LaterStates, Tracked
<1>5. ASSUME NEW x \in Inst
      PROVE  Settled(free, free', x, HoldsAs(tracker[r], PushDue(Mail, r), x),
                     HoldsAs(tracker'[r], type \in BeforePush, x))
  <2>1. ~ HoldsAs(tracker'[r], type \in BeforePush, x)
    BY <1>3, NoRecordHolds
  <2>2. \/ free'[x] = free[x]
        \/ free'[x] = free[x] + 1 /\ HoldsAs(tracker[r], PushDue(Mail, r), x)
    OBVIOUS
  <2> QED
    BY <2>1, <2>2, Zenon DEF Settled
<1>6. \A q \in Requests \ {r} : xfer'[q] = xfer[q]
  OBVIOUS
<1> HIDE DEF r, from
<1> QED
  BY <1>1, <1>2, <1>3, <1>4, <1>5, <1>6, ServerMove, Zenon

(* _handle_role_error_frames.                                              *)
LEMMA SlotsErrorFrames ==
  ASSUME TypeOK, TypeOK', SlotInv, NEW c \in Connections, HandleRoleErrorFrames(c),
         UNCHANGED instVars
  PROVE  SlotInv'
<1>1. /\ Receive(c, "error") /\ xfer' = xfer /\ free' = free
      /\ UNCHANGED <<unsent, frontend, work, tta, rdma_push_queue, compute_ready_queue>>
      /\ Finish(tracker, Head(result[c]).id, "FAILED", "error")
  BY DEF HandleRoleErrorFrames, CompleteWithError, instVars
<1>2. "FAILED" \in States
  BY DEF States, TerminalStates
<1> QED
  BY <1>1, <1>2, SlotsEnd

(* _handle_transfer_done, on an error of the denoiser.                     *)
LEMMA SlotsDoneError ==
  ASSUME TypeOK, TypeOK', SlotInv, NEW c \in Connections, HandleTransferDoneError(c),
         UNCHANGED instVars
  PROVE  SlotInv'
<1> DEFINE r == Head(result[c]).id
<1>1. /\ Receive(c, "done_error")
      /\ free' = Release(free, "denoiser", tracker[r].denoiser_instance)
      /\ xfer' = [xfer EXCEPT ![r].slot = NoSlot]
      /\ UNCHANGED <<unsent, frontend, work, tta, rdma_push_queue, compute_ready_queue>>
      /\ Finish(tracker, r, "FAILED", "error")
  BY DEF HandleTransferDoneError, CompleteWithError, instVars
<1>2. "FAILED" \in States
  BY DEF States, TerminalStates
<1>3. r \in Requests /\ (Tracked(tracker, r) => Fits(tracker[r].state, <<"result", c>>, "done_error"))
  BY <1>1, ReceiveMail, Zenon
<1>4. tracker[r].state = "DENOISING_RUNNING" \/ tracker[r] = NoRecord
  BY <1>3, Zenon DEF Tracked, Fits, SlotInv, RecordsRest
<1>5. ASSUME NEW x \in Inst
      PROVE  \/ free'[x] = free[x]
             \/ free'[x] = free[x] + 1 /\ HoldsAs(tracker[r], PushDue(Mail, r), x)
  <2>1. free \in [Inst -> Int]
    BY DEF TypeOK, ServerTypeOK
  <2>2. free'[x] = IF x[1] = "denoiser" /\ x[2] = tracker[r].denoiser_instance
                     THEN free[x] + 1 ELSE free[x]
    BY <1>1, <2>1, ReleaseAt
  <2>3. x[2] # NoRecord.denoiser_instance
    BY InstPairs DEF NoRecord, None
  <2> QED
    BY <1>4, <2>2, <2>3, Zenon DEF HoldsAs
<1>6. \A q \in Requests \ {r} : xfer'[q] = xfer[q]
  BY <1>1, Zenon DEF TypeOK, ServerTypeOK
<1> QED
  BY <1>1, <1>2, <1>5, <1>6, SlotsEnd, Zenon

(* _handle_decoder_result_frames.                                          *)
LEMMA SlotsDecoderResult ==
  ASSUME TypeOK, TypeOK', SlotInv, NEW c \in Connections, HandleDecoderResultFrames(c),
         UNCHANGED instVars
  PROVE  SlotInv'
<1> DEFINE r == Head(result[c]).id
           state == IF Head(result[c]).outcome = "ok" THEN "DONE" ELSE "FAILED"
<1>1. /\ Receive(c, "result")
      /\ free' = Release(free, "decoder", tracker[r].decoder_instance)
      /\ xfer' = (IF r \in pending THEN [xfer EXCEPT ![r] = NoXfer] ELSE xfer)
      /\ UNCHANGED <<unsent, frontend, work, tta, rdma_push_queue, compute_ready_queue>>
      /\ Finish(tracker, r, state, Head(result[c]).outcome)
  BY Zenon DEF HandleDecoderResultFrames, instVars
<1>2. state \in States
  BY DEF States, TerminalStates
<1>3. r \in Requests /\ (Tracked(tracker, r) => Fits(tracker[r].state, <<"result", c>>, "result"))
  BY <1>1, ReceiveMail, Zenon
<1>4. tracker[r].state = "DECODER_RUNNING" \/ tracker[r] = NoRecord
  BY <1>3, Zenon DEF Tracked, Fits, SlotInv, RecordsRest
<1>5. ASSUME NEW x \in Inst
      PROVE  \/ free'[x] = free[x]
             \/ free'[x] = free[x] + 1 /\ HoldsAs(tracker[r], PushDue(Mail, r), x)
  <2>1. free \in [Inst -> Int]
    BY DEF TypeOK, ServerTypeOK
  <2>2. free'[x] = IF x[1] = "decoder" /\ x[2] = tracker[r].decoder_instance
                     THEN free[x] + 1 ELSE free[x]
    BY <1>1, <2>1, ReleaseAt
  <2>3. x[2] # NoRecord.decoder_instance
    BY InstPairs DEF NoRecord, None
  <2> QED
    BY <1>4, <2>2, <2>3, Zenon DEF HoldsAs
<1>6. \A q \in Requests \ {r} : xfer'[q] = xfer[q]
  BY <1>1, Zenon DEF TypeOK, ServerTypeOK
<1> HIDE DEF state
<1> QED
  BY <1>1, <1>2, <1>5, <1>6, SlotsEnd, Zenon

(* _handle_transfer_register.                                              *)
LEMMA SlotsRegister ==
  ASSUME TypeOK, TypeOK', SlotInv, NEW c \in Connections, HandleTransferRegister(c),
         UNCHANGED instVars
  PROVE  SlotInv'
<1> DEFINE from == <<"result", c>>
<1>1. /\ result[c] # <<>> /\ Popped(result, result', c)
      /\ UNCHANGED <<unsent, frontend, work, tta, rdma_push_queue, compute_ready_queue>>
      /\ UNCHANGED <<tracker, xfer, free>>
  BY Zenon DEF HandleTransferRegister, Receive, Popped, instVars, TypeOK, NetworkTypeOK
<1>2. from \in Boxes /\ Mail[from] # <<>>
  BY <1>1, HeadEntry, BoxNames
<1>3. Mail' = Drop(Mail, from)
  BY <1>1, QueueTypes, ResultPop DEF Mail
<1>4. Mail \in [Boxes -> Seq(Entries)] /\ Single(Mail)
  BY MailType DEF SlotInv
<1> HIDE DEF from
<1>5. Fewer(Mail, Drop(Mail, from))
  BY <1>2, <1>4, DropEntry DEF Fewer
<1>6. CASE Requests = {}
  <2>1. \A x \in Inst : Holding(Mail', tracker, x) = {} /\ Holding(Mail, tracker, x) = {}
    BY <1>6 DEF Holding
  <2> QED
    BY <1>1, <1>3, <1>5, <1>6, <2>1, Zenon
    DEF SlotInv, EntriesFit, RecordsRest, Ledger, Fewer, TypeOK, NetworkTypeOK
<1>7. ASSUME NEW r \in Requests PROVE SlotInv'
  BY <1>1, <1>3, <1>5, ServerFewer, Zenon
<1> QED
  BY <1>6, <1>7

(* _handle_transfer_staged.                                                *)
LEMMA SlotsStaged ==
  ASSUME TypeOK, TypeOK', SlotInv, NEW c \in Connections, HandleTransferStaged(c),
         UNCHANGED instVars
  PROVE  SlotInv'
<1> DEFINE r == Head(result[c]).id
           from == <<"result", c>>
           to == <<"tta", "denoiser">>
<1>1. /\ Receive(c, "staged") /\ free' = free
      /\ UNCHANGED <<unsent, frontend, work, rdma_push_queue, compute_ready_queue>>
      /\ Added(tta, tta', "denoiser", r)
      /\ tracker' = Transition(Transition(tracker, r, "ENCODER_DONE"), r, "DENOISING_WAITING")
  BY Zenon DEF HandleTransferStaged, Enqueue, Added, instVars
<1>2. /\ from \in Boxes /\ Mail[from] # <<>>
      /\ r \in Requests /\ Head(Mail[from]) = Entry(r, "staged")
      /\ "staged" \in Kinds \ {"register"}
      /\ MailOf(frontend, tta, work, rdma_push_queue, compute_ready_queue, result')
           = Drop(Mail, from)
      /\ Tracked(tracker, r) => Fits(tracker[r].state, from, "staged")
  BY <1>1, ReceiveMail, Zenon
<1>3. Mail' = Put(Drop(Mail, from), to, Entry(r, "waiting"))
  BY <1>1, <1>2, ServerQueues, Zenon
<1>4. tracker[r].state = "ENCODER_RUNNING" \/ tracker[r].state = "ABSENT"
  BY <1>2, Zenon DEF Tracked, Fits
<1>5. /\ CanTransition("ENCODER_RUNNING", "ENCODER_DONE")
      /\ CanTransition("ENCODER_DONE", "DENOISING_WAITING")
      /\ {"ENCODER_DONE", "DENOISING_WAITING"} \subseteq States
  BY DEF CanTransition, ValidTransitions, States, ActiveStates
<1>6. tracker \in [Requests -> RequestRecord]
  BY DEF TypeOK, ServerTypeOK
<1>7. /\ \A q \in Requests \ {r} : tracker'[q] = tracker[q]
      /\ tracker[r].state = "ENCODER_RUNNING" =>
           tracker'[r].state = "DENOISING_WAITING" /\ SameInstances(tracker'[r], tracker[r])
      /\ tracker[r].state = "ABSENT" => tracker' = tracker
  <2> HIDE DEF r, from, to
  <2>1. tracker' = Transition(Transition(tracker, r, "ENCODER_DONE"), r, "DENOISING_WAITING")
    BY <1>1
  <2>2. r \in Requests /\ "ENCODER_DONE" \in States /\ "DENOISING_WAITING" \in States
    BY <1>2, <1>5
  <2>3. /\ \A q \in Requests \ {r} : tracker'[q] = tracker[q]
        /\ /\ CanTransition(tracker[r].state, "ENCODER_DONE")
           /\ CanTransition("ENCODER_DONE", "DENOISING_WAITING")
           => tracker'[r].state = "DENOISING_WAITING" /\ SameInstances(tracker'[r], tracker[r])
        /\ tracker[r].state = "ABSENT" => tracker' = tracker
    BY <2>1, <2>2, <1>6, TransitionTwice
  <2> QED
    BY <1>5, <2>3
<1>8. \A q \in Requests \ {r} : xfer'[q] = xfer[q]
  BY Zenon DEF HandleTransferStaged, TypeOK, ServerTypeOK
<1>9. xfer'[r].size > 0
  <2>1. xfer'[r].size = Head(result[c]).size
    BY <1>2, Zenon DEF HandleTransferStaged, TypeOK, ServerTypeOK
  <2>2. Head(result[c]) \in ResultMsg /\ Head(result[c]).type = "staged"
    BY <1>1, HeadTail, Zenon DEF Receive, TypeOK, NetworkTypeOK
  <2>3. Head(result[c]).size \in Sizes
    BY <2>2, ResultFields
  <2>4. \A size \in Sizes : size > 0
    BY NetworkAssumption
  <2> QED
    BY <2>1, <2>3, <2>4
<1>10. /\ tracker'[r].state \in RestStates
       /\ tracker'[r].state = "ABSENT" => tracker'[r] = NoRecord
       /\ Tracked(tracker', r) => Fits(tracker'[r].state, to, "waiting")
  BY <1>2, <1>4, <1>7, Zenon DEF SlotInv, RecordsRest, RestStates, LaterStates, Tracked, Fits, WaitingFor
<1>11. ASSUME NEW x \in Inst
       PROVE  Settled(free, free', x, HoldsAs(tracker[r], PushDue(Mail, r), x),
                      HoldsAs(tracker'[r], "waiting" \in BeforePush, x))
  <2>1. HoldsAs(tracker'[r], "waiting" \in BeforePush, x) => HoldsAs(tracker[r], PushDue(Mail, r), x)
    BY <1>4, <1>7, Zenon DEF HoldsAs, SameInstances, BeforePush
  <2> QED
    BY <1>1, <2>1, Zenon DEF Settled
<1>12. "waiting" \in Kinds
  BY DEF Kinds
<1> HIDE DEF r, from, to
<1> QED
  BY <1>1, <1>2, <1>3, <1>7, <1>8, <1>9, <1>10, <1>11, <1>12, ServerMove, Zenon

(* _handle_transfer_allocated.                                             *)
LEMMA SlotsAllocated ==
  ASSUME TypeOK, TypeOK', SlotInv, NEW c \in Connections, HandleTransferAllocated(c),
         UNCHANGED instVars
  PROVE  SlotInv'
<1> DEFINE r == Head(result[c]).id
           from == <<"result", c>>
           role == IF tracker[r].state \in {"DECODER_RUNNING", "DECODER_WAITING"}
                     THEN "denoiser" ELSE "encoder"
           sender == <<role, xfer[r].sender>>
           push == TransferPushMsg(r, c[1], NoSlot)
           to == <<"work", sender>>
<1>1. /\ Receive(c, "allocated")
      /\ UNCHANGED <<unsent, frontend, tta, rdma_push_queue, compute_ready_queue>>
      /\ UNCHANGED <<tracker, xfer, free>>
      /\ work' = work \/ Added(work, work', sender, push)
  BY Zenon DEF HandleTransferAllocated, Send, Added, instVars
<1>2. /\ from \in Boxes /\ Mail[from] # <<>>
      /\ r \in Requests /\ Head(Mail[from]) = Entry(r, "allocated")
      /\ "allocated" \in Kinds \ {"register"}
      /\ MailOf(frontend, tta, work, rdma_push_queue, compute_ready_queue, result')
           = Drop(Mail, from)
      /\ Tracked(tracker, r) => Fits(tracker[r].state, from, "allocated")
      /\ "allocated" \in BeforePush => PushDue(Mail, r)
  BY <1>1, ReceiveMail, Zenon
<1>3. push \in WorkMsg /\ push.id = r /\ push.type = "push"
  BY <1>2, ConnectionPairs, Zenon DEF WorkMsg, Dest, TransferPushMsg
<1> HIDE DEF push, sender
<1>4. Mail' = Drop(Mail, from) \/ Mail' = Put(Drop(Mail, from), to, Entry(r, "push"))
  <2>1. CASE work' = work
    BY <1>1, <1>2, <2>1, Zenon DEF Mail
  <2>2. CASE Added(work, work', sender, push)
    BY <1>1, <1>2, <1>3, <2>2, ServerSends, Zenon
  <2> QED
    BY <1>1, <2>1, <2>2, Zenon
<1>5. /\ tracker[r].state \in RestStates
      /\ tracker[r].state \in LaterStates => xfer[r].size > 0
      /\ tracker[r].state = "ABSENT" => tracker[r] = NoRecord
  BY <1>2, Zenon DEF SlotInv, RecordsRest
<1>6. Tracked(tracker, r) => Fits(tracker[r].state, to, "push")
  BY <1>2, <1>5, Zenon DEF Fits, RunningOn, RestStates, LaterStates
<1>7. PushDue(Mail, r) /\ "push" \in BeforePush /\ "push" \in Kinds
  BY <1>2, Zenon DEF BeforePush, Kinds
<1>8. ASSUME NEW x \in Inst
      PROVE  Settled(free, free', x, HoldsAs(tracker[r], PushDue(Mail, r), x),
                     HoldsAs(tracker'[r], "push" \in BeforePush, x))
  BY <1>1, <1>7, Zenon DEF Settled, HoldsAs
<1> HIDE DEF r, from, to
<1> QED
  BY <1>1, <1>2, <1>4, <1>5, <1>6, <1>7, <1>8, ServerMove, Zenon

(* _handle_transfer_pushed.                                                *)
LEMMA SlotsPushed ==
  ASSUME TypeOK, TypeOK', SlotInv, NEW c \in Connections, HandleTransferPushed(c),
         UNCHANGED instVars
  PROVE  SlotInv'
<1> DEFINE r == Head(result[c]).id
           from == <<"result", c>>
           ready == TransferReadyMsg(r, xfer[r].slot)
           to(down) == <<"work", <<down, xfer[r].receiver>>>>
<1>1. /\ Receive(c, "pushed")
      /\ UNCHANGED <<unsent, frontend, tta, rdma_push_queue, compute_ready_queue>>
      /\ UNCHANGED <<tracker, xfer>>
  BY Zenon DEF HandleTransferPushed, instVars
<1>2. /\ from \in Boxes /\ Mail[from] # <<>>
      /\ r \in Requests /\ Head(Mail[from]) = Entry(r, "pushed")
      /\ "pushed" \in Kinds \ {"register"}
      /\ MailOf(frontend, tta, work, rdma_push_queue, compute_ready_queue, result')
           = Drop(Mail, from)
      /\ Tracked(tracker, r) => Fits(tracker[r].state, from, "pushed")
      /\ "pushed" \in BeforePush => PushDue(Mail, r)
  BY <1>1, ReceiveMail, Zenon
<1>3. /\ tracker[r].state \in RestStates
      /\ tracker[r].state \in LaterStates => xfer[r].size > 0
      /\ tracker[r].state = "ABSENT" => tracker[r] = NoRecord
  BY <1>2, Zenon DEF SlotInv, RecordsRest
<1>4. tracker[r].state \in {"ABSENT", "DENOISING_RUNNING", "DECODER_RUNNING"}
  BY <1>2, Zenon DEF Tracked, Fits
<1>5. xfer[r] = NoXfer => tracker[r].state = "ABSENT"
  <2>1. ~ NoXfer.size > 0
    BY DEF NoXfer
  <2> QED
    BY <1>3, <1>4, <2>1, Zenon DEF LaterStates
<1>6. free \in [Inst -> Int] /\ PushDue(Mail, r) /\ "ready" \notin BeforePush /\ "ready" \in Kinds
  BY <1>2, Zenon DEF TypeOK, ServerTypeOK, BeforePush, Kinds
<1>7. ready \in WorkMsg /\ ready.id = r /\ ready.type = "ready"
  BY <1>2, Zenon DEF WorkMsg, TransferReadyMsg, TypeOK, ServerTypeOK, Xfer
<1>8. CASE tracker[r].state = "ABSENT"
  <2>1. work' = work /\ free' = free
    BY <1>8, Zenon DEF HandleTransferPushed
  <2>2. Mail' = Drop(Mail, from)
    BY <1>1, <1>2, <2>1, Zenon DEF Mail
  <2>3. ASSUME NEW x \in Inst
        PROVE  Settled(free, free', x, HoldsAs(tracker[r], PushDue(Mail, r), x),
                       HoldsAs(tracker'[r], "ready" \in BeforePush, x))
    BY <1>1, <1>3, <1>8, <2>1, NoRecordHolds, Zenon DEF Settled
  <2>4. ~ Tracked(tracker', r)
    BY <1>1, <1>8 DEF Tracked
  <2> HIDE DEF r, from
  <2> QED
    BY <1>1, <1>2, <1>3, <1>6, <2>2, <2>3, <2>4, ServerMove, Zenon
<1>9. ASSUME NEW down, NEW state \in {"DENOISING_RUNNING", "DECODER_RUNNING"},
             tracker[r].state = state,
             Added(work, work', <<down, xfer[r].receiver>>, ready),
             Fits(state, to(down), "ready"),
             \A x \in Inst : Settled(free, free', x, HoldsAs(tracker[r], PushDue(Mail, r), x),
                                     HoldsAs(tracker[r], "ready" \in BeforePush, x))
      PROVE  SlotInv'
  <2> DEFINE y == <<down, xfer[r].receiver>>
  <2> HIDE DEF r, from, ready, y
  <2>1. Added(work, work', y, ready)
    BY <1>9, Zenon DEF y
  <2>2. Mail' = Put(Drop(Mail, from), <<"work", y>>, Entry(r, "ready"))
    BY <1>1, <1>2, <1>7, <2>1, ServerSends, Zenon
  <2>3. Mail' = Put(Drop(Mail, from), to(down), Entry(r, "ready"))
    BY <2>2 DEF y
  <2>4. ASSUME NEW x \in Inst
        PROVE  Settled(free, free', x, HoldsAs(tracker[r], PushDue(Mail, r), x),
                       HoldsAs(tracker'[r], "ready" \in BeforePush, x))
    BY <1>1, <1>9, Zenon
  <2> HIDE DEF to
  <2> QED
    BY <1>1, <1>2, <1>3, <1>6, <1>9, <2>3, <2>4, ServerMove, Zenon
<1>10. CASE tracker[r].state = "DENOISING_RUNNING"
  <2>1. /\ Added(work, work', <<"denoiser", xfer[r].receiver>>, ready)
        /\ free' = Release(free, "encoder", tracker[r].encoder_instance)
    BY <1>5, <1>10, Zenon DEF HandleTransferPushed, Send, Added
  <2>2. Fits("DENOISING_RUNNING", to("denoiser"), "ready")
    BY DEF Fits, RunningOn, RoleOf
  <2>3. ASSUME NEW x \in Inst
        PROVE  Settled(free, free', x, HoldsAs(tracker[r], PushDue(Mail, r), x),
                       HoldsAs(tracker[r], "ready" \in BeforePush, x))
    <3> DEFINE i == tracker[r].encoder_instance
    <3>1. free'[x] = IF x[1] = "encoder" /\ x[2] = i THEN free[x] + 1 ELSE free[x]
      <4>1. free' = Release(free, "encoder", i)
        BY <2>1, Zenon
      <4>2. free \in [Inst -> Int]
        BY <1>6
      <4> HIDE DEF i
      <4> QED
        BY <4>1, <4>2, ReleaseAt
    <3> QED
      BY <1>6, <1>10, <3>1, Zenon DEF Settled, HoldsAs
  <2> HIDE DEF r, ready, to
  <2> QED
    BY <1>9, <1>10, <2>1, <2>2, <2>3, Zenon
<1>11. CASE tracker[r].state = "DECODER_RUNNING"
  <2>1. /\ Added(work, work', <<"decoder", xfer[r].receiver>>, ready)
        /\ free' = Release(free, "denoiser", tracker[r].denoiser_instance)
    BY <1>5, <1>11, Zenon DEF HandleTransferPushed, Send, Added
  <2>2. Fits("DECODER_RUNNING", to("decoder"), "ready")
    BY DEF Fits, RunningOn, RoleOf
  <2>3. ASSUME NEW x \in Inst
        PROVE  Settled(free, free', x, HoldsAs(tracker[r], PushDue(Mail, r), x),
                       HoldsAs(tracker[r], "ready" \in BeforePush, x))
    <3> DEFINE i == tracker[r].denoiser_instance
    <3>1. free'[x] = IF x[1] = "denoiser" /\ x[2] = i THEN free[x] + 1 ELSE free[x]
      <4>1. free' = Release(free, "denoiser", i)
        BY <2>1, Zenon
      <4>2. free \in [Inst -> Int]
        BY <1>6
      <4> HIDE DEF i
      <4> QED
        BY <4>1, <4>2, ReleaseAt
    <3> QED
      BY <1>6, <1>11, <3>1, Zenon DEF Settled, HoldsAs
  <2> HIDE DEF r, ready, to
  <2> QED
    BY <1>9, <1>11, <2>1, <2>2, <2>3, Zenon
<1> QED
  BY <1>4, <1>8, <1>10, <1>11

=============================================================================
