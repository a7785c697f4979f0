--------------------------- MODULE DiffusionServer ---------------------------
(***************************************************************************)
(* The head node (disaggregation/orchestrator.py): one thread that takes   *)
(* client requests, queues them per role (the _*_tta deques),               *)
(* dispatches them to instances with a free slot, and steers the transfer  *)
(* of each stage's output to the next stage.                               *)
(*                                                                         *)
(* A turn of _event_loop is: poll the sockets, expire requests, handle at  *)
(* most one message of each readable socket (frontend, then the result     *)
(* socket of each role), then drain the three queues.  `phase' is the      *)
(* point the thread has reached; a handler is one action, a drain is one   *)
(* action per dispatched request.                                          *)
(***************************************************************************)
EXTENDS DisaggNetwork, RequestTracker, DispatchPolicy

CONSTANTS
  EncoderCapacity, DenoiserCapacity, DecoderCapacity,
  Policy

ASSUME ServerAssumption ==
  /\ EncoderCapacity \in Nat
  /\ DenoiserCapacity \in Nat
  /\ DecoderCapacity \in Nat
  /\ Policy \in Policies

Capacity(role) ==
  IF role = "encoder" THEN EncoderCapacity
  ELSE IF role = "denoiser" THEN DenoiserCapacity
  ELSE DecoderCapacity

VARIABLES
  phase,        \* where the event loop is
  events,       \* readable sockets of this turn still to be handled
  expired,      \* requests older than the timeout
  tracker,      \* RequestTracker
  pending,      \* requests whose client has no reply yet
  free,         \* free[x]: free slots of instance x
  cursor,       \* cursor[role]: the state of the role's dispatch policy
  tta,          \* tta[role]: requests waiting for an instance of the role
  xfer,         \* _transfer_state
  peers         \* peers[x]: free pre-allocated receive slots of x

serverVars ==
  <<phase, events, expired, tracker, pending, free, cursor, tta, xfer, peers>>

Sockets == {"frontend"} \cup Roles
Phases ==
  {"poll", "timeouts", "drain_encoder", "drain_denoiser", "drain_decoder", "dead"}
    \cup Sockets

(* _TransferRequestState.  A request that is not in _transfer_state has    *)
(* NoXfer: the sender instance of an entry is never None.                  *)
Xfer == [sender : Nat \cup {None}, receiver : Nat \cup {None},
         size : Nat, slot : Slots \cup {NoSlot}]
NoXfer == [sender |-> None, receiver |-> None, size |-> 0, slot |-> NoSlot]

ServerTypeOK ==
  /\ phase \in Phases
  /\ events \subseteq Sockets
  /\ expired \subseteq Requests
  /\ tracker \in [Requests -> RequestRecord]
  /\ pending \subseteq Requests
  /\ free \in [Inst -> Int]
  /\ cursor \in [Roles -> Nat]
  /\ tta \in [Roles -> Seq(Requests)]
  /\ xfer \in [Requests -> Xfer]
  /\ peers \in [Inst -> Seq([slot : Slots, size : Nat])]

ServerInit ==
  /\ phase = "poll"
  /\ events = {}
  /\ expired = {}
  /\ tracker = [r \in Requests |-> NoRecord]
  /\ pending = {}
  /\ free = [x \in Inst |-> Capacity(x[1])]
  /\ cursor = [role \in Roles |-> 0]
  /\ tta = [role \in Roles |-> <<>>]
  /\ xfer = [r \in Requests |-> NoXfer]
  /\ peers = [x \in Inst |-> <<>>]

----------------------------------------------------------------------------
(* The event loop.                                                         *)

(* The next socket handler of the turn after phase p, or the drains.       *)
AfterDenoiser == IF "decoder" \in events THEN "decoder" ELSE "drain_encoder"
AfterEncoder == IF "denoiser" \in events THEN "denoiser" ELSE AfterDenoiser
AfterFrontend == IF "encoder" \in events THEN "encoder" ELSE AfterEncoder
AfterTimeouts == IF "frontend" \in events THEN "frontend" ELSE AfterFrontend

NextPhase(p) ==
  CASE p = "timeouts" -> AfterTimeouts
    [] p = "frontend" -> AfterFrontend
    [] p = "encoder"  -> AfterEncoder
    [] p = "denoiser" -> AfterDenoiser
    [] p = "decoder"  -> "drain_encoder"
    [] p = "drain_encoder"  -> "drain_denoiser"
    [] p = "drain_denoiser" -> "drain_decoder"
    [] OTHER -> "poll"

Advance ==
  /\ phase' = NextPhase(phase)
  /\ events' = events \ {phase}

TimedOut == FindTimedOut(tracker, expired)

(* Turns in which nothing is readable, due or queued change nothing and    *)
(* are left out.                                                           *)
HasWork ==
  \/ ReadableSockets # {}
  \/ TimedOut # {}
  \/ \E role \in Roles : tta[role] # <<>>

Poll ==
  /\ phase = "poll"
  /\ HasWork
  /\ phase' = "timeouts"
  /\ events' = ReadableSockets
  /\ UNCHANGED <<netVars, expired, tracker, pending, free, cursor, tta, xfer, peers>>

----------------------------------------------------------------------------
(* Replies, slots and queues.                                              *)

(* Mutants of Finish: the client is sent the state; it stays pending.      *)
FinishSendsState(t, r, state, outcome) ==
  /\ tracker' = Remove(Transition(t, r, state), r)
  /\ pending' = pending \ {r}
  /\ replies' = IF r \in pending
                  THEN [replies EXCEPT ![r] = Append(@, state)]
                  ELSE replies

FinishStaysPending(t, r, state, outcome) ==
  /\ tracker' = Remove(Transition(t, r, state), r)
  /\ pending' = pending
  /\ replies' = IF r \in pending
                  THEN [replies EXCEPT ![r] = Append(@, outcome)]
                  ELSE replies

(* Answer the client unless it has been answered, and forget the request.  *)
(* Both _complete_with_error and _handle_decoder_result_frames end so.     *)
Finish(t, r, state, outcome) ==
  /\ tracker' = Remove(Transition(t, r, state), r)
  /\ pending' = pending \ {r}
  /\ replies' = IF r \in pending
                  THEN [replies EXCEPT ![r] = Append(@, outcome)]
                  ELSE replies

CompleteWithError(r) == Finish(tracker, r, "FAILED", "error")

Release(f, role, idx) ==
  IF idx = None THEN f ELSE [f EXCEPT ![<<role, idx>>] = @ + 1]

(* _free_slot_for_record                                                   *)
FreeSlotForRecord(f, record) ==
  CASE record.state \in {"ENCODER_RUNNING", "ENCODER_DONE"} ->
         Release(f, "encoder", record.encoder_instance)
    [] record.state \in {"DENOISING_RUNNING", "DENOISING_DONE"} ->
         Release(f, "denoiser", record.denoiser_instance)
    [] record.state = "DECODER_RUNNING" ->
         Release(f, "decoder", record.decoder_instance)
    [] OTHER -> f

(* A queue without request r, which is queued at most once.                *)
Without(q, r) ==
  IF \E i \in 1 .. Len(q) : q[i] = r
    THEN LET i == CHOOSE j \in 1 .. Len(q) : q[j] = r
         IN  SubSeq(q, 1, i - 1) \o SubSeq(q, i + 1, Len(q))
    ELSE q

Enqueue(role, r) == tta' = [tta EXCEPT ![role] = Append(@, r)]

----------------------------------------------------------------------------
(* _handle_timeouts: one step for each request that is due.                *)
HandleTimeout(r) ==
  /\ phase = "timeouts"
  /\ r \in TimedOut
  /\ free' = FreeSlotForRecord(free, tracker[r])
  /\ CompleteWithError(r)
  /\ tta' = [role \in Roles |-> Without(tta[role], r)]
  /\ UNCHANGED <<unsent, frontend, work, result,
                 phase, events, expired, cursor, xfer, peers>>

TimeoutsDone ==
  /\ phase = "timeouts"
  /\ TimedOut = {}
  /\ Advance
  /\ UNCHANGED <<netVars, expired, tracker, pending, free, cursor, tta, xfer, peers>>

(* _handle_client_request.  Ids are unique, so the early return for an id  *)
(* that is already tracked is the guard's negation and never taken.        *)
HandleClientRequest ==
  /\ phase = "frontend"
  /\ LET r == Head(frontend) IN
       IF Tracked(tracker, r)
         THEN UNCHANGED <<tracker, pending, tta>>
         ELSE /\ tracker' = Transition(Submit(tracker, r), r, "ENCODER_WAITING")
              /\ pending' = pending \cup {r}
              /\ Enqueue("encoder", r)
  /\ frontend' = Tail(frontend)
  /\ Advance
  /\ UNCHANGED <<unsent, work, result, replies, expired, free, cursor, xfer, peers>>

----------------------------------------------------------------------------
(* _handle_role_result: one message of a connection c of the role whose    *)
(* turn it is.                                                             *)
Receive(c, type) ==
  /\ phase \in Roles
  /\ c[1][1] = phase
  /\ result[c] # <<>>
  /\ Head(result[c]).type = type
  /\ result' = [result EXCEPT ![c] = Tail(@)]

(* _handle_role_error_frames                                               *)
HandleRoleErrorFrames(c) ==
  /\ Receive(c, "error")
  /\ CompleteWithError(Head(result[c]).id)
  /\ Advance
  /\ UNCHANGED <<unsent, frontend, work, expired, free, cursor, tta, xfer, peers>>

(* Mutant of HandleTransferRegister: a peer that registers has all slots.  *)
RegisterResetsSlots(c) ==
  /\ Receive(c, "register")
  /\ peers' = [peers EXCEPT ![c[1]] =
       IF c[1] \in Receivers
         THEN [k \in 1 .. NumPrealloc |-> [slot |-> k - 1, size |-> PreallocSize]]
         ELSE <<>>]
  /\ free' = [free EXCEPT ![c[1]] = Capacity(c[1][1])]
  /\ Advance
  /\ UNCHANGED <<unsent, frontend, work, replies,
                 expired, tracker, pending, cursor, tta, xfer>>

(* _handle_transfer_register: the receive slots of a receiver become       *)
(* available for the fast path.  An encoder has none.                      *)
HandleTransferRegister(c) ==
  /\ Receive(c, "register")
  /\ peers' = [peers EXCEPT ![c[1]] =
       IF c[1] \in Receivers
         THEN [k \in 1 .. NumPrealloc |-> [slot |-> k - 1, size |-> PreallocSize]]
         ELSE <<>>]
  /\ Advance
  /\ UNCHANGED <<unsent, frontend, work, replies,
                 expired, tracker, pending, free, cursor, tta, xfer>>

(* _handle_transfer_staged: an encoder has staged its output.  A request   *)
(* that is no longer tracked is queued all the same, with sender 0.        *)
HandleTransferStaged(c) ==
  /\ Receive(c, "staged")
  /\ LET m == Head(result[c])
         r == m.id
     IN  /\ xfer' = [xfer EXCEPT ![r] =
              [sender |-> IF Tracked(tracker, r) THEN tracker[r].encoder_instance ELSE 0,
               receiver |-> None, size |-> m.size, slot |-> NoSlot]]
         /\ tracker' = Transition(Transition(tracker, r, "ENCODER_DONE"),
                                  r, "DENOISING_WAITING")
         /\ Enqueue("denoiser", r)
  /\ Advance
  /\ UNCHANGED <<unsent, frontend, work, replies, expired, pending, free, cursor, peers>>

(* Mutant of HandleTransferAllocated: the sender is always an encoder.     *)
AllocatedFromEncoder(c) ==
  /\ Receive(c, "allocated")
  /\ LET r == Head(result[c]).id
         sender == <<"encoder", xfer[r].sender>>
     IN  IF xfer[r] = NoXfer
           THEN Advance /\ UNCHANGED work
         ELSE IF sender \in Inst
           THEN Advance /\ Send(sender, TransferPushMsg(r, c[1], NoSlot))
         ELSE phase' = "dead" /\ UNCHANGED <<events, work>>
  /\ UNCHANGED <<unsent, frontend, replies,
                 expired, tracker, pending, free, cursor, tta, xfer, peers>>

(* _handle_transfer_allocated: tell the sender to push.  Which role the    *)
(* sender has is read off the request's state; an index beyond the chosen  *)
(* role's sockets raises IndexError, which ends the event loop.            *)
HandleTransferAllocated(c) ==
  /\ Receive(c, "allocated")
  /\ LET r == Head(result[c]).id
         role == IF tracker[r].state \in {"DECODER_RUNNING", "DECODER_WAITING"}
                   THEN "denoiser" ELSE "encoder"
         sender == <<role, xfer[r].sender>>
     IN  IF xfer[r] = NoXfer
           THEN Advance /\ UNCHANGED work
         ELSE IF sender \in Inst
           THEN Advance /\ Send(sender, TransferPushMsg(r, c[1], NoSlot))
         ELSE phase' = "dead" /\ UNCHANGED <<events, work>>
  /\ UNCHANGED <<unsent, frontend, replies,
                 expired, tracker, pending, free, cursor, tta, xfer, peers>>

(* Mutant of HandleTransferPushed: the decoder is not notified.            *)
PushedForgetsDecoder(c) ==
  /\ Receive(c, "pushed")
  /\ LET r == Head(result[c]).id
         record == tracker[r]
         denoising == record.state \in {"DENOISING_RUNNING", "DENOISING_WAITING"}
         decoding == record.state \in {"DECODER_RUNNING", "DECODER_WAITING"}
     IN  /\ free' = IF denoising
                      THEN Release(free, "encoder", record.encoder_instance)
                    ELSE IF decoding
                      THEN Release(free, "denoiser", record.denoiser_instance)
                    ELSE free
         /\ IF denoising
              THEN Send(<<"denoiser", xfer[r].receiver>>, TransferReadyMsg(r, xfer[r].slot))
              ELSE UNCHANGED work
  /\ Advance
  /\ UNCHANGED <<unsent, frontend, replies,
                 expired, tracker, pending, cursor, tta, xfer, peers>>

(* _handle_transfer_pushed: the sender's slot is free again and the        *)
(* receiver is told to start.  A request that is no longer tracked is      *)
(* dropped here.                                                           *)
HandleTransferPushed(c) ==
  /\ Receive(c, "pushed")
  /\ LET r == Head(result[c]).id
         record == tracker[r]
         ready == TransferReadyMsg(r, xfer[r].slot)
         denoising == record.state \in {"DENOISING_RUNNING", "DENOISING_WAITING"}
         decoding == record.state \in {"DECODER_RUNNING", "DECODER_WAITING"}
     IN  IF xfer[r] = NoXfer
           THEN UNCHANGED <<work, free>>
           ELSE /\ free' = IF denoising \/ record.state = "DENOISING_DONE"
                             THEN Release(free, "encoder", record.encoder_instance)
                           ELSE IF decoding
                             THEN Release(free, "denoiser", record.denoiser_instance)
                           ELSE free
                /\ IF denoising THEN Send(<<"denoiser", xfer[r].receiver>>, ready)
                   ELSE IF decoding THEN Send(<<"decoder", xfer[r].receiver>>, ready)
                   ELSE UNCHANGED work
  /\ Advance
  /\ UNCHANGED <<unsent, frontend, replies,
                 expired, tracker, pending, cursor, tta, xfer, peers>>

(* _recycle_prealloc_slot: the slot goes to the end of the receiver's free *)
(* list, with the size of the data it held.                                *)
RecyclePreallocSlot(r) ==
  peers' = IF xfer[r].slot = NoSlot THEN peers
           ELSE [peers EXCEPT ![<<"denoiser", xfer[r].receiver>>] =
                  Append(@, [slot |-> xfer[r].slot, size |-> xfer[r].size])]

(* _handle_transfer_done, from a denoiser that reports an error.           *)
HandleTransferDoneError(c) ==
  /\ Receive(c, "done_error")
  /\ LET r == Head(result[c]).id
     IN  /\ RecyclePreallocSlot(r)
         /\ xfer' = [xfer EXCEPT ![r].slot = NoSlot]
         /\ free' = Release(free, "denoiser", tracker[r].denoiser_instance)
         /\ CompleteWithError(r)
  /\ Advance
  /\ UNCHANGED <<unsent, frontend, work, expired, cursor, tta>>

(* Mutants of HandleTransferDone: the denoiser's slot is freed before the  *)
(* push; the recycled slot stays in the transfer state.                    *)
DoneFreesSlot(c) ==
  /\ Receive(c, "done")
  /\ LET m == Head(result[c])
         r == m.id
         record == tracker[r]
     IN  /\ RecyclePreallocSlot(r)
         /\ xfer' = [xfer EXCEPT ![r].slot = NoSlot, ![r].size = m.size,
                                 ![r].sender = IF Tracked(tracker, r)
                                                 THEN record.denoiser_instance ELSE 0]
         /\ tracker' = Transition(Transition(tracker, r, "DENOISING_DONE"),
                                  r, "DECODER_WAITING")
         /\ Enqueue("decoder", r)
         /\ free' = Release(free, "denoiser", record.denoiser_instance)
  /\ Advance
  /\ UNCHANGED <<unsent, frontend, work, replies, expired, pending, cursor>>

DoneKeepsSlot(c) ==
  /\ Receive(c, "done")
  /\ LET m == Head(result[c])
         r == m.id
         record == tracker[r]
     IN  /\ RecyclePreallocSlot(r)
         /\ xfer' = [xfer EXCEPT ![r].size = m.size,
                                 ![r].sender = IF Tracked(tracker, r)
                                                 THEN record.denoiser_instance ELSE 0]
         /\ tracker' = Transition(Transition(tracker, r, "DENOISING_DONE"),
                                  r, "DECODER_WAITING")
         /\ Enqueue("decoder", r)
         /\ UNCHANGED free
  /\ Advance
  /\ UNCHANGED <<unsent, frontend, work, replies, expired, pending, cursor>>

(* _handle_transfer_done, from a denoiser that has staged its output.      *)
HandleTransferDone(c) ==
  /\ Receive(c, "done")
  /\ LET m == Head(result[c])
         r == m.id
         record == tracker[r]
         done == Transition(tracker, r, "DENOISING_DONE")
     IN  /\ RecyclePreallocSlot(r)
         /\ IF xfer[r] = NoXfer
              THEN /\ tracker' = done
                   /\ free' = Release(free, "denoiser", record.denoiser_instance)
                   /\ UNCHANGED <<tta, xfer>>
              ELSE /\ xfer' = [xfer EXCEPT ![r] =
                        [sender |-> IF Tracked(tracker, r)
                                      THEN record.denoiser_instance ELSE 0,
                         receiver |-> @.receiver, size |-> m.size, slot |-> NoSlot]]
                   /\ tracker' = Transition(done, r, "DECODER_WAITING")
                   /\ Enqueue("decoder", r)
                   /\ UNCHANGED free
  /\ Advance
  /\ UNCHANGED <<unsent, frontend, work, replies, expired, pending, cursor>>

(* Mutant of HandleDecoderResultFrames: the transfer state is kept.        *)
ResultKeepsTransferState(c) ==
  /\ Receive(c, "result")
  /\ LET m == Head(result[c])
         r == m.id
     IN  /\ free' = Release(free, "decoder", tracker[r].decoder_instance)
         /\ Finish(tracker, r, IF m.outcome = "ok" THEN "DONE" ELSE "FAILED", m.outcome)
  /\ Advance
  /\ UNCHANGED <<unsent, frontend, work, expired, cursor, tta, xfer, peers>>

(* _handle_decoder_result_frames.  The transfer state of a request whose   *)
(* client has been answered already is kept.                               *)
HandleDecoderResultFrames(c) ==
  /\ Receive(c, "result")
  /\ LET m == Head(result[c])
         r == m.id
     IN  /\ free' = Release(free, "decoder", tracker[r].decoder_instance)
         /\ Finish(tracker, r, IF m.outcome = "ok" THEN "DONE" ELSE "FAILED", m.outcome)
         /\ xfer' = IF r \in pending THEN [xfer EXCEPT ![r] = NoXfer] ELSE xfer
  /\ Advance
  /\ UNCHANGED <<unsent, frontend, work, expired, cursor, tta, peers>>

----------------------------------------------------------------------------
(* _drain_all_queues.                                                      *)
FreeSlots(role) == [i \in Indices(role) |-> free[<<role, i>>]]
Select(role) == SelectWithCapacity(Policy, Num(role), FreeSlots(role), cursor[role])

(* Mutant of Dispatch: no slot is taken.                                   *)
DispatchTakesNoSlot(role, r, i, state) ==
  /\ tta[role] # <<>>
  /\ i # NoInstance
  /\ r = Head(tta[role])
  /\ tta' = [tta EXCEPT ![role] = Tail(@)]
  /\ free' = free
  /\ cursor' = [cursor EXCEPT ![role] =
                  CursorAfter(Policy, Num(role), FreeSlots(role), @)]
  /\ tracker' = TransitionAt(tracker, r, state, role, i)

(* A turn of the `while' loop of a drain that dispatches the head r of the *)
(* role's queue to instance i.                                             *)
Dispatch(role, r, i, state) ==
  /\ tta[role] # <<>>
  /\ i # NoInstance
  /\ r = Head(tta[role])
  /\ tta' = [tta EXCEPT ![role] = Tail(@)]
  /\ free' = [free EXCEPT ![<<role, i>>] = @ - 1]
  /\ cursor' = [cursor EXCEPT ![role] =
                  CursorAfter(Policy, Num(role), FreeSlots(role), @)]
  /\ tracker' = TransitionAt(tracker, r, state, role, i)

(* _dispatch_to_encoder                                                    *)
DrainEncoder ==
  /\ phase = "drain_encoder"
  /\ LET i == Select("encoder")
         r == Head(tta["encoder"])
     IN  /\ Dispatch("encoder", r, i, "ENCODER_RUNNING")
         /\ Send(<<"encoder", i>>, WorkFrame(r))
  /\ UNCHANGED <<unsent, frontend, result, replies,
                 phase, events, expired, pending, xfer, peers>>

(* _try_fast_path_push, else _send_slow_path_alloc: only the first free    *)
(* pre-allocated slot of the receiver is considered.                       *)
FastPath(x, r) == peers[x] # <<>> /\ Head(peers[x]).size >= xfer[r].size

(* Mutant of StartTransfer: the slot stays on the free list.               *)
StartTransferKeepsSlot(r, upstream, x) ==
  IF FastPath(x, r)
    THEN /\ Send(<<upstream, xfer[r].sender>>, TransferPushMsg(r, x, Head(peers[x]).slot))
         /\ xfer' = [xfer EXCEPT ![r].receiver = x[2], ![r].slot = Head(peers[x]).slot]
         /\ UNCHANGED peers
    ELSE /\ Send(x, TransferAllocMsg(r))
         /\ xfer' = [xfer EXCEPT ![r].receiver = x[2]]
         /\ UNCHANGED peers

StartTransfer(r, upstream, x) ==
  IF FastPath(x, r)
    THEN /\ Send(<<upstream, xfer[r].sender>>, TransferPushMsg(r, x, Head(peers[x]).slot))
         /\ xfer' = [xfer EXCEPT ![r].receiver = x[2], ![r].slot = Head(peers[x]).slot]
         /\ peers' = [peers EXCEPT ![x] = Tail(@)]
    ELSE /\ Send(x, TransferAllocMsg(r))
         /\ xfer' = [xfer EXCEPT ![r].receiver = x[2]]
         /\ UNCHANGED peers

(* _transfer_dispatch_to_denoiser and _transfer_dispatch_to_decoder        *)
DrainReceiver(role, upstream, state) ==
  LET i == Select(role)
      r == Head(tta[role])
  IN  /\ Dispatch(role, r, i, state)
      /\ StartTransfer(r, upstream, <<role, i>>)
      /\ UNCHANGED <<unsent, frontend, result, replies, phase, events, expired, pending>>

DrainDenoiser ==
  phase = "drain_denoiser" /\ DrainReceiver("denoiser", "encoder", "DENOISING_RUNNING")

DrainDecoder ==
  phase = "drain_decoder" /\ DrainReceiver("decoder", "denoiser", "DECODER_RUNNING")

DrainPhase(role) ==
  IF role = "encoder" THEN "drain_encoder"
  ELSE IF role = "denoiser" THEN "drain_denoiser"
  ELSE "drain_decoder"

(* Mutant of DrainDone: a drain may stop after any number of requests.     *)
DrainStopsEarly(role) ==
  /\ phase = DrainPhase(role)
  /\ UNCHANGED cursor
  /\ Advance
  /\ UNCHANGED <<netVars, expired, tracker, pending, free, tta, xfer, peers>>

(* The drain of a role ends when its queue is empty or no instance has a   *)
(* free slot, in which case the policy was asked and moved its cursor.     *)
DrainDone(role) ==
  /\ phase = DrainPhase(role)
  /\ tta[role] = <<>> \/ Select(role) = NoInstance
  /\ cursor' = IF tta[role] = <<>> THEN cursor
               ELSE [cursor EXCEPT ![role] =
                       CursorAfter(Policy, Num(role), FreeSlots(role), @)]
  /\ Advance
  /\ UNCHANGED <<netVars, expired, tracker, pending, free, tta, xfer, peers>>

----------------------------------------------------------------------------
HandleRoleResult ==
  \E c \in Connections :
    \/ HandleRoleErrorFrames(c)
    \/ HandleTransferRegister(c)
    \/ HandleTransferStaged(c)
    \/ HandleTransferAllocated(c)
    \/ HandleTransferPushed(c)
    \/ HandleTransferDoneError(c)
    \/ HandleTransferDone(c)
    \/ HandleDecoderResultFrames(c)

DrainAllQueues ==
  \/ DrainEncoder
  \/ DrainDenoiser
  \/ DrainDecoder
  \/ \E role \in Roles : DrainDone(role)

ServerNext ==
  \/ Poll
  \/ \E r \in Requests : HandleTimeout(r)
  \/ TimeoutsDone
  \/ HandleClientRequest
  \/ HandleRoleResult
  \/ DrainAllQueues

(* A request that was submitted becomes older than the timeout.            *)
Expire(r) ==
  /\ Tracked(tracker, r)
  /\ r \notin expired
  /\ expired' = expired \cup {r}
  /\ UNCHANGED <<netVars, phase, events, tracker, pending, free, cursor, tta, xfer, peers>>
=============================================================================
