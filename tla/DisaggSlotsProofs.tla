------------------------- MODULE DisaggSlotsProofs -------------------------
(***************************************************************************)
(* The handler of a denoiser's last report, the timeouts, the clients and  *)
(* the dispatches, and what all steps together show about the slots.       *)
(***************************************************************************)
EXTENDS DisaggHandlerProofs

(* _handle_transfer_done.                                                  *)
LEMMA SlotsDone ==
  ASSUME TypeOK, TypeOK', SlotInv, NEW c \in Connections, HandleTransferDone(c),
         UNCHANGED instVars
  PROVE  SlotInv'
<1> DEFINE r == Head(result[c]).id
           from == <<"result", c>>
           to == <<"tta", "decoder">>
<1>1. /\ Receive(c, "done")
      /\ UNCHANGED <<unsent, frontend, work, rdma_push_queue, compute_ready_queue>>
  BY Zenon DEF HandleTransferDone, instVars
<1>2. /\ from \in Boxes /\ Mail[from] # <<>>
      /\ r \in Requests /\ Head(Mail[from]) = Entry(r, "done")
      /\ "done" \in Kinds \ {"register"}
      /\ MailOf(frontend, tta, work, rdma_push_queue, compute_ready_queue, result')
           = Drop(Mail, from)
      /\ Tracked(tracker, r) => Fits(tracker[r].state, from, "done")
  BY <1>1, ReceiveMail, Zenon
<1>3. /\ tracker[r].state \in RestStates
      /\ tracker[r].state \in LaterStates => xfer[r].size > 0
      /\ tracker[r].state = "ABSENT" => tracker[r] = NoRecord
  BY <1>2, Zenon DEF SlotInv, RecordsRest
<1>4. tracker[r].state \in {"ABSENT", "DENOISING_RUNNING"}
  BY <1>2, Zenon DEF Tracked, Fits
<1>5. xfer[r] = NoXfer => tracker[r].state = "ABSENT"
  BY <1>3, <1>4 DEF NoXfer, LaterStates
<1>6. /\ free \in [Inst -> Int] /\ tracker \in [Requests -> RequestRecord]
      /\ "waiting" \notin BeforePush /\ "waiting" \in Kinds
  BY DEF TypeOK, ServerTypeOK, BeforePush, Kinds
<1>7. /\ CanTransition("DENOISING_RUNNING", "DENOISING_DONE")
      /\ CanTransition("DENOISING_DONE", "DECODER_WAITING")
      /\ ~ CanTransition("ABSENT", "DENOISING_DONE")
      /\ "DENOISING_DONE" \in States /\ "DECODER_WAITING" \in States
  BY DEF CanTransition, ValidTransitions, States, ActiveStates
<1>8. CASE xfer[r] = NoXfer
  <2>1. /\ tracker' = Transition(tracker, r, "DENOISING_DONE")
        /\ free' = Release(free, "denoiser", tracker[r].denoiser_instance)
        /\ UNCHANGED <<tta, xfer>>
    BY <1>8, Zenon DEF HandleTransferDone
  <2>2. tracker[r] = NoRecord /\ tracker[r].state = "ABSENT" /\ tracker[r].denoiser_instance = None
    BY <1>3, <1>5, <1>8 DEF NoRecord
  <2>3. tracker' = tracker /\ free' = free
    BY <1>7, <2>1, <2>2 DEF Transition, Release
  <2>4. Mail' = Drop(Mail, from)
    BY <1>1, <1>2, <2>1, Zenon DEF Mail
  <2>5. ASSUME NEW x \in Inst
        PROVE  Settled(free, free', x, HoldsAs(tracker[r], PushDue(Mail, r), x),
                       HoldsAs(tracker'[r], "waiting" \in BeforePush, x))
    BY <2>2, <2>3, NoRecordHolds, Zenon DEF Settled
  <2>6. ~ Tracked(tracker', r)
    BY <2>2, <2>3 DEF Tracked
  <2> HIDE DEF r, from, to
  <2> QED
    BY <1>1, <1>2, <1>3, <1>6, <2>1, <2>3, <2>4, <2>5, <2>6, ServerMove, Zenon
<1>9. CASE xfer[r] # NoXfer
  <2>1. /\ tracker' = Transition(Transition(tracker, r, "DENOISING_DONE"), r, "DECODER_WAITING")
        /\ Added(tta, tta', "decoder", r)
        /\ free' = free
    BY <1>9, Zenon DEF HandleTransferDone, Enqueue, Added
  <2>2. /\ \A q \in Requests \ {r} : xfer'[q] = xfer[q]
        /\ xfer'[r].size = Head(result[c]).size
    <3> DEFINE new == [sender |-> IF Tracked(tracker, r) THEN tracker[r].denoiser_instance ELSE 0,
                       receiver |-> xfer[r].receiver, size |-> Head(result[c]).size, slot |-> NoSlot]
    <3>1. xfer' = [xfer EXCEPT ![r] = new]
      BY <1>9, Zenon DEF HandleTransferDone
    <3>2. new.size = Head(result[c]).size
      BY Zenon
    <3>3. xfer \in [Requests -> Xfer]
      BY DEF TypeOK, ServerTypeOK
    <3>4. r \in Requests
      BY <1>2, Zenon
    <3> HIDE DEF new, r
    <3> QED
      BY <3>1, <3>2, <3>3, <3>4, Zenon
  <2>3. xfer'[r].size > 0
    <3>1. Head(result[c]) \in ResultMsg /\ Head(result[c]).type = "done"
      BY <1>1, HeadTail, Zenon DEF Receive, TypeOK, NetworkTypeOK
    <3>2. Head(result[c]).size \in Sizes
      BY <3>1, ResultFields, Zenon
    <3>3. \A size \in Sizes : size > 0
      BY NetworkAssumption
    <3> QED
      BY <2>2, <3>2, <3>3, Zenon
  <2> HIDE DEF r, from, to
  <2>4. Mail' = Put(Drop(Mail, from), to, Entry(r, "waiting"))
    BY <1>1, <1>2, <2>1, ServerQueues, Zenon DEF to
  <2>5. /\ \A q \in Requests \ {r} : tracker'[q] = tracker[q]
        /\ /\ CanTransition(tracker[r].state, "DENOISING_DONE")
           /\ CanTransition("DENOISING_DONE", "DECODER_WAITING")
           => tracker'[r].state = "DECODER_WAITING" /\ SameInstances(tracker'[r], tracker[r])
        /\ tracker[r].state = "ABSENT" => tracker' = tracker
    <3>1. r \in Requests
      BY <1>2
    <3> QED
      BY <1>6, <1>7, <2>1, <3>1, TransitionTwice
  <2>6. \/ tracker[r].state = "ABSENT" /\ tracker' = tracker
        \/ /\ tracker[r].state = "DENOISING_RUNNING"
           /\ tracker'[r].state = "DECODER_WAITING" /\ SameInstances(tracker'[r], tracker[r])
    BY <1>4, <1>7, <2>5, Zenon
  <2>7. /\ tracker'[r].state \in RestStates
        /\ tracker'[r].state = "ABSENT" => tracker'[r] = NoRecord
        /\ Tracked(tracker', r) => Fits(tracker'[r].state, to, "waiting")
    BY <1>3, <2>6, Zenon DEF RestStates, LaterStates, Tracked, Fits, WaitingFor, to
  <2>8. ASSUME NEW x \in Inst
        PROVE  Settled(free, free', x, HoldsAs(tracker[r], PushDue(Mail, r), x),
                       HoldsAs(tracker'[r], "waiting" \in BeforePush, x))
    <3>1. HoldsAs(tracker'[r], "waiting" \in BeforePush, x) => HoldsAs(tracker[r], PushDue(Mail, r), x)
      BY <1>6, <2>6 DEF HoldsAs, SameInstances
    <3> QED
      BY <2>1, <3>1 DEF Settled
  <2> QED
    BY <1>1, <1>2, <1>6, <2>2, <2>3, <2>4, <2>5, <2>7, <2>8, ServerMove, Zenon
<1> QED
  BY <1>8, <1>9

(* _handle_timeouts.                                                       *)
LEMMA SlotsTimeout ==
  ASSUME TypeOK, TypeOK', SlotInv, NEW r \in Requests, HandleTimeout(r), UNCHANGED instVars
  PROVE  SlotInv'
<1>1. /\ UNCHANGED <<unsent, frontend, work, result, rdma_push_queue, compute_ready_queue, xfer>>
      /\ free' = FreeSlotForRecord(free, tracker[r])
      /\ tta' = [role \in Roles |-> Without(tta[role], r)]
      /\ Finish(tracker, r, "FAILED", "error")
  BY DEF HandleTimeout, CompleteWithError, instVars
<1>2. "FAILED" \in States
  BY DEF States, TerminalStates
<1>3. tracker'[r] = NoRecord /\ \A q \in Requests \ {r} : tracker'[q] = tracker[q]
  BY <1>1, <1>2, FinishRecord, Zenon
<1>4. Mail \in [Boxes -> Seq(Entries)] /\ Mail' \in [Boxes -> Seq(Entries)]
  BY MailType, NextMailType
<1>5. ASSUME NEW l \in Boxes
      PROVE  \E d \in Nat : Thinned(Mail[l], Mail'[l], d)
  <2>1. CASE l[1] = "tta"
    <3> DEFINE q == tta[l[2]]
               p == Without(q, r)
    <3>1. q \in Seq(Requests) /\ tta'[l[2]] = p
      BY <1>1, <2>1, BoxNames, Zenon DEF TypeOK, ServerTypeOK
    <3>2. Mail[l] = RequestEntries(q, "waiting") /\ Mail'[l] = RequestEntries(p, "waiting")
      BY <2>1, <3>1, BoxNames, Zenon DEF Mail, MailOf, BoxOf
    <3>3. p \in Seq(Requests)
      BY <3>1, WithoutType, Zenon
    <3>4. PICK d \in Nat : Thinned(q, p, d)
      BY <3>1, WithoutThins
    <3> HIDE DEF q, p
    <3>5. Thinned(RequestEntries(q, "waiting"), RequestEntries(p, "waiting"), d)
      BY <3>1, <3>3, <3>4 DEF Thinned, RequestEntries
    <3> QED
      BY <3>2, <3>5
  <2>2. CASE l[1] # "tta"
    <3>1. Mail'[l] = Mail[l]
      BY <1>1, <2>2, BoxNames, Zenon DEF Mail, MailOf, BoxOf
    <3>2. Mail[l] \in Seq(Entries) /\ Len(Mail[l]) \in Nat
      BY <1>4
    <3>3. Thinned(Mail[l], Mail[l], Len(Mail[l]) + 1)
      BY <3>2 DEF Thinned, At
    <3> QED
      BY <3>1, <3>2, <3>3
  <2> QED
    BY <2>1, <2>2
<1>6. Fewer(Mail, Mail')
  BY <1>4, <1>5, ThinnedFewer DEF SlotInv
<1>7. ASSUME NEW x \in Inst
      PROVE  \/ free'[x] = free[x]
             \/ free'[x] = free[x] + 1 /\ HoldsSlot(Mail, tracker, r, x)
  <2>1. free \in [Inst -> Int]
    BY DEF TypeOK, ServerTypeOK
  <2> DEFINE record == tracker[r]
  <2>2. record.state \in RestStates
    BY Zenon DEF SlotInv, RecordsRest
  <2> HIDE DEF record
  <2>3. \/ free' = free
        \/ record.state = "ENCODER_RUNNING" /\ free' = Release(free, "encoder", record.encoder_instance)
        \/ record.state = "DENOISING_RUNNING" /\ free' = Release(free, "denoiser", record.denoiser_instance)
        \/ record.state = "DECODER_RUNNING" /\ free' = Release(free, "decoder", record.decoder_instance)
    BY <1>1, <2>2 DEF FreeSlotForRecord, RestStates, LaterStates, record
  <2>4. \/ free'[x] = free[x]
        \/ /\ free'[x] = free[x] + 1
           /\ \/ record.state = "ENCODER_RUNNING" /\ x[1] = "encoder" /\ x[2] = record.encoder_instance
              \/ record.state = "DENOISING_RUNNING" /\ x[1] = "denoiser" /\ x[2] = record.denoiser_instance
              \/ record.state = "DECODER_RUNNING" /\ x[1] = "decoder" /\ x[2] = record.decoder_instance
    BY <2>1, <2>3, ReleaseAt
  <2> QED
    BY <2>4, Zenon DEF HoldsSlot, HoldsAs, record
<1> QED
  BY <1>1, <1>3, <1>6, <1>7, ServerFewer, Zenon

(* _handle_client_request.  A request in the socket is not tracked.        *)
LEMMA SlotsClientRequest ==
  ASSUME TypeInv, TypeOK', SlotInv, HandleClientRequest, UNCHANGED instVars
  PROVE  SlotInv'
<1> DEFINE r == Head(frontend)
           from == <<"frontend", "DS">>
           to == <<"tta", "encoder">>
           submitted == Submit(tracker, r)
<1>1. TypeOK /\ frontend \in Seq(Requests) /\ frontend # <<>>
  BY DEF TypeInv, TypeOK, NetworkTypeOK, FrontendReadable, HandleClientRequest
<1>2. r \in Requests
  BY <1>1, HeadTail
<1>3. /\ from \in Boxes /\ Mail[from] # <<>>
      /\ Head(Mail[from]) = Entry(r, "client") /\ "client" \in Kinds \ {"register"}
  BY <1>1, BoxNames, HeadEntry, Zenon DEF Kinds
<1>4. ~ Tracked(tracker, r)
  <2>1. About(Head(Mail[from]), r) /\ Head(Mail[from]).kind = "client"
    BY <1>3, EntryType
  <2>2. Tracked(tracker, r) => Fits(tracker[r].state, from, "client")
    <3> HIDE DEF r, from
    <3> QED
      BY <1>1, <1>2, <1>3, <2>1, HeadKnown, Zenon
  <2> QED
    BY <2>2 DEF Fits
<1>5. /\ frontend' = Tail(frontend) /\ Added(tta, tta', "encoder", r)
      /\ tracker' = Transition(submitted, r, "ENCODER_WAITING")
      /\ UNCHANGED <<unsent, work, result, rdma_push_queue, compute_ready_queue, free, xfer>>
  BY <1>4 DEF HandleClientRequest, Enqueue, Added, instVars
<1>6. MailOf(Tail(frontend), tta, work, rdma_push_queue, compute_ready_queue, result)
        = Drop(Mail, from)
  BY <1>1, FrontendBox DEF Mail
<1>7. Mail' = Put(Drop(Mail, from), to, Entry(r, "waiting"))
  BY <1>1, <1>2, <1>5, <1>6, QueueTypes, TtaAdd DEF Mail
<1>8. /\ submitted \in [Requests -> RequestRecord]
      /\ submitted[r].state = "PENDING"
      /\ \A q \in Requests \ {r} : submitted[q] = tracker[q]
  <2>1. submitted \in [Requests -> RequestRecord]
    BY <1>1, <1>2, <1>4, SubmitType, Zenon DEF TypeOK, ServerTypeOK
  <2>2. submitted = [tracker EXCEPT ![r] = [NoRecord EXCEPT !.state = "PENDING"]]
    BY <1>4 DEF Submit
  <2>3. tracker \in [Requests -> RequestRecord]
    BY <1>1 DEF TypeOK, ServerTypeOK
  <2> QED
    BY <1>2, <2>1, <2>2, <2>3 DEF NoRecord
<1> HIDE DEF submitted
<1>9. /\ tracker'[r].state = "ENCODER_WAITING"
      /\ \A q \in Requests \ {r} : tracker'[q] = tracker[q]
  <2>1. CanTransition("PENDING", "ENCODER_WAITING")
    BY DEF CanTransition, ValidTransitions
  <2> HIDE DEF r
  <2> QED
    BY <1>2, <1>5, <1>8, <2>1, TransitionRecord
<1>10. /\ tracker'[r].state \in RestStates
       /\ tracker'[r].state \notin LaterStates
       /\ tracker'[r].state # "ABSENT"
       /\ Fits(tracker'[r].state, to, "waiting")
       /\ "waiting" \in Kinds
  BY <1>9 DEF RestStates, LaterStates, Fits, WaitingFor, Kinds
<1>11. ASSUME NEW x \in Inst
       PROVE  Settled(free, free', x, HoldsAs(tracker[r], PushDue(Mail, r), x),
                      HoldsAs(tracker'[r], "waiting" \in BeforePush, x))
  <2>1. ~ HoldsAs(tracker'[r], "waiting" \in BeforePush, x)
    BY <1>9 DEF HoldsAs
  <2> QED
    BY <1>5, <2>1, Zenon DEF Settled
<1> HIDE DEF r, from, to
<1> QED
  BY <1>1, <1>2, <1>3, <1>5, <1>7, <1>9, <1>10, <1>11, ServerMove, Zenon

(* A client sends its request: the first entry about it.                   *)
LEMMA SlotsClientSend ==
  ASSUME TypeOK, TypeOK', SlotInv, Accounted, NEW r \in Requests, ClientSend(r),
         UNCHANGED <<serverVars, instVars>>
  PROVE  SlotInv'
<1> DEFINE to == <<"frontend", "DS">>
<1>1. /\ r \in unsent /\ unsent' = unsent \ {r} /\ frontend' = Append(frontend, r)
      /\ UNCHANGED <<work, result, rdma_push_queue, compute_ready_queue, tta, tracker, xfer, free>>
  BY DEF ClientSend, serverVars, instVars
<1>2. Absent(Mail, r) /\ Mail \in [Boxes -> Seq(Entries)] /\ Single(Mail)
  BY <1>1, MailType DEF SlotInv
<1>3. tracker[r].state = "ABSENT" /\ tracker[r] = NoRecord
  <2>1. ~ Tracked(tracker, r)
    BY <1>1, Zenon DEF Accounted, RequestsAccounted
  <2> QED
    BY <2>1, Zenon DEF Tracked, SlotInv, RecordsRest
<1>4. Mail' = Put(Mail, to, Entry(r, "client"))
  BY <1>1, FrontendBox DEF Mail, TypeOK, NetworkTypeOK
<1>5. Moved(Mail, Mail', r, to, "client")
  <2>1. Entry(r, "client") \in Entries
    BY EntryType DEF Kinds
  <2> HIDE DEF to
  <2> QED
    BY <1>2, <1>4, <2>1, NewEntry
<1> HIDE DEF to
<1>6. EntriesFit(Mail', tracker')
  BY <1>1, <1>3, <1>5, FitMoved, Zenon DEF SlotInv, Tracked
<1>7. RecordsRest(tracker', xfer')
  BY <1>1 DEF SlotInv
<1>8. Ledger(Mail', tracker', free')
  <2>1. ASSUME NEW x \in Inst
        PROVE  Booked(Holding(Mail, tracker, x), Holding(Mail', tracker', x), free[x], free'[x])
    <3>1. Holding(Mail', tracker', x) \subseteq Holding(Mail, tracker, x) \cup {r}
      BY <1>1, <1>5, HoldingMoved
    <3>2. r \notin Holding(Mail', tracker', x)
      BY <1>1, <1>3, NoRecordHolds, Zenon DEF Holding, HoldsSlot
    <3> QED
      BY <1>1, <3>1, <3>2 DEF Booked
  <2>2. free \in [Inst -> Int] /\ free' \in [Inst -> Int] /\ Ledger(Mail, tracker, free)
    BY DEF TypeOK, ServerTypeOK, SlotInv
  <2> QED
    BY <2>1, <2>2, LedgerStep
<1>9. \A q \in unsent' : Absent(Mail', q)
  BY <1>1, <1>5, Zenon DEF SlotInv, Moved, TypeOK, NetworkTypeOK
<1> QED
  BY <1>5, <1>6, <1>7, <1>8, <1>9, Zenon DEF SlotInv, Moved

(* The record is the old one but for the instance of one role.             *)
PlacedAt(record, old, role, i) ==
  /\ record.encoder_instance = IF role = "encoder" THEN i ELSE old.encoder_instance
  /\ record.denoiser_instance = IF role = "denoiser" THEN i ELSE old.denoiser_instance
  /\ record.decoder_instance = IF role = "decoder" THEN i ELSE old.decoder_instance

(* A transition that also sets the instance of a role.                     *)
LEMMA TransitionAtRecord ==
  ASSUME NEW t \in [Requests -> RequestRecord], NEW r \in Requests, NEW new,
         NEW role \in Roles, NEW i, NEW u, u = TransitionAt(t, r, new, role, i)
  PROVE  /\ \A q \in Requests \ {r} : u[q] = t[q]
         /\ ~ CanTransition(t[r].state, new) => u = t
         /\ CanTransition(t[r].state, new) => u[r].state = new /\ PlacedAt(u[r], t[r], role, i)
<1>1. CASE CanTransition(t[r].state, new)
  <2>1. CASE role = "encoder"
    <3>1. u = [t EXCEPT ![r].state = new, ![r].encoder_instance = i]
      BY <1>1, <2>1 DEF TransitionAt
    <3> QED
      BY <1>1, <2>1, <3>1 DEF RequestRecord, PlacedAt
  <2>2. CASE role = "denoiser"
    <3>1. u = [t EXCEPT ![r].state = new, ![r].denoiser_instance = i]
      BY <1>1, <2>2 DEF TransitionAt
    <3> QED
      BY <1>1, <2>2, <3>1 DEF RequestRecord, PlacedAt
  <2>3. CASE role = "decoder"
    <3>1. u = [t EXCEPT ![r].state = new, ![r].decoder_instance = i]
      BY <1>1, <2>3 DEF TransitionAt
    <3> QED
      BY <1>1, <2>3, <3>1 DEF RequestRecord, PlacedAt
  <2> QED
    BY <2>1, <2>2, <2>3, Zenon DEF Roles
<1>2. CASE ~ CanTransition(t[r].state, new)
  BY <1>2 DEF TransitionAt
<1> QED
  BY <1>1, <1>2, Zenon

(* The dispatch of a request takes a slot, and the request has it if it is *)
(* still tracked.                                                          *)
StateOn(role) ==
  IF role = "encoder" THEN "ENCODER_RUNNING"
  ELSE IF role = "denoiser" THEN "DENOISING_RUNNING"
  ELSE "DECODER_RUNNING"

LEMMA DispatchRecord ==
  ASSUME TypeInv, SlotInv, NEW role \in Roles, NEW r, NEW i, i = Select(role),
         Dispatch(role, r, i, StateOn(role))
  PROVE  /\ r \in Requests /\ i \in Indices(role) /\ <<role, i>> \in Inst
         /\ <<"tta", role>> \in Boxes /\ Mail[<<"tta", role>>] # <<>>
         /\ Head(Mail[<<"tta", role>>]) = Entry(r, "waiting")
         /\ MailOf(frontend, tta', work, rdma_push_queue, compute_ready_queue, result)
              = Drop(Mail, <<"tta", role>>)
         /\ \A q \in Requests \ {r} : tracker'[q] = tracker[q]
         /\ \/ tracker[r].state = "ABSENT" /\ tracker' = tracker
            \/ tracker[r].state = WaitingFor(role) /\ tracker'[r].state = StateOn(role)
         /\ \A x \in Inst : \A due :
              Settled(free, free', x, HoldsAs(tracker[r], due, x),
                      HoldsAs(tracker'[r], "push" \in BeforePush, x))
<1> DEFINE from == <<"tta", role>>
<1>1. /\ TypeOK /\ tta[role] # <<>> /\ r = Head(tta[role]) /\ Popped(tta, tta', role)
      /\ free' = [free EXCEPT ![<<role, i>>] = @ - 1]
      /\ tracker' = TransitionAt(tracker, r, StateOn(role), role, i)
  BY Zenon DEF TypeInv, TypeOK, ServerTypeOK, Dispatch, Popped
<1>2. StateOn(role) \in ActiveStates
  BY DEF StateOn, ActiveStates
<1>3. r \in Requests /\ i \in Indices(role)
  BY <1>2, DispatchType
<1>4. <<role, i>> \in Inst
  BY <1>3, InstPairs
<1>5. from \in Boxes /\ Mail[from] # <<>> /\ Head(Mail[from]) = Entry(r, "waiting")
  BY <1>1, BoxNames, HeadEntry, Zenon
<1>6. MailOf(frontend, tta', work, rdma_push_queue, compute_ready_queue, result) = Drop(Mail, from)
  BY <1>1, QueueTypes, TtaPop DEF Mail
<1>7. tracker[r].state = "ABSENT" \/ tracker[r].state = WaitingFor(role)
  <2>1. About(Head(Mail[from]), r) /\ Head(Mail[from]).kind = "waiting"
    BY <1>5, EntryType, Zenon
  <2>2. Tracked(tracker, r) => Fits(tracker[r].state, from, "waiting")
    <3> HIDE DEF from
    <3> QED
      BY <1>1, <1>3, <1>5, <2>1, HeadKnown, Zenon
  <2> QED
    BY <2>2, Zenon DEF Tracked, Fits
<1>8. /\ ~ CanTransition("ABSENT", StateOn(role))
      /\ CanTransition(WaitingFor(role), StateOn(role))
  BY DEF CanTransition, ValidTransitions, StateOn, WaitingFor, Roles
<1>9. tracker \in [Requests -> RequestRecord]
  BY <1>1 DEF TypeOK, ServerTypeOK
<1>10. /\ \A q \in Requests \ {r} : tracker'[q] = tracker[q]
       /\ tracker[r].state = "ABSENT" => tracker' = tracker
       /\ tracker[r].state = WaitingFor(role) =>
            tracker'[r].state = StateOn(role) /\ PlacedAt(tracker'[r], tracker[r], role, i)
  <2>1. tracker' = TransitionAt(tracker, r, StateOn(role), role, i)
    BY <1>1, Zenon
  <2>2. /\ \A q \in Requests \ {r} : tracker'[q] = tracker[q]
        /\ ~ CanTransition(tracker[r].state, StateOn(role)) => tracker' = tracker
        /\ CanTransition(tracker[r].state, StateOn(role)) =>
             tracker'[r].state = StateOn(role) /\ PlacedAt(tracker'[r], tracker[r], role, i)
    BY <1>3, <1>9, <2>1, TransitionAtRecord
  <2> QED
    BY <1>8, <2>2, Zenon
<1>11. ASSUME NEW x \in Inst, NEW due
       PROVE  Settled(free, free', x, HoldsAs(tracker[r], due, x),
                      HoldsAs(tracker'[r], "push" \in BeforePush, x))
  <2>1. x = <<x[1], x[2]>>
    BY InstPairs
  <2>2. CASE x = <<role, i>>
    <3>1. free'[x] = free[x] - 1
      BY <1>1, <2>2 DEF TypeOK, ServerTypeOK
    <3> QED
      BY <3>1, Zenon DEF Settled
  <2>3. CASE x # <<role, i>>
    <3>1. free'[x] = free[x]
      BY <1>1, <2>3 DEF TypeOK, ServerTypeOK
    <3>2. CASE tracker[r].state = "ABSENT"
      <4>1. ~ HoldsAs(tracker'[r], "push" \in BeforePush, x)
        BY <1>10, <3>2, Zenon DEF HoldsAs
      <4> QED
        BY <3>1, <4>1, Zenon DEF Settled
    <3>3. CASE tracker[r].state = WaitingFor(role)
      <4>1. ~ (x[1] = role /\ x[2] = i)
        BY <2>1, <2>3
      <4>2. HoldsAs(tracker'[r], "push" \in BeforePush, x) => HoldsAs(tracker[r], due, x)
        BY <1>10, <3>3, <4>1, Zenon DEF HoldsAs, StateOn, WaitingFor, Roles, PlacedAt
      <4> QED
        BY <3>1, <4>2, Zenon DEF Settled
    <3> QED
      BY <1>7, <3>2, <3>3, Zenon
  <2> QED
    BY <2>2, <2>3, Zenon
<1>12. \/ tracker[r].state = "ABSENT" /\ tracker' = tracker
       \/ tracker[r].state = WaitingFor(role) /\ tracker'[r].state = StateOn(role)
  BY <1>7, <1>10, Zenon
<1> QED
  BY <1>3, <1>4, <1>5, <1>6, <1>10, <1>11, <1>12, Zenon

(* A dispatch that sends one message about the request.                    *)
LEMMA SlotsDispatch ==
  ASSUME TypeInv, TypeOK', SlotInv, NEW role \in Roles, NEW r, NEW i, i = Select(role),
         Dispatch(role, r, i, StateOn(role)),
         UNCHANGED <<unsent, frontend, result>>, UNCHANGED instVars,
         NEW y, NEW m \in WorkMsg, Added(work, work', y, m), m.id = r,
         m.type \in Kinds, m.type # "register",
         Fits(StateOn(role), <<"work", y>>, m.type),
         \A q \in Requests \ {r} : xfer'[q] = xfer[q],
         r \in Requests => xfer'[r].size = xfer[r].size
  PROVE  SlotInv'
<1> DEFINE from == <<"tta", role>>
           to == <<"work", y>>
           kind == m.type
<1>1. /\ r \in Requests /\ from \in Boxes /\ Mail[from] # <<>>
      /\ Head(Mail[from]) = Entry(r, "waiting")
      /\ MailOf(frontend, tta', work, rdma_push_queue, compute_ready_queue, result)
           = Drop(Mail, from)
      /\ \A q \in Requests \ {r} : tracker'[q] = tracker[q]
      /\ \/ tracker[r].state = "ABSENT" /\ tracker' = tracker
         \/ tracker[r].state = WaitingFor(role) /\ tracker'[r].state = StateOn(role)
  BY DispatchRecord, Zenon
<1>2. \A x \in Inst : \A due :
        Settled(free, free', x, HoldsAs(tracker[r], due, x),
                HoldsAs(tracker'[r], "push" \in BeforePush, x))
  BY DispatchRecord, Zenon
<1>3. TypeOK /\ UNCHANGED <<unsent, frontend, result, rdma_push_queue, compute_ready_queue>>
  BY Zenon DEF TypeInv, instVars
<1>4. Mail' = Put(Drop(Mail, from), to, Entry(r, kind))
  <2>1. MailOf(frontend, tta', work', rdma_push_queue, compute_ready_queue, result)
          = Put(MailOf(frontend, tta', work, rdma_push_queue, compute_ready_queue, result),
                to, Entry(m.id, m.type))
    BY <1>3, QueueTypes, WorkAdd
  <2> QED
    BY <1>1, <1>3, <2>1, Zenon DEF Mail
<1>5. ASSUME NEW x \in Inst
      PROVE  Settled(free, free', x, HoldsAs(tracker[r], PushDue(Mail, r), x),
                     HoldsAs(tracker'[r], kind \in BeforePush, x))
  <2>1. HoldsAs(tracker'[r], kind \in BeforePush, x) => HoldsAs(tracker'[r], "push" \in BeforePush, x)
    BY Zenon DEF HoldsAs, BeforePush
  <2> QED
    BY <1>2, <2>1, Zenon DEF Settled
<1>6. RecordsRest(tracker, xfer)
  BY Zenon DEF SlotInv
<1>7. /\ tracker'[r].state \in RestStates
      /\ tracker'[r].state \in LaterStates => xfer'[r].size > 0
      /\ tracker'[r].state = "ABSENT" => tracker'[r] = NoRecord
      /\ Tracked(tracker', r) => Fits(tracker'[r].state, to, kind)
  <2>1. CASE tracker[r].state = "ABSENT" /\ tracker' = tracker
    BY <1>1, <1>6, <2>1, Zenon DEF RecordsRest, LaterStates, Tracked
  <2>2. CASE tracker[r].state = WaitingFor(role) /\ tracker'[r].state = StateOn(role)
    <3>1. /\ StateOn(role) \in RestStates /\ StateOn(role) # "ABSENT"
          /\ StateOn(role) \in LaterStates => WaitingFor(role) \in LaterStates
      BY Zenon DEF StateOn, RestStates, LaterStates, WaitingFor
    <3> QED
      BY <1>1, <1>6, <2>2, <3>1, Zenon DEF RecordsRest
  <2> QED
    BY <1>1, <2>1, <2>2, Zenon
<1>8. "waiting" \in Kinds \ {"register"} /\ kind \in Kinds
  BY Zenon DEF Kinds
<1> HIDE DEF from, to, kind
<1> QED
  BY <1>1, <1>3, <1>4, <1>5, <1>7, <1>8, ServerMove, Zenon

(* _dispatch_to_encoder.                                                   *)
LEMMA SlotsDrainEncoder ==
  ASSUME TypeInv, TypeOK', SlotInv, DrainEncoder, UNCHANGED instVars
  PROVE  SlotInv'
<1> DEFINE role == "encoder"
           i == Select(role)
           r == Head(tta[role])
           m == WorkFrame(r)
           y == <<role, i>>
<1>1. /\ role \in Roles /\ StateOn(role) = "ENCODER_RUNNING"
      /\ Dispatch(role, r, i, "ENCODER_RUNNING") /\ Added(work, work', y, m)
      /\ UNCHANGED <<unsent, frontend, result, xfer>>
  BY DEF DrainEncoder, Send, Added, StateOn, Roles
<1>2. r \in Requests
  BY <1>1, DispatchType DEF ActiveStates
<1>3. /\ m \in WorkMsg /\ m.id = r /\ m.type = "work"
      /\ "work" \in Kinds /\ Fits(StateOn(role), <<"work", y>>, "work")
  BY <1>1, <1>2, Zenon DEF WorkMsg, WorkFrame, Kinds, Fits
<1> HIDE DEF role, i, r, m, y
<1> QED
  BY <1>1, <1>2, <1>3, SlotsDispatch, Zenon DEF i

(* _transfer_dispatch_to_denoiser and _transfer_dispatch_to_decoder.       *)
LEMMA SlotsDrainReceiver ==
  ASSUME TypeInv, TypeOK', SlotInv, NEW role \in {"denoiser", "decoder"}, NEW upstream,
         DrainReceiver(role, upstream, StateOn(role)), UNCHANGED instVars
  PROVE  SlotInv'
<1> DEFINE i == Select(role)
           r == Head(tta[role])
           x == <<role, i>>
<1>1. /\ role \in Roles
      /\ Dispatch(role, r, i, StateOn(role)) /\ StartTransfer(r, upstream, x)
      /\ UNCHANGED <<unsent, frontend, result>>
  BY DEF DrainReceiver, Roles
<1>2. r \in Requests /\ i \in Indices(role)
  <2>1. StateOn(role) \in ActiveStates
    BY DEF StateOn, ActiveStates
  <2> QED
    BY <1>1, <2>1, DispatchType
<1>3. x \in Inst /\ x[1] = role /\ x[2] = i
  BY <1>1, <1>2, InstPairs
<1>4. i = Select(role)
  OBVIOUS
<1>5. StateOn(role) = RunningOn(role) /\ StateOn(role) \in {"DENOISING_RUNNING", "DECODER_RUNNING"}
  BY DEF StateOn, RunningOn
<1>6. xfer \in [Requests -> Xfer] /\ peers \in [Inst -> Seq([slot : Slots, size : Nat])]
  BY Zenon DEF TypeInv, TypeOK, ServerTypeOK
<1>7. CASE FastPath(x, r)
  <2> DEFINE s == Head(peers[x]).slot
             y == <<upstream, xfer[r].sender>>
             m == TransferPushMsg(r, x, s)
  <2>1. /\ Added(work, work', y, m)
        /\ xfer' = [xfer EXCEPT ![r].receiver = x[2], ![r].slot = s]
    BY <1>1, <1>7, Zenon DEF StartTransfer, Send, Added
  <2>2. s \in Slots
    <3>1. peers[x] \in Seq([slot : Slots, size : Nat]) /\ peers[x] # <<>>
      BY <1>3, <1>6, <1>7, Zenon DEF FastPath
    <3>2. Head(peers[x]) \in [slot : Slots, size : Nat]
      BY <3>1, HeadTail, Zenon
    <3> QED
      BY <3>2
  <2> HIDE DEF s, x, r, i
  <2>3. /\ m \in WorkMsg /\ m.id = r /\ m.type = "push" /\ "push" \in Kinds
    BY <1>2, <1>3, <2>2, Zenon DEF WorkMsg, TransferPushMsg, Dest, Kinds
  <2>4. Fits(StateOn(role), <<"work", y>>, "push")
    BY <1>5 DEF Fits
  <2>5. /\ \A q \in Requests \ {r} : xfer'[q] = xfer[q]
        /\ xfer'[r].size = xfer[r].size
    BY <1>2, <1>6, <2>1 DEF Xfer
  <2> HIDE DEF y, m
  <2> QED
    BY <1>1, <1>2, <1>4, <2>1, <2>3, <2>4, <2>5, SlotsDispatch, Zenon
<1>8. CASE ~ FastPath(x, r)
  <2> DEFINE m == TransferAllocMsg(r)
  <2>1. Added(work, work', x, m) /\ xfer' = [xfer EXCEPT ![r].receiver = x[2]]
    BY <1>1, <1>8, Zenon DEF StartTransfer, Send, Added
  <2> HIDE DEF x, r, i
  <2>2. /\ m \in WorkMsg /\ m.id = r /\ m.type = "alloc" /\ "alloc" \in Kinds
    BY <1>2, Zenon DEF WorkMsg, TransferAllocMsg, Kinds
  <2>3. Fits(StateOn(role), <<"work", x>>, "alloc")
    BY <1>3, <1>5, Zenon DEF Fits, RoleOf
  <2>4. /\ \A q \in Requests \ {r} : xfer'[q] = xfer[q]
        /\ xfer'[r].size = xfer[r].size
    BY <1>2, <1>6, <2>1 DEF Xfer
  <2> HIDE DEF m
  <2> QED
    BY <1>1, <1>2, <1>4, <2>1, <2>2, <2>3, <2>4, SlotsDispatch
<1> QED
  BY <1>7, <1>8

(* Initially the only messages are the registrations.                      *)
LEMMA SlotInit == Init => SlotInv
<1> SUFFICES ASSUME Init PROVE SlotInv
  OBVIOUS
<1>1. /\ frontend = <<>> /\ work = [x \in Inst |-> <<>>]
      /\ result = [c \in Connections |-> IF c[2] = "main" THEN <<TransferRegisterMsg>> ELSE <<>>]
      /\ tracker = [r \in Requests |-> NoRecord]
      /\ free = [x \in Inst |-> Capacity(x[1])]
      /\ tta = [role \in Roles |-> <<>>]
      /\ rdma_push_queue = [x \in Inst |-> <<>>]
      /\ compute_ready_queue = [x \in Inst |-> <<>>]
  BY DEF Init, NetworkInit, ServerInit, InstanceInit
<1>2. ASSUME NEW k \in Boxes, NEW i \in 1 .. Len(Mail[k]), NEW r
      PROVE  ~ About(Mail[k][i], r)
  <2>1. CASE k[1] = "result"
    <3>1. k[2] \in Connections /\ Mail[k] = ResultEntries(result[k[2]])
      BY <2>1, BoxNames, Zenon DEF Mail, MailOf, BoxOf
    <3>2. \A j \in 1 .. Len(result[k[2]]) : result[k[2]][j].type = "register"
      BY <1>1, <3>1 DEF TransferRegisterMsg
    <3>3. Len(Mail[k]) = Len(result[k[2]])
      BY <1>1, <3>1 DEF ResultEntries
    <3>4. Mail[k][i].kind = "register"
      BY <3>1, <3>2, <3>3 DEF ResultEntries, ResultEntry, Entry
    <3> QED
      BY <3>4 DEF About
  <2>2. CASE k[1] # "result"
    <3>1. \A kind : /\ Len(RequestEntries(<<>>, kind)) = 0 /\ Len(WorkEntries(<<>>)) = 0
                    /\ Len(PushEntries(<<>>)) = 0 /\ Len(ReadyEntries(<<>>)) = 0
      BY DEF RequestEntries, WorkEntries, PushEntries, ReadyEntries
    <3>2. Len(Mail[k]) = 0
      BY <1>1, <2>2, <3>1, BoxNames DEF Mail, MailOf, BoxOf
    <3> QED
      BY <3>2
  <2> QED
    BY <2>1, <2>2
<1>3. Single(Mail) /\ EntriesFit(Mail, tracker) /\ \A r \in unsent : Absent(Mail, r)
  BY <1>2, Zenon DEF Single, EntriesFit, Absent
<1>4. RecordsRest(tracker, xfer)
  BY <1>1, Zenon DEF RecordsRest, NoRecord, RestStates, LaterStates
<1>5. Ledger(Mail, tracker, free)
  <2> SUFFICES ASSUME NEW x \in Inst
               PROVE  /\ IsFiniteSet(Holding(Mail, tracker, x))
                      /\ free[x] + Cardinality(Holding(Mail, tracker, x)) <= Capacity(x[1])
    BY Zenon DEF Ledger
  <2>1. Holding(Mail, tracker, x) = {}
    BY <1>1, NoRecordHolds DEF Holding, HoldsSlot
  <2>2. free[x] = Capacity(x[1]) /\ Capacity(x[1]) \in Nat
    BY <1>1, NumType
  <2> QED
    BY <2>1, <2>2, FS_EmptySet
<1> QED
  BY <1>3, <1>4, <1>5 DEF SlotInv

(* Every step preserves it.                                                *)
LEMMA SlotNext == TypeInv /\ TypeInv' /\ Accounted /\ SlotInv /\ [Next]_vars => SlotInv'
<1> SUFFICES ASSUME TypeInv, TypeInv', Accounted, SlotInv, [Next]_vars PROVE SlotInv'
  OBVIOUS
<1>1. TypeOK /\ TypeOK'
  BY DEF TypeInv
<1>2. CASE Client
  BY <1>1, <1>2, SlotsClientSend DEF Client
<1>3. CASE Server
  <2> SUFFICES ASSUME ServerNext, UNCHANGED instVars PROVE SlotInv'
    BY <1>3 DEF Server
  <2>1. CASE HandleRoleResult
    BY <1>1, <2>1, SlotsErrorFrames, SlotsRegister, SlotsStaged, SlotsAllocated, SlotsPushed,
       SlotsDoneError, SlotsDone, SlotsDecoderResult, Zenon
    DEF HandleRoleResult
  <2>2. CASE DrainEncoder
    BY <1>1, <2>2, SlotsDrainEncoder
  <2>3. CASE DrainDenoiser \/ DrainDecoder
    <3>1. StateOn("denoiser") = "DENOISING_RUNNING" /\ StateOn("decoder") = "DECODER_RUNNING"
      BY DEF StateOn
    <3> QED
      BY <1>1, <2>3, <3>1, SlotsDrainReceiver DEF DrainDenoiser, DrainDecoder
  <2>4. CASE Poll \/ TimeoutsDone \/ \E role \in Roles : DrainDone(role)
    <3>1. UNCHANGED <<unsent, frontend, work, result, rdma_push_queue, compute_ready_queue,
                      tta, tracker, xfer, free>>
      BY <2>4, Zenon DEF Poll, TimeoutsDone, DrainDone, netVars, instVars
    <3> QED
      BY <1>1, <3>1, SlotsKept
  <2>5. CASE HandleClientRequest
    BY <1>1, <2>5, SlotsClientRequest
  <2>6. CASE \E r \in Requests : HandleTimeout(r)
    BY <1>1, <2>6, SlotsTimeout
  <2> QED
    BY <2>1, <2>2, <2>3, <2>4, <2>5, <2>6 DEF ServerNext, DrainAllQueues
<1>4. CASE Instances
  BY <1>1, <1>4, SlotsInstances
<1>5. CASE Clock \/ UNCHANGED vars
  <2>1. UNCHANGED <<unsent, frontend, work, result, rdma_push_queue, compute_ready_queue,
                    tta, tracker, xfer, free>>
    BY <1>5, Zenon DEF Clock, Expire, vars, netVars, serverVars, instVars
  <2> QED
    BY <1>1, <2>1, SlotsKept
<1> QED
  BY <1>2, <1>3, <1>4, <1>5 DEF Next, Idle

LEMMA SlotInvariant == Spec => [](TypeInv /\ Accounted /\ SlotInv)
<1>1. Spec => []TypeInv
  BY TypeInit, TypeNext, PTL DEF Spec
<1>2. Spec => []Accounted
  BY <1>1, AccountedInit, AccountedNext, PTL DEF Spec
<1>3. Spec => []SlotInv
  BY <1>1, <1>2, SlotInit, SlotNext, PTL DEF Spec
<1> QED
  BY <1>1, <1>2, <1>3, PTL

(* However many instances, slots and requests there are, a free-slot       *)
(* counter of DS stays between zero and the instance's capacity: the error *)
(* paths, the timeout and the late messages of an expired request never    *)
(* give a slot back twice.                                                 *)
THEOREM SlotsAlwaysBounded == Spec => []SlotsBounded
<1>1. TypeInv /\ SlotInv => SlotsBounded
  <2> SUFFICES ASSUME TypeInv, SlotInv, NEW x \in Inst PROVE free[x] \in 0 .. Capacity(x[1])
    BY DEF SlotsBounded
  <2> DEFINE n == Cardinality(Holding(Mail, tracker, x))
  <2>1. n \in Nat /\ free[x] + n <= Capacity(x[1])
    BY FS_CardinalityType, Zenon DEF SlotInv, Ledger
  <2>2. free[x] \in Int /\ free[x] >= 0 /\ Capacity(x[1]) \in Nat
    BY NumType DEF TypeInv, TypeOK, ServerTypeOK, NonNegative
  <2> HIDE DEF n
  <2> QED
    BY <2>1, <2>2
<1> QED
  BY <1>1, SlotInvariant, PTL

(* A request is in one place at a time: over all queues of DS, all sockets *)
(* and all queues of the instances, at most one message or queue entry is  *)
(* about it, also after it has been answered by the timeout.               *)
THEOREM OneMessagePerRequest == Spec => []Single(Mail)
  BY SlotInvariant, PTL DEF SlotInv
=============================================================================
