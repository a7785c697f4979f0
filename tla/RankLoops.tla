------------------------------ MODULE RankLoops ------------------------------
(***************************************************************************)
(* The ranks of one multi-GPU role instance (scheduler_mixin.py).  Rank 0  *)
(* owns the sockets; it tells the others what to do by broadcasts through  *)
(* the SP, CFG and TP groups in turn.  Ranks form a grid; a group is a     *)
(* line of the grid and its source is the rank with index 0 on it.         *)
(*                                                                         *)
(* A turn of a receiver role broadcasts a command ("skip", "compute" or,   *)
(* to shut down, None) and, for "compute", the scalars and the tensors of  *)
(* the request.  A turn of an encoder broadcasts the frames of a message.  *)
(* The forward pass has collectives on every rank: a barrier.              *)
(*                                                                         *)
(* A broadcast (torch.distributed, external) reaches the other ranks of a  *)
(* group in order; its source may run ahead of them.                       *)
(***************************************************************************)
EXTENDS Integers, Sequences

CONSTANTS
  Requests,
  Instances,            \* the role instances to consider
  Faults,               \* faults of rank 0 alone: "load", "control"
  MaxErrors             \* _max_consecutive_errors

(* A role instance: "encoder", or "receiver" for denoiser and decoder; the *)
(* sizes of its SP, CFG and TP dimensions, where 1 turns one off; requests *)
(* whose set-up raises, on every rank; the number of broadcasts a source   *)
(* may be ahead of a receiver.                                             *)
Instance(role, sizes, bad, ahead) ==
  [role |-> role, sizes |-> sizes, bad |-> bad, ahead |-> ahead]

RanksOf(x) == (0 .. x.sizes[1] - 1) \X (0 .. x.sizes[2] - 1) \X (0 .. x.sizes[3] - 1)
AllRanks == UNION {RanksOf(x) : x \in Instances}

ASSUME RanksAssumption ==
  /\ \A x \in Instances :
       /\ x.role \in {"encoder", "receiver"}
       /\ x.sizes \in [1 .. 3 -> Nat \ {0}] /\ \E d \in 1 .. 3 : x.sizes[d] > 1
       /\ x.bad \subseteq Requests
       /\ x.ahead \in Nat \ {0}
  /\ Faults \subseteq {"load", "control"}
  /\ MaxErrors \in Nat \ {0}

VARIABLES
  inst,         \* the role instance
  running,      \* _running of rank 0
  pc,           \* pc[r]: where the loop of rank r is
  dim,          \* dim[r]: the dimension its current broadcast has reached
  got,          \* got[r]: the data of the broadcasts of its current turn
  chan,         \* chan[r][d]: broadcasts along d that rank r has yet to take
  errors,       \* _consecutive_error_count
  streak        \* turns of rank r that raised since one succeeded

vars == <<inst, running, pc, dim, got, chan, errors, streak>>

Role == inst.role
Sizes == inst.sizes
Bad == inst.bad
Ahead == inst.ahead
Ranks == RanksOf(inst)
Rank0 == <<0, 0, 0>>

(* Whether rank m receives what r broadcasts along dimension d.            *)
Receives(m, r, d) == m # r /\ \A e \in 1 .. 3 : e # d => m[e] = r[e]

(* The dimensions of a broadcast from d on; 4 when it is over.             *)
FirstFrom(d) ==
  CHOOSE e \in d .. 4 : /\ e < 4 => Sizes[e] > 1
                        /\ \A f \in d .. e - 1 : Sizes[f] = 1

None == "None"
Empty == "[]"
Push == "push"           \* a transfer message to an encoder
Data == Requests \cup {None, Empty, Push, "skip", "compute"}
Parts == {"cmd", "scalars", "tensors"}
Nothing == [p \in Parts |-> None]

Init ==
  /\ inst \in Instances
  /\ running = TRUE
  /\ pc = [r \in Ranks |-> "top"]
  /\ dim = [r \in Ranks |-> FirstFrom(1)]
  /\ got = [r \in Ranks |-> Nothing]
  /\ chan = [r \in Ranks |-> [d \in 1 .. 3 |-> <<>>]]
  /\ errors = [r \in Ranks |-> 0]
  /\ streak = [r \in Ranks |-> 0]

----------------------------------------------------------------------------
Start(r, data) ==
  /\ pc' = [pc EXCEPT ![r] = "cmd"]
  /\ got' = [got EXCEPT ![r] = data]
  /\ UNCHANGED <<inst, running, dim, chan, errors, streak>>

EndTurn(r) ==
  /\ pc' = [pc EXCEPT ![r] = "top"]
  /\ dim' = [dim EXCEPT ![r] = FirstFrom(1)]
  /\ got' = [got EXCEPT ![r] = Nothing]

Succeed(r) ==
  /\ EndTurn(r)
  /\ errors' = [errors EXCEPT ![r] = 0]
  /\ streak' = [streak EXCEPT ![r] = 0]

(* A turn without an effect on the error count: a queue timeout of rank 0, *)
(* a "skip" on another rank.                                               *)
Skip(r) == EndTurn(r) /\ UNCHANGED <<errors, streak>>

(* The loop logs an exception and goes on, or ends the process.            *)
Raise(r) ==
  /\ errors' = [errors EXCEPT ![r] = @ + 1]
  /\ streak' = [streak EXCEPT ![r] = @ + 1]
  /\ IF errors[r] + 1 >= MaxErrors
       THEN /\ pc' = [pc EXCEPT ![r] = "dead"]
            /\ UNCHANGED <<dim, got>>
       ELSE EndTurn(r)

Enter(r, part) ==
  /\ pc' = [pc EXCEPT ![r] = part]
  /\ dim' = [dim EXCEPT ![r] = FirstFrom(1)]
  /\ UNCHANGED <<got, errors, streak>>

----------------------------------------------------------------------------
(* The top of a loop.                                                      *)

(* _disagg_prefetch_event_loop: a queue timeout or a control message; a    *)
(* request; an exception before anything was broadcast; shutdown.          *)
PrefetchTurn ==
  /\ Role = "receiver"
  /\ pc[Rank0] = "top"
  /\ running
  /\ \/ Start(Rank0, [Nothing EXCEPT !.cmd = "skip"])
     \/ \E q \in Requests :
          Start(Rank0, [cmd |-> "compute", scalars |-> q, tensors |-> q])
     \/ "load" \in Faults /\ Raise(Rank0) /\ UNCHANGED <<inst, running, chan>>

StopRunning ==
  /\ running
  /\ running' = FALSE
  /\ UNCHANGED <<inst, pc, dim, got, chan, errors, streak>>

ShutdownTurn ==
  /\ Role = "receiver"
  /\ pc[Rank0] = "top"
  /\ ~ running
  /\ Start(Rank0, Nothing)

(* _disagg_event_loop on rank 0 of an encoder: the frames of a request or  *)
(* of a transfer message.                                                  *)
RecvWork ==
  /\ Role = "encoder"
  /\ pc[Rank0] = "top"
  /\ running
  /\ \E f \in Requests \cup {Push} : Start(Rank0, [Nothing EXCEPT !.cmd = f])

(* The other ranks wait for the broadcast.                                 *)
OtherTurn(r) ==
  /\ r # Rank0
  /\ pc[r] = "top"
  /\ Start(r, Nothing)

----------------------------------------------------------------------------
(* Broadcasts.                                                             *)

(* broadcast_pyobj sends a size of zero for None, received as [].          *)
Sent(r) == IF got[r][pc[r]] = None THEN Empty ELSE got[r][pc[r]]

(* broadcast_tensor_dict asserts that its source has a dictionary.         *)
AssertFails(r) == pc[r] = "tensors" /\ got[r].tensors = None

Source(r) ==
  /\ pc[r] \in Parts
  /\ dim[r] < 4
  /\ r[dim[r]] = 0
  /\ IF AssertFails(r)
       THEN Raise(r) /\ UNCHANGED chan
       ELSE /\ \A m \in Ranks : Receives(m, r, dim[r]) => Len(chan[m][dim[r]]) < Ahead
            /\ chan' = [m \in Ranks |->
                 IF Receives(m, r, dim[r])
                   THEN [chan[m] EXCEPT ![dim[r]] =
                           Append(@, [part |-> pc[r], data |-> Sent(r)])]
                   ELSE chan[m]]
            /\ dim' = [dim EXCEPT ![r] = FirstFrom(@ + 1)]
            /\ UNCHANGED <<pc, got, errors, streak>>
  /\ UNCHANGED <<inst, running>>

(* Mutant of Take: only the first broadcast of the chain is kept.          *)
TakeFirst(r) ==
  /\ pc[r] \in Parts
  /\ dim[r] < 4
  /\ r[dim[r]] # 0
  /\ chan[r][dim[r]] # <<>>
  /\ got' = IF dim[r] = 1 THEN [got EXCEPT ![r][pc[r]] = Head(chan[r][1]).data] ELSE got
  /\ chan' = [chan EXCEPT ![r][dim[r]] = Tail(@)]
  /\ dim' = [dim EXCEPT ![r] = FirstFrom(@ + 1)]
  /\ UNCHANGED <<inst, running, pc, errors, streak>>

Take(r) ==
  /\ pc[r] \in Parts
  /\ dim[r] < 4
  /\ r[dim[r]] # 0
  /\ chan[r][dim[r]] # <<>>
  /\ got' = [got EXCEPT ![r][pc[r]] = Head(chan[r][dim[r]]).data]
  /\ chan' = [chan EXCEPT ![r][dim[r]] = Tail(@)]
  /\ dim' = [dim EXCEPT ![r] = FirstFrom(@ + 1)]
  /\ UNCHANGED <<inst, running, pc, errors, streak>>

----------------------------------------------------------------------------
(* What a rank does with what it received.                                 *)
Received(r, part) == pc[r] = part /\ dim[r] = 4 /\ UNCHANGED <<inst, running, chan>>

(* Mutant of Rank0Command: rank 0 does not broadcast the scalars.          *)
Rank0CommandComputes ==
  /\ Role = "receiver"
  /\ Received(Rank0, "cmd")
  /\ CASE got[Rank0].cmd = "compute" -> Enter(Rank0, "tensors")
       [] got[Rank0].cmd = None -> Enter(Rank0, "exit")
       [] OTHER -> Skip(Rank0) \/ Succeed(Rank0) \/ ("control" \in Faults /\ Raise(Rank0))

(* Rank 0 after the command: handling a control message may raise.         *)
Rank0Command ==
  /\ Role = "receiver"
  /\ Received(Rank0, "cmd")
  /\ CASE got[Rank0].cmd = "compute" -> Enter(Rank0, "scalars")
       [] got[Rank0].cmd = None -> Enter(Rank0, "exit")
       [] OTHER -> Skip(Rank0) \/ Succeed(Rank0) \/ ("control" \in Faults /\ Raise(Rank0))

(* _disagg_non_rank0_event_loop                                            *)
OtherCommand(r) ==
  /\ Role = "receiver"
  /\ r # Rank0
  /\ Received(r, "cmd")
  /\ CASE got[r].cmd = "compute" -> Enter(r, "scalars")
       [] got[r].cmd = None -> Enter(r, "exit")
       [] OTHER -> Skip(r)

(* Mutant of EncoderFrames: only rank 0 computes.                          *)
EncoderFramesRank0(r) ==
  /\ Role = "encoder"
  /\ Received(r, "cmd")
  /\ CASE got[r].cmd = Push -> Succeed(r) \/ (r = Rank0 /\ "control" \in Faults /\ Raise(r))
       [] got[r].cmd \in Bad -> Raise(r)
       [] OTHER -> IF r = Rank0 THEN Enter(r, "forward") ELSE Succeed(r)

(* An encoder: every rank has the frames.  A transfer message is for rank  *)
(* 0 only.  A request that cannot be unpickled raises everywhere.          *)
EncoderFrames(r) ==
  /\ Role = "encoder"
  /\ Received(r, "cmd")
  /\ CASE got[r].cmd = Push -> Succeed(r) \/ (r = Rank0 /\ "control" \in Faults /\ Raise(r))
       [] got[r].cmd \in Bad -> Raise(r)
       [] OTHER -> Enter(r, "forward")

ScalarsReceived(r) == Received(r, "scalars") /\ Enter(r, "tensors")

(* _init_disagg_request_scheduler runs before the forward pass.            *)
TensorsReceived(r) ==
  /\ Received(r, "tensors")
  /\ IF got[r].scalars \in Bad THEN Raise(r) ELSE Enter(r, "forward")

(* Mutant of Forward: no rank resets its count.                            *)
ForwardNoReset ==
  /\ \A r \in Ranks : pc[r] = "forward"
  /\ pc' = [r \in Ranks |-> "top"]
  /\ dim' = [r \in Ranks |-> FirstFrom(1)]
  /\ got' = [r \in Ranks |-> Nothing]
  /\ streak' = [r \in Ranks |-> 0]
  /\ UNCHANGED <<inst, running, chan, errors>>

(* The forward pass.  _disagg_non_rank0_event_loop does not reset its      *)
(* error count after it; the other loops do.                               *)
Forward ==
  /\ \A r \in Ranks : pc[r] = "forward"
  /\ pc' = [r \in Ranks |-> "top"]
  /\ dim' = [r \in Ranks |-> FirstFrom(1)]
  /\ got' = [r \in Ranks |-> Nothing]
  /\ errors' = [r \in Ranks |-> IF r = Rank0 \/ Role = "encoder" THEN 0 ELSE errors[r]]
  /\ streak' = [r \in Ranks |-> 0]
  /\ UNCHANGED <<inst, running, chan>>

----------------------------------------------------------------------------
RankStep(r) ==
  \/ OtherTurn(r)
  \/ Source(r)
  \/ Take(r)
  \/ OtherCommand(r)
  \/ EncoderFrames(r)
  \/ ScalarsReceived(r)
  \/ TensorsReceived(r)

Rank0Turn == PrefetchTurn \/ ShutdownTurn \/ RecvWork

Next ==
  \/ \E r \in Ranks : RankStep(r)
  \/ Rank0Turn
  \/ Rank0Command
  \/ StopRunning
  \/ Forward

Spec == Init /\ [][Next]_vars

(* Processes run.  A loop may find its queue empty for ever, so a turn of  *)
(* rank 0 is only as fair as its one-second queue timeout makes it.        *)
FairSpec ==
  /\ Spec
  /\ \A r \in AllRanks : WF_vars(r \in Ranks /\ RankStep(r))
  /\ WF_vars(Rank0Turn)
  /\ WF_vars(Rank0Command)
  /\ WF_vars(Forward)

----------------------------------------------------------------------------
(* Positions, data and channels have their types, and no source is further *)
(* ahead than the bound.                                                   *)
TypeOK ==
  /\ inst \in Instances
  /\ running \in BOOLEAN
  /\ pc \in [Ranks -> Parts \cup {"top", "forward", "exit", "dead"}]
  /\ dim \in [Ranks -> 1 .. 4]
  /\ got \in [Ranks -> [Parts -> Data]]
  /\ \A r \in Ranks : \A d \in 1 .. 3 :
       chan[r][d] \in Seq([part : Parts, data : Data]) /\ Len(chan[r][d]) <= Ahead
  /\ errors \in [Ranks -> 0 .. MaxErrors]

(* A rank never takes a broadcast of another kind than it waits for: every *)
(* path of rank 0 through a turn, timeouts, control messages and errors    *)
(* included, has its broadcasts matched by the loop of the other ranks.    *)
InStep ==
  \A r \in Ranks :
    pc[r] \in Parts /\ dim[r] < 4 /\ r[dim[r]] # 0 /\ chan[r][dim[r]] # <<>>
      => Head(chan[r][dim[r]]).part = pc[r]

(* All ranks that have entered a forward pass have the same request, its   *)
(* scalars and its tensors: the chain of SP, CFG and TP broadcasts brings  *)
(* the data of rank 0, and no older data, to every rank.                   *)
SameRequest ==
  \A r, s \in Ranks :
    pc[r] = "forward" /\ pc[s] = "forward" =>
      /\ got[r] = got[s]
      /\ (IF Role = "encoder" THEN got[r].cmd ELSE got[r].tensors) \in Requests

InForward == \E r \in Ranks : pc[r] = "forward"

(* A forward pass that one rank has entered is entered by all and ends: no *)
(* rank waits in a collective for one that went elsewhere.                 *)
ForwardCompletes == InForward ~> ~InForward

(* A rank ends itself only after that many turns in a row have raised, as  *)
(* the RuntimeError says: "terminated after N consecutive errors".  It     *)
(* fails for a receiver that is sent bad requests (inst.bad # {}), whose   *)
(* other ranks never reset their count.                                    *)
ConsecutiveErrors == \A r \in Ranks : pc[r] = "dead" => streak[r] >= MaxErrors

(* When rank 0 has shut down the other ranks do: the docstring of          *)
(* _disagg_non_rank0_event_loop has "None: shutdown, exit loop".  It fails *)
(* for receivers: their None arrives as an empty list.                     *)
ShutdownReachesAll ==
  pc[Rank0] = "exit" ~> \A r \in Ranks : pc[r] = "exit"

(* A rank that is the source of a tensor broadcast has the tensors to      *)
(* send: _broadcast_tensor_dict_to_all_ranks broadcasts "from rank 0 to    *)
(* non-rank-0".  It holds for receivers with one parallel dimension and    *)
(* fails for those with two.                                               *)
TensorsFromRank0 ==
  \A r \in Ranks : pc[r] = "tensors" /\ dim[r] < 4 /\ r[dim[r]] = 0 => got[r].tensors # None
=============================================================================
