---------------------------- MODULE DisaggRestart ----------------------------
(***************************************************************************)
(* The pipeline when the process of a role instance crashes and is started *)
(* again under the same work endpoint, while DS keeps running.  The new    *)
(* process registers as any other does (_handle_transfer_register finds    *)
(* the old index and replaces the peer), and DS is told nothing else: what *)
(* it believes of the instance's requests is from before the crash.        *)
(*                                                                         *)
(* The memory of the instance, its queues and its staged outputs are gone. *)
(* Of the messages under way, those DS had not yet handed to the old       *)
(* process reach the new one, the others are lost; of those the old        *)
(* process sent, the first ones reach DS.                                  *)
(***************************************************************************)
EXTENDS DisaggRefinement

CONSTANT MaxRestarts    \* bound on the number of crashes

ASSUME RestartAssumption == MaxRestarts \in Nat

VARIABLE restarts

(* The connections of x after the crash: k messages of each were sent.     *)
Lost(x, kept) ==
  [c \in Connections |->
     IF c = <<x, "main">> THEN Append(SubSeq(result[c], 1, kept[1]), TransferRegisterMsg)
     ELSE IF c = <<x, "rdma">> THEN SubSeq(result[c], 1, kept[2])
     ELSE result[c]]

Restart(x) ==
  /\ restarts < MaxRestarts
  /\ restarts' = restarts + 1
  /\ \E k \in 0 .. Len(work[x]) :
       work' = [work EXCEPT ![x] = SubSeq(@, k + 1, Len(@))]
  /\ \E kept \in (0 .. Len(result[<<x, "main">>])) \X (0 .. Len(result[<<x, "rdma">>])) :
       result' = Lost(x, kept)
  /\ staged' = [staged EXCEPT ![x] = {}]
  /\ rdma_push_queue' = [rdma_push_queue EXCEPT ![x] = <<>>]
  /\ pending_receives' = [pending_receives EXCEPT ![x] = {}]
  /\ compute_ready_queue' = [compute_ready_queue EXCEPT ![x] = <<>>]
  /\ prealloc_data' = [prealloc_data EXCEPT ![x] = [s \in Slots |-> NoData]]
  /\ block_data' = [block_data EXCEPT ![x] = {}]
  /\ UNCHANGED <<serverVars, unsent, frontend, replies>>

RestartInit == Init /\ restarts = 0

RestartNext ==
  \/ Next /\ UNCHANGED restarts
  \/ \E x \in Inst : Restart(x)

(* As for TimeoutSpec, nothing is assumed of the instances.                *)
RestartSpec ==
  /\ RestartInit
  /\ [][RestartNext]_<<vars, restarts>>
  /\ ServerFairness
  /\ ClockFairness
=============================================================================
