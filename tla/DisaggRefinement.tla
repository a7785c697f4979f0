-------------------------- MODULE DisaggRefinement --------------------------
(***************************************************************************)
(* The pipeline implements two abstract services: the one its clients see  *)
(* and the one that says what happens to a single request.                 *)
(***************************************************************************)
EXTENDS DisaggPipeline

Service == INSTANCE RequestService WITH inbox <- frontend

(* The stage of a request is read off its reply, its tracker record and    *)
(* the sockets.  DENOISING_DONE is left again by the handler that sets it, *)
(* unless the request has no transfer state.                               *)
StageOf(r) ==
  CASE r \in unsent -> "new"
    [] replies[r] # <<>> -> Head(replies[r])
    [] tracker[r].state = "ENCODER_WAITING" -> "encoder_waiting"
    [] tracker[r].state = "ENCODER_RUNNING" -> "encoder_running"
    [] tracker[r].state = "DENOISING_WAITING" -> "denoiser_waiting"
    [] tracker[r].state = "DENOISING_RUNNING" -> "denoiser_running"
    [] tracker[r].state = "DECODER_WAITING" -> "decoder_waiting"
    [] tracker[r].state = "DECODER_RUNNING" -> "decoder_running"
    [] OTHER -> "queued"

Staged == INSTANCE StagedService WITH
  stage <- [r \in Requests |-> StageOf(r)],
  EncoderSlots <- EncoderCapacity * NumEncoders,
  DenoiserSlots <- DenoiserCapacity * NumDenoisers,
  DecoderSlots <- DecoderCapacity * NumDecoders

(* Requests are taken in the order of the frontend socket and each is      *)
(* answered once, by the only thread that owns _pending and _frontend,     *)
(* whatever is late or fails.                                              *)
ImplementsService == Service!Spec

(* The same with the promise that what was sent is taken and answered.     *)
ImplementsFairService == Service!FairSpec

(* The tracker takes a request through the three roles in order, each once,*)
(* and answers "ok" only after the decoder ran it: no late or repeated     *)
(* message takes a request back or past a role, and the free-slot counters *)
(* never admit more requests to a role than it has slots, not even when a  *)
(* timeout frees a slot whose request is still being computed.             *)
ImplementsStages == Staged!Spec
=============================================================================
