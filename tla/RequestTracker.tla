--------------------------- MODULE RequestTracker ---------------------------
(***************************************************************************)
(* The per-request state machine of the disaggregated diffusion pipeline   *)
(* (disaggregation/request_state.py).  The tracker is a dictionary from    *)
(* request ids to records; here it is a function on request ids whose value*)
(* NoRecord stands for "not in the dictionary".  submit, transition,       *)
(* remove and find_timed_out are operators on that function, because the   *)
(* DiffusionServer thread is their only caller and holds the lock for the  *)
(* whole of each call.                                                     *)
(***************************************************************************)
EXTENDS Integers

(* Python's None, for an instance index or a slot id that is not set.      *)
None == -1

ActiveStates ==
  {"PENDING", "ENCODER_WAITING", "ENCODER_RUNNING", "ENCODER_DONE",
   "DENOISING_WAITING", "DENOISING_RUNNING", "DENOISING_DONE",
   "DECODER_WAITING", "DECODER_RUNNING"}

TerminalStates == {"DONE", "FAILED", "TIMED_OUT"}

(* The success edges; a state that is not listed has none.                 *)
ValidTransitions ==
  { <<"PENDING", "ENCODER_WAITING">>,
    <<"PENDING", "ENCODER_RUNNING">>,
    <<"ENCODER_WAITING", "ENCODER_RUNNING">>,
    <<"ENCODER_RUNNING", "ENCODER_DONE">>,
    <<"ENCODER_DONE", "DENOISING_WAITING">>,
    <<"ENCODER_DONE", "DENOISING_RUNNING">>,
    <<"DENOISING_WAITING", "DENOISING_RUNNING">>,
    <<"DENOISING_RUNNING", "DENOISING_DONE">>,
    <<"DENOISING_DONE", "DECODER_WAITING">>,
    <<"DENOISING_DONE", "DECODER_RUNNING">>,
    <<"DECODER_WAITING", "DECODER_RUNNING">>,
    <<"DECODER_RUNNING", "DONE">> }

RequestRecord ==
  [state : ActiveStates \cup TerminalStates \cup {"ABSENT"},
   encoder_instance : Nat \cup {None},
   denoiser_instance : Nat \cup {None},
   decoder_instance : Nat \cup {None}]

NoRecord ==
  [state |-> "ABSENT", encoder_instance |-> None,
   denoiser_instance |-> None, decoder_instance |-> None]

Tracked(t, r) == t[r].state # "ABSENT"

(* submit: a ValueError (the duplicate id) leaves the tracker as it is.    *)
Submit(t, r) ==
  IF Tracked(t, r) THEN t
  ELSE [t EXCEPT ![r] = [NoRecord EXCEPT !.state = "PENDING"]]

(* The condition under which transition does not raise ValueError.         *)
CanTransition(old, new) ==
  IF new \in {"FAILED", "TIMED_OUT"}
    THEN old \in ActiveStates
    ELSE <<old, new>> \in ValidTransitions

(* transition as its callers use it: every call site catches ValueError    *)
(* and goes on, so an invalid transition is a no-op.                       *)
Transition(t, r, new) ==
  IF CanTransition(t[r].state, new)
    THEN [t EXCEPT ![r].state = new]
    ELSE t

(* transition with one of the *_instance keyword arguments.                *)
TransitionAt(t, r, new, role, idx) ==
  IF ~ CanTransition(t[r].state, new) THEN t
  ELSE CASE role = "encoder"  -> [t EXCEPT ![r].state = new, ![r].encoder_instance = idx]
         [] role = "denoiser" -> [t EXCEPT ![r].state = new, ![r].denoiser_instance = idx]
         [] role = "decoder"  -> [t EXCEPT ![r].state = new, ![r].decoder_instance = idx]

Remove(t, r) == [t EXCEPT ![r] = NoRecord]

(* Mutant of FindTimedOut: a request on an instance is not expired.        *)
FindTimedOutWaiting(t, expired) ==
  {r \in expired : t[r].state \in {"ENCODER_WAITING", "DENOISING_WAITING", "DECODER_WAITING"}}

(* find_timed_out, with the clock abstracted to the set of requests whose  *)
(* age exceeds the timeout.                                                *)
FindTimedOut(t, expired) == {r \in expired : t[r].state \in ActiveStates}
=============================================================================
