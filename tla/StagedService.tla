---------------------------- MODULE StagedService ----------------------------
(***************************************************************************)
(* What happens to one request, without messages, slots of memory or       *)
(* transfers: it waits for and runs on an encoder, a denoiser and a        *)
(* decoder, in this order and once each, and ends with an image only after *)
(* all three.  It may fail at any point after it was taken.  A role never  *)
(* runs more requests than its instances have slots for.                   *)
(***************************************************************************)
EXTENDS Integers, FiniteSets

CONSTANTS
  Requests,
  EncoderSlots, DenoiserSlots, DecoderSlots     \* of all instances of a role

VARIABLE stage

Line ==
  <<"new", "queued", "encoder_waiting", "encoder_running", "denoiser_waiting",
    "denoiser_running", "decoder_waiting", "decoder_running", "ok">>

Running == {4, 6, 8}
Active == {Line[i] : i \in 3 .. 8}

Slots(i) == IF i = 4 THEN EncoderSlots ELSE IF i = 6 THEN DenoiserSlots ELSE DecoderSlots

Init == stage = [r \in Requests |-> "new"]

(* Request r goes on from the i-th position of the line.                   *)
Advance(r, i) ==
  /\ stage[r] = Line[i]
  /\ i + 1 \in Running =>
       Cardinality({q \in Requests : stage[q] = Line[i + 1]}) < Slots(i + 1)
  /\ stage' = [stage EXCEPT ![r] = Line[i + 1]]

Fail(r) ==
  /\ stage[r] \in Active
  /\ stage' = [stage EXCEPT ![r] = "error"]

Next == \E r \in Requests : Fail(r) \/ \E i \in 1 .. 8 : Advance(r, i)

Spec == Init /\ [][Next]_stage
=============================================================================
