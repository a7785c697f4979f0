--------------------------- MODULE MCLoRARegistry ---------------------------
(***************************************************************************)
(* LoRARegistry for TLC.                                                   *)
(***************************************************************************)
EXTENDS LoRARegistry, TLC

CONSTANTS a, b, c, q1, q2, q3, q4, u1

MCLoaded0 == <<a, b>>
MCTarget == u1 :> a

(* Four requests for one adapter each, two of them for one that is not     *)
(* loaded and whose load evicts another.                                   *)
Singles == q1 :> <<a>> @@ q2 :> <<c>> @@ q3 :> <<c>> @@ q4 :> <<b>>

(* A request with two prompts for two adapters, and one whose load evicts. *)
Batch == q1 :> <<a, b>> @@ q2 :> <<c>>

MCWorkloads == {Workload(Singles, {"full"}), Workload(Batch, FaultKinds)}
=============================================================================
