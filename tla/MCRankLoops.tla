---------------------------- MODULE MCRankLoops ----------------------------
(* Role instances for TLC.                                                 *)
EXTENDS RankLoops

CONSTANTS q1, q2

(* A receiver of three ranks along SP, and an encoder of two by two ranks  *)
(* that is sent requests it cannot set up.                                 *)
MCInstances ==
  {Instance("receiver", <<3, 1, 1>>, {}, 2), Instance("encoder", <<2, 2, 1>>, {q2}, 1)}
=============================================================================
