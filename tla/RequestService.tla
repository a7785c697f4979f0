--------------------------- MODULE RequestService ---------------------------
(***************************************************************************)
(* What the disaggregated pipeline promises its clients, without saying    *)
(* how: requests are taken in the order they were sent, and each one that  *)
(* has been taken is given one answer, an image or an error.               *)
(***************************************************************************)
EXTENDS Sequences

CONSTANTS Requests, Outcomes

VARIABLES
  unsent,       \* requests no client has sent yet
  inbox,        \* sent, in this order, and not yet taken
  pending,      \* taken and not yet answered
  replies       \* replies[r]: the answers r was given

vars == <<unsent, inbox, pending, replies>>

Init ==
  /\ unsent = Requests
  /\ inbox = <<>>
  /\ pending = {}
  /\ replies = [r \in Requests |-> <<>>]

Submit(r) ==
  /\ r \in unsent
  /\ unsent' = unsent \ {r}
  /\ inbox' = Append(inbox, r)
  /\ UNCHANGED <<pending, replies>>

Accept ==
  /\ inbox # <<>>
  /\ pending' = pending \cup {Head(inbox)}
  /\ inbox' = Tail(inbox)
  /\ UNCHANGED <<unsent, replies>>

Answer(r, outcome) ==
  /\ r \in pending
  /\ pending' = pending \ {r}
  /\ replies' = [replies EXCEPT ![r] = Append(@, outcome)]
  /\ UNCHANGED <<unsent, inbox>>

Next ==
  \/ \E r \in Requests : Submit(r)
  \/ Accept
  \/ \E r \in Requests, outcome \in Outcomes : Answer(r, outcome)

Spec == Init /\ [][Next]_vars

(* Nothing is promised about when a client sends.                          *)
FairSpec ==
  /\ Spec
  /\ WF_vars(Accept)
  /\ \A r \in Requests : WF_vars(\E outcome \in Outcomes : Answer(r, outcome))
=============================================================================
