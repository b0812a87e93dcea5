---------------------------- MODULE CampaignLedger ----------------------------
(***************************************************************************)
(* What a campaign promises, without workers, queues or retries: once its  *)
(* audience is fixed, each address of it is open until it is settled as    *)
(* sent or as suppressed, a settled address stays as it is, and the        *)
(* campaign is complete, for good, only when no address is open.           *)
(***************************************************************************)
CONSTANT Address

VARIABLES
  audience,   \* the addresses the campaign is for
  outcome,    \* what has become of each: "open", "sent" or "suppressed"
  complete    \* the campaign is reported as sent

Init ==
  /\ audience \in SUBSET Address
  /\ outcome = [a \in Address |-> "open"]
  /\ complete = FALSE

Announce(A) ==
  /\ audience = {}
  /\ audience' = A
  /\ UNCHANGED <<outcome, complete>>

Settle(a, how) ==
  /\ a \in audience
  /\ ~complete
  /\ outcome[a] = "open"
  /\ outcome' = [outcome EXCEPT ![a] = how]
  /\ UNCHANGED <<audience, complete>>

Complete ==
  /\ audience # {}
  /\ \A a \in audience : outcome[a] # "open"
  /\ complete' = TRUE
  /\ UNCHANGED <<audience, outcome>>

Next ==
  \/ \E A \in SUBSET Address : Announce(A)
  \/ \E a \in Address, how \in {"sent", "suppressed"} : Settle(a, how)
  \/ Complete

Spec == Init /\ [][Next]_<<audience, outcome, complete>>

===============================================================================
