------------------------------- MODULE MCInbox -------------------------------
(* Inbox for TLC: a customer's mail, and the provider's report, with a subject *)
(* of its own, that the first copy of the reply to it bounced.                 *)
EXTENDS Inbox

CONSTANTS b1, c1

MCSender == [m \in Mail |-> IF m = b1 THEN "daemon" ELSE "customer"]
MCTopic == [m \in Mail |-> IF m = b1 THEN "undeliverable" ELSE "offer"]
MCBounces == [m \in Mail |-> IF m = b1 THEN {c1} ELSE {}]
==============================================================================
