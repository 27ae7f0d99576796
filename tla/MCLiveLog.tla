----------------------------- MODULE MCLiveLog -----------------------------
(* Two clients, two edits, one by each. *)
EXTENDS LiveLog

CONSTANTS a, b, e1, e2

MCAuthor == [e \in {e1, e2} |-> IF e = e1 THEN a ELSE b]
============================================================================
