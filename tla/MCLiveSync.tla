----------------------------- MODULE MCLiveSync ----------------------------
(* Clients a and b; the edits e1, e3, ... are typed by a, the others by b. *)
EXTENDS LiveSync

CONSTANTS a, b, e1, e2, e3, e4

AuthorA  == [e \in Edits |-> a]
AuthorAB == [e \in Edits |-> IF e \in {e1, e3} THEN a ELSE b]
============================================================================
