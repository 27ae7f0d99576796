---------------------------- MODULE MCPassVault -----------------------------
(* The bounds of the run of the password vault. *)
EXTENDS PassVault, TLC

CONSTANTS s1, s2, t1

MCShares == {s1, s2}
MCTags == {t1}
=============================================================================
