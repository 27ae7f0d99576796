----------------------------- MODULE MCVaultTab -----------------------------
EXTENDS VaultTab

MCTimeout == [t \in Tools |-> 1]
=============================================================================
