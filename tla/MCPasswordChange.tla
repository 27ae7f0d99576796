-------------------------- MODULE MCPasswordChange --------------------------
EXTENDS PasswordChange

MCTimeout == [t \in Tools |-> 1]
MCSize == <<1, 2>>
=============================================================================
