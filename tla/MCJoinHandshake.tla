--------------------------- MODULE MCJoinHandshake ---------------------------
(* Instances of JoinHandshake for TLC. *)
EXTENDS JoinHandshake

\* Connections are small numbers: 1 and 3 are the same account, 2 another one.
ParityAccount(c) == c % 2

SameAccount(c) == 0
=============================================================================
