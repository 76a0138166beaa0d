------------------------------- MODULE MCJoining -------------------------------
(* How players join, for TLC, in two settings of JoinHandshake: `which` says, from *)
(* the start, which of them runs.                                                  *)
EXTENDS JoinHandshake

VARIABLE which

\* Connections are small numbers: of two neighbours each is of an account of its own, and 1 and 3
\* are of the same one.
ParityAccount(c) == c % 2

\* The constants are of two players for one place, one of whom breaks the protocol, with every
\* outcome of a sign-in and a pack that may change; here are three with room for all, of which two
\* are of one account.
Three == INSTANCE JoinHandshake
  WITH Strays <- {}, MaxPlayers <- 3, Outcomes <- {"verified"}, MaxChunks <- 0,
       PackChanges <- FALSE

allVars == <<which, vars>>

RunInit == which \in {"pair", "three"} /\ Init

\* Of the pair the third never connects.
RunNext ==
  /\ UNCHANGED which
  /\ \/ which = "pair" /\ Next /\ UNCHANGED cli[3]
     \/ which = "three" /\ Three!Next

RunSpec == RunInit /\ [][RunNext]_allVars
================================================================================
