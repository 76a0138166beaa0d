---------------------------- MODULE MCPlay ----------------------------
(* What players and builders make, for TLC: structures in the editor              *)
(* (StructureEditor), the blocks and cracks a player sees (BlockView), and items, *)
(* deaths and block breaking (Gameplay).  They have no state in common here, so   *)
(* one run checks them side by side: `which` says, from the start, which of them  *)
(* runs; the others stay as they are.                                             *)
EXTENDS StructureEditor

CONSTANTS
  Positions, Stones, Air, Absent, CountSize, MaxDamage, Settings, MaxEdits, MaxRev, MaxEvents,
  Players, Heals, MaxHealth, MaxHunger, MaxStack, MaxActs, MaxDrops

VARIABLES
  which,
  block, blockRev, counts, inView, covered, sent, up, blockLane, feedback, held, pendingEdits,
  cracks, damageRev, changeRev, edits, events, gen, countGen, said, predicted, ways,
  phase, todo, stage, at, falling, health, hunger, death_cause, drops, next_id, hold,
  contributors, region_occupancy, joins, login_changes, leaves, logins, inventories, credited,
  acts, minted

\* The settings are of a chunk in which two players edit and punch, and of one which a player
\* leaves and enters while it is punched and a script changes it.
View == INSTANCE BlockView
  WITH Blocks <- Stones, world <- blockLane, pending <- pendingEdits, rev <- blockRev,
       mirror <- held
Game == INSTANCE Gameplay

ASSUME PlayConstants == View!ViewConstants /\ Game!GameBounds

viewVars == <<block, blockRev, counts, inView, covered, sent, up, blockLane, feedback, held,
              pendingEdits, cracks, damageRev, changeRev, edits, events, gen, countGen, said,
              predicted, ways>>
gameVars == <<phase, todo, stage, at, falling, health, hunger, death_cause, drops, next_id, hold,
              contributors, region_occupancy, joins, login_changes, leaves, logins, inventories,
              credited, acts, minted>>
allVars == <<which, vars, viewVars, gameVars>>

\* Where a part starts in one of several states, the others' runs take one of them.
RunInit ==
  /\ which \in {"editor", "view", "game"}
  /\ Init /\ View!Init /\ Game!Init
  /\ which # "view" => block = [p \in Positions |-> Air] /\ "edit" \in ways

Only(part, action) ==
  /\ which = part /\ action
  /\ part # "editor" => UNCHANGED vars
  /\ part # "view" => UNCHANGED viewVars
  /\ part # "game" => UNCHANGED gameVars

RunNext ==
  /\ UNCHANGED which
  /\ \/ Only("editor", Next)
     \/ Only("view", View!Next)
     \/ Only("game", Game!Next)

RunSpec == RunInit /\ [][RunNext]_allVars

-----------------------------------------------------------------------------
\* The types of all of them.
TypesOK ==
  CASE which = "editor" -> TypeOK
    [] which = "view" -> View!TypeOK
    [] which = "game" -> Game!TypeOK

\* What the server last said of a block is what the client shows, except where the client
\* itself predicted something since, and the cracks of a block end up as the server counts them,
\* on the block they were counted for (session.cpp:2133, BlockDamageTracker).
ViewSettles == which = "view" => View!AuthoritativeWins /\ View!CracksSettle

\* Items are neither doubled nor lost between stacks and drops (update_item_drops).
ItemsConserved == which = "game" => Game!ItemsConserved

\* The scripts know the login of exactly the players they have been told of, until told that
\* they left (PackRuntime's queues).
LoginsFollow == which = "game" => Game!LoginsFollow
=============================================================================
