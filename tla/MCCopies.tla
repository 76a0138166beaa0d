-------------------------------- MODULE MCCopies --------------------------------
(* Copies of what somebody else has, for TLC: the releases that commands download, *)
(* install and replace (VersionStore), the packs of servers in a client's cache     *)
(* (AssetCache), and the chunks that players mirror (WorldReplication).  They have   *)
(* no state in common, so one run checks them side by side: `which` says, from the   *)
(* start, which of them runs; the others stay as they are.                           *)
EXTENDS VersionStore

CONSTANTS
  Files, Packs, Cap, MaxChanges,
  Players, Coords, Views, SendBudget, EarlyEdits, Editors, Scripted, Neighbours, Absent, MaxRev,
  MaxChannel

VARIABLES
  which,
  disk, listed, index, manifest, pending, vfs, conn, served, harmed, changes,
  loaded, rev, playing, view, ticked, last_sent, last_sent_revision, overtaken,
  lane, mirror

\* Two packs that share a file, in one of them under two paths.
TwoPacks == {[a1 |-> "f1", a2 |-> "f2"], [a1 |-> "f2", a2 |-> "f2", a3 |-> "f3"]}
Assets == INSTANCE AssetCache WITH saved <- listed

\* Two chunks of one column, where light reaches both, and any view boxes over them.
AnyView == SUBSET Coords
OneColumn == [c \in Coords |-> Coords \ {c}]

\* What is proved of the replicator for all constants comes with it.
Mirrors == INSTANCE WorldReplication_proofs

\* What the proofs about the packs and the mirrors take for granted.
ASSUME CopiesConstants ==
  /\ \A pack \in Packs : \A path \in DOMAIN pack : pack[path] \in Files
  /\ Cap \in Nat \ {0} /\ None \notin Packs /\ MaxChanges \in Nat
  /\ Mirrors!ReplicationAssumption

assetVars == <<disk, listed, index, manifest, pending, vfs, conn, served, harmed, changes>>
mirrorVars == <<loaded, rev, playing, view, ticked, last_sent, last_sent_revision, overtaken,
                lane, mirror>>
allVars == <<which, vars, assetVars, mirrorVars>>

\* Where a part starts in one of several states, the others' runs take one of them.
RunInit ==
  /\ which \in {"store", "assets", "mirrors"}
  /\ Init /\ Assets!Init /\ Mirrors!Init
  /\ which # "store" => Listed = {} /\ latest = 1 /\ part = archive
  /\ which # "assets" => served = (CHOOSE pack \in Packs : TRUE)

RunNext ==
  /\ UNCHANGED which
  /\ \/ which = "store" /\ Next /\ UNCHANGED <<assetVars, mirrorVars>>
     \/ which = "assets" /\ Assets!Next /\ UNCHANGED <<vars, mirrorVars>>
     \/ which = "mirrors" /\ Mirrors!Next /\ UNCHANGED <<vars, assetVars>>

RunSpec == RunInit /\ [][RunNext]_allVars

-----------------------------------------------------------------------------
\* The types of all of them.
TypesOK ==
  /\ which = "store" => TypeOK
  /\ which = "assets" => Assets!TypeOK
  /\ which = "mirrors" => Mirrors!TypeOK

\* Who has joined has the server's pack, file by file, whatever the cache went through, but for
\* what was listed before it was on the disk; and the files it lists are within its limit
\* (ClientAssetCache).
PackIsWhole == which = "assets" => Assets!PackIsWhole /\ Assets!CapIsKept

\* What the replicator believes each player to hold is what it holds, but for what an edit
\* overtook: no chunk is torn by another's delta or stays as a ghost (WorldReplicator,
\* ClientChunkStore).
MirrorsAreTrue == which = "mirrors" => Mirrors!MirrorsAreTrue
================================================================================
