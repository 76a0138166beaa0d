------------------------------ MODULE PlayerSync ------------------------------
(***************************************************************************)
(* A player in game and the server that simulates it: inputs one way and   *)
(* entity snapshots the other, both on lanes that lose and reorder.        *)
(*                                                                         *)
(* The client predicts every input at once, keeps those the server has not *)
(* acknowledged and sends all of them with each new one.  The server       *)
(* simulates each input it has not seen and broadcasts, once a tick, where *)
(* the player is, the last input it has seen, and what entered, stayed in  *)
(* and left the player's view since the last snapshot it sent.  The client *)
(* takes the position and replays the inputs it still keeps.               *)
(*                                                                         *)
(* A position is the place the server last put the player (Spawn, by join, *)
(* respawn or teleport) followed by the inputs that moved it from there.   *)
(* An input may move nobody: ground not loaded yet, or a script's veto.    *)
(* Inputs are numbered as they are made and kept in that order, so a batch *)
(* is the set of its numbers.                                              *)
(***************************************************************************)
EXTENDS Naturals, Sequences, FiniteSets, SequencesExt

CONSTANTS
  Entities,      \* other entities
  kMaxCmds,      \* C2SInputBatch::kMaxCmds
  Faults,        \* what lanes may do: "lose", "reorder"
  MaxSeq,        \* bound: inputs
  MaxLane        \* bound: messages on a lane when one more is sent

VARIABLES
  position,      \* server: where the player is
  last_seq,      \* server: the last input seen
  input_driven,  \* server: has any batch arrived?
  last_visible,  \* server: the entities in the last snapshot's view
  inputs,        \* batches on their way
  snapshots,     \* snapshots on their way
  sent,          \* client: inputs sent so far
  predicted,     \* client: where it believes the player is
  history,       \* client: inputs sent and not acknowledged
  remote,        \* client: the entities it shows
  seen           \* history: inputs the server has seen

serverVars == <<position, last_seq, input_driven, last_visible, seen>>
clientVars == <<sent, predicted, history, remote>>
vars == <<serverVars, clientVars, inputs, snapshots>>

Seqs == 1..MaxSeq
Spawn == 0

\* The path that inputs make, in the order they were made.
InOrder(cmds) ==
  CHOOSE path \in [1..Cardinality(cmds) -> cmds] :
    \A i, j \in DOMAIN path : i < j => path[i] < path[j]
Origin == <<>>

Init ==
  /\ position = <<Spawn>> /\ last_seq = 0 /\ input_driven = FALSE
  /\ last_visible = {} /\ seen = {}
  /\ inputs = <<>> /\ snapshots = <<>>
  /\ sent = 0 /\ predicted = Origin /\ history = {}
  /\ remote = {}

-----------------------------------------------------------------------------
(* The lanes *)

\* The messages of a lane that may be the next to arrive.
Arrivals(lane) == IF "reorder" \in Faults THEN DOMAIN lane ELSE DOMAIN lane \intersect {1}

LoseInput(i) ==
  /\ inputs' = RemoveAt(inputs, i)
  /\ UNCHANGED <<serverVars, clientVars, snapshots>>

LoseSnapshot(i) ==
  /\ snapshots' = RemoveAt(snapshots, i)
  /\ UNCHANGED <<serverVars, clientVars, inputs>>

-----------------------------------------------------------------------------
(* The client's inputs *)

\* (mutant) the cap is checked before the new command is added
Capped_before(cmds) == IF Cardinality(cmds) > kMaxCmds + 1 THEN cmds \ {Min(cmds)} ELSE cmds

\* push_input's cap: the oldest command goes when there are more than kMaxCmds.
Capped(cmds) == IF Cardinality(cmds) > kMaxCmds THEN cmds \ {Min(cmds)} ELSE cmds

\* A frame of the client: one more input, which moves the predicted player
\* unless the ground is not there yet.
PushInput(moves) ==
  LET seq == sent + 1
      kept == Capped(history \union {seq})
  IN /\ sent < MaxSeq /\ Len(inputs) < MaxLane
     /\ sent' = seq
     /\ predicted' = IF moves THEN Append(predicted, seq) ELSE predicted
     /\ history' = kept
     /\ inputs' = Append(inputs, kept)
     /\ UNCHANGED <<serverVars, remote, snapshots>>

-----------------------------------------------------------------------------
(* The server *)

\* (mutant) the last command seen is simulated again
Unseen_resent(cmds) == {seq \in cmds : seq >= last_seq}

\* The commands of a batch the server has not seen.
Unseen(cmds) == {seq \in cmds : seq > last_seq}

\* handle_input_batch: `moving` are the commands that move the player.
HandleInputBatch(i, moving) ==
  LET fresh == Unseen(inputs[i])
  IN /\ moving \subseteq fresh
     /\ position' = position \o InOrder(moving)
     /\ last_seq' = IF fresh = {} THEN last_seq ELSE Max(fresh)
     /\ seen' = seen \union fresh
     /\ input_driven' = TRUE
     /\ inputs' = RemoveAt(inputs, i)
     /\ UNCHANGED <<last_visible, clientVars, snapshots>>

\* teleport_player, or a respawn.
Teleport ==
  /\ position' = <<Spawn>>
  /\ UNCHANGED <<last_seq, input_driven, last_visible, seen, clientVars, inputs, snapshots>>

\* Nothing changed for this player.
Silent(snap) == ~snap.has_local /\ snap.entered = {} /\ snap.updated = {} /\ snap.removed = {}

\* broadcast_snapshots: the player's view now holds the entities `visible`.
Broadcast(visible) ==
  LET snap == [entered |-> visible \ last_visible,
               updated |-> visible \intersect last_visible,
               removed |-> last_visible \ visible,
               acked |-> last_seq,
               has_local |-> input_driven,
               local |-> IF input_driven THEN position ELSE Origin]
  IN /\ Len(snapshots) < MaxLane
     /\ last_visible' = visible
     /\ snapshots' = IF Silent(snap) THEN snapshots ELSE Append(snapshots, snap)
     /\ UNCHANGED <<position, last_seq, input_driven, seen, clientVars, inputs>>

-----------------------------------------------------------------------------
(* The client's snapshots *)

\* (mutant) an update of an entity the client does not show is ignored
Shown_known(snap) == (remote \union snap.entered) \ snap.removed

\* The entities shown after a snapshot: updates create what they do not find.
Shown(snap) == (remote \union snap.entered \union snap.updated) \ snap.removed

\* reconcile's history: what the server had not seen.
Unacked(acked) == {seq \in history : seq > acked}

\* (mutant) a snapshot that acknowledges nothing new is not reconciled
Reconciles_acks(snap) == snap.has_local /\ Unacked(snap.acked) # history

Reconciles(snap) == snap.has_local

\* apply_snapshot and reconcile.  The replay does not ask for the ground.
ApplySnapshot(i) ==
  LET snap == snapshots[i]
  IN /\ remote' = Shown(snap)
     /\ IF Reconciles(snap)
        THEN /\ history' = Unacked(snap.acked)
             /\ predicted' = snap.local \o InOrder(Unacked(snap.acked))
        ELSE UNCHANGED <<history, predicted>>
     /\ snapshots' = RemoveAt(snapshots, i)
     /\ UNCHANGED <<serverVars, sent, inputs>>

-----------------------------------------------------------------------------
Arrive == \E i \in Arrivals(inputs) : \E moving \in SUBSET inputs[i] : HandleInputBatch(i, moving)
Receive == \E i \in Arrivals(snapshots) : ApplySnapshot(i)
Tick == \E visible \in SUBSET Entities : Broadcast(visible)

Next ==
  \/ \E moves \in BOOLEAN : PushInput(moves)
  \/ Arrive \/ Teleport \/ Tick \/ Receive
  \/ /\ "lose" \in Faults
     /\ \/ \E i \in DOMAIN inputs : LoseInput(i)
        \/ \E i \in DOMAIN snapshots : LoseSnapshot(i)

Spec == Init /\ [][Next]_vars

\* The server ticks, and a lane on which messages are sent again and again
\* lets one through again and again, also one that was sent last.
FairSpec == Spec /\ WF_vars(Tick) /\ SF_vars(Receive)

-----------------------------------------------------------------------------
\* The members of Conn and ClientSession hold what session.hpp declares; no
\* batch is longer than its decoder allows (C2SInputBatch::kMaxCmds).
TypeOK ==
  /\ position \in Seq(0..MaxSeq) /\ predicted \in Seq(0..MaxSeq)
  /\ sent \in 0..MaxSeq /\ last_seq \in 0..sent
  /\ input_driven \in BOOLEAN
  /\ last_visible \subseteq Entities /\ remote \subseteq Entities
  /\ seen \subseteq 1..last_seq
  /\ history \subseteq Seqs /\ Cardinality(history) <= kMaxCmds
  /\ \A i \in DOMAIN inputs : inputs[i] \subseteq Seqs /\ Cardinality(inputs[i]) <= kMaxCmds

\* No input moves the player twice, neither on the server, which gets most of
\* them several times, nor in the prediction, which replays them; and they
\* move it in the order they were made.
NoInputTwice ==
  \A path \in {position, predicted} :
    \A i, j \in DOMAIN path : i < j => path[i] < path[j]

\* An input is passed over by the server only if kMaxCmds newer ones had been
\* made before any batch with it arrived: losing fewer batches loses nothing.
NoInputSkipped == \A seq \in 1..last_seq : seq \in seen \/ seq + kMaxCmds <= last_seq

\* Once the server has seen the last input, the prediction becomes the
\* server's position and stays so: through losses, late snapshots, inputs that
\* moved only one of the two and teleports.
PredictionConverges ==
  <>[](last_seq = sent /\ input_driven) => <>[](predicted = position)

\* An entity that stays in view is shown in the end, even if the snapshot that
\* announced it was lost.
VisibleIsShown == \A e \in Entities : <>[](e \in last_visible) => <>[](e \in remote)

=============================================================================
