------------------------------ MODULE BlockView ------------------------------
(* What one player sees of the blocks of a chunk: edits it applies before the *)
(* server has answered (ClientSession::push_block_edit), and the cracks of    *)
(* punched blocks, whose updates travel on a lane of their own                *)
(* (BlockDamageTracker, ServerSession::punch).  WorldReplication has the      *)
(* chunks; here is one of them, with its blocks.                              *)
EXTENDS Integers, Sequences, FiniteSets, SequencesExt

CONSTANTS
  Positions,   \* of blocks in the chunk
  Blocks, Air, \* what may be there
  Absent,      \* the client does not hold the chunk
  MaxDamage,   \* punches that break a block
  CountSize,   \* numbers the counter of punches can hold
  Settings,    \* what may happen beside the player's edits, one of these in a behaviour: sets
               \* of others' "edit"s, "punch"es, "script"s, "leave"s of the view
  MaxEdits,    \* bound: edits of the player
  MaxRev,      \* bound: revisions
  MaxEvents    \* bound: punches, heals and turns

Cells == Blocks \union {Air}

\* Absent is no chunk.
ViewConstants ==
  /\ CountSize \in Nat \ {0} /\ MaxRev \in Nat \ {0} /\ MaxEdits \in Nat
  /\ Absent \notin [Positions -> Cells]

VARIABLES
  block, rev,      \* the server's chunk
  counts,          \* block_punch_counts_
  inView,          \* is the chunk in the player's view box?
  covered, sent,   \* the replicator's book: is it mirrored, at what revision
  up,              \* edits on their way to the server
  world,           \* the world lane to the player
  feedback,        \* the damage lane to the player
  mirror,          \* ClientChunkStore: the chunk, or Absent
  pending,         \* pending_edits_
  cracks,          \* BlockDamageTracker: punches_, 0 is no entry
  damageRev,       \* damage_revision_
  changeRev,       \* changes_
  edits, events,   \* how many so far
  gen,             \* history: how often the block at a position changed
  countGen,        \* history: which block there the count was last told of
  said,            \* history: the server's last word the client has on each position
  predicted,       \* history: where the client predicted since that word, or an edit it made
                   \* before was pending when the chunk came anew
  ways             \* the setting

server == <<block, rev, counts, inView, covered, sent, events, gen, countGen>>
client == <<mirror, pending, cracks, damageRev, changeRev, edits, said, predicted>>
vars == <<server, client, up, world, feedback, ways>>

TypeOK ==
  /\ block \in [Positions -> Cells] /\ rev \in 1..MaxRev
  /\ counts \in [Positions -> 0..(CountSize - 1)]
  /\ inView \in BOOLEAN /\ covered \in BOOLEAN /\ sent \in 0..MaxRev
  /\ mirror \in [Positions -> Cells] \union {Absent}
  /\ \A i \in DOMAIN pending : pending[i].pos \in Positions /\ pending[i].prev \in Cells
  /\ cracks \in [Positions -> 0..(CountSize - 1)]
  /\ \A p \in Positions : /\ cracks[p] = 0 <=> damageRev[p] = 0
                          /\ damageRev[p] <= rev /\ changeRev[p] <= rev
  /\ predicted \subseteq Positions /\ ways \in Settings

Zero == [p \in Positions |-> 0]
NoWord == [block |-> Air, gen |-> 0]

Init ==
  /\ block \in [Positions -> Cells] /\ rev = 1 /\ counts = Zero
  /\ inView = TRUE /\ covered = TRUE /\ sent = 1
  /\ up = <<>> /\ world = <<>> /\ feedback = <<>>
  /\ mirror = block /\ pending = <<>>
  /\ cracks = Zero /\ damageRev = Zero /\ changeRev = Zero
  /\ edits = 0 /\ events = 0 /\ gen = Zero /\ countGen = Zero
  /\ said = [p \in Positions |-> [block |-> block[p], gen |-> 0]] /\ predicted = {}
  /\ ways \in Settings

-----------------------------------------------------------------------------
(* The server *)

Word == [p \in Positions |-> [block |-> block[p], gen |-> gen[p]]]
Add == [type |-> "add", rev |-> rev, word |-> Word]
Delta(p, b) == [type |-> "delta", pos |-> p, rev |-> rev + 1,
                word |-> [block |-> b, gen |-> gen[p] + 1]]
Result(e, ok) == [type |-> "result", seq |-> e.seq, accepted |-> ok]

Replace(p, b) ==
  /\ rev < MaxRev
  /\ block' = [block EXCEPT ![p] = b] /\ rev' = rev + 1
  /\ gen' = [gen EXCEPT ![p] = @ + 1]

\* apply_block_edit's own conditions; reach, support and the pack's veto may refuse as well.
Possible(p, b) == IF b = Air THEN block[p] # Air ELSE block[p] = Air

\* handle_block_edit: the result goes before the delta, which the editor always gets.
HandleEdit ==
  /\ up # <<>> /\ up' = Tail(up)
  /\ LET e == Head(up)
     IN \/ /\ world' = Append(world, Result(e, FALSE))
           /\ UNCHANGED <<block, rev, gen, sent>>
        \/ /\ Possible(e.pos, e.block) /\ Replace(e.pos, e.block)
           /\ world' = Append(Append(world, Result(e, TRUE)), Delta(e.pos, e.block))
           /\ sent' = rev + 1
  /\ UNCHANGED <<counts, inView, covered, events, countGen, feedback, client>>

Broken(p, b) ==
  /\ Possible(p, b) /\ Replace(p, b)
  /\ world' = IF covered THEN Append(world, Delta(p, b)) ELSE world
  /\ sent' = IF covered THEN rev + 1 ELSE sent

\* Another player's edit.
OtherEdit(p, b) ==
  /\ "edit" \in ways /\ Broken(p, b)
  /\ UNCHANGED <<counts, inView, covered, events, countGen, feedback, up, client>>

\* vb.world.set_block: no delta, the next tick sends the chunk anew.
ScriptSet(p, b) ==
  /\ "script" \in ways /\ b # block[p] /\ Replace(p, b)
  /\ UNCHANGED <<counts, inView, covered, sent, events, countGen, world, feedback, up, client>>

\* broadcast_block_damage, with the revision the chunk has by then.
Broadcast(p, n) ==
  /\ feedback' = IF covered
                 THEN Append(feedback, [pos |-> p, punches |-> n, rev |-> rev', gen |-> gen'[p]])
                 ELSE feedback
  /\ counts' = [counts EXCEPT ![p] = n]
  /\ countGen' = [countGen EXCEPT ![p] = gen'[p]]

\* punch at a block that takes several: counted, and broken when the count is reached; a
\* break the pack vetoes leaves the count.
Punch(p, damage) ==
  /\ "punch" \in ways /\ events < MaxEvents /\ events' = events + 1
  /\ block[p] # Air
  /\ LET n == (counts[p] + damage) % CountSize
     IN \/ UNCHANGED <<block, rev, gen, world, sent>> /\ Broadcast(p, n)
        \/ n >= MaxDamage /\ Broken(p, Air) /\ Broadcast(p, 0)
  /\ UNCHANGED <<inView, covered, up, client>>

\* update_block_punch_healing.
Heal(p) ==
  /\ events < MaxEvents /\ events' = events + 1
  /\ counts[p] > 0
  /\ UNCHANGED <<block, rev, gen, world, sent, inView, covered, up, client>>
  /\ Broadcast(p, counts[p] - 1)

\* WorldReplicator::tick for this player and chunk.  A chunk whose revision is booked is not
\* sent, also one that the player does not hold and has edited.
Tick ==
  /\ \/ /\ inView /\ (~covered \/ sent # rev)
        /\ covered' = TRUE /\ sent' = rev
        /\ world' = IF sent = rev THEN world ELSE Append(world, Add)
     \/ /\ ~inView /\ covered
        /\ covered' = FALSE /\ sent' = 0 /\ world' = Append(world, [type |-> "remove"])
  /\ UNCHANGED <<block, rev, counts, inView, events, gen, countGen, feedback, up, client>>

\* The player moves so that the chunk leaves or enters its view.
Turn ==
  /\ "leave" \in ways /\ inView' = ~inView
  /\ events < MaxEvents /\ events' = events + 1
  /\ UNCHANGED <<block, rev, counts, covered, sent, gen, countGen, world, feedback, up,
                 client>>

-----------------------------------------------------------------------------
(* The client *)

\* push_block_edit: applied, remembered with what was there, sent.
PushEdit(p, b) ==
  /\ edits < MaxEdits /\ edits' = edits + 1
  /\ pending' = Append(pending, [seq |-> edits + 1, pos |-> p,
                                 prev |-> IF mirror = Absent THEN Air ELSE mirror[p]])
  /\ mirror' = IF mirror = Absent THEN Absent ELSE [mirror EXCEPT ![p] = b]
  /\ predicted' = IF mirror = Absent THEN predicted ELSE predicted \union {p}
  /\ up' = Append(up, [seq |-> edits + 1, pos |-> p, block |-> b])
  /\ UNCHANGED <<cracks, damageRev, changeRev, said, world, feedback, server>>

\* BlockDamageTracker::on_block_changed, for the positions ps.
BlockChanged(ps, r) ==
  LET gone == {p \in ps : damageRev[p] < r}
  IN /\ changeRev' = [p \in Positions |-> IF p \in ps /\ r > changeRev[p] THEN r ELSE changeRev[p]]
     /\ cracks' = [p \in Positions |-> IF p \in gone THEN 0 ELSE cracks[p]]
     /\ damageRev' = [p \in Positions |-> IF p \in gone THEN 0 ELSE damageRev[p]]

\* forget_pending_edits_for: the position is not looked at.
Forget_none(es) == es

Forget(es) == <<>>

TakeAdd(f) ==
  /\ mirror' = [p \in Positions |-> f.word[p].block]
  /\ said' = f.word /\ predicted' = {pending[i].pos : i \in DOMAIN pending}
  /\ BlockChanged(IF mirror = Absent THEN {} ELSE {p \in Positions : mirror[p] # f.word[p].block},
                  f.rev)
  /\ UNCHANGED pending

TakeDelta(f) ==
  /\ pending' = Forget(pending)
  /\ \/ /\ mirror = Absent   \* rejected
        /\ UNCHANGED <<mirror, said, predicted, cracks, damageRev, changeRev>>
     \/ /\ mirror # Absent
        /\ mirror' = [mirror EXCEPT ![f.pos] = f.word.block]
        /\ said' = [said EXCEPT ![f.pos] = f.word] /\ predicted' = predicted \ {f.pos}
        /\ BlockChanged({f.pos}, f.rev)

\* handle_block_edit_result.
TakeResult(f) ==
  LET of == SelectInSeq(pending, LAMBDA e : e.seq = f.seq)
  IN /\ pending' = IF of = 0 THEN pending ELSE RemoveAt(pending, of)
     /\ mirror' = IF of = 0 \/ f.accepted \/ mirror = Absent THEN mirror
                  ELSE [mirror EXCEPT ![pending[of].pos] = pending[of].prev]
     /\ UNCHANGED <<said, predicted, cracks, damageRev, changeRev>>

TakeRemove ==
  /\ mirror' = Absent
  /\ cracks' = Zero /\ damageRev' = Zero /\ changeRev' = Zero
  /\ said' = [p \in Positions |-> NoWord] /\ predicted' = {}
  /\ UNCHANGED pending

ReceiveWorld ==
  /\ world # <<>> /\ world' = Tail(world)
  /\ LET f == Head(world)
     IN \/ f.type = "add" /\ TakeAdd(f)
        \/ f.type = "delta" /\ TakeDelta(f)
        \/ f.type = "result" /\ TakeResult(f)
        \/ f.type = "remove" /\ TakeRemove
  /\ UNCHANGED <<edits, up, feedback, server>>

\* BlockDamageTracker::on_damage drops what is about an earlier block.
OutOfDate_equal(f) == f.rev < changeRev[f.pos] \/ (damageRev[f.pos] # 0 /\ f.rev <= damageRev[f.pos])

OutOfDate(f) == f.rev < changeRev[f.pos] \/ f.rev < damageRev[f.pos]

ReceiveDamage ==
  /\ feedback # <<>> /\ feedback' = Tail(feedback)
  /\ LET f == Head(feedback)
     IN IF OutOfDate(f) THEN UNCHANGED <<cracks, damageRev>>
        ELSE /\ cracks' = [cracks EXCEPT ![f.pos] = f.punches]
             /\ damageRev' = [damageRev EXCEPT ![f.pos] = IF f.punches = 0 THEN 0 ELSE f.rev]
  /\ UNCHANGED <<mirror, pending, changeRev, edits, said, predicted, up, world, server>>

\* advance: a change is forgotten when no damage sent before it can be on its way any more.
Prune(p) ==
  /\ changeRev[p] # 0 /\ \A i \in DOMAIN feedback : feedback[i].rev >= changeRev[p]
  /\ changeRev' = [changeRev EXCEPT ![p] = 0]
  /\ UNCHANGED <<mirror, pending, cracks, damageRev, edits, said, predicted, up, world,
                 feedback, server>>

Step ==
  \/ HandleEdit \/ Tick \/ Turn \/ ReceiveWorld \/ ReceiveDamage
  \/ \E p \in Positions :
       \/ \E b \in Cells : OtherEdit(p, b) \/ ScriptSet(p, b) \/ PushEdit(p, b)
       \/ \E damage \in 1..2 : Punch(p, damage)
       \/ Heal(p) \/ Prune(p)

Next == Step /\ UNCHANGED ways

Spec == Init /\ [][Next]_vars

-----------------------------------------------------------------------------
Settled == up = <<>> /\ world = <<>> /\ feedback = <<>> /\ mirror # Absent /\ covered /\ sent = rev

\* The tracker's promise (block_damage_tracker.hpp): no late damage update cracks the block
\* that came after, and no crack outlives its block.  Whatever crack is shown, the last
\* update the server sent for the position is, or is going to be, the one shown.  Not where a
\* chunk is sent anew, after a script: it brings the revision of all of it, and a crack of the
\* block the script set goes with an older one.
CracksSettle ==
  Settled /\ ways \subseteq {"edit", "punch"} =>
    \A p \in Positions : cracks[p] = IF countGen[p] = gen[p] THEN counts[p] ELSE 0

\* "authoritative wins" (session.cpp:2133): where the client predicted nothing since the
\* server last told it of a position, it shows what it was told: no rejection of an earlier
\* edit rolls that back.  Except when it was told by the chunk as a whole, which forgets none
\* of the edits pending then, as a delta does.
AuthoritativeWins ==
  mirror # Absent => \A p \in Positions \ predicted : mirror[p] = said[p].block

\* An edit is remembered for rollback (session.hpp:857): once all is answered and told, the
\* client shows the server's blocks.  False: a delta anywhere in the chunk forgets it, and a
\* chunk that comes anew does not.
MirrorSettles == Settled => mirror = block

\* The counts are of the block that is there (session.hpp:709).  False: an edit or a script
\* that takes the block leaves the count to the next one.
CountIsOfTheBlock == \A p \in Positions : counts[p] # 0 => countGen[p] = gen[p]
=============================================================================
