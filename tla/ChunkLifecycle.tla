--------------------------- MODULE ChunkLifecycle ---------------------------
(***************************************************************************)
(* The loaded world of a server: ChunkLifecycleSystem::update decides each *)
(* tick which chunks are generated, loaded from the region store, inserted *)
(* and evicted; players edit loaded chunks; autosave and shutdown flush    *)
(* the region store to disk; a crash loses everything but the disk.        *)
(*                                                                         *)
(* update() runs on the tick thread while the workers of ChunkGeneration   *)
(* run beside it, so it is split where it takes the pool's mutex:          *)
(*   BeginUpdate (poll + ingest), Request, IngestAgain (poll + ingest),    *)
(*   Unload.                                                               *)
(* Between two updates (step = "idle") the same thread edits and saves.    *)
(*                                                                         *)
(* A chunk is its revision and the number of accepted edits its blocks     *)
(* hold.  Light is not represented; what relighting does to the world here *)
(* is bump revisions, of any loaded chunks the cascade reaches.            *)
(***************************************************************************)
EXTENDS ChunkGeneration

CONSTANTS
  Views,          \* the sets of chunks the players of one tick may want
  IngestBudget,   \* chunks inserted per pass of update(), at least one
  IngestBatch,    \* chunks between two looks at the clock
  TimeBudget,     \* is the wall-time cap set?
  Persist,        \* is there a region store?
  RegionOf,       \* the region file of a chunk
  NoChunk,        \* no saved chunk
  Faults,         \* what may go wrong: "crash", "torn" (while a region file is
                  \* being rewritten), "open" (a region file cannot be opened)
  MaxRev,         \* bound: revisions
  MaxPipeline     \* bound: the players change their minds only below this backlog

ASSUME ChunkLifecycleAssumption ==
  /\ IsFiniteSet(Coords)
  /\ Views \subseteq SUBSET Coords /\ Views # {}
  /\ IngestBudget \in Nat \ {0} /\ IngestBatch \in Nat \ {0}
  /\ TimeBudget \in BOOLEAN /\ Persist \in BOOLEAN
  /\ RegionOf \in [Coords -> Coords]
  /\ NoChunk \notin [rev : Nat, edits : Nat]
  /\ Faults \subseteq {"crash", "torn", "open"}
  /\ MaxRev \in Nat /\ MaxPipeline \in Nat

VARIABLES
  backlog,        \* generated chunks polled but not inserted
  requested,      \* coordinates update() believes are in the pool
  world,          \* the loaded chunks
  wanted,         \* what the current (or last) update wants
  step,           \* where update() is; "idle" between updates, "stopped" after shutdown
  progressed,     \* did this update do any work the clock is charged for?
  cache,          \* the region store in memory
  dirty,          \* regions whose cache is ahead of their file
  disk,           \* the region files
  accepted,       \* history: edits of a chunk the server accepted and a crash did not lose
  swept           \* history: edits of a chunk a completed flush wrote, and no later one tore

storeVars == <<cache, dirty, disk>>
tickVars == <<wanted, step, progressed>>
histVars == <<accepted, swept>>
vars == <<genVars, backlog, requested, world, tickVars, storeVars, histVars>>

Chunk == {ch \in [rev : 0..MaxRev, edits : 0..MaxRev] : ch.edits <= ch.rev}
Fresh == [rev |-> 0, edits |-> 0]
EditsOf(chunk) == IF chunk = NoChunk THEN 0 ELSE chunk.edits
Loaded == DOMAIN world

Init ==
  /\ GenInit
  /\ backlog = <<>> /\ requested = {}
  /\ world = << >>
  /\ wanted = {} /\ step = "idle" /\ progressed = FALSE
  /\ cache = [c \in Coords |-> NoChunk] /\ dirty = {}
  /\ disk = [c \in Coords |-> NoChunk]
  /\ accepted = [c \in Coords |-> 0] /\ swept = [c \in Coords |-> 0]

-----------------------------------------------------------------------------
(* Inserting and relighting *)

Least(a, b) == IF a < b THEN a ELSE b

\* The worlds that relighting may make of w: any chunks' revisions move on.
Relit(w) ==
  {[c \in DOMAIN w |-> IF c \in lit THEN [w[c] EXCEPT !.rev = @ + 1] ELSE w[c]] :
     lit \in SUBSET {c \in DOMAIN w : w[c].rev < MaxRev}}

\* insert_or_assign of the chunks new, a function on coordinates.
Inserted(w, new) ==
  [c \in (DOMAIN w) \union (DOMAIN new) |-> IF c \in DOMAIN new THEN new[c] ELSE w[c]]

\* How many chunks one pass may take from a backlog of n: all the budget
\* allows, or, with the clock running, any whole number of batches (at least
\* one if nothing was done in this update before).
Takes(n, before) ==
  LET most == Least(n, IngestBudget)
  IN {most} \union
     (IF TimeBudget
      THEN {k \in 0..most : k % IngestBatch = 0 /\ (before \/ k > 0 \/ n = 0)}
      ELSE {})

\* (mutant) what the budget leaves over is dropped
Rest_dropped(finished, k) == <<>>

Rest(finished, k) == SubSeq(finished, k + 1, Len(finished))

\* (mutant) a chunk that arrives stays requested
StillRequested_all(popped) == requested

StillRequested(popped) == requested \ popped

\* The poll + ingest pass of update(), for what the update wants.
Ingest(want, before) ==
  LET finished == backlog \o completed
  IN \E k \in Takes(Len(finished), before) :
       LET popped == ToSet(SubSeq(finished, 1, k))
           insert == popped \intersect want
       IN /\ backlog' = Rest(finished, k)
          /\ requested' = StillRequested(popped)
          /\ IF insert = {} THEN UNCHANGED world
             ELSE world' \in Relit(Inserted(world, [c \in insert |-> Fresh]))
          /\ progressed' = (before \/ k > 0)
  /\ Poll

-----------------------------------------------------------------------------
(* The region store *)

\* (mutant) eviction does not save
SavedIfDirty_never(saved, c) == saved

\* save_if_dirty: what the cache holds after being offered chunk c.
SavedIfDirty(saved, c) ==
  IF world[c].rev = 0 \/ (saved[c] # NoChunk /\ saved[c].rev = world[c].rev)
  THEN saved
  ELSE [saved EXCEPT ![c] = world[c]]

\* The cache after every loaded chunk of cs was offered to it.
SavedAll(cs) == [c \in Coords |-> IF c \in cs THEN SavedIfDirty(cache, c)[c] ELSE cache[c]]

\* (mutant) what eviction changed is not marked for the next flush
DirtyAfter_unmarked(cs) == dirty

\* The regions that leaves with something to write.
DirtyAfter(cs) == dirty \union {RegionOf[c] : c \in {d \in cs : SavedIfDirty(cache, d) # cache}}

\* (mutant) a region file is rewritten with the loaded chunks only
Written_loadedOnly(m, rs) ==
  [c \in Coords |-> IF RegionOf[c] \in rs THEN IF c \in Loaded THEN m[c] ELSE NoChunk
                                          ELSE disk[c]]

\* The files after regions rs are rewritten from the cache m.
Written(m, rs) == [c \in Coords |-> IF RegionOf[c] \in rs THEN m[c] ELSE disk[c]]

-----------------------------------------------------------------------------
(* update() *)

Pipeline == Len(queue) + Cardinality(in_flight) + Len(completed) + Len(backlog)

BeginUpdate(want) ==
  /\ step = "idle"
  /\ want = wanted \/ Pipeline + Cardinality(Coords) <= MaxPipeline
  /\ wanted' = want
  /\ Ingest(want, FALSE)
  /\ step' = "request"
  /\ UNCHANGED <<storeVars, histVars>>

\* The saved chunks among hits that this update loads.
DiskLoads(hits) ==
  LET most == Least(Cardinality(hits), IngestBudget)
  IN {l \in SUBSET hits :
        IF TimeBudget THEN Cardinality(l) <= most /\ (progressed \/ l # {} \/ hits = {})
                      ELSE Cardinality(l) = most}

Request ==
  /\ step = "request"
  /\ LET missing == (wanted \ Loaded) \ requested
         hits == IF Persist THEN {c \in missing : cache[c] # NoChunk} ELSE {}
         submit == {c \in missing \ hits : ~Pending(c)}
     IN /\ SubmitAll(SetToSeq(submit))
        /\ requested' = requested \union submit
        /\ \E load \in DiskLoads(hits) :
             /\ IF load = {} THEN UNCHANGED world
                ELSE world' \in Relit(Inserted(world, [c \in load |-> cache[c]]))
             /\ progressed' = (progressed \/ load # {})
  /\ step' = "ingest"
  /\ UNCHANGED <<backlog, wanted, storeVars, histVars>>

IngestAgain ==
  /\ step = "ingest"
  /\ Ingest(wanted, progressed)
  /\ step' = "unload"
  /\ UNCHANGED <<wanted, storeVars, histVars>>

\* (mutant) only unedited chunks are evicted
Evicted_clean == {c \in Loaded \ wanted : world[c].rev = 0}

Evicted == Loaded \ wanted

Unload ==
  /\ step = "unload"
  /\ IF Persist
     THEN cache' = SavedAll(Evicted) /\ dirty' = DirtyAfter(Evicted)
     ELSE UNCHANGED <<cache, dirty>>
  /\ world' = [c \in Loaded \ Evicted |-> world[c]]
  /\ requested' = requested \intersect wanted
  /\ step' = "idle"
  /\ UNCHANGED <<genVars, backlog, wanted, progressed, disk, histVars>>

-----------------------------------------------------------------------------
(* Between updates *)

\* (mutant) the block changes but not the revision
Edited_norev(chunk) == [chunk EXCEPT !.edits = @ + 1]

\* Chunk::set of a voxel to another block.
Edited(chunk) == [rev |-> chunk.rev + 1, edits |-> chunk.edits + 1]

\* An edit the server accepts: the block changes, then light does.
Edit(c) ==
  /\ step = "idle"
  /\ c \in Loaded /\ world[c].rev < MaxRev
  /\ world' \in Relit([world EXCEPT ![c] = Edited(@)])
  /\ accepted' = [accepted EXCEPT ![c] = Least(@ + 1, MaxRev)]
  /\ UNCHANGED <<genVars, backlog, requested, tickVars, storeVars, swept>>

\* autosave_sweep: every loaded chunk is offered to the store, then every
\* dirty region is rewritten, except those whose file cannot be opened.
Sweep ==
  \E failed \in IF "open" \in Faults THEN SUBSET DirtyAfter(Loaded) ELSE {{}} :
    LET saved == SavedAll(Loaded)
    IN /\ cache' = saved
       /\ disk' = Written(saved, DirtyAfter(Loaded) \ failed)
       /\ dirty' = failed
       /\ swept' = [c \in Coords |->
                      IF RegionOf[c] \in failed THEN swept[c] ELSE EditsOf(saved[c])]

Autosave ==
  /\ step = "idle" /\ Persist
  /\ Sweep
  /\ UNCHANGED <<genVars, backlog, requested, world, tickVars, accepted>>

\* The process is gone; what it knew is gone with it.
Forget ==
  /\ queue' = <<>> /\ in_flight' = {} /\ completed' = <<>>
  /\ backlog' = <<>> /\ requested' = {} /\ world' = << >>
  /\ wanted' = {} /\ progressed' = FALSE

\* (mutant) the last sweep is skipped
Shutdown_nosweep ==
  /\ step = "idle" /\ Persist
  /\ Forget
  /\ step' = "stopped"
  /\ UNCHANGED <<storeVars, histVars>>

\* A clean stop, after a last sweep.
Shutdown ==
  /\ step = "idle" /\ Persist
  /\ Sweep
  /\ Forget
  /\ step' = "stopped"
  /\ UNCHANGED accepted

\* The region files are read again, region by region, when first asked for.
Restart ==
  /\ step = "stopped"
  /\ cache' = disk /\ dirty' = {}
  /\ step' = "idle"
  /\ accepted' = [c \in Coords |-> EditsOf(disk[c])]
  /\ UNCHANGED <<genVars, backlog, requested, world, wanted, progressed, disk, swept>>

\* The process dies, at any point of update() or, leaving files as after, in
\* the middle of a flush, and starts again on the files it finds.
CrashWith(files) ==
  /\ "crash" \in Faults
  /\ Forget
  /\ step' = "idle"
  /\ disk' = files /\ cache' = files /\ dirty' = {}
  /\ accepted' = [c \in Coords |-> EditsOf(files[c])]

Crash == step # "stopped" /\ CrashWith(disk) /\ UNCHANGED swept

\* flush() rewrites each dirty region's file in place: some were written,
\* and the one being written is truncated, which reads as an empty region.
CrashInFlush ==
  /\ step = "idle" /\ Persist /\ "torn" \in Faults
  /\ \E torn \in DirtyAfter(Loaded) :
       \E done \in SUBSET (DirtyAfter(Loaded) \ {torn}) :
         CrashWith([c \in Coords |-> IF RegionOf[c] = torn THEN NoChunk
                                     ELSE Written(SavedAll(Loaded), done)[c]])
         /\ swept' = [c \in Coords |-> IF RegionOf[c] = torn THEN 0 ELSE swept[c]]

-----------------------------------------------------------------------------
Update ==
  \/ \E want \in Views : BeginUpdate(want)
  \/ Request \/ IngestAgain \/ Unload

Generate == Take \/ \E c \in Coords : Finish(c)

Next ==
  \/ Update
  \/ Generate /\ UNCHANGED <<backlog, requested, world, tickVars, storeVars, histVars>>
  \/ \E c \in Coords : Edit(c)
  \/ Autosave \/ Shutdown \/ Restart \/ Crash \/ CrashInFlush

Spec == Init /\ [][Next]_vars

\* The tick loop runs as long as the server does, and every worker thread is
\* scheduled.
Fairness ==
  /\ WF_vars(Update)
  /\ WF_vars(Generate /\ UNCHANGED <<backlog, requested, world, tickVars, storeVars, histVars>>)

FairSpec == Spec /\ Fairness

-----------------------------------------------------------------------------
\* ChunkLifecycleSystem's, World's and RegionStore's members hold what their
\* headers declare; no chunk holds more edits than revisions (Chunk::set).
TypeOK ==
  /\ queue \in Seq(Coords) /\ in_flight \in SUBSET Coords
  /\ completed \in Seq(Coords) /\ backlog \in Seq(Coords)
  /\ requested \in SUBSET Coords
  /\ Loaded \in SUBSET Coords /\ world \in [Loaded -> Chunk]
  /\ wanted \in SUBSET Coords
  /\ step \in {"idle", "request", "ingest", "unload", "stopped"}
  /\ progressed \in BOOLEAN
  /\ cache \in [Coords -> Chunk \union {NoChunk}]
  /\ dirty \in SUBSET Coords
  /\ disk \in [Coords -> Chunk \union {NoChunk}]
  /\ accepted \in [Coords -> 0..MaxRev] /\ swept \in [Coords -> 0..MaxRev]

\* A coordinate update() believes is being generated really is somewhere in
\* the pipeline: otherwise it is skipped by Request forever and the players
\* look into a hole.
RequestIsAlive ==
  \A c \in requested : Pending(c) \/ c \in ToSet(completed) \/ c \in ToSet(backlog)

\* A loaded chunk is not being asked for: whatever update() still waits for is
\* missing, through request, ingestion, unloading and coming back into view.
RequestedNotLoaded == requested \intersect Loaded = {}

\* Between updates only wanted chunks are loaded and requested, whatever was in
\* flight or left in the backlog when the players turned away (step 3 of update()).
OnlyWantedLoaded ==
  step = "idle" => Loaded \subseteq wanted /\ requested \subseteq wanted

\* Every edit apply_block_edit accepted is in the loaded chunk or, when the chunk
\* is not loaded, in what it would be loaded from.
NoAcceptedEditLost ==
  step # "stopped" =>
    \A c \in Coords : EditsOf(IF c \in Loaded THEN world[c] ELSE cache[c]) = accepted[c]

\* A region that is not marked dirty is on disk as it is in memory, so that a
\* flush may skip it: through evictions, failed opens and restarts.
CleanRegionIsOnDisk ==
  step # "stopped" => \A c \in Coords : RegionOf[c] \notin dirty => disk[c] = cache[c]

\* A clean shutdown (main's last sweep) keeps every accepted edit whose region
\* file opened.
ShutdownKeepsEdits ==
  step = "stopped" =>
    \A c \in Coords : RegionOf[c] \notin dirty => EditsOf(disk[c]) = accepted[c]

\* What a completed RegionStore::flush wrote is there after any later crash,
\* except one that hits a flush while it rewrites the same file.
SweptEditsSurvive == \A c \in Coords : EditsOf(disk[c]) >= swept[c]

\* The three together: no edit is lost but by a crash, and none by that once it was swept.
EditsSurvive == NoAcceptedEditLost /\ ShutdownKeepsEdits /\ SweptEditsSurvive

\* A chunk that stays wanted is eventually loaded, and stays so: update()'s
\* budgets delay an insertion and never starve it.
WantedIsLoaded ==
  \A c \in Coords : <>[](c \in wanted) => <>[](c \in Loaded)
=============================================================================
