------------------------------ MODULE ChunkMeshing ------------------------------
(* How the chunks of a client come to the screen: the ClientChunkStore that takes  *)
(* what the server sends and what the player expects, ChunkRenderer::sync, which   *)
(* once per frame finds out by revision what has to be meshed again, and the       *)
(* ChunkMeshWorkerPool between the two.  The world has two dimensions here.  A     *)
(* chunk is, for each chunk whose mesh depends on it, which of two versions of its *)
(* blocks and light that mesh sees; a mesh is all that it saw.                     *)
EXTENDS Integers, Sequences, SequencesExt, FiniteSetsExt

CONSTANTS
  Coords,          \* coordinates of chunks, pairs of integers
  Workers,         \* number of meshing threads
  SubmitBudget,    \* chunks submitted per frame
  UploadBudget,    \* meshes uploaded per frame
  MaxLoaded,       \* bound: chunks loaded at a time
  MaxChanges       \* bound: messages and edits

VARIABLES
  chunks,          \* ClientChunkStore::chunks_
  gpu,             \* ChunkRenderer::gpu_
  jobs,            \* ChunkMeshWorkerPool::queue_
  working,         \* the jobs of in_flight_
  completed,       \* ChunkMeshWorkerPool::completed_
  uploads,         \* ChunkRenderer::pending_uploads_
  waiting,         \* ChunkRenderer::pending_coords_
  inSync,          \* between the two halves of a sync
  expected,        \* history: the chunks edited here that the server has sent nothing of since
  highest,         \* history: the highest revision the client had of each chunk
  again,           \* history: the chunks that came with a revision the client had had of them,
                   \* and have not got beyond what it had
  changes          \* how many messages and edits there were

poolVars == <<jobs, working, completed>>
storeVars == <<chunks, expected, highest, again, changes>>
drawVars == <<gpu, uploads, waiting, inSync>>
vars == <<poolVars, drawVars, storeVars>>

\* The chunks that see into c: itself and the neighbours on all sides and corners.
Around(c) == {d \in Coords : d[1] - c[1] \in -1 .. 1 /\ d[2] - c[2] \in -1 .. 1}
Faces(c) == {d \in Around(c) \ {c} : d[1] = c[1] \/ d[2] = c[2]}
Below(c) == {d \in Coords : d = <<c[1], c[2] - 1>>}

Loaded == DOMAIN chunks
Air == 2

\* What the mesh of c would show; a chunk that is not loaded counts as air.
Seen(c) == [d \in Around(c) |-> IF d \in Loaded THEN chunks[d].shown[c] ELSE Air]

Init ==
  /\ chunks = <<>> /\ gpu = <<>>
  /\ jobs = <<>> /\ working = {} /\ completed = <<>> /\ uploads = <<>> /\ waiting = {}
  /\ inSync = FALSE
  /\ expected = {} /\ highest = [c \in Coords |-> 0] /\ again = {} /\ changes = 0

-----------------------------------------------------------------------------
(* The store.                                                                  *)

\* The store with the revisions of cs one further, of those that are loaded.
Bump(store, cs) ==
  [c \in DOMAIN store |-> [store[c] EXCEPT !.revision = IF c \in cs THEN @ + 1 ELSE @]]

\* (mutant) the faces only, as it once was
BumpAround_faces(store, c) == Bump(store, Faces(c))

\* All neighbours: they may see a chunk that came, changed or left at any of its corners.
BumpAround(store, c) == Bump(store, Around(c) \ {c})

\* The store with the other version of what c shows to the chunks of cs.
Redo(store, c, cs) ==
  [store EXCEPT ![c].shown = [d \in DOMAIN @ |-> IF d \in cs THEN 1 - @[d] ELSE @[d]]]

\* The end of every change of the store, which happens between two frames' syncs; `came` came
\* as wholes.
Change(store, owed, came) ==
  /\ ~inSync /\ changes < MaxChanges
  /\ chunks' = store
  /\ expected' = owed
  /\ highest' = [c \in Coords |-> IF c \in DOMAIN store
                                  THEN Max({highest[c], store[c].revision}) ELSE highest[c]]
  /\ again' = {c \in DOMAIN store : store[c].revision <= highest[c] /\ c \in again \cup came}
  /\ changes' = changes + 1
  /\ UNCHANGED <<poolVars, drawVars>>

\* A chunk comes, for the first time, again, or over the one that is there.  Its revision is
\* the server's, whatever the client has counted up to meanwhile, and its contents are what the
\* server has.
ApplyAdd(c, revision, version) ==
  /\ Cardinality(Loaded \cup {c}) <= MaxLoaded
  /\ LET chunk == [revision |-> revision, shown |-> [d \in Around(c) |-> version]]
         store == [d \in Loaded \cup {c} |-> IF d = c THEN chunk ELSE chunks[d]]
     IN  Change(BumpAround(store, c), expected \ {c}, {c})

\* Blocks and light of a chunk change as far as cs sees.
ApplyDelta(c, cs) ==
  /\ c \in Loaded
  /\ Change(BumpAround(Bump(Redo(chunks, c, cs), {c}), c), expected \ {c}, {})

ApplyRemove(c) ==
  /\ c \in Loaded
  /\ Change(BumpAround([d \in Loaded \ {c} |-> chunks[d]], c), expected \ {c}, {})

\* A voxel is set and the column relit: cs sees it, its faces lie on the borders to `touched`,
\* and the chunk below may get other light.  Neighbours that see only its light or its edges
\* are left to the server's answer.
EditBlock(store, c, cs, touched, lower) ==
  LET edited == Bump(Redo(store, c, cs), {c} \cup touched)
      relit == IF lower = {} THEN edited
               ELSE LET l == CHOOSE l \in lower : TRUE IN Bump(Redo(edited, l, Around(l)), lower)
  IN  relit

\* What the player does is shown at once, until the server answers with deltas; what it refuses
\* is set back the same way, and no delta need follow.
PushBlockEdit(c, cs, touched, lower) ==
  /\ c \in Loaded /\ touched \subseteq cs
  /\ Change(EditBlock(chunks, c, cs, touched, lower), expected \cup {c} \cup lower, {})

-----------------------------------------------------------------------------
(* The pool.                                                                   *)

\* A thread takes the oldest job; the pool holds no second job of the same chunk.
Take ==
  /\ jobs # <<>> /\ Cardinality(working) < Workers
  /\ working' = working \cup {Head(jobs)}
  /\ jobs' = Tail(jobs)
  /\ UNCHANGED <<completed, drawVars, storeVars>>

Finish(job) ==
  /\ working' = working \ {job}
  /\ completed' = Append(completed, job)
  /\ UNCHANGED <<jobs, drawVars, storeVars>>

Work == Take \/ \E job \in working : Finish(job)

InFlightOrQueued == {job.coord : job \in working \cup ToSet(jobs)}

-----------------------------------------------------------------------------
(* The renderer.                                                               *)

\* A result is of use if the chunk is there with the revision it was made of.
Current(result) ==
  result.coord \in Loaded /\ chunks[result.coord].revision = result.revision

\* Drop what was unloaded, collect what the pool has done, and upload the first results that
\* are of use; the others on the way do not count.
SyncUpload ==
  LET results == uploads \o completed
      use == {i \in DOMAIN results : Current(results[i])}
      taken == {i \in use : Cardinality({j \in use : j < i}) < UploadBudget}
      looked == IF Cardinality(use) < UploadBudget THEN Len(results) ELSE Max(taken)
      coords(is) == {results[i].coord : i \in is}
      latest(c) == results[Max({i \in taken : results[i].coord = c})]
  IN  /\ ~inSync
      /\ gpu' = [c \in (DOMAIN gpu \cap Loaded) \cup coords(taken) |->
                   IF c \in coords(taken)
                   THEN [revision |-> latest(c).revision, mesh |-> latest(c).mesh] ELSE gpu[c]]
      /\ uploads' = SubSeq(results, looked + 1, Len(results))
      /\ waiting' = (waiting \cup coords(DOMAIN results)) \ coords(1 .. looked)
      /\ completed' = <<>>
      /\ inSync' = TRUE
      /\ UNCHANGED <<jobs, working, storeVars>>

\* (mutant) what has a mesh is left alone
Outdated_missing(c) == c \notin DOMAIN gpu

\* Whether the mesh on the screen is of another revision, or missing.
Outdated(c) == c \notin DOMAIN gpu \/ gpu[c].revision # chunks[c].revision

Job(c) == [coord |-> c, revision |-> chunks[c].revision, mesh |-> Seen(c)]

\* Submit what is outdated and not on its way, in whatever order the store lists it.  The pool
\* goes on meanwhile, so a result may be in its hands already.
SyncSubmit ==
  LET due == {c \in Loaded : Outdated(c)} \ (InFlightOrQueued \cup waiting)
  IN  /\ inSync
      /\ \E cs \in kSubset(Min({SubmitBudget, Cardinality(due)}), due) :
           \E order \in SetToSeqs(cs) : jobs' = jobs \o [i \in DOMAIN order |-> Job(order[i])]
      /\ inSync' = FALSE
      /\ UNCHANGED <<working, completed, gpu, uploads, waiting, storeVars>>

Frame == SyncUpload \/ SyncSubmit

-----------------------------------------------------------------------------
Next ==
  \/ \E c \in Coords :
       \/ \E version \in {0, 1}, revision \in 1 .. highest[c] + 1 : ApplyAdd(c, revision, version)
       \/ \E cs \in SUBSET Around(c) : c \in cs /\ ApplyDelta(c, cs)
       \/ ApplyRemove(c)
       \/ \E cs \in SUBSET Around(c), touched \in SUBSET Faces(c),
             lower \in SUBSET (Below(c) \cap Loaded) :
            c \in cs /\ PushBlockEdit(c, cs, touched, lower)
  \/ Work
  \/ Frame

Fairness == WF_vars(Frame) /\ WF_vars(Work)

Spec == Init /\ [][Next]_vars /\ Fairness

-----------------------------------------------------------------------------
TypeOK ==
  /\ Loaded \subseteq Coords /\ DOMAIN gpu \subseteq Coords
  /\ \A c \in Loaded : chunks[c].revision \in 1 .. highest[c] /\ DOMAIN chunks[c].shown = Around(c)
  /\ Cardinality(working) <= Workers /\ inSync \in BOOLEAN
  /\ waiting \subseteq Coords /\ expected \cup again \subseteq Loaded
  /\ changes \in 0 .. MaxChanges

\* A mesh that is not due to be made again shows what is there, its neighbours' borders
\* included, unless an edit is near that the server has sent nothing of since, or the chunk came
\* with a revision the client had had (bump_all_neighbor_revisions, ChunkRenderer::sync): a stale
\* mesh would stay until something else changes.
MeshIsCurrent ==
  \A c \in Loaded \ again :
    Outdated(c) \/ Around(c) \cap expected # {} \/ gpu[c].mesh = Seen(c)

\* Once nothing changes any more, all that is loaded comes to the screen, whatever the budgets
\* and however many results were superseded, and as it is, but for what came with a revision the
\* client had had (ChunkRenderer::sync).
WorldIsShown ==
  <>[](expected = {}) /\ <>[][FALSE]_chunks
    => <>[](\A c \in Loaded : ~Outdated(c) /\ (c \in again \/ gpu[c].mesh = Seen(c)))
=============================================================================
