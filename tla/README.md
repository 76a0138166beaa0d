# Verification of voxel_browser

TLA+ models of the parts of voxel_browser whose correctness depends on the
order of events: threads, ticks, connections, budgets, processes, crashes. TLC
checks them on small instances; for most of the modules TLAPS proves the
invariants that matter most for every instance.

Paths are those of the repository: `src/net/session.cpp` here is
`src/src/net/session.cpp` in `PROJECT.json`, headers are `inc/vb/...`.
`PROJECT.json` has, for every definition, the lines it stands for (`map`), for every
run its question (`runs`), for every property a bug that it finds (`mutants`; the
definitions named `Foo_bar` in the modules are those bugs), the hazards the
properties are for, and the theorems. Properties and theorems say in their comments what they claim
of the code.

## 1. The system

voxel_browser is a client and a dedicated server for a multiplayer voxel world,
a command line `vb` that installs and runs them, and an editor for structures.
The server runs one tick thread (20 Hz) over the systems of
`ServerSession`, a pool of world generation threads and the threads of the
network library; a client runs a frame loop, a pool of meshing threads and the
same network library. Packs script both in Lua.

| component | state | operations | talks to | module |
|---|---|---|---|---|
| world generation pool (`worldgen/worker_pool`) | queue, in-flight set, completed queue, stop flag, one mutex, one condition variable | submit, poll_completed, worker_loop, destructor | lifecycle (calls) | WorldGenPool, ChunkGeneration |
| world generation (`worldgen/*`) | none: a function of the seed | terrain, structures across borders | pool | Structures |
| chunk lifecycle (`world/chunk_lifecycle`) | requested set, backlog, budgets | update(view of the players) | pool, world, region store | ChunkLifecycle |
| region store (`world/region_store`), autosave (`server/main`) | cached chunks, dirty regions, files | load, save_if_dirty, flush; sweeps | lifecycle, disk | ChunkLifecycle |
| chunks (`world/paletted_chunk_store`) | palette, packed indices | get, set, fill, compact, encode | world, mirrors | PalettedStore, BlockArray |
| lighting (`world/lighting`) | sky and block light of every cell | relight_chunk, relight_column | lifecycle, edits | Lighting |
| world replicator (`net/world_replicator`) | per player: chunks sent, revision sent of each | tick, apply_block_edit, forget_player | world, session | WorldReplication |
| client chunk store (`world/client_chunk_store`) | mirrored chunks, revisions | apply_add, apply_delta, apply_remove, edit_block | client session, renderer | WorldReplication, BlockView, ChunkMeshing |
| meshing (`world/chunk_mesh_worker_pool`, `render/chunk_renderer`) | jobs, meshes by revision, budgets | sync, worker_loop | client chunk store | ChunkMeshing |
| handshake (`net/session`, `net/handshake`) | per connection: both handshake states, name, asset stream; roster | on frame, sweep, kick, disconnect | transport, authentication, scripts | JoinHandshake |
| inputs and snapshots (`net/session`, `replication/interest`) | last applied input, visible set, pending inputs | handle_input_batch, broadcast, apply_snapshot, reconcile | sessions | PlayerSync |
| optimistic edits, block damage (`net/session`, `net/block_damage_tracker`) | pending edits, punches with revisions | push_block_edit, its result, deltas, punches | both sessions | BlockView |
| gameplay systems (`net/session`, `world/item_drops`) | health, hunger, drops, holds, queues for the scripts | one tick after another | scripts | Gameplay |
| scripting (`script/pack_runtime`) | entities, timers, handlers, the call stack | dispatch_tick, bindings | server session | ScriptHost |
| transports (`net/gns_transport`, `net/loopback`) | connections, owners, queues | connect, send, poll, close | sessions | Link, GnsTransport, Loopback |
| authentication (`auth/*`, reauthentication in `net/session`) | keys, tickets, session file, sign-in coordinator | verify, refresh, sign in, ask again | handshake, client | SignIn |
| asset cache (`assetsync/cache`) | files and their index, in memory and on disk | plan, store, commit, evict | handshake | AssetCache |
| client application (`client/client_app`, `script/ui_runtime`) | application state, two kinds of session; screens, mouse, button | frame | everything on the client | ClientShell, PlayingFrame |
| automation (`automation/*`, `client/automation_endpoint`) | queue, waits, steps, tasks | pump, frame_done | client, server loop | Automation |
| versions (`cli/store`, `installer`, `self_update`) | release directories, downloads, lock | install, update, uninstall, prune, use, self update | file system | VersionStore |
| server instances (`cli/instance`, `cli/commands`) | run record, stop file, start lock, watch | start, stop, restart, status, host | processes | ServerInstance |
| structure editor (`editor/*`) | document, selection, undo stack, file | tools, undo, save, open, quit | files | StructureEditor |
| protocol codecs, physics, terrain noise, drawing, core | none shared | pure, or output | - | - |

What is hard in them, and so what the properties are for, is listed line by line
under `hazards`: wakeups around a condition variable; results
that arrive after their request was forgotten; budgets that cut work short; a
dirty flag that stands for many chunks; crashes between and inside flushes;
books the server keeps of what a client holds; handshakes that overlap;
limits and uniqueness tested long before they matter; lists patched by messages
that race with the list; scripts that change what the caller is iterating over; processes
that share files, a lock and a record of each other.

## 2. The modules

```
ChunkGeneration  <-implements-  WorldGenPool     BlockArray  <-implements-  PalettedStore
      ^ extends                                  Link        <-implements-  GnsTransport, Loopback
ChunkLifecycle

MC...               extends one component and instantiates others (section 4)
WorldGenPool_proofs, JoinHandshake_proofs, WorldReplication_proofs  extend  their component
Connected_, Server_, Client_, Copies_ and Play_proofs  extend  MCConnected, MCServerLiveness,
                    MCClient, MCCopies and MCPlay      (section 5)
```

Components that call each other are composed where the interaction is what can go
wrong: the lifecycle with the pool and the region store, the replicator with the client's
store and the lane between them, the two halves of the handshake, of input and
snapshots, of sign-in, of predicted edits. Elsewhere the other side is cut off at
what it may do at any time (`Verdict`, `Turn`, `SetPort`, ...).

### The server's world

**WorldGenPool** (`worldgen/worker_pool.cpp`). `queue`, `in_flight`, `completed`, `stop` are
the members of the same names.
Each worker has a program point: "ready" (about to take the mutex), "blocking"
(the predicate was false; it holds the mutex and is about to block), "waiting"
(on the condition variable, mutex released), "generating" (outside the mutex),
"exited". The owner, the tick thread, is "running", between the two halves of
submit ("notify"), or at one of the three steps of the destructor. A critical section is one
action, except where what a thread does between testing the predicate and blocking matters.
`SpuriousWakeup` is the standard's. **ChunkGeneration** is what the pool promises: queue, in
flight, completed.

**Structures** (`worldgen/structure_placement.cpp`, stamping in `worldgen`). `dice` are the
rolls of a seed that keep an anchor, `chunk` the chunk that was generated from them.
Every choice of two rolls is a world; any chunk may be generated first.

**ChunkLifecycle** (`world/chunk_lifecycle.cpp`, `region_store.cpp`, autosave in
`server/main.cpp`). `update()` is four actions, cut where it takes the pool's mutex, so that workers
(`Generate`) run between them: `BeginUpdate` (poll and ingest), `Request`
(view, disk loads, submissions), `IngestAgain`, `Unload`. Between updates the
same thread edits (`Edit`) and sweeps (`Autosave`); `Shutdown` is the last
sweep; `CrashWith`, `CrashInFlush` and `Restart` keep only `disk`. A chunk is
its revision and the number of accepted edits in its blocks; `Relit` bumps the
revision of any loaded chunks, as the light cascade may. `cache`, `dirty`
and `disk` are the region store. `accepted` and `swept` are history.

**PalettedStore** (`world/paletted_chunk_store.cpp`, the codec's palette). `palette`, `bits`,
`data` as in the code; the packed words are a function from cells to numbers below
2^bits. **BlockArray** is the array of blocks it is to look like.

**Lighting** (`world/lighting.*`). Real cells and real chunks, only smaller. `RelightChunk` has the
seeds and floods of `LightEngine::relight_chunk` in closed form (the least light that meets
every rule); `RelightColumn` is `relight_column` with its cascade downwards and its deferred pushes.
`Insert`, `Relight`, `Edit` and `Evict` are when the server calls them.

**WorldReplication** (`net/world_replicator.cpp`, `world/client_chunk_store.cpp`).
Per player: `view` (what the box around it covers now), `ticked` (what it covered
at the last tick), the two books `last_sent` and `last_sent_revision`, the
reliable lane to it and `mirror`: for each chunk the set of changes its blocks and light
have, so that a delta applied to a chunk with an earlier change missing shows. `Tick` visits each
player (`Stream`) within one step; `Edit` is `apply_block_edit` with what its hooks change first,
its relit neighbours and its fan-out; `SetBlock` is a script that changes a block and tells nobody;
`Deliver` is the client. `overtaken` is history: the chunks of which an edit booked a revision as sent
to a player who had not been sent what the edit was made on.

### Players

**JoinHandshake** (`net/session.cpp`, `net/handshake.cpp`).
A connection is an element of `Conns`, used once. `srv` and `cli` are the two
handshake states; `inbox`, `net` and `out` the reliable queues, polled, under way, and towards
the client; `name` the name `resolve_name` gave; `left` and `need` the asset chunks still to
stream and still to come; `roster` the client's list. The server's tick is `Poll`, one
`HandleOne` per frame, then the sweep of `system_handshake_timeouts`: one
`SweepOne` per peer (verdict, stream, timeout), then `EndTick`, which finishes the
verified peers and kicks duplicates. Logins are
external (a verdict at once or later, positive, negative, unavailable).
`Strays` are clients that send one Ready out of turn. Ages are not counted:
any visit of the sweep may be the late one.

**PlayerSync** (`net/session.cpp`, `replication/interest.hpp`).
One player in game. `inputs` and `snapshots` are the two unreliable lanes; either
may lose or reorder. `PushInput` is a frame of the client: predict, keep, cap the history, send
all of it. A position is not a vector but its own explanation: where the player was
put, then the inputs that moved it; so an input that counts twice or is left out
shows. A batch and the client's history are sets of numbers, whose order is that of the numbers. Whether
an input moves the player is free on either side (the client's freeze on missing
ground, the server's vetoes).

**BlockView** (`net/session.cpp`, `net/block_damage_tracker.cpp`). One chunk as one player sees
it: `block`, `rev` and `counts` of the server, the world lane with adds, deltas, results and
removes, the damage lane beside it, `mirror`, `pending` and `cracks` of the client with the
tracker's revisions. `said` and `predicted` are history: the server's last word on each position,
and where the client has predicted since. `ways` are the ways in which this chunk changes
(edits, punches, scripts, a view that is left), fixed at the start; the run takes two settings of them.

**SignIn** (`auth/coordinator.cpp`, `auth/service.cpp`, reauthentication in `session.cpp`).
The provider may fail and change its keys; a worker fetches them; the session asks, waits for the answer under
a grace period and verifies a ticket; the coordinator starts silent, browser and password
tasks, retries and is cancelled. Every step of every one of these actors interleaves. The ticket of a
connection that was kicked is never polled again.

**Gameplay** (`net/session.cpp`, `world/item_drops.cpp`, block damage). One tick is its systems in
their order, player by player, with scripts called from most of them (`Script`), then the host
loop that hands joins, changed logins and leaves to the pack. `minted` is history.

**ScriptHost** (`script/pack_runtime.cpp`). The C++ call stack is the variable `frames`: what a
function holds on to while a script runs is in its frame. Scripts may spawn, hurt, remove, set
timers and handlers at any depth (`Binding`, up to `MaxCalls` per tick).

### Between client and server

**Link** is what `transport.hpp` promises, in terms of what was sent at one end (`sent`) and handed out at
the other (`got`); **GnsTransport** and **Loopback** are proved to implement it. In the first the library
(external: `lib`, `callbacks`, `wire`) works between any two steps, for endpoints in one process or in several (`Together`).
`poll()` is `RunCallbacks`, for all transports of the process, then `Receive` per message, then `Polled`;
the library's thread works on within it.
In the second what a link was closed for stays in its queues. `Prompt` is the part of the promise that only
the second keeps: the word that a connection is there comes before its messages.

**AssetCache** (`assetsync/cache.cpp`). `disk`, `saved` (index.bin), `index`, `pending`,
`vfs` over many connections; the client may be killed in the middle of a commit.

### The client and the tools

**ClientShell** and **PlayingFrame** (`client/client_app.cpp`, `script/ui_runtime.cpp`): the
states from menu to game with the pointer into one of two sessions; and, in the game, one frame with
the order in which HUD, layout and screen run scripts, and who has the mouse and the button.

**ChunkMeshing** (`world/client_chunk_store.cpp`, `render/chunk_renderer.cpp`,
`world/chunk_mesh_worker_pool.cpp`): two dimensions; a chunk shows one of two versions of its
blocks to each chunk around it; a mesh is what its job saw; `ChunkRenderer::sync` is two actions, between which workers run.

**Automation** (`automation/host.cpp`, `client/automation_endpoint.cpp`): the reader thread, the
queue, `pump()` with what it copies under the lock, waits, steps and frames. Waits and tasks are
sets, because nothing depends on their order; steps are a queue, because only its first counts a frame.
`answers`, `swallowed` and `frames` are history.

**VersionStore** and **ServerInstance** (`cli/*`): processes that run a command step by step, each step
one access to the file system, and may die between any two. Shared are the release
directories, downloads and the lock; the run record, the stop file, the start lock and the server
processes by pid (`Die` and `WatcherDies` take the lock along and leave the servers). `lost` is history: the
servers that were left running without their record.

**StructureEditor** (`editor/model`, `editor/app/editor_app.cpp`): every tool as an action on a
document of variants, the undo stack as in `commands.hpp`, the dialog about unsaved changes.
`trail` is history: the documents along the undo stack.

## 3. Disagreements

The models contain what the code does; where that is not what its own comments or
documents say, the properties are stated so as not to claim the opposite.

### Shown by a run

* **LifecycleOverwrite** - a chunk that leaves and re-enters the view while it is
  generated is submitted a second time; the copy that comes first is loaded and edited, and the one that comes
  after it overwrites the edit (`chunk_lifecycle.cpp:194`). A chunk that was loaded from the store the second
  time fares the same, and so does a pool on the spot with an ingest budget smaller than a
  view. `OnlyLateChunksLoseEdits` proves that there is no other cause.
* **ReplicationPacedEdit** - an edit of a chunk deferred by the send budget
  keeps it from being sent at all (`world_replicator.cpp:266`). The same line overtakes whatever
  else a player was not sent: what a script set with `vb.world.set_block` since the last tick
  (`pack_runtime.cpp:1814-1822`, a revision without a delta), what the hooks of the edit itself set
  (`world_replicator.cpp:233-242`), and the chunk that the view of the editor has just gained.
  The player then stays behind until the chunk is sent whole for another
  reason. `MirrorsStayTrue` proves that there is no other way for a mirror and its book to come apart.
* **JoinMutualKick** - two logins verified in one sweep kick each other (`session.cpp:1111`).
* **EditorUnsaved** - once the saved point is in the dropped redo history, undoing
  everything shows the document as clean (`commands.hpp:116`).
* **LightPushBack** - light that was pushed over a border may come back over it by another way, and
  is not pushed back (`lighting.hpp:178`).

### Found with the models, with no run of their own

Definitions marked "False" in the modules are these; TLC finds the behaviour when asked.

World and light
* The destructor of either pool stores `stop_` without the mutex, so
  its notification can be lost and `join` wait forever (`worker_pool.cpp:25`,
  `chunk_mesh_worker_pool.cpp:30-38`; `DestructorReturns`).
* A flush truncates the region file before it writes (`region_store.cpp:212`); a
  crash in between loses chunks an earlier sweep had saved, which the durability backstop
  of `server/main.cpp:675-680` is meant to keep. `EditsSurvive` leaves out the
  file that was torn.
* The light cascade bumps the revision of chunks nobody edited, so they are persisted:
  `region_store.hpp:28` says "Only *edited* chunks are ever persisted".
* Sealing an opening near a border can leave light without a source beyond it; an edit in a corner is
  not carried to the diagonal chunk; where a neighbour at the edited height is not loaded, the
  loaded one below it gets no push; eviction relights nothing. `NoSeam` claims only that
  light goes on across borders, never that there is not too much.
* `vb.world.set_block` sets a block with no relight (`pack_runtime.cpp:1814-1822`).
* `PalettedChunkStore::compact` is called by tests only.

Replication and meshes
* `apply_block_edit` sends the editor the deltas of chunks relit beside its edit
  also if it does not hold them (`world_replicator.cpp:271-276`), where the comment
  above says deltas go "only to the players who actually mirror that specific
  chunk" (252-253). The client rejects them, and the book says that it has the chunk.
* Meshes are compared by revision alone (`chunk_renderer.cpp:419`), and the client counts revisions up by itself,
  for its predictions and for what comes of the chunks around: a chunk that then comes anew, with a revision
  the client had had of it, keeps the old mesh until something else bumps it (`again`). So it goes after a script's
  `set_block` beside a chunk that is edited. `edit_block` bumps only chunks across a
  face, where `client_chunk_store.cpp:12-18` explains why all 26 are needed for ambient
  occlusion; a rejected edit then stays in the shading (`expected`).

Players
* The player limit is tested when the login arrives (`handshake.cpp:244`) and the
  player counts only when the handshake ends: overlapping logins exceed it.
* A file edited on the server between manifest and transfer makes the server fail
  the handshake with "misbehavior or corruption" of the client
  (`handshake.cpp:136-141`). `HonestNeverRejected` leaves this failure out.
* `docs/protocol.md:387` calls the snapshot lane "seq-gated" and `docs/replication.md:11-12` says
  spawns and despawns are "re-sent until acked". The client applies snapshots in whatever order they
  come and the server never hears of their arrival: an entity
  whose removal was in a lost snapshot stays on the client, and a late snapshot
  sets things back until the next one. `VisibleIsShown` is therefore stated one way.
* A delta anywhere in a chunk forgets all edits pending in it, so a rejection rolls nothing back
  (`MirrorSettles`); a chunk that is sent anew forgets none, and a rejection that comes after it puts the
  block of before the edit into the new chunk (`session.cpp:2086`); it also takes the cracks away, of a block that is
  still damaged; the counts of punches are kept for the next block when an edit or a script takes the block
  (`CountIsOfTheBlock`, `session.hpp:709-712` says otherwise); a held block keeps its damage when it
  is replaced. `push_block_edit` is called by tests only.
* A player_death handler that heals to 0 leaves a player at 0 without a cause
  (`DeathHasCause`); the exit of a region is not told when a player leaves the game.
* `item_drops.hpp:92` says "nearest player wins"; the first in range does.
* `max_stack = 0`, which `register_block` accepts (`script/block_def.cpp:32`), makes `give_item`
  loop for ever (`pack_runtime.cpp:2311`).

Scripts
* A timer set while a timer fires, or a `vb.on` from a handler, invalidates what the dispatcher
  holds (`NothingDangles`; `pack_runtime.cpp:2177-2205`).
* `self:remove()` within its own on_death calls on_death again, without end, where the runtime's
  comment allows a handler to remove itself (2089-2092). `ScriptsCallTheLiving` covers it: nobody is called then
  that is not there, but the call does not end. The run of `RoundsEnd` has `DyingToo = FALSE`.
* A callback within a callback starts the instruction budget anew; `vm.hpp:27` gives it per pack callback.

Network and sign-in
* The library gets on between the callbacks and the messages of one `poll()`, so that over the network a message may come
  before the "connected" of its connection; the session drops it (`session.cpp:869-873`). `LinksHold` claims the
  order only of the other transport (`Prompt`). A message refused by a full send buffer is not sent and
  nobody is told (`gns_transport.cpp:413-422`): the stream goes on in order, without it.
* A browser sign-in that fails ends the silent retries too (`KeepsRetrying`, `docs/auth.md:111-112`).
* A token may be refused for a key that came between look-up and wait (`KnownKeyNotRefused`,
  `service.cpp:99`).
* `commit_file` enters a file in the index before it is flushed, never looks whether writing succeeded,
  and `read_cached_file` does not hash (`cache.cpp:165`): a file of which only a part got to the disk is listed and read
  from then on. `PackIsWhole` excepts such files (`harmed`) until they are fetched anew.

Client, automation, editor, command line
* The click that closed a screen is kept from the button but not from the keybind of the same button
  (`NoPunchAtAll`; `client_app.cpp:882`, `docs/lua-api.md:649`).
* Closing a screen from its close handler, or from the HUD, sends the server two ends, or one of
  "hud" (`ui_runtime.cpp:565`; the end "amiss" of `opened`, of which `ScreensHold` asks only that the server hears of it).
* After a kick the client stays in the game; there is no way from the game to the menu; an asset download
  longer than the deadline counts as no answer.
* "Replies owed to a client that left are dropped" (`docs/automation-protocol.md:173`): they go to
  whoever attached since; half a line of the first becomes the beginning of the second's. `quit` leaves what is pending unanswered.
* Saving a structure truncates the file in place; Discard and then an open that fails leave an edited document
  that counts as saved.
* Uninstalling the default release removes the whole `cli.toml` with its `source`
  (`store.cpp:244`, `268`).
* `instance.cpp:466` "never leave a server we can't stop again": a command that dies between spawn (461) and record (465)
  does. Its lock is free then, and the next start makes a second server. `OneServer` therefore does not count the servers
  in `lost`. A start reads the record back and dereferences it (471), also if another command swept it meanwhile.
* A command that dies within `remove_all` (`installer.cpp:220`, `260`) leaves half a release, which is listed.
  `NeverHalfWritten` allows that where a release is replaced or removed, and only there.

## 4. What is checked

Seven runs pass and five end in a violation (section 3). A passing run puts
several components that have no state in common side by side: the variable `which` says, from the
start, whose steps are taken, and the others stay in their initial state. Such a module extends one of the
components, whose constants its `.cfg` gives and whose properties keep their names; the others
are instances with constants written in the module, and their properties appear under the
condition that they run. `RunFairness` is the fairness of the parts.

| run | parts and bounds | why enough |
|---|---|---|
| WorldGen | WorldGenPool: 2 workers, 3 coordinates | a coordinate for each worker and one queued; the theorems cover the rest |
| | Lighting: 4 chunks of 4 x 2 x 1, two landscapes, levels to 3, 2 edits | light crosses a border, falls down a shaft and comes to a second chunk; any batch and order of insertion |
| | Structures: chunks of side 2 around the origin, a house that turns and is mirrored with a post, or two posts | structures over several borders, overlapping, west and east of zero |
| ServerLiveness | ServerInstance: 2 processes, 2 commands, 3 servers, 2 ports; and a watch with 2 changes of the pack | two starts race and die; a restart while the watched server dies |
| | ChunkLifecycle: 2 chunks, pool of 1, budget of 1 and the clock, pipeline below 4 | one chunk queued, one in flight, one left over by the budget; every order of wants |
| | WorldReplication: 1 player, 2 chunks, one chunk a tick, a script that sets blocks in one of them, nobody edits | the second chunk is always deferred, and the first wants to be sent again |
| | JoinHandshake: 2 honest connections, limit 1, verdicts later, 1 asset chunk | each waits for the other's place, and for a verdict |
| | ScriptHost: 2 entities, 1 timer, 2 handlers, 2 calls a tick, 2 catch-up fires | a callback that kills what the loop is at, and one that is due again at once |
| Play | StructureEditor: size to 2, 2 variants, 2 edits with any undo, save, open | an edit after an undo, a variant gone under a command, a resize under another; the theorems cover the rest |
| | BlockView: 2 positions, 3 revisions, 1 edit; with punches of two players, or with scripts, punches and a view that is left | an edit pending under another's delta; damage of a block that is gone |
| | Gameplay: 2 players, 3 acts, 2 drops, stacks of 2 | two in reach of a drop; death with items; join and leave in a tick |
| Client | PalettedStore: 3 cells, 5 blocks | the width grows from 0 to 1, 2 and (with a stale entry) 4 bits |
| | PlayerSync: 3 inputs, history of 2, 1 other entity, lanes of 2 that lose and reorder | an input leaves the history unacknowledged; a batch or snapshot overtakes its predecessor |
| | SignIn: 3 nonces, 2 keys, 2 faults | a join and two requests, each possibly late; a key change in between |
| | ClientShell: 2 attempts, 2 chunks to wait for | an attempt after one that failed, of the other kind |
| | PlayingFrame: 3 screens, one undefined, 2 opens; close handlers, the HUD and layouts that open and close | a screen replaced by another, closed with the button down, or closed while it closes |
| | ChunkMeshing: 3 chunks (above each other and over a corner), budgets of 1, 2 changes | a neighbour that changes between submission and upload; a chunk that comes anew, at any revision |
| Copies | VersionStore: 2 processes, 2 releases, 2 commands, deaths | install against prune, uninstall or another install |
| | AssetCache: 2 packs that share a file, room for 2 of 3 files, 3 changes | a file evicted that the other pack needs; a kill in a commit |
| | WorldReplication: a player and an entity of a script that edit, 2 chunks that relight each other, any view, one chunk a tick, early edits, scripts and hooks in both chunks, 3 revisions, 3 frames under way | every way of being overtaken: deferred, set by a script, set by a hook, not sent yet; and the delta of a chunk beside an edit |
| Joining | JoinHandshake "pair": 2 connections, one straying, limit 1, 2 asset chunks at 1 a tick, a pack that changes, all verdicts at once or later | the stream spans two ticks; a frame out of turn at any moment |
| | JoinHandshake "three": 3 connections of two accounts, verified at once or later | a duplicate of a duplicate; a name taken by a third |
| Connected | ChunkLifecycle: 2 chunks of one region file, 3 revisions, crashes, torn files, files that do not open; pool on the spot | a region with a saved and an unsaved chunk; edit after save after edit |
| | GnsTransport: one connection (`Players`, `Server`), both ends in one process (`Together`), 2 messages (`MaxSent`), the library free within a poll; Loopback: 2 clients (`Guests`), 2 messages | a close against a message, a destruction against a callback, a message between a callback and its poll; in two processes less can happen at once, and the theorem covers both |
| | Automation: 2 harnesses, 2 requests, 2 frames | a request of one who left, and a wait beside a step |

Play is the largest run, with 2.9 million states. The five violations
are small instances of their own modules; `LifecycleOverwrite` needs a pool that takes time, so
Connected, which asks what else could lose an edit, uses `MaxInFlight = 0`: a submitted chunk is completed
at once. A run without deadlock check is one whose system may stop: edits,
commands and messages are bounded.

### Fairness

* Pool: weak fairness of every worker step and of the owner's step through
  submit and the destructor; strong fairness of `WorkerPublish`: workers compete for one mutex whose
  critical sections all end.
* Lifecycle: the tick loop goes on (weak fairness of update's steps) and workers are
  scheduled. Replication: the tick goes on, the reliable lane delivers.
* Join: weak fairness of the server's one thread, and strong fairness of the
  late visit of the sweep for each connection: one that stays in its
  handshake is visited again and again and its age grows with every visit.
  Nothing is assumed of clients: `HandshakeEnds` holds because of the timeout.
* Scripts: the interpreter goes on. Nothing is assumed of what scripts do;
  that a tick ends is due to the cap on a timer's fires and to the ids taken before the loop.
* Commands and watch: a process that runs goes on, a server that was asked to stop does.
* PlayerSync: weak fairness of the server's tick, and strong fairness of
  `Receive`: of snapshots sent again and again one gets through again and again.
  A lane that is silent forever is a connection that the transport closes.
* Automation: the loop, the reader thread and deadlines go on; nothing of the harness.
* Transport: each end is polled (strong fairness: the other end in the same process may be between
  the halves of its own poll), and the library tells of a close.
* Client: frames go on and deadlines pass; a sign-in is answered in some way. Meshes: frames and
  workers go on.

## 5. What is proved

A theorem holds for every value of the constants that meets the named assumptions: those of
the modules (`ASSUME ...Assumption`) and those of the MC modules (`ClientConstants`, `CopiesConstants`,
`PlayConstants`, `ConnectedConstants`), which TLC evaluates on
every run; WorldReplication, whose theorems have its assumption as a hypothesis, is evaluated
by Copies. They say that sets are finite where the code's are, that bounds are numbers, that model values
differ. The bounds TLC needs (`Max...`) are arbitrary numbers here. The invariants were checked by
TLC before they were proved.

A proof module extends a component, or the MC module that puts several side by side: then the theorem is
about `RunSpec`, the specification that the run checks, and names the property in the run's own words.

| module | component | theorem | statement |
|---|---|---|---|
| WorldGenPool_proofs | WorldGenPool | TypeCorrect, GeneratesOnce, SubmissionsAreSeen | `[]TypeOK`, `[]NoDoubleGeneration`, `[]NoMissedSubmission` |
| | | PoolWorksExactly | `[]WorkIsExact`: the last two, as WorldGen checks them |
| | | PoolImplementsGeneration | the pool implements ChunkGeneration |
| JoinHandshake_proofs | JoinHandshake | TypeCorrect, NamesAreUnique, OneSession | `[]TypeInv`, `[]UniqueNames`, `[]OneSessionPerAccount` |
| | | SessionsStayUnique | `[]SessionsAreUnique`: the last two, as Joining checks them |
| | | HonestAreNeverRejected | `[]HonestNeverRejected` |
| | | RostersAreTrue | `[]RosterIsTrue` |
| WorldReplication_proofs | WorldReplication | TypeCorrect | `[]TypeOK` |
| | | MirrorsStayTrue | `[]MirrorsAreTrue` |
| Connected_proofs | ChunkLifecycle | TypeCorrect | `[]TypeOK` |
| | | RequestsFollow | `[](RequestIsAlive /\ RequestedNotLoaded /\ OnlyWantedLoaded)` |
| | | CleanRegionsAreOnDisk | `[]CleanRegionIsOnDisk` |
| | | OnlyLateChunksLoseEdits | with a region store, `[]NothingLate => []EditsSurvive` |
| | Automation | RequestsStayExact | `[]RequestsAreExact` |
| | GnsTransport, Loopback | LinksAlwaysHold | `LinksHold`: both transports implement Link |
| | all of them | ConnectedTypes | `[]TypesOK` |
| Server_proofs | ServerInstance | TypeCorrect, ServersAreRecorded | `[]TypeOK`, `[]ServersInv` |
| | | OneServerAtATime | `[]OneServer` |
| | ScriptHost | ScriptsCallTheLiving | `CallsTheLiving`, a property of every step |
| | | NoEntityIsLeftBehind | `[]NoGhostEntity`: between ticks the runtime's entities are the session's, and no dead one is left |
| Client_proofs | PalettedStore | StoreFits | `[]TypeOK`: no block twice in the palette, no index past it, room for every index |
| | | StoreImplementsArray | the store implements BlockArray |
| | ClientShell | SessionsStayLive | `[]SessionsLive` |
| | PlayingFrame | ScreensAlwaysHold, CaptureIsAlwaysKept | `[]ScreensHold`; `CaptureIsKept`, a property of every step |
| | ChunkMeshing | MeshesStayCurrent | `[]MeshIsCurrent` |
| | SignIn | SignInAlwaysHolds | `[]SignInHolds` |
| | PlayerSync | InputsAlwaysCountOnce | `[]InputsCountOnce` |
| | all of them | TypesAreRight | `[]TypesOK` |
| Copies_proofs | VersionStore | TypeCorrect, OnlyVerifiedIsInstalled | `[]TypeOK`, `[]OnlyVerified` |
| | | NothingByHalves | `NeverHalfWritten`, a property of every step |
| | AssetCache | PackStaysWhole | `[]PackIsWhole` |
| | WorldReplication | MirrorsStayTrue | `[]MirrorsAreTrue`, as Copies checks it |
| | all of them | TypesAreRight | `[]TypesOK` |
| Play_proofs | StructureEditor | TypeCorrect, UndoStaysExact | `[]TypeOK`, `[]UndoIsExact` |
| | | CleanIsKept | while the saved point is valid, a document shown as clean is the one that was saved |
| | BlockView | ViewAlwaysSettles, ViewTypeCorrect | `[]ViewSettles`, its `[]TypeOK` |
| | Gameplay | LoginsAlwaysFollow | `[]LoginsFollow` |
| | | ItemsStayConserved | `[]ItemsConserved` |
| | | HoldersAreCredited | `CreditedToHolder`, a property of every step |
| | all of them | PlayTypesAreRight | `[]TypesOK` |

### The arguments

**WorldGenPool.** `IInv` adds to the three invariants `Exclusive` - the queue has no
repetition, is disjoint from `in_flight`, and `in_flight` is exactly what generating
workers hold, each by one; it needs both tests of submit and that a worker
moves its coordinate within one critical section - and `Awake`: while the owner is between
unlock and notify the queue may have no worker awake, but then somebody will be notified; and a
worker that is about to block holds the mutex and has seen an empty queue. The
refinement needs `RoomForOne`: a worker that is not generating
leaves `in_flight` smaller than the number of workers, because the generating
workers map onto `in_flight`.

**PalettedStore.** `TypeOK` is inductive: the palette grows past the width only in the step that widens it.
From it every operation maps to one of the array or to a stutter: widening, compaction and coding
keep the block of every cell because the palette names a block once.

**ChunkLifecycle.** Each part of `update()` has an effect lemma (`IngestEffect`, `RequestEffect`,
`SweepEffect`, ...) that says what it does to the parts of the state the invariants speak of; the folds
over coordinates are reduced to facts about single chunks there. `StreamInv` ties requests to the pool
and the backlog. `EditsInv` strengthens `EditsSurvive` by `LevelInv`, the cache is never
ahead of the world and is equal to it where the revisions are - what makes it right that
`save_if_dirty` compares revisions only - and `SweptWasAccepted`. In general `EditsSurvive`
is false (LifecycleOverwrite). The theorem says when: `NothingLate` is that no generated chunk is on
its way to coordinates that are loaded or saved; while it holds, nothing is lost,
whatever evictions, sweeps, failed opens, torn files and crashes do. The pool of both programs works in
other threads, so that nothing in the code ensures it.

**JoinHandshake.** Names: `FreshName` finds one because a finite set of connections cannot use all of one
more number (pigeonhole), and it looks at every connection, the unfinished ones included. One session: at the verdict,
both the older and the newer session of an account exist. `SuccessionInv` says that of two
admitted sessions of one account one gives way (`GivesWay`) to the other: the newer was
verified in this tick and will kick in `EndTick`; or it waits for a request of its client while the
disconnect of the older is under way, polled before that request, or handled before it. So the disconnect
is handled before the newer session can get past the asset exchange. That needs to know that the queues are handled in the order of
polling (`PhaseInv`), that a connection's first event is its "connected" (`FreshInv`), that a
client asks for assets only after it was verified (`ExchangeInv`; a stray's extra frame is a Ready), and that after the server's own close
only the disconnect is to come (`ClosingInv`). Handlers, visits of the sweep and client steps have effect lemmas
(`HandleEffect`, `VisitEffect`, `ActEffect`), so that the invariant is checked against effects, not against
each branch of each handler. Honest clients: `HonestInv` is a table (`InStep`) of the states that client and server can be in together
and, for each pair, of all that is on the wire up and down; with a connection that is gone or closed, it says
what is still to be handled (`Winding`). A step of the connection itself moves along the table, one of the others
closes it at most, or sends something to a player in game (`Apart`), and the first blame stays (`WhySticks`).
Rosters: what a client will believe once its queue is read is, without recursion, what the last frame says that mentions the player
(`Knows`); `RosterInv` says that this is always who else is in game. It needs that a PlayerList always
comes right behind the JoinAccept (`Announced`), because what a client drops before it is in game is in front
of both, and that nobody else is sent roster frames.

**WorldReplication.** What a copy will be once its queue is read is stated without recursion, frame by frame
(`HeldAfter`: the last frame that settles it, and the deltas behind), and the lemmas `HeldNext`, `HeldTail` and
`AppliedChunk` say that this is what `Applied` makes of it, one frame after the other, read from either
end. `Lanes` says that after every frame under way each copy is absent, whole, or has a gap that an overtaking
edit left; that a delta of any other edit finds its copy; and what the copy is in the end (`Ending`): at the revision
in the books, or, if it was overtaken, nothing or one with a gap. `Books` ties what was sent to what was
loaded and in view at the last tick. A tick or an edit puts at most one frame of a kind about a chunk
into a lane (`OneEach`), so both preserve `Lanes` chunk by chunk (`LaneGrows`). The theorem has no condition on budget,
views, scripts, hooks or the reach of light: an edit that overtakes what somebody was not sent marks that chunk in
`overtaken` for that player alone, and a chunk sent whole, or removed, takes the mark away.

**Automation.** `PlaceInv`: what was sent is in one of eight places, and there once; the queues are told by what
taking the first (`Taking`) or adding a last (`Adding`) does to what is in them. `FrameInv` is the book of
the manual clock: for each step that is owed, the frames that were run are those it asked for less those that
remain, and nothing else was given a frame; it needs that only steps are in `steps` (`KindInv`) and
that no request is in two places. `EndInv` is why the end of input comes last: `eof` is only
set when the harness is gone and nothing is on the wire, and `pump()` has copied it together with the queue.

**ServerInstance.** What tells a command whether a server runs is a file that other commands remove. `LockInv`: who plans, spawns or
records a server holds the start lock since before it looked at the record. `Recorded`: a live server is in the
record, or about to be written there by that command, or in `lost`: its record was swept or could not be written, or the
command died between spawn and record (`Die`, `WatcherDies`). `NoOther`: past its look, a start
has no live server beside its own but those in `lost`. So at every moment at most one server is not among them.

**ScriptHost.** `CallInv`: of the functions on the C++ stack the loops of a tick are at the bottom
(`Ordered`), so that whatever a script does happens above them, and, unless handlers remove the dying (`DyingToo`), nobody is
being hit while its own despawn is below on the stack; an id is given once (`IdsInv`); and an entity that was told its death and is
still there is one whose `despawn` is on the stack (`DeathInv`). So whoever a step calls was looked up after everything that
could have removed or buried it. `BooksInv`, that the session and the runtime come to know of an entity and forget it together,
gives the one half of `NoGhostEntity`, `DeathInv` with an empty stack the other. Both values of `DyingToo` are proved.

**PlayingFrame, ClientShell.** `ShellInv` says which of the two kinds of session an attempt has (`OneKind`), that the pointer
is to the one of this attempt or null (`PointsHere`), and which states of the application need it. `ScreenInv`: the screen
that is open is the last that was opened and the others have ended (`LastIsOpen`); the server was told of just as many, and of the
ends of those that ended (`ToldOfEach`): once and by the screen itself, but for one that was closed again by its own close
handler or from the HUD ("amiss"), of which it is told at least once; a wish to capture waits, and never while the mouse is
captured; and a button that was pressed on a screen is held back until it is up. The last two give
`CaptureIsKept`, step by step.

**ChunkMeshing.** `MeshInv`: the revision of a loaded chunk is the highest it has ever had, unless it came anew at one the
client had had of it (`RevisionsGrow`, `again`), and a mesh, wherever it is on its way to the screen, of the
revision that the chunk has now shows what is there now, unless that is so or an edit the server
has sent nothing of since is near (`MeshesFit`). What a change of the store has to do for that is `Honest`: a new revision, or
nothing that a mesh shows. A chunk leaves `again` with the next revision that is higher than all before.

**PlayerSync.** `PathsRise`: the inputs that explain a position are in rising order, on both sides, so none moves a player twice.
`LanesFit`: an input that a batch or the client's history is without is one that the server has applied, or one so old that the
history had no place for it (`GoesWithout`), and a snapshot acknowledges no more than the server has seen. That holds however the
lanes lose or reorder.

**SignIn.** `AccountInv`: at most one message is on its way, and it is about what the server asked last, which is either on
its way to the client, or asked of the player, or answered, or verified (`OneAtATime`); what a task works at and the
token it makes are for that question (`WorkFits`, `Answers`); trust is asked for once, before anything else happens
(`TrustComesFirst`).

**BlockView.** The code compares revisions; the proof has generations of the block at each position (`gen`) and of its count of
punches (`countGen`), and shows that revisions do the work of generations. `OnTime`: nothing under way is of a revision to come. `WordInv`: where
the client has not predicted it shows what it was last told. `CrackInv`, where all changes are told as they are made: every change
is told, in order (`ToldOfChanges`); an update on the damage lane is older than a change on the world lane exactly if it is of an earlier block
(`UpdatesFit`); and the last update of a position is under way, or is what the client shows (`ToldOfCounts`).

**Gameplay, logins.** `LoginInv`: a player joins once and leaves once, and what the scripts are still to be told of it comes in that
order: no change of a login before its join, no leave before either. So the scripts' logins are those who are here and not
in `joins`, where a player that has left is here until its leave is told.

**Gameplay, items and holds.** Sums are a recursive function (`Sums`), and what it computes is proved by induction without the
library's induction theorems, whose parameter is an operator: among the numbers for which a claim is false there is no
least (`Inductive`, with the claim as a set). `SumsAre` says that the function exists and is what it says, `SumChanged` and
`SumsAdd` how sums change, `StackedAdds` and `TakenTakes` that `give_item` and `take` move as many items as they
were told and leave stacks between 1 and `MaxStack`; `CreditsCount` is the same induction over the drops that are picked up in a tick.
`ItemsInv` needs beyond the balance only the types of drops and stacks, and that no drop has an id that is still to be given.
`HoldInv`: holders are in the game and are there once, which is why taking out the first entry (`Holders`) takes out all, and
full damage is never left standing, which is why healing alone credits nobody.

**AssetCache.** `AssetsHold`: the index on disk is the one in memory, and lists no more files than fit and none that is torn but those in `harmed`; a path of the pack shows
the file that the manifest names for it once that has come, whole unless it is in `harmed`, and nothing
before (`Shows`). `MirrorsStayTrue` of Copies is the theorem of WorldReplication_proofs, instantiated.

**GnsTransport, Loopback.** The abstract specification has two variables, the detailed ones keep them, so that
each step must be shown to hand out what `Fits`. `GnsInv`: owners and owned connections agree (`Registered`); what
waits for a poll can follow what was handed out (`PendingFits`); the library's state of a connection, its callbacks that wait and
what was told so far add up (`LibFits`);
what was sent has arrived or is on its way, on a reliable stream in order (`Travels`); and what was handed out
fits what the other end sent (`GnsFits`). None of it depends on when the library works. `LoopInv`: what an end was handed and what is
in its queue together fit what the other end sent.

**StructureEditor.** `TrailInv` has the documents along the undo stack: applying command i to document i gives
document i+1, and reverting it gives i back. Per kind of command that is an exactness lemma (`CellsExact`,
`VolumesExact`, ...), and what pushing does to the two sequences is `CutAppend`. `ShownInv` keeps variant,
selection and anchor within the document under every undo. `SavedPointIsKept` gives `CleanIsKept`, with `savedValid`
as a hypothesis: without it the claim of the code is false (EditorUnsaved).

**VersionStore.** `Fits` says for each program point what a command holds: who installs or prunes has the lock
from its first to its last look at shared files, what it verified it still has, and only what was unpacked
from a verified archive is staged. Commands without the lock (uninstall, use) only ever remove or name.
`NothingByHalves` is an action property from the same invariant: a step that changes the
directory of a listed release makes it whole or makes it none.

## 6. What is only model-checked

* Liveness and whatever needs fairness or ENABLED, which the prover does not handle: `QueuedIsGenerated`,
  `WantedChunkIsLoaded`, `Converges`, `RoundsEnd`, `ChangesAreServed`, `PlayerConverges`,
  `ClientGetsThere`, `ThingsGetDone` (the ends of connections, `EndIsTold`, and `RequestsAreAnswered`).
* Properties of data that is made by one step of an algorithm after the other: `StructuresAgree` (placements stamped one
  over the other), `LightMeets` (the least light), and with them the `TypesOK` of WorldGen, of whose
  parts all are proved but those of Structures and Lighting. `Gameplay` shows how such an induction can be done
  all the same (section 5); here it is not.
* `EditsSurvive` with asynchronous generation but without late arrivals is proved, and not in a run of its own.

Definitions that no run and no theorem names (`NothingBeforeTrust` and those marked "False") are there for a reader to check; nothing is claimed of them
here but what section 3 says.

## 7. Abstractions, and what is not modelled

* A connection keeps its frames in order per stream. Polling a transport returns connects and disconnects
  before messages; the handshake lets connections interleave arbitrarily and keeps the order within each,
  which includes what the code does, but for a client whose first message is there in the very poll that
  accepts it: the session drops that (section 3), and the client waits until its handshake times out.
  Frames that were not polled when a connection closes are lost, as GnsTransport loses them.
* Positions carry no velocity or collision: a replayed input is the same input, not the
  same displacement.
* Handshake: no per-address caps, flood guards, version and automation flags, nor the
  number of attempts. Of what a client may send out of turn there is only a Ready.
* Store: a payload that fails to decode, and a full disk, are left out.
* PlayerSync: no interpolation, clock estimate, or movement of entities by scripts.
* Gameplay: hardness, tools and falling drops are numbers; a drop is in reach or not. Drops of one tick are credited in
  the order of their ids; the code takes them as its hash table has them, and what a player holds in all does not depend on it.
* ChunkLifecycle has no `set_block` of a script in a chunk
  that is not loaded, which would create it; WorldReplication does.
* ScriptHost: what a script does is any sequence of the bindings that touch entities, timers and handlers.
* Structures: noise, height and slope are part of the choice of rolls.
* VersionStore: signatures and archives are good or bad, not bytes. ServerInstance: a process is booting, up, stopped or
  crashed.
* StructureEditor: a volume is a row of cells; camera, picking, preview and file format are left out.
* Editor, client and packs: files on disk are whole, torn or absent.

Not modelled at all: protocol codecs and readers (pure), physics, noise, caves and ores (floating-point arithmetic),
drawing of chunks, entities and user interfaces, what a pack registers at load, the pack's
key-value store, tokens and cryptography, archives, argument parsing, services of the operating system, settings, recording. These are most of the
program's lines, and the reason why the map covers the smaller part of them: there is no state in them that two actors share, or the
order of events does not matter to them.

## 8. Plan

1. How long a chunk stays in `overtaken`, given who sets blocks and how often.
2. `StructuresAgree` and `LightMeets` by the induction that Gameplay's sums are proved with.
3. The key-value store of packs and registration of packs, as far as they keep state over reloads.
4. Rate limits and per-address caps of the handshake.
