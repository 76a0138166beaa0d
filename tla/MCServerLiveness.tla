--------------------------- MODULE MCServerLiveness ---------------------------
(* What must go on around a running server, for TLC: the commands that start,      *)
(* stop and watch it (ServerInstance, in two settings), the chunks it streams       *)
(* (ChunkLifecycle) and sends under a budget (WorldReplication), the handshakes of  *)
(* two clients (JoinHandshake), its scripts and what they call (ScriptHost).  They  *)
(* have no state in common here, so one run checks them side by side: `which` says, *)
(* from the start, which of them runs; the others stay as they are.                 *)
EXTENDS ServerInstance

CONSTANTS
  p1, c1, c2, v1, k, t, Absent, NoChunk,
  CatchUp, Health, DyingToo, MaxIds, MaxTimers, MaxHandlers, MaxCalls   \* of the scripts

VARIABLES
  which,
  queue, in_flight, completed, backlog, requested, world, wanted, step, progressed, cache, dirty,
  disk, accepted, swept,
  loaded, rev, playing, view, ticked, last_sent, last_sent_revision, overtaken, lane, mirror,
  phase, inbox, net, out, open, peers, signed, name, left, visited, verified, dropping, cli, need,
  roster, strayed, why,
  entities, script_entities, next_script_entity_id_, timers, handlers, frames, calls, buried,
  broken

\* Two chunks of one region file, a worker, a chunk per pass and a clock that may cut it short.
Coords == {c1, c2}
AnyView == SUBSET Coords
OneRegion == [c \in Coords |-> c1]
Stream == INSTANCE ChunkLifecycle
  WITH MaxInFlight <- 1, Views <- AnyView, RegionOf <- OneRegion, IngestBudget <- 1,
       IngestBatch <- 1, TimeBudget <- TRUE, Persist <- TRUE, Faults <- {}, MaxRev <- 1,
       MaxPipeline <- 4
\* One chunk per tick to a player that looks around; scripts change blocks, and nobody edits.
Paced == INSTANCE WorldReplication
  WITH Players <- {p1}, Views <- AnyView, SendBudget <- 1, EarlyEdits <- FALSE, Editors <- {},
       Scripted <- {c1}, Neighbours <- [c \in Coords |-> Coords \ {c}], MaxRev <- 2, MaxChannel <- 3
Pack == INSTANCE ScriptHost
\* Connections are small numbers: of two neighbours, each is of an account of its own.
ParityAccount(c) == c % 2

\* Two players for one place, who sign in and are verified or refused later.
Handshakes == INSTANCE JoinHandshake
  WITH Conns <- {1, 2}, Strays <- {}, Account <- ParityAccount, MaxPlayers <- 1,
       Outcomes <- {"verified", "refused"}, VerdictTimes <- {"later"}, MaxChunks <- 1,
       AssetBudget <- 1, PackChanges <- FALSE, srv <- peers,
       swept <- visited
\* The constants are of two processes with two commands; here are two changes of the pack under
\* a watch, and no other command.
Host == INSTANCE ServerInstance WITH Vbs <- {v1}, MaxEdits <- 2, MaxCommands <- 0

streamVars == <<queue, in_flight, completed, backlog, requested, world, wanted, step, progressed,
                cache, dirty, disk, accepted, swept>>
pacedVars == <<loaded, rev, playing, view, ticked, last_sent, last_sent_revision, overtaken,
               lane, mirror>>
joinVars == <<phase, inbox, net, out, open, peers, signed, name, left, visited, verified, dropping,
              cli, need, roster, strayed, why>>
packVars == <<entities, script_entities, next_script_entity_id_, timers, handlers, frames, calls,
              buried, broken>>
allVars == <<which, vars, streamVars, pacedVars, joinVars, packVars>>

RunInit ==
  /\ which \in {"commands", "host", "stream", "paced", "join", "pack"}
  /\ IF which = "host" THEN Host!Init ELSE Init
  /\ Stream!Init /\ Paced!Init /\ Handshakes!Init /\ Pack!Init

Only(part, action) ==
  /\ which = part /\ action
  /\ part \notin {"commands", "host"} => UNCHANGED vars
  /\ part # "stream" => UNCHANGED streamVars
  /\ part # "paced" => UNCHANGED pacedVars
  /\ part # "join" => UNCHANGED joinVars
  /\ part # "pack" => UNCHANGED packVars

RunNext ==
  /\ UNCHANGED which
  /\ \/ Only("commands", Next)
     \/ Only("host", Host!Next)
     \/ Only("stream", Stream!Next)
     \/ Only("paced", Paced!Next)
     \/ Only("join", Handshakes!Next)
     \/ Only("pack", Pack!Next)

\* Each part's own fairness.
RunFairness ==
  /\ \A h \in {v1, k, t} : WF_vars(which = "host" /\ cmd[h].op # "none" /\ Host!Step(h))
  /\ \A s \in 1..3 : /\ WF_vars(which = "host" /\ Host!Serve(s))
                     /\ WF_vars(which = "host" /\ Host!Obey(s))
  /\ WF_vars(which = "host" /\ Host!KeeperStep)
  /\ WF_streamVars(which = "stream" /\ Stream!Update)
  /\ WF_streamVars(which = "stream" /\ Stream!Generate
                   /\ UNCHANGED <<backlog, requested, world, wanted, step, progressed, cache,
                                  dirty, disk, accepted, swept>>)
  /\ WF_pacedVars(which = "paced" /\ Paced!TickStep)
  /\ WF_pacedVars(which = "paced" /\ Paced!Deliver(p1))
  /\ WF_joinVars(which = "join" /\ Handshakes!ServerStep)
  /\ \A c \in {1, 2} : SF_joinVars(which = "join" /\ Handshakes!SweepOne(c, TRUE))
  /\ WF_packVars(which = "pack" /\ Pack!Step)

RunSpec == RunInit /\ [][RunNext]_allVars /\ RunFairness

-----------------------------------------------------------------------------
\* A chunk that stays wanted gets loaded and stays so: update()'s budgets delay it, nothing
\* starves it (ChunkLifecycle).
WantedChunkIsLoaded == which = "stream" => Stream!WantedIsLoaded

\* With a send budget, a stable view is filled and kept up to date (WorldReplicator::tick).
Converges == which = "paced" => Paced!Converges

\* A tick of the scripts comes to its end, whatever timers and entities they make (PackRuntime),
\* and a handshake at the server, whatever the client does (system_handshake_timeouts).
RoundsEnd == /\ (which = "pack" => Pack!TickEnds)
             /\ (which = "join" => Handshakes!HandshakeEnds)

\* However callbacks nest, a script is called only for an entity that is there and not told
\* its death (PackRuntime::dispatch_entity_tick, despawn_entity).
CallsTheLiving == Pack!CallsTheLiving

\* Every change of the pack is served in the end (host_watch, ServerInstance).
ChangesAreServed == which = "host" => Host!WatchFollows
=============================================================================
