--------------------------- MODULE ServerInstance ---------------------------
(* One server instance of `vb` and the commands that start, stop and look at *)
(* it (src/src/cli/instance.cpp and its commands), with `vb host --watch`,   *)
(* which restarts the server when its content pack changes.  What tells a    *)
(* command whether the server runs is the record run/server.pid; starts are  *)
(* serialised by run/start.lock, and nothing else is.                        *)
EXTENDS Naturals, FiniteSets

CONSTANTS
  Vbs,          \* processes running a vb command
  Keeper,       \* the main thread of `vb host --watch` ...
  Thread,       \* ... and the thread in which it starts the server
  None,
  Ports,
  MaxPids,      \* bound: servers spawned in a behaviour
  MaxEdits,     \* bound: changes of the pack
  MaxCommands   \* bound: commands begun by Vbs

ASSUME ServerProcsDiffer == Keeper # Thread /\ {Keeper, Thread} \cap Vbs = {}
ASSUME ServerNone == None \notin Vbs \union {Keeper, Thread} \union Ports
ASSUME ServerBounds == Ports # {} /\ MaxPids \in Nat /\ MaxEdits \in Nat /\ MaxCommands \in Nat

VARIABLES
  srv,       \* server processes, by pid
  rec,       \* run/server.pid: the pid it names, 0 if there is none
  stopFile,  \* run/stop
  lock,      \* who holds run/start.lock
  port,      \* the port of server.toml
  pack,      \* revision of the content pack
  cmd,       \* what each process does
  watch,     \* vb host --watch
  begun,     \* commands begun by Vbs
  lost       \* history: the servers that were left running without their record

vars == <<srv, rec, stopFile, lock, port, pack, cmd, watch, begun, lost>>

Procs == Vbs \union {Keeper, Thread}
Pids == 1..MaxPids
Live == {s \in Pids : srv[s].st \in {"boot", "up"}}
Gone(s) == s \notin Live
Unborn == [st |-> "unborn", port |-> None, pack |-> 0, term |-> FALSE]
Rest == [op |-> "none", pc |-> "idle", port |-> None, pid |-> 0, kill |-> FALSE]

\* Values have their types.
TypeOK ==
  /\ srv \in [Pids -> [st: {"unborn", "boot", "up", "stopped", "crashed"},
                       port: Ports \union {None}, pack: 0..MaxEdits, term: BOOLEAN]]
  /\ rec \in {0} \union Pids
  /\ stopFile \in BOOLEAN /\ lost \in SUBSET Pids
  /\ lock \in Procs \union {None}
  /\ port \in Ports
  /\ pack \in 0..MaxEdits
  /\ cmd \in [Procs -> [op: {"none", "start", "host", "stop", "restart", "status"},
                        pc: {"idle", "lock", "look", "sweep", "plan", "spawn", "record",
                             "reread", "settle", "attached", "ask", "wait", "clean"},
                        port: Ports \union {None}, pid: {0} \union Pids, kill: BOOLEAN]]
  /\ watch \in [pc: {"off", "poll", "quiet", "await", "stop", "join", "ended"},
                snap: 0..MaxEdits, patient: BOOLEAN, exit: {"none", "failed", "stopped", "crashed"}]
  /\ begun \in 0..MaxCommands

Init ==
  /\ srv = [s \in Pids |-> Unborn]
  /\ rec = 0 /\ stopFile = FALSE /\ lock = None
  /\ port = CHOOSE p \in Ports : TRUE
  /\ pack = 0
  /\ cmd = [h \in Procs |-> Rest]
  /\ watch = [pc |-> "off", snap |-> 0, patient |-> FALSE, exit |-> "none"]
  /\ begun = 0
  /\ lost = {}

-----------------------------------------------------------------------------
Goto(h, pc) == cmd' = [cmd EXCEPT ![h].pc = pc]

\* The lock goes with the command's process or with the end of its scope.
Unlock(h) == lock' = IF lock = h THEN None ELSE lock

\* start_instance returns; the watcher's thread leaves its result.
Return(h, how) ==
  /\ cmd' = [cmd EXCEPT ![h] = Rest]
  /\ Unlock(h)
  /\ watch' = IF h = Thread THEN [watch EXCEPT !.exit = how]
              ELSE IF h = Keeper THEN [watch EXCEPT !.pc = "join"] ELSE watch

\* server_start, cmd_host, server_stop, server_restart, server_status: a command is given.
Command(h) ==
  /\ begun < MaxCommands /\ begun' = begun + 1
  /\ cmd[h] = Rest
  /\ \/ \E op \in {"start", "host"}, p \in Ports \union {None} :
          /\ op = "start" => p = None
          /\ cmd' = [cmd EXCEPT ![h] = [Rest EXCEPT !.op = op, !.port = p, !.pc = "lock"]]
     \/ \E op \in {"stop", "restart"}, k \in BOOLEAN :
          cmd' = [cmd EXCEPT ![h] = [Rest EXCEPT !.op = op, !.kill = k, !.pc = "look"]]
     \/ cmd' = [cmd EXCEPT ![h] = [Rest EXCEPT !.op = "status", !.pc = "look"]]
  /\ UNCHANGED <<srv, rec, stopFile, lock, port, pack, watch, lost>>

\* FileLock::acquire of run/start.lock, without waiting.
LockFree_unlocked == TRUE

LockFree == lock = None

StartLock(h) ==
  /\ cmd[h].pc = "lock"
  /\ \/ LockFree /\ lock' = h /\ Goto(h, "look") /\ UNCHANGED watch
     \/ ~LockFree /\ Return(h, "failed")
  /\ UNCHANGED <<srv, rec, stopFile, port, pack, begun, lost>>

\* running_record, first half: the record is read and its process looked for.
Look(h) ==
  /\ cmd[h].pc = "look"
  /\ \/ /\ rec # 0 /\ ~Gone(rec)
        /\ \/ cmd[h].op \in {"start", "host", "status"} /\ Return(h, "failed")
           \/ /\ cmd[h].op \in {"stop", "restart"}
              /\ cmd' = [cmd EXCEPT ![h].pid = rec, ![h].pc = "ask"]
              /\ UNCHANGED <<lock, watch>>
     \/ (rec = 0 \/ Gone(rec)) /\ Goto(h, "sweep") /\ UNCHANGED <<lock, watch>>
  /\ UNCHANGED <<srv, rec, stopFile, port, pack, begun, lost>>

\* remove_run_files: whatever they say by now.
RemoveRunFiles ==
  /\ rec' = 0 /\ stopFile' = FALSE
  /\ lost' = lost \union ({rec} \cap Live)

\* running_record, second half: a record that is stale, unreadable or missing is removed.
Sweep(h) ==
  /\ cmd[h].pc = "sweep"
  /\ RemoveRunFiles
  /\ CASE cmd[h].op \in {"start", "host"} -> Goto(h, "plan") /\ UNCHANGED <<lock, watch>>
       [] cmd[h].op = "restart" ->
            /\ cmd' = [cmd EXCEPT ![h] = [Rest EXCEPT !.op = "start", !.pc = "lock"]]
            /\ UNCHANGED <<lock, watch>>
       [] OTHER -> Return(h, "stopped")
  /\ UNCHANGED <<srv, port, pack, begun>>

PortOf(h) == IF cmd[h].port = None THEN port ELSE cmd[h].port
Bound(p) == \E s \in Live : srv[s].st = "up" /\ srv[s].port = p

\* plan_launch, the check of the UDP port, and the removal of a stale stop request.
Plan(h) ==
  /\ cmd[h].pc = "plan"
  /\ \/ /\ ~Bound(PortOf(h))
        /\ stopFile' = FALSE
        /\ cmd' = [cmd EXCEPT ![h].port = PortOf(h), ![h].pc = "spawn"]
        /\ UNCHANGED <<lock, watch>>
     \/ Bound(PortOf(h)) /\ Return(h, "failed") /\ UNCHANGED stopFile
  /\ UNCHANGED <<srv, rec, port, pack, begun, lost>>

\* The server process starts.
Spawn(h) ==
  /\ cmd[h].pc = "spawn"
  /\ \E s \in Pids :
       /\ srv[s] = Unborn /\ \A t \in 1..(s - 1) : srv[t] # Unborn
       /\ srv' = [srv EXCEPT ![s].st = "boot", ![s].port = cmd[h].port]
       /\ cmd' = [cmd EXCEPT ![h].pid = s, ![h].pc = "record"]
  /\ UNCHANGED <<rec, stopFile, lock, port, pack, watch, begun, lost>>

\* write_run_record; in the foreground the lock is released, for the record now answers.
Record(h) ==
  /\ cmd[h].pc = "record"
  /\ rec' = cmd[h].pid
  /\ \/ cmd[h].op = "host" /\ Unlock(h) /\ Goto(h, "attached")
     \/ cmd[h].op = "start" /\ Goto(h, "reread") /\ UNCHANGED lock
  /\ UNCHANGED <<srv, stopFile, port, pack, watch, begun, lost>>

\* The record cannot be written: a detached server is killed, one in the foreground is kept.
RecordFails(h) ==
  /\ cmd[h].pc = "record"
  /\ \/ /\ cmd[h].op = "host" /\ Unlock(h) /\ Goto(h, "attached")
        /\ lost' = lost \union ({cmd[h].pid} \cap Live) /\ UNCHANGED <<srv, watch>>
     \/ /\ cmd[h].op = "start" /\ Return(h, "failed") /\ UNCHANGED lost
        /\ srv' = [srv EXCEPT ![cmd[h].pid].st = IF Gone(cmd[h].pid) THEN @ ELSE "crashed"]
  /\ UNCHANGED <<rec, stopFile, port, pack, begun>>

\* start: the record is read back and dereferenced as it is.  If another command swept it
\* meanwhile, whatever lies there is taken for the server's pid (0 here), or vb crashes
\* (Die).
Reread(h) ==
  /\ cmd[h].pc = "reread"
  /\ cmd' = [cmd EXCEPT ![h].pid = rec, ![h].pc = "settle"]
  /\ UNCHANGED <<srv, rec, stopFile, lock, port, pack, watch, begun, lost>>

\* start: a second and a half later the server is gone or it is a success; of a pid that
\* is none, either.
Settle(h) ==
  /\ cmd[h].pc = "settle"
  /\ \/ Gone(cmd[h].pid) /\ Goto(h, "clean") /\ UNCHANGED <<lock, watch>>
     \/ (~Gone(cmd[h].pid) \/ cmd[h].pid = 0) /\ Return(h, "stopped")
  /\ UNCHANGED <<srv, rec, stopFile, port, pack, begun, lost>>

\* host: run_foreground returns when the server has ended.
ServerEnded(h) ==
  /\ cmd[h].pc = "attached" /\ Gone(cmd[h].pid)
  /\ Goto(h, "clean")
  /\ UNCHANGED <<srv, rec, stopFile, lock, port, pack, watch, begun, lost>>

\* remove_run_files after the server a command started or stopped is gone.
Clean(h) ==
  /\ cmd[h].pc = "clean"
  /\ RemoveRunFiles
  /\ IF cmd[h].op = "restart"
     THEN /\ cmd' = [cmd EXCEPT ![h] = [Rest EXCEPT !.op = "start", !.pc = "lock"]]
          /\ UNCHANGED <<lock, watch>>
     ELSE Return(h, IF cmd[h].op = "host" THEN srv[cmd[h].pid].st ELSE "failed")
  /\ UNCHANGED <<srv, port, pack, begun>>

\* stop_instance: the stop file and SIGTERM.
Ask(h) ==
  /\ cmd[h].pc = "ask"
  /\ stopFile' = TRUE
  /\ srv' = [srv EXCEPT ![cmd[h].pid].term = TRUE]
  /\ Goto(h, "wait")
  /\ UNCHANGED <<rec, lock, port, pack, watch, begun, lost>>

\* stop_instance: the server is gone; or it takes too long, and is killed or left.
AwaitGone(h) ==
  /\ cmd[h].pc = "wait"
  /\ \/ Gone(cmd[h].pid) /\ Goto(h, "clean") /\ UNCHANGED <<srv, lock, watch>>
     \/ ~Gone(cmd[h].pid) /\ cmd[h].kill
        /\ srv' = [srv EXCEPT ![cmd[h].pid].st = "crashed"] /\ UNCHANGED <<cmd, lock, watch>>
     \/ ~Gone(cmd[h].pid) /\ ~cmd[h].kill /\ Return(h, "failed") /\ UNCHANGED srv
  /\ UNCHANGED <<rec, stopFile, port, pack, begun, lost>>

Step(h) ==
  \/ StartLock(h) \/ Look(h) \/ Sweep(h) \/ Plan(h) \/ Spawn(h) \/ Record(h) \/ Reread(h)
  \/ Settle(h) \/ ServerEnded(h) \/ Clean(h) \/ Ask(h) \/ AwaitGone(h)

\* A process dies between any two of its steps, and the lock with it; a server that it
\* has spawned and not recorded yet runs on.
LeftBehind(h) == IF cmd[h].pc = "record" THEN {cmd[h].pid} \cap Live ELSE {}

Die(h) ==
  /\ cmd[h] # Rest
  /\ cmd' = [cmd EXCEPT ![h] = Rest]
  /\ Unlock(h)
  /\ lost' = lost \union LeftBehind(h)
  /\ UNCHANGED <<srv, rec, stopFile, port, pack, watch, begun>>

-----------------------------------------------------------------------------
\* The server process: it binds its port or gives up, loads the pack and serves.
Serve(s) ==
  /\ srv[s].st = "boot"
  /\ srv' = [srv EXCEPT ![s] = IF Bound(@.port) THEN [@ EXCEPT !.st = "crashed"]
                               ELSE [@ EXCEPT !.st = "up", !.pack = pack]]
  /\ UNCHANGED <<rec, stopFile, lock, port, pack, cmd, watch, begun, lost>>

\* It stops when told to, by signal or by the stop file.
Obey(s) ==
  /\ s \in Live /\ (srv[s].term \/ (stopFile /\ srv[s].st = "up"))
  /\ srv' = [srv EXCEPT ![s].st = "stopped"]
  /\ UNCHANGED <<rec, stopFile, lock, port, pack, cmd, watch, begun, lost>>

\* It ends by itself (a bad pack, a crash).
Crash(s) ==
  /\ srv[s].st = "up"
  /\ srv' = [srv EXCEPT ![s].st = "crashed"]
  /\ UNCHANGED <<rec, stopFile, lock, port, pack, cmd, watch, begun, lost>>

\* vb server config <name> set port.
SetPort ==
  /\ begun < MaxCommands /\ begun' = begun + 1
  /\ \E p \in Ports : p # port /\ port' = p
  /\ UNCHANGED <<srv, rec, stopFile, lock, pack, cmd, watch, lost>>

\* The author changes the pack.
Edit ==
  /\ pack < MaxEdits /\ pack' = pack + 1
  /\ UNCHANGED <<srv, rec, stopFile, lock, port, cmd, watch, begun, lost>>

-----------------------------------------------------------------------------
Finished == cmd[Thread] = Rest
StartThread ==
  cmd' = [cmd EXCEPT ![Thread] = [Rest EXCEPT !.op = "host", !.pc = "lock"]]

\* host_watch: the pack is looked at first, then the thread starts the server.
Watch ==
  /\ watch.pc = "off"
  /\ watch' = [watch EXCEPT !.pc = "poll", !.snap = pack]
  /\ StartThread
  /\ UNCHANGED <<srv, rec, stopFile, lock, port, pack, begun, lost>>

\* A start that failed and a stop on request end the watch; after a crash it waits for an edit.
Notice ==
  /\ watch.pc = "poll" /\ Finished /\ ~watch.patient
  /\ watch' = IF watch.exit = "crashed" THEN [watch EXCEPT !.patient = TRUE]
              ELSE [watch EXCEPT !.pc = "ended"]
  /\ UNCHANGED <<srv, rec, stopFile, lock, port, pack, cmd, begun, lost>>

Changed == watch.snap # pack
Poll ==
  /\ watch.pc = "poll" /\ (Finished => watch.patient) /\ Changed
  /\ watch' = [watch EXCEPT !.pc = "quiet"]
  /\ UNCHANGED <<srv, rec, stopFile, lock, port, pack, cmd, begun, lost>>

\* The files have stopped changing: what they are now is what the next server loads.
Settled_early(seen) == [watch EXCEPT !.pc = "poll", !.snap = seen]

Settled(seen) == [watch EXCEPT !.snap = seen, !.pc = IF Finished THEN "join" ELSE "await"]
Quiet ==
  /\ watch.pc = "quiet"
  /\ watch' = Settled(pack)
  /\ UNCHANGED <<srv, rec, stopFile, lock, port, pack, cmd, begun, lost>>

\* The record appears a moment after the thread starts the server.  (A server is spawned
\* well within the ten seconds this waits, so it times out only for a lost record.)
Await ==
  /\ watch.pc = "await" /\ cmd[Keeper] = Rest
  /\ \/ /\ Finished \/ (rec # 0 /\ ~Gone(rec)) \/ (cmd[Thread].pc = "attached" /\ cmd[Thread].pid \in lost)
        /\ watch' = [watch EXCEPT !.pc = "stop"]
        /\ cmd' = [cmd EXCEPT ![Keeper] =
                     [Rest EXCEPT !.op = "stop", !.kill = TRUE, !.pc = "look"]]
     \/ /\ ~Finished /\ (rec = 0 \/ Gone(rec)) /\ UNCHANGED watch
        /\ cmd' = [cmd EXCEPT ![Keeper] = [Rest EXCEPT !.op = "none", !.pc = "sweep"]]
  /\ UNCHANGED <<srv, rec, stopFile, lock, port, pack, begun, lost>>

\* running_record of the wait removes what it did not find.
AwaitSweep ==
  /\ cmd[Keeper].pc = "sweep" /\ cmd[Keeper].op = "none"
  /\ RemoveRunFiles
  /\ cmd' = [cmd EXCEPT ![Keeper] = Rest]
  /\ UNCHANGED <<srv, lock, port, pack, watch, begun>>

\* The thread is joined and started again.
Join ==
  /\ watch.pc = "join" /\ Finished
  /\ watch' = [watch EXCEPT !.pc = "poll", !.patient = FALSE, !.exit = "none"]
  /\ StartThread
  /\ UNCHANGED <<srv, rec, stopFile, lock, port, pack, begun, lost>>

\* vb host --watch dies, and with it both of its threads.
WatcherDies ==
  /\ watch.pc \notin {"off", "ended"}
  /\ watch' = [watch EXCEPT !.pc = "ended"]
  /\ cmd' = [cmd EXCEPT ![Keeper] = Rest, ![Thread] = Rest]
  /\ lock' = IF lock \in {Keeper, Thread} THEN None ELSE lock
  /\ lost' = lost \union LeftBehind(Keeper) \union LeftBehind(Thread)
  /\ UNCHANGED <<srv, rec, stopFile, port, pack, begun>>

KeeperStep == Notice \/ Poll \/ Quiet \/ Await \/ AwaitSweep \/ Join

Next ==
  \/ \E h \in Vbs : Command(h) \/ Die(h)
  \/ \E h \in Procs : (cmd[h].op # "none" /\ Step(h)) \/ RecordFails(h)
  \/ \E s \in Pids : Serve(s) \/ Obey(s) \/ Crash(s)
  \/ SetPort \/ Edit \/ Watch \/ KeeperStep \/ WatcherDies

Spec == Init /\ [][Next]_vars

\* Commands, the watcher and the servers go on; nobody has to give a command, edit or crash.
Fairness ==
  /\ \A h \in Procs : WF_vars(cmd[h].op # "none" /\ Step(h))
  /\ \A s \in Pids : WF_vars(Serve(s)) /\ WF_vars(Obey(s))
  /\ WF_vars(KeeperStep)
FairSpec == Spec /\ Fairness

-----------------------------------------------------------------------------
\* An instance has one server.  Starts and their checks may interleave with everything
\* else, and commands die where they like: of the servers that live at once all but one
\* were left without their record, because somebody swept it or the command that spawned
\* the server could not write it or died before it did (start.lock, running_record and the
\* UDP port; instance.cpp:414).
OneServer == Cardinality(Live \ lost) <= 1

\* vb host --watch serves the pack as it is on disk: every change is loaded by a server
\* in the end, also one made while a server starts or stops, unless the watch has ended,
\* the server that was to load it died, or a record was lost; as long as no other command
\* is given (host_watch).
WatchFollows ==
  \A n \in 1..MaxEdits :
    (watch.pc # "off" /\ pack = n) ~>
      ((\E s \in Pids : srv[s].pack >= n) \/ watch.pc = "ended" \/ lost # {}
        \/ (watch.patient /\ watch.snap >= n) \/ begun > 0)
=============================================================================
