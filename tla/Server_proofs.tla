---------------------- MODULE Server_proofs ----------------------
(* Theorems about the commands that start and stop a server, for any number   *)
(* of commands running at once, of servers, ports and changes of the pack;    *)
(* and about the scripts that a server calls, for any number of entities,     *)
(* timers, handlers and calls.                                                *)
EXTENDS MCServerLiveness, SequenceTheorems, FiniteSetTheorems, TLAPS

Starting == {"start", "host"}

(* Between taking run/start.lock and writing the record, a start holds the    *)
(* lock; only a start plans, spawns, records and reads the record back.       *)
LockInv ==
  \A h \in Procs :
    /\ cmd[h].pc \in {"plan", "spawn", "record"} => cmd[h].op \in Starting
    /\ cmd[h].pc = "reread" => cmd[h].op = "start"
    /\ cmd[h].op \in Starting /\ cmd[h].pc \in {"look", "sweep", "plan", "spawn", "record"} =>
         lock = h

(* A live server is in the record, or a start is about to write it there, or  *)
(* it was left without its record (a sweep, a failure or a death)...          *)
Recorded ==
  \A s \in Live \ lost :
    rec = s \/ \E h \in Procs : cmd[h].pc = "record" /\ cmd[h].pid = s

(* ... and the start that is past its check of the record has no other        *)
(* server beside the one it makes.                                            *)
NoOther ==
  \A h \in Procs :
    /\ cmd[h].op \in Starting /\ cmd[h].pc \in {"sweep", "plan", "spawn"} => Live \subseteq lost
    /\ cmd[h].pc = "record" => Live \subseteq lost \union {cmd[h].pid}

ServersInv == Recorded /\ NoOther

(* The pids that commands and the record know are of servers that were born;  *)
(* only a start that read back a record that was gone knows none.  A command  *)
(* cleans up after a server that has ended.                                   *)
Born(p) == p \in Pids /\ srv[p].st # "unborn"
HasPid(c) == c.pc \in {"record", "reread", "settle", "attached", "ask", "wait", "clean"}
Known(c) == Born(c.pid) \/ (c.pid = 0 /\ c.pc \in {"settle", "clean"} /\ c.op = "start")
PidInv ==
  /\ rec # 0 => Born(rec)
  /\ \A h \in Procs :
       /\ HasPid(cmd[h]) => Known(cmd[h])
       /\ cmd[h].pc = "clean" => cmd[h].pid \notin Live

(* The watcher's thread does nothing before the watch begins.                 *)
WatchInv == watch.pc = "off" => cmd[Thread] = Rest

IInv == TypeOK /\ PidInv /\ WatchInv /\ LockInv /\ ServersInv

-----------------------------------------------------------------------------
\* The state, in shapes that the provers use.

Ops == {"none", "start", "host", "stop", "restart", "status"}
PCs == {"idle", "lock", "look", "sweep", "plan", "spawn", "record", "reread", "settle", "attached",
        "ask", "wait", "clean"}
Cmds == [op: Ops, pc: PCs, port: Ports \union {None}, pid: {0} \union Pids, kill: BOOLEAN]
Servers == [st: {"unborn", "boot", "up", "stopped", "crashed"},
            port: Ports \union {None}, pack: 0..MaxEdits, term: BOOLEAN]
Watches == [pc: {"off", "poll", "quiet", "await", "stop", "join", "ended"},
            snap: 0..MaxEdits, patient: BOOLEAN, exit: {"none", "failed", "stopped", "crashed"}]

LEMMA Types ==
  TypeOK <=> /\ srv \in [Pids -> Servers] /\ rec \in {0} \union Pids
             /\ stopFile \in BOOLEAN /\ lost \in SUBSET Pids /\ lock \in Procs \union {None}
             /\ port \in Ports /\ pack \in 0..MaxEdits /\ cmd \in [Procs -> Cmds]
             /\ watch \in Watches /\ begun \in 0..MaxCommands
  BY DEF TypeOK, Servers, Cmds, Ops, PCs, Watches

LEMMA TypesNext ==
  TypeOK' <=> /\ srv' \in [Pids -> Servers] /\ rec' \in {0} \union Pids
              /\ stopFile' \in BOOLEAN /\ lost' \in SUBSET Pids /\ lock' \in Procs \union {None}
              /\ port' \in Ports /\ pack' \in 0..MaxEdits /\ cmd' \in [Procs -> Cmds]
              /\ watch' \in Watches /\ begun' \in 0..MaxCommands
  BY DEF TypeOK, Servers, Cmds, Ops, PCs, Watches

LEMMA RestIsCmd == Rest \in Cmds /\ Rest.op = "none" /\ Rest.pc = "idle"
  BY DEF Rest, Cmds, Ops, PCs

\* What one process does: the others' commands stay.
Sets(h, c) == cmd' = [cmd EXCEPT ![h] = c]

LEMMA SetsOne ==
  ASSUME cmd \in [Procs -> Cmds], NEW h \in Procs, NEW c \in Cmds, Sets(h, c)
  PROVE  /\ cmd' \in [Procs -> Cmds] /\ cmd'[h] = c
         /\ \A g \in Procs : g # h => cmd'[g] = cmd[g]
  BY DEF Sets

LEMMA GotoSets ==
  ASSUME cmd \in [Procs -> Cmds], NEW h \in Procs, NEW pc \in PCs, Goto(h, pc)
  PROVE  \E c \in Cmds : /\ Sets(h, c) /\ c.pc = pc /\ c.op = cmd[h].op /\ c.pid = cmd[h].pid
                         /\ c.port = cmd[h].port /\ c.kill = cmd[h].kill
  <1> DEFINE c == [cmd[h] EXCEPT !.pc = pc]
  <1>1. cmd[h] \in Cmds
    OBVIOUS
  <1>2. /\ c \in Cmds /\ c.pc = pc /\ c.op = cmd[h].op /\ c.pid = cmd[h].pid
        /\ c.port = cmd[h].port /\ c.kill = cmd[h].kill
    BY <1>1 DEF Cmds, PCs
  <1>3. Sets(h, c)
    BY <1>1 DEF Goto, Sets
  <1> QED BY <1>2, <1>3

LEMMA RecordFields ==
  ASSUME NEW c \in Cmds
  PROVE  c.op \in Ops /\ c.pc \in PCs /\ c.port \in Ports \union {None} /\
         c.pid \in {0} \union Pids /\ c.kill \in BOOLEAN
  BY DEF Cmds

\* Return: the command is over, its lock free.
LEMMA ReturnSets ==
  ASSUME TypeOK, NEW h \in Procs, NEW how \in {"none", "failed", "stopped", "crashed"},
         Return(h, how), WatchInv, cmd[h] # Rest
  PROVE  /\ Sets(h, Rest) /\ lock' = (IF lock = h THEN None ELSE lock)
         /\ lock' \in Procs \union {None} /\ watch' \in Watches /\ WatchInv'
  <1>1. /\ Sets(h, Rest) /\ lock' = (IF lock = h THEN None ELSE lock)
        /\ lock' \in Procs \union {None}
    BY Types DEF Return, Unlock, Sets
  <1>2. watch' \in Watches
    BY Types DEF Return, Watches
  <1>3. watch'.pc \in {watch.pc, "join"}
    BY Types DEF Return, Watches
  <1>4. WatchInv'
    <2>1. CASE watch.pc = "off"
      BY <2>1, <1>1, Types, RestIsCmd, SetsOne DEF WatchInv, Procs
    <2>2. CASE watch.pc # "off"
      BY <2>2, <1>3 DEF WatchInv
    <2> QED BY <2>1, <2>2
  <1> QED BY <1>1, <1>2, <1>4

-----------------------------------------------------------------------------
\* What one command must keep to, to keep the invariant.

\* A command c that holds the lock where it must.
Locks(h, c, l) ==
  /\ c.pc \in {"plan", "spawn", "record"} => c.op \in Starting
  /\ c.pc = "reread" => c.op = "start"
  /\ c.op \in Starting /\ c.pc \in {"look", "sweep", "plan", "spawn", "record"} => l = h

\* No server is born, born ones stay so.
NoBirth == Live' \subseteq Live /\ \A p \in Pids : Born(p) => Born(p)'

\* The record stays, or is removed, or is written by h; what this loses is noted.
RecordKept(h) ==
  /\ \/ rec' = rec
     \/ rec' = 0 /\ (rec \in Live => rec \in lost')
     \/ rec' = cmd[h].pid /\ cmd[h].pc = "record"
  /\ lost \subseteq lost'

\* A step of the servers alone.
LEMMA ServerStep ==
  ASSUME IInv, TypeOK', NoBirth, rec' = rec, lost' = lost, lock' = lock, cmd' = cmd,
         watch'.pc = "off" => watch.pc = "off"
  PROVE  IInv'
  <1>1. PidInv'
    <2>1. \A p : Born(p) => Born(p)'
      BY DEF NoBirth, Born
    <2>2. \A p : p \notin Live => p \notin Live'
      BY DEF NoBirth
    <2> QED BY <2>1, <2>2 DEF IInv, PidInv, Known, HasPid
  <1>2. LockInv' /\ WatchInv'
    BY DEF IInv, LockInv, WatchInv
  <1>3. ServersInv'
    <2>1. Live' \subseteq Live
      BY DEF NoBirth
    <2>2. Recorded'
      BY <2>1 DEF IInv, ServersInv, Recorded
    <2>3. NoOther'
      BY <2>1 DEF IInv, ServersInv, NoOther
    <2> QED BY <2>2, <2>3 DEF ServersInv
  <1> QED BY <1>1, <1>2, <1>3 DEF IInv

\* A step of process h to c that spawns nothing.
LEMMA CommandStep ==
  ASSUME IInv, TypeOK', WatchInv', NEW h \in Procs, NEW c \in Cmds, Sets(h, c),
         NoBirth, RecordKept(h), \A g \in Procs \ {h} : lock = g => lock' = g,
         Locks(h, c, lock'), c.pc # "record",
         HasPid(c) => Known(c), c.pc = "clean" => c.pid \notin Live,
         c.op \in Starting /\ c.pc \in {"sweep", "plan", "spawn"} => Live \subseteq lost',
         cmd[h].pc = "record" => (cmd[h].pid \in Live' => cmd[h].pid \in lost' \/ rec' = cmd[h].pid)
  PROVE  IInv'
  <1>1. /\ cmd'[h] = c /\ \A g \in Procs : g # h => cmd'[g] = cmd[g]
    BY SetsOne, Types DEF IInv
  <1>2. Live' \subseteq Live /\ \A p : Born(p) => Born(p)'
    BY DEF NoBirth, Born
  <1>3. PidInv'
    <2>1. rec' # 0 => Born(rec')
      BY DEF IInv, PidInv, RecordKept, HasPid, Known
    <2>2. rec' # 0 => Born(rec)'
      BY <2>1, <1>2 DEF Born
    <2>3. ASSUME NEW g \in Procs
          PROVE  /\ HasPid(cmd'[g]) => Known(cmd[g])'
                 /\ cmd'[g].pc = "clean" => cmd'[g].pid \notin Live'
      <3>1. CASE g = h
        BY <3>1, <1>1, <1>2 DEF Born, Known
      <3>2. CASE g # h
        BY <3>2, <1>1, <1>2 DEF IInv, PidInv, HasPid, Born, Known
      <3> QED BY <3>1, <3>2
    <2> QED BY <2>2, <2>3 DEF PidInv, HasPid
  <1>4. LockInv'
    <2>1. ASSUME NEW g \in Procs
          PROVE  Locks(g, cmd'[g], lock')
      <3>1. CASE g = h
        BY <3>1, <1>1
      <3>2. CASE g # h
        BY <3>2, <1>1 DEF IInv, LockInv, Locks
      <3> QED BY <3>1, <3>2
    <2> QED BY <2>1 DEF LockInv, Locks
  <1>5. ServersInv'
    <2>2. Recorded /\ NoOther /\ lost \subseteq lost'
      BY DEF IInv, ServersInv, RecordKept
    <2>3. ASSUME NEW s \in Live' \ lost'
          PROVE  rec' = s \/ \E g \in Procs : cmd'[g].pc = "record" /\ cmd'[g].pid = s
      <3>1. s \in Live \ lost
        BY <1>2, <2>2
      <3>2. CASE rec = s
        <4>1. CASE rec' = cmd[h].pid /\ cmd[h].pc = "record"
          BY <4>1, <2>2, <3>1 DEF NoOther
        <4> QED BY <3>1, <3>2, <4>1 DEF RecordKept
      <3>3. ASSUME NEW g \in Procs, cmd[g].pc = "record", cmd[g].pid = s
            PROVE  rec' = s \/ (cmd'[g].pc = "record" /\ cmd'[g].pid = s)
        <4>1. CASE g = h
          BY <4>1, <3>3
        <4>2. CASE g # h
          BY <4>2, <3>3, <1>1
        <4> QED BY <4>1, <4>2
      <3> QED BY <2>2, <3>1, <3>2, <3>3 DEF Recorded
    <2>4. NoOther'
      <3>1. ASSUME NEW g \in Procs
            PROVE  /\ cmd'[g].op \in Starting /\ cmd'[g].pc \in {"sweep", "plan", "spawn"} =>
                        Live' \subseteq lost'
                   /\ cmd'[g].pc = "record" => Live' \subseteq lost' \union {cmd'[g].pid}
        <4>1. CASE g = h
          BY <4>1, <1>1, <1>2
        <4>2. CASE g # h
          BY <4>2, <1>1, <1>2, <2>2 DEF NoOther
        <4> QED BY <4>1, <4>2
      <3> QED BY <3>1 DEF NoOther
    <2>5. Recorded'
      BY <2>3 DEF Recorded
    <2> QED BY <2>4, <2>5 DEF ServersInv
  <1> QED BY <1>3, <1>4, <1>5 DEF IInv

-----------------------------------------------------------------------------
\* The actions of a command.

LEMMA NothingBorn == ASSUME srv' = srv PROVE NoBirth
  BY DEF NoBirth, Live, Born

LEMMA CommandAct == ASSUME IInv, NEW h \in Vbs, Command(h) PROVE IInv'
  <1>1. PICK c \in Cmds :
          /\ Sets(h, c) /\ ~HasPid(c) /\ c.pc \in {"lock", "look"}
          /\ c.pc = "look" => c.op \notin Starting
    <2>1. ASSUME NEW op \in {"start", "host"}, NEW p \in Ports \union {None},
                 cmd' = [cmd EXCEPT ![h] = [Rest EXCEPT !.op = op, !.port = p, !.pc = "lock"]]
          PROVE  \E c \in Cmds : /\ Sets(h, c) /\ ~HasPid(c) /\ c.pc \in {"lock", "look"}
                                 /\ c.pc = "look" => c.op \notin Starting
      <3> DEFINE c == [Rest EXCEPT !.op = op, !.port = p, !.pc = "lock"]
      <3>1. c \in Cmds /\ ~HasPid(c) /\ c.pc = "lock"
        BY DEF Cmds, Rest, Ops, PCs, HasPid
      <3>2. Sets(h, c)
        BY <2>1 DEF Sets
      <3> QED BY <3>1, <3>2
    <2>2. ASSUME NEW op \in {"stop", "restart"}, NEW kill \in BOOLEAN,
                 cmd' = [cmd EXCEPT ![h] = [Rest EXCEPT !.op = op, !.kill = kill, !.pc = "look"]]
          PROVE  \E c \in Cmds : /\ Sets(h, c) /\ ~HasPid(c) /\ c.pc \in {"lock", "look"}
                                 /\ c.pc = "look" => c.op \notin Starting
      <3> DEFINE c == [Rest EXCEPT !.op = op, !.kill = kill, !.pc = "look"]
      <3>1. c \in Cmds /\ ~HasPid(c) /\ c.pc = "look" /\ c.op \notin Starting
        BY DEF Cmds, Rest, Ops, PCs, HasPid, Starting
      <3>2. Sets(h, c)
        BY <2>2 DEF Sets
      <3> QED BY <3>1, <3>2
    <2>3. ASSUME cmd' = [cmd EXCEPT ![h] = [Rest EXCEPT !.op = "status", !.pc = "look"]]
          PROVE  \E c \in Cmds : /\ Sets(h, c) /\ ~HasPid(c) /\ c.pc \in {"lock", "look"}
                                 /\ c.pc = "look" => c.op \notin Starting
      <3> DEFINE c == [Rest EXCEPT !.op = "status", !.pc = "look"]
      <3>1. c \in Cmds /\ ~HasPid(c) /\ c.pc = "look" /\ c.op \notin Starting
        BY DEF Cmds, Rest, Ops, PCs, HasPid, Starting
      <3>2. Sets(h, c)
        BY <2>3 DEF Sets
      <3> QED BY <3>1, <3>2
    <2> QED BY <2>1, <2>2, <2>3 DEF Command
  <1>2. h \in Procs /\ h # Thread /\ cmd[h] = Rest
    BY ServerProcsDiffer DEF Procs, Command
  <1>3. cmd' \in [Procs -> Cmds] /\ cmd'[Thread] = cmd[Thread]
    BY <1>1, <1>2, SetsOne, Types DEF IInv, Procs
  <1>4. WatchInv'
    BY <1>3 DEF WatchInv, IInv, Command
  <1>5. begun' \in 0..MaxCommands
    <2>1. begun \in 0..MaxCommands
      BY Types DEF IInv
    <2>2. begun < MaxCommands /\ begun' = begun + 1
      BY DEF Command
    <2>3. \A b \in Nat, m \in Nat : b < m => b + 1 \in 0..m
      OBVIOUS
    <2> QED BY <2>1, <2>2, <2>3, ServerBounds
  <1>6. TypeOK'
    BY <1>3, <1>5, Types, TypesNext DEF IInv, Command
  <1>7. NoBirth /\ RecordKept(h) /\ \A g \in Procs \ {h} : lock = g => lock' = g
    BY NothingBorn DEF Command, RecordKept
  <1>8. Locks(h, c, lock') /\ c.pc \notin {"record", "clean", "sweep", "plan", "spawn"}
    BY <1>1 DEF Locks
  <1>9. cmd[h].pc # "record"
    BY <1>2, RestIsCmd
  <1> QED BY <1>1, <1>2, <1>4, <1>6, <1>7, <1>8, <1>9, CommandStep

\* A command that returns, without having lost what it recorded or was to record.
LEMMA ReturnAct ==
  ASSUME IInv, NEW h \in Procs, NEW how \in {"none", "failed", "stopped", "crashed"},
         cmd[h].pc # "idle", Return(h, how), srv' \in [Pids -> Servers], NoBirth,
         RecordKept(h), rec' \in {0} \union Pids, lost' \in SUBSET Pids, stopFile' \in BOOLEAN,
         UNCHANGED <<port, pack, begun>>,
         cmd[h].pc = "record" => (cmd[h].pid \in Live' => cmd[h].pid \in lost' \/ rec' = cmd[h].pid)
  PROVE  IInv'
  <1>1. cmd[h] # Rest
    BY RestIsCmd
  <1>2. /\ Sets(h, Rest) /\ lock' = (IF lock = h THEN None ELSE lock)
        /\ lock' \in Procs \union {None} /\ watch' \in Watches /\ WatchInv'
    BY <1>1, ReturnSets DEF IInv
  <1>3. TypeOK'
    BY <1>2, Types, TypesNext, SetsOne, RestIsCmd DEF IInv
  <1>4. Locks(h, Rest, lock') /\ ~HasPid(Rest)
    BY RestIsCmd DEF Locks, HasPid, Starting
  <1> QED BY <1>2, <1>3, <1>4, RestIsCmd, CommandStep

\* A command that goes on to another point, with the record, the lock and the server it has.
LEMMA GotoAct ==
  ASSUME IInv, NEW h \in Procs, NEW pc \in PCs, Goto(h, pc), cmd[h].pc # "idle",
         srv' \in [Pids -> Servers], NoBirth,
         RecordKept(h), rec' \in {0} \union Pids, lost' \in SUBSET Pids, stopFile' \in BOOLEAN,
         lock' \in Procs \union {None}, \A g \in Procs \ {h} : lock = g => lock' = g,
         UNCHANGED <<port, pack, watch, begun>>, pc # "record",
         pc \in {"plan", "spawn"} => cmd[h].op \in Starting,
         pc = "reread" => cmd[h].op = "start",
         cmd[h].op \in Starting /\ pc \in {"look", "sweep", "plan", "spawn"} => lock' = h,
         pc \in {"reread", "attached", "ask", "wait"} => Born(cmd[h].pid),
         pc \in {"settle", "clean"} =>
           Born(cmd[h].pid) \/ (cmd[h].pid = 0 /\ cmd[h].op = "start"),
         pc = "clean" => cmd[h].pid \notin Live,
         cmd[h].op \in Starting /\ pc \in {"sweep", "plan", "spawn"} => Live \subseteq lost',
         cmd[h].pc = "record" => (cmd[h].pid \in Live' => cmd[h].pid \in lost' \/ rec' = cmd[h].pid)
  PROVE  IInv'
  <1>1. PICK c \in Cmds : /\ Sets(h, c) /\ c.pc = pc /\ c.op = cmd[h].op /\ c.pid = cmd[h].pid
                          /\ c.port = cmd[h].port /\ c.kill = cmd[h].kill
    BY GotoSets, Types DEF IInv
  <1>2. cmd' \in [Procs -> Cmds] /\ \A g \in Procs : g # h => cmd'[g] = cmd[g]
    BY <1>1, SetsOne, Types DEF IInv
  <1>3. TypeOK'
    BY <1>2, Types, TypesNext DEF IInv
  <1>4. WatchInv'
    <2>1. cmd[h] # Rest
      BY RestIsCmd
    <2> QED BY <1>2, <2>1 DEF WatchInv, IInv, Procs
  <1>5. Locks(h, c, lock') /\ (HasPid(c) => Known(c))
    BY <1>1 DEF Locks, HasPid, Known
  <1> QED BY <1>1, <1>3, <1>4, <1>5, CommandStep

\* remove_run_files: what is lost by it is noted.
LEMMA Removed ==
  ASSUME TypeOK, NEW h, RemoveRunFiles
  PROVE  RecordKept(h) /\ rec' \in {0} \union Pids /\ lost' \in SUBSET Pids /\ stopFile' \in BOOLEAN
  BY Types DEF RecordKept, RemoveRunFiles, Live

LEMMA AllStays ==
  ASSUME TypeOK, NEW h, UNCHANGED <<srv, rec, lost>>
  PROVE  /\ RecordKept(h) /\ NoBirth /\ srv' \in [Pids -> Servers] /\ rec' \in {0} \union Pids
         /\ lost' \in SUBSET Pids /\ rec' = rec
  BY Types, NothingBorn DEF RecordKept

LEMMA StartLockAct == ASSUME IInv, NEW h \in Procs, StartLock(h) PROVE IInv'
  <1>1. /\ RecordKept(h) /\ NoBirth /\ srv' \in [Pids -> Servers] /\ rec' \in {0} \union Pids
        /\ lost' \in SUBSET Pids /\ stopFile' \in BOOLEAN /\ cmd[h].pc = "lock"
        /\ UNCHANGED <<port, pack, begun>>
    BY AllStays, Types DEF StartLock, IInv
  <1>2. CASE LockFree /\ lock' = h /\ Goto(h, "look") /\ UNCHANGED watch
    <2>1. lock' \in Procs \union {None} /\ \A g \in Procs \ {h} : lock = g => lock' = g
      BY <1>2, ServerNone DEF LockFree, Procs
    <2>2. "look" \in PCs
      BY DEF PCs
    <2> QED BY <1>1, <1>2, <2>1, <2>2, GotoAct
  <1>3. CASE Return(h, "failed")
    BY <1>1, <1>3, ReturnAct
  <1> QED BY <1>2, <1>3 DEF StartLock

\* A start that holds the lock, is not about to write the record and finds no live server in
\* it is alone.
LEMMA NoneFound ==
  ASSUME IInv, NEW h \in Procs, cmd[h].pc = "look", cmd[h].op \in Starting,
         rec = 0 \/ Gone(rec)
  PROVE  Live \subseteq lost
  <1>1. lock = h
    BY DEF IInv, LockInv
  <1>2. ASSUME NEW g \in Procs, cmd[g].pc = "record"
        PROVE  FALSE
    BY <1>1, <1>2 DEF IInv, LockInv
  <1>3. \A s \in Live \ lost : rec = s
    BY <1>2 DEF IInv, ServersInv, Recorded
  <1>4. 0 \notin Live
    BY ServerBounds DEF Live, Pids
  <1> QED BY <1>3, <1>4 DEF Gone

LEMMA LookAct == ASSUME IInv, NEW h \in Procs, Look(h) PROVE IInv'
  <1>1. /\ RecordKept(h) /\ NoBirth /\ srv' \in [Pids -> Servers] /\ rec' \in {0} \union Pids
        /\ lost' \in SUBSET Pids /\ stopFile' \in BOOLEAN /\ cmd[h].pc = "look"
        /\ UNCHANGED <<port, pack, begun>> /\ rec' = rec /\ lost' = lost
    BY AllStays, Types DEF Look, IInv
  <1>2. CASE Return(h, "failed")
    BY <1>1, <1>2, ReturnAct
  <1>3. CASE /\ rec # 0 /\ ~Gone(rec) /\ cmd[h].op \in {"stop", "restart"}
             /\ cmd' = [cmd EXCEPT ![h].pid = rec, ![h].pc = "ask"]
             /\ UNCHANGED <<lock, watch>>
    <2> DEFINE c == [cmd[h] EXCEPT !.pid = rec, !.pc = "ask"]
    <2>1. cmd[h] \in Cmds /\ rec \in Pids
      BY <1>3, Types DEF IInv
    <2>2. c \in Cmds /\ c.pc = "ask" /\ c.pid = rec /\ c.op = cmd[h].op
      BY <2>1 DEF Cmds, PCs
    <2>3. Sets(h, c)
      BY <1>3, <2>1, Types DEF Sets, IInv
    <2> HIDE DEF c
    <2>4. cmd' \in [Procs -> Cmds] /\ \A g \in Procs : g # h => cmd'[g] = cmd[g]
      BY <2>2, <2>3, SetsOne, Types DEF IInv
    <2>5. TypeOK'
      BY <1>1, <1>3, <2>4, Types, TypesNext DEF IInv
    <2>6. WatchInv'
      BY <1>1, <1>3, <2>4, RestIsCmd DEF WatchInv, IInv, Procs
    <2>7. Born(rec)
      BY <1>3 DEF IInv, PidInv
    <2>8. Locks(h, c, lock') /\ (HasPid(c) => Known(c))
      BY <2>2, <2>7, <1>3 DEF Locks, HasPid, Starting, Known
    <2> QED BY <1>1, <1>3, <2>2, <2>3, <2>5, <2>6, <2>8, CommandStep
  <1>4. CASE (rec = 0 \/ Gone(rec)) /\ Goto(h, "sweep") /\ UNCHANGED <<lock, watch>>
    <2>1. cmd[h].op \in Starting => Live \subseteq lost'
      BY <1>1, <1>4, NoneFound
    <2>2. cmd[h].op \in Starting => lock' = h
      BY <1>1, <1>4 DEF IInv, LockInv
    <2>3. "sweep" \in PCs /\ lock' \in Procs \union {None}
      BY <1>4, Types DEF PCs, IInv
    <2> QED BY <1>1, <1>4, <2>1, <2>2, <2>3, GotoAct
  <1> QED BY <1>2, <1>3, <1>4 DEF Look

\* A command that becomes a start, after it stopped a server or found none.
LEMMA RestartAct ==
  ASSUME IInv, NEW h \in Procs, cmd[h].pc \in {"sweep", "clean"}, NoBirth,
         srv' = srv, RemoveRunFiles,
         cmd' = [cmd EXCEPT ![h] = [Rest EXCEPT !.op = "start", !.pc = "lock"]],
         UNCHANGED <<lock, watch, port, pack, begun>>
  PROVE  IInv'
  <1> DEFINE c == [Rest EXCEPT !.op = "start", !.pc = "lock"]
  <1>1. c \in Cmds /\ c.pc = "lock" /\ ~HasPid(c)
    BY DEF Cmds, Rest, Ops, PCs, HasPid
  <1>2. Sets(h, c)
    BY DEF Sets
  <1> HIDE DEF c
  <1>3. cmd' \in [Procs -> Cmds] /\ \A g \in Procs : g # h => cmd'[g] = cmd[g]
    BY <1>1, <1>2, SetsOne, Types DEF IInv
  <1>4. RecordKept(h) /\ rec' \in {0} \union Pids /\ lost' \in SUBSET Pids /\ stopFile' \in BOOLEAN
    BY Removed DEF IInv
  <1>5. TypeOK'
    BY <1>3, <1>4, Types, TypesNext DEF IInv
  <1>6. WatchInv'
    BY <1>3, RestIsCmd DEF WatchInv, IInv, Procs
  <1>7. Locks(h, c, lock')
    BY <1>1 DEF Locks
  <1> QED BY <1>1, <1>2, <1>4, <1>5, <1>6, <1>7, CommandStep

LEMMA SweepAct == ASSUME IInv, NEW h \in Procs, Sweep(h) PROVE IInv'
  <1>1. /\ RecordKept(h) /\ NoBirth /\ srv' \in [Pids -> Servers] /\ rec' \in {0} \union Pids
        /\ lost' \in SUBSET Pids /\ stopFile' \in BOOLEAN /\ cmd[h].pc = "sweep"
        /\ UNCHANGED <<port, pack, begun>> /\ srv' = srv /\ RemoveRunFiles
    BY Removed, NothingBorn, Types DEF Sweep, IInv
  <1>2. CASE cmd[h].op \in {"start", "host"} /\ Goto(h, "plan") /\ UNCHANGED <<lock, watch>>
    <2>1. cmd[h].op \in Starting
      BY <1>2 DEF Starting
    <2>2. lock' = h /\ Live \subseteq lost'
      BY <1>1, <1>2, <2>1 DEF IInv, LockInv, ServersInv, NoOther, RecordKept
    <2>3. "plan" \in PCs
      BY DEF PCs
    <2> QED BY <1>1, <1>2, <2>1, <2>2, <2>3, GotoAct
  <1>3. CASE /\ cmd' = [cmd EXCEPT ![h] = [Rest EXCEPT !.op = "start", !.pc = "lock"]]
             /\ UNCHANGED <<lock, watch>>
    BY <1>1, <1>3, RestartAct
  <1>4. CASE Return(h, "stopped")
    BY <1>1, <1>4, ReturnAct
  <1> QED BY <1>2, <1>3, <1>4 DEF Sweep

LEMMA PlanAct == ASSUME IInv, NEW h \in Procs, Plan(h) PROVE IInv'
  <1>1. /\ RecordKept(h) /\ NoBirth /\ srv' \in [Pids -> Servers] /\ rec' \in {0} \union Pids
        /\ lost' \in SUBSET Pids /\ cmd[h].pc = "plan" /\ stopFile' \in BOOLEAN
        /\ UNCHANGED <<port, pack, begun>> /\ rec' = rec /\ lost' = lost
    BY AllStays, Types DEF Plan, IInv
  <1>2. CASE /\ cmd' = [cmd EXCEPT ![h].port = PortOf(h), ![h].pc = "spawn"]
             /\ UNCHANGED <<lock, watch>>
    <2> DEFINE c == [cmd[h] EXCEPT !.port = PortOf(h), !.pc = "spawn"]
    <2>1. cmd[h] \in Cmds /\ PortOf(h) \in Ports
      BY Types DEF PortOf, Cmds, IInv
    <2>2. c \in Cmds /\ c.pc = "spawn" /\ c.op = cmd[h].op
      BY <2>1 DEF Cmds, PCs
    <2>3. Sets(h, c)
      BY <1>2, <2>1, Types DEF Sets, IInv
    <2> HIDE DEF c
    <2>4. cmd' \in [Procs -> Cmds] /\ \A g \in Procs : g # h => cmd'[g] = cmd[g]
      BY <2>2, <2>3, SetsOne, Types DEF IInv
    <2>5. TypeOK'
      BY <1>1, <1>2, <2>4, Types, TypesNext DEF IInv
    <2>6. WatchInv'
      BY <1>1, <1>2, <2>4, RestIsCmd DEF WatchInv, IInv, Procs
    <2>7. cmd[h].op \in Starting /\ lock = h /\ Live \subseteq lost'
      BY <1>1 DEF IInv, LockInv, ServersInv, NoOther
    <2>8. Locks(h, c, lock') /\ ~HasPid(c)
      BY <2>2, <2>7, <1>2 DEF Locks, HasPid
    <2> QED BY <1>1, <1>2, <2>2, <2>3, <2>5, <2>6, <2>7, <2>8, CommandStep
  <1>3. CASE Return(h, "failed")
    BY <1>1, <1>3, ReturnAct
  <1> QED BY <1>2, <1>3 DEF Plan

\* The server process starts: it is the only one.
LEMMA SpawnAct == ASSUME IInv, NEW h \in Procs, Spawn(h) PROVE IInv'
  <1>1. PICK s \in Pids :
          /\ srv[s] = Unborn
          /\ srv' = [srv EXCEPT ![s].st = "boot", ![s].port = cmd[h].port]
          /\ cmd' = [cmd EXCEPT ![h].pid = s, ![h].pc = "record"]
    BY DEF Spawn
  <1>2. /\ cmd[h].pc = "spawn"
        /\ UNCHANGED <<rec, stopFile, lock, port, pack, watch, begun, lost>>
    BY DEF Spawn
  <1>3. cmd[h].op \in Starting /\ lock = h /\ Live \subseteq lost
    BY <1>2 DEF IInv, LockInv, ServersInv, NoOther
  <1> DEFINE c == [cmd[h] EXCEPT !.pid = s, !.pc = "record"]
             v == [srv[s] EXCEPT !.st = "boot", !.port = cmd[h].port]
  <1>4. cmd[h] \in Cmds /\ srv[s] \in Servers /\ cmd[h].port \in Ports \union {None}
    BY Types DEF IInv, Cmds
  <1>5. c \in Cmds /\ c.pc = "record" /\ c.pid = s /\ c.op = cmd[h].op
    BY <1>4 DEF Cmds, PCs
  <1>6. v \in Servers /\ v.st = "boot"
    BY <1>4 DEF Servers
  <1>7. Sets(h, c) /\ srv' = [srv EXCEPT ![s] = v]
    BY <1>1, <1>4, Types DEF Sets, IInv
  <1> HIDE DEF c, v
  <1>8. /\ cmd' \in [Procs -> Cmds] /\ cmd'[h] = c
        /\ \A g \in Procs : g # h => cmd'[g] = cmd[g]
    BY <1>5, <1>7, SetsOne, Types DEF IInv
  <1>9. /\ srv' \in [Pids -> Servers] /\ srv'[s] = v /\ \A p \in Pids : p # s => srv'[p] = srv[p]
    BY <1>6, <1>7, Types DEF IInv
  <1>10. TypeOK'
    BY <1>2, <1>8, <1>9, Types, TypesNext DEF IInv
  <1>11. WatchInv'
    BY <1>2, <1>8, RestIsCmd DEF WatchInv, IInv, Procs
  <1>12. Live' = Live \union {s} /\ \A p : Born(p) => Born(p)'
    BY <1>6, <1>9 DEF Live, Born
  <1>13. PidInv'
    <2>1. rec' # 0 => Born(rec)'
      BY <1>2, <1>12 DEF IInv, PidInv, Born
    <2>2. ASSUME NEW g \in Procs
          PROVE  /\ HasPid(cmd'[g]) => Known(cmd[g])'
                 /\ cmd'[g].pc = "clean" => cmd'[g].pid \notin Live'
      <3>1. CASE g = h
        BY <3>1, <1>5, <1>6, <1>8, <1>9 DEF Born, HasPid, Known
      <3>2. CASE g # h
        <4>1. /\ HasPid(cmd[g]) => Known(cmd[g])
              /\ cmd[g].pc = "clean" => cmd[g].pid \notin Live
          BY DEF IInv, PidInv
        <4>2. ~Born(s) /\ s # 0
          BY <1>1, ServerBounds DEF Born, Unborn, Pids
        <4>3. cmd[g].pc = "clean" => cmd[g].pid # s
          BY <4>1, <4>2 DEF HasPid, Known
        <4>4. Known(cmd[g]) => Known(cmd[g])'
          BY <3>2, <1>8, <1>12 DEF Known
        <4> QED BY <3>2, <4>1, <4>3, <4>4, <1>8, <1>12
      <3> QED BY <3>1, <3>2
    <2> QED BY <2>1, <2>2 DEF PidInv, HasPid
  <1>14. LockInv'
    <2>1. ASSUME NEW g \in Procs
          PROVE  Locks(g, cmd'[g], lock')
      <3>1. CASE g = h
        BY <3>1, <1>2, <1>3, <1>5, <1>8 DEF Locks
      <3>2. CASE g # h
        BY <3>2, <1>2, <1>8 DEF IInv, LockInv, Locks
      <3> QED BY <3>1, <3>2
    <2> QED BY <2>1 DEF LockInv, Locks
  <1>15. ServersInv'
    <2>2. Live' \subseteq lost \union {s} /\ lost' = lost
      BY <1>2, <1>3, <1>12
    <2>3. Recorded'
      BY <2>2, <1>5, <1>8 DEF Recorded
    <2>4. ASSUME NEW g \in Procs
          PROVE  /\ ~(cmd'[g].op \in Starting /\ cmd'[g].pc \in {"sweep", "plan", "spawn"})
                 /\ cmd'[g].pc = "record" => Live' \subseteq lost' \union {cmd'[g].pid}
      <3>1. CASE g = h
        BY <3>1, <2>2, <1>5, <1>8
      <3>2. CASE g # h
        <4>1. ~(cmd[g].op \in Starting /\ cmd[g].pc \in {"sweep", "plan", "spawn", "record"})
          BY <1>3, <3>2 DEF IInv, LockInv
        <4>2. cmd[g].pc # "record"
          BY <4>1 DEF IInv, LockInv
        <4> QED BY <3>2, <4>1, <4>2, <1>8
      <3> QED BY <3>1, <3>2
    <2> QED BY <2>3, <2>4 DEF NoOther, ServersInv
  <1> QED BY <1>10, <1>11, <1>13, <1>14, <1>15 DEF IInv

\* The record is written, or cannot be.
LEMMA RecordAct == ASSUME IInv, NEW h \in Procs, Record(h) PROVE IInv'
  <1>1. /\ cmd[h].pc = "record" /\ rec' = cmd[h].pid /\ lost' = lost /\ srv' = srv
        /\ UNCHANGED <<stopFile, port, pack, watch, begun>>
    BY DEF Record
  <1>2. /\ Born(cmd[h].pid) /\ cmd[h].op \in Starting
    BY <1>1 DEF IInv, PidInv, LockInv, HasPid, Known
  <1>3. /\ RecordKept(h) /\ NoBirth /\ srv' \in [Pids -> Servers] /\ rec' \in {0} \union Pids
        /\ lost' \in SUBSET Pids /\ stopFile' \in BOOLEAN
    BY <1>1, <1>2, NothingBorn, Types DEF RecordKept, Born, IInv
  <1>4. /\ lock' \in Procs \union {None} /\ \A g \in Procs \ {h} : lock = g => lock' = g
    BY Types DEF Record, Unlock, IInv
  <1>5. Goto(h, "attached") \/ (Goto(h, "reread") /\ cmd[h].op = "start")
    BY DEF Record
  <1>6. "attached" \in PCs /\ "reread" \in PCs
    BY DEF PCs
  <1> QED BY <1>1, <1>2, <1>3, <1>4, <1>5, <1>6, GotoAct

\* A server is ended: it was born, and is not live.
LEMMA Ended ==
  ASSUME TypeOK, NEW p \in Pids, srv' = [srv EXCEPT ![p].st = "crashed"]
  PROVE  srv' \in [Pids -> Servers] /\ NoBirth /\ p \notin Live'
  <1>1. /\ srv' \in [Pids -> Servers] /\ srv'[p].st = "crashed"
        /\ \A q \in Pids : q # p => srv'[q] = srv[q]
    BY Types DEF Servers
  <1> QED BY <1>1 DEF NoBirth, Born, Live

LEMMA RecordFailsAct == ASSUME IInv, NEW h \in Procs, RecordFails(h) PROVE IInv'
  <1>1. /\ cmd[h].pc = "record" /\ UNCHANGED <<rec, stopFile, port, pack, begun>>
        /\ Born(cmd[h].pid) /\ rec' \in {0} \union Pids /\ stopFile' \in BOOLEAN
    BY Types DEF RecordFails, IInv, PidInv, HasPid, Known
  <1>2. CASE /\ Unlock(h) /\ Goto(h, "attached")
             /\ lost' = lost \union ({cmd[h].pid} \cap Live)
             /\ UNCHANGED <<srv, watch>>
    <2>1. RecordKept(h) /\ NoBirth /\ srv' \in [Pids -> Servers] /\ lost' \in SUBSET Pids
      BY <1>1, <1>2, NothingBorn, Types DEF RecordKept, IInv, Live
    <2>2. /\ lock' \in Procs \union {None} /\ \A g \in Procs \ {h} : lock = g => lock' = g
      BY <1>2, Types DEF Unlock, IInv
    <2>3. cmd[h].pid \in Live' => cmd[h].pid \in lost'
      BY <2>1, <1>2 DEF NoBirth
    <2>4. "attached" \in PCs
      BY DEF PCs
    <2> QED BY <1>1, <1>2, <2>1, <2>2, <2>3, <2>4, GotoAct
  <1>3. CASE /\ Return(h, "failed") /\ UNCHANGED lost
             /\ srv' = [srv EXCEPT ![cmd[h].pid].st = IF Gone(cmd[h].pid) THEN @ ELSE "crashed"]
    <2>1. cmd[h].pid \in Pids
      BY <1>1 DEF Born
    <2>2. srv' \in [Pids -> Servers] /\ NoBirth /\ cmd[h].pid \notin Live'
      <3>1. CASE Gone(cmd[h].pid)
        <4>1. srv' = srv
          BY <3>1, <1>3, <2>1, Types DEF Servers, IInv
        <4> QED BY <3>1, <4>1, NothingBorn, Types DEF Gone, IInv, Live
      <3>2. CASE ~Gone(cmd[h].pid)
        BY <3>2, <1>3, <2>1, Ended DEF IInv
      <3> QED BY <3>1, <3>2
    <2>3. RecordKept(h) /\ lost' \in SUBSET Pids
      BY <1>1, <1>3, Types DEF RecordKept, IInv
    <2> QED BY <1>1, <1>3, <2>2, <2>3, ReturnAct
  <1> QED BY <1>2, <1>3 DEF RecordFails

LEMMA SettleAct == ASSUME IInv, NEW h \in Procs, Settle(h) \/ ServerEnded(h) PROVE IInv'
  <1>1. /\ RecordKept(h) /\ NoBirth /\ srv' \in [Pids -> Servers] /\ rec' \in {0} \union Pids
        /\ lost' \in SUBSET Pids /\ cmd[h].pc \in {"settle", "attached"} /\ stopFile' \in BOOLEAN
        /\ UNCHANGED <<port, pack, begun>>
    BY AllStays, Types DEF Settle, ServerEnded, IInv
  <1>2. CASE Gone(cmd[h].pid) /\ Goto(h, "clean") /\ UNCHANGED <<lock, watch>>
    <2>1. /\ Born(cmd[h].pid) \/ (cmd[h].pid = 0 /\ cmd[h].op = "start")
          /\ cmd[h].pid \notin Live
      BY <1>1, <1>2 DEF IInv, PidInv, Gone, HasPid, Known
    <2>2. "clean" \in PCs /\ lock' \in Procs \union {None}
      BY <1>2, Types DEF PCs, IInv
    <2> QED BY <1>1, <1>2, <2>1, <2>2, GotoAct
  <1>3. CASE Return(h, "stopped")
    BY <1>1, <1>3, ReturnAct
  <1> QED BY <1>2, <1>3 DEF Settle, ServerEnded

LEMMA CleanAct == ASSUME IInv, NEW h \in Procs, Clean(h) PROVE IInv'
  <1>1. /\ RecordKept(h) /\ NoBirth /\ srv' \in [Pids -> Servers] /\ rec' \in {0} \union Pids
        /\ lost' \in SUBSET Pids /\ stopFile' \in BOOLEAN /\ cmd[h].pc = "clean"
        /\ UNCHANGED <<port, pack, begun>> /\ srv' = srv /\ RemoveRunFiles
    BY Removed, NothingBorn, Types DEF Clean, IInv
  <1>2. cmd[h].op = "host" => srv[cmd[h].pid].st \in {"stopped", "crashed"}
    <2>1. cmd[h].op = "host" => Born(cmd[h].pid) /\ cmd[h].pid \notin Live
      BY <1>1 DEF IInv, PidInv, HasPid, Known
    <2> QED BY <2>1, Types DEF Born, Live, Servers, IInv
  <1>3. CASE /\ cmd' = [cmd EXCEPT ![h] = [Rest EXCEPT !.op = "start", !.pc = "lock"]]
             /\ UNCHANGED <<lock, watch>>
    BY <1>1, <1>3, RestartAct
  <1>4. CASE Return(h, IF cmd[h].op = "host" THEN srv[cmd[h].pid].st ELSE "failed")
    <2>1. PICK how \in {"none", "failed", "stopped", "crashed"} : Return(h, how)
      BY <1>2, <1>4
    <2> QED BY <1>1, <2>1, ReturnAct
  <1> QED BY <1>3, <1>4 DEF Clean

LEMMA AskAct == ASSUME IInv, NEW h \in Procs, Ask(h) PROVE IInv'
  <1>1. /\ cmd[h].pc = "ask" /\ stopFile' = TRUE /\ Goto(h, "wait")
        /\ srv' = [srv EXCEPT ![cmd[h].pid].term = TRUE]
        /\ UNCHANGED <<rec, lock, port, pack, watch, begun, lost>>
    BY DEF Ask
  <1>2. Born(cmd[h].pid) /\ cmd[h].pid \in Pids
    BY <1>1 DEF IInv, PidInv, Born, HasPid, Known
  <1>3. /\ srv' \in [Pids -> Servers] /\ \A p \in Pids : srv'[p].st = srv[p].st
    <2>1. srv \in [Pids -> Servers]
      BY Types DEF IInv
    <2>2. [srv[cmd[h].pid] EXCEPT !.term = TRUE] \in Servers
      BY <1>2, <2>1 DEF Servers
    <2> QED BY <1>1, <1>2, <2>1, <2>2 DEF Servers
  <1>4. NoBirth
    BY <1>3 DEF NoBirth, Live, Born
  <1>5. RecordKept(h) /\ lock' \in Procs \union {None} /\ "wait" \in PCs
    BY <1>1, Types DEF RecordKept, PCs, IInv
  <1>6. rec' \in {0} \union Pids /\ lost' \in SUBSET Pids /\ stopFile' \in BOOLEAN
    BY <1>1, Types DEF IInv
  <1> QED BY <1>1, <1>2, <1>3, <1>4, <1>5, <1>6, GotoAct

LEMMA AwaitGoneAct == ASSUME IInv, NEW h \in Procs, AwaitGone(h) PROVE IInv'
  <1>1. /\ RecordKept(h) /\ rec' \in {0} \union Pids
        /\ lost' \in SUBSET Pids /\ cmd[h].pc = "wait" /\ stopFile' \in BOOLEAN
        /\ UNCHANGED <<rec, stopFile, port, pack, begun, lost>>
        /\ Born(cmd[h].pid) /\ cmd[h].pid \in Pids
    BY Types DEF AwaitGone, IInv, RecordKept, PidInv, Born, HasPid, Known
  <1>2. CASE Gone(cmd[h].pid) /\ Goto(h, "clean") /\ UNCHANGED <<srv, lock, watch>>
    <2>1. cmd[h].pid \notin Live /\ "clean" \in PCs /\ lock' \in Procs \union {None}
      BY <1>2, Types DEF PCs, Gone, IInv
    <2>2. NoBirth /\ srv' \in [Pids -> Servers]
      BY <1>2, NothingBorn, Types DEF IInv
    <2> QED BY <1>1, <1>2, <2>1, <2>2, GotoAct
  <1>3. CASE srv' = [srv EXCEPT ![cmd[h].pid].st = "crashed"] /\ UNCHANGED <<cmd, lock, watch>>
    <2>1. srv' \in [Pids -> Servers] /\ NoBirth
      BY <1>1, <1>3, Ended DEF IInv
    <2>2. TypeOK'
      BY <1>1, <1>3, <2>1, Types, TypesNext DEF IInv
    <2> QED BY <1>1, <1>3, <2>1, <2>2, ServerStep
  <1>4. CASE Return(h, "failed") /\ UNCHANGED srv
    BY <1>1, <1>4, NothingBorn, ReturnAct, Types DEF IInv
  <1> QED BY <1>2, <1>3, <1>4 DEF AwaitGone

\* What a start reads back is its own pid, or there is no record any more.
LEMMA RereadAct == ASSUME IInv, NEW h \in Procs, Reread(h) PROVE IInv'
  <1>1. /\ RecordKept(h) /\ NoBirth /\ cmd[h].pc = "reread"
        /\ UNCHANGED <<srv, rec, stopFile, lock, port, pack, watch, begun, lost>>
    BY AllStays DEF Reread, IInv
  <1> DEFINE c == [cmd[h] EXCEPT !.pid = rec, !.pc = "settle"]
  <1>2. cmd[h] \in Cmds /\ rec \in {0} \union Pids /\ cmd[h].op = "start"
    BY <1>1, Types DEF IInv, LockInv
  <1>3. c \in Cmds /\ c.pc = "settle" /\ c.pid = rec /\ c.op = cmd[h].op
    BY <1>2 DEF Cmds, PCs
  <1>4. Sets(h, c)
    BY <1>2, Types DEF Sets, IInv, Reread
  <1> HIDE DEF c
  <1>5. cmd' \in [Procs -> Cmds] /\ \A g \in Procs : g # h => cmd'[g] = cmd[g]
    BY <1>3, <1>4, SetsOne, Types DEF IInv
  <1>6. TypeOK'
    BY <1>1, <1>5, Types, TypesNext DEF IInv
  <1>7. WatchInv'
    BY <1>1, <1>5, RestIsCmd DEF WatchInv, IInv, Procs
  <1>8. Locks(h, c, lock') /\ Known(c)
    BY <1>1, <1>2, <1>3 DEF Locks, Known, IInv, PidInv
  <1> QED BY <1>1, <1>3, <1>4, <1>6, <1>7, <1>8, CommandStep

\* A command dies.
LEMMA DieAct == ASSUME IInv, NEW h \in Vbs, Die(h) PROVE IInv'
  <1>1. /\ h \in Procs /\ h # Thread /\ Sets(h, Rest) /\ srv' = srv
        /\ UNCHANGED <<rec, stopFile, port, pack, watch, begun>>
        /\ lost' = lost \union LeftBehind(h) /\ lock' = IF lock = h THEN None ELSE lock
    BY ServerProcsDiffer DEF Die, Procs, Unlock, Sets
  <1>2. lost' \in SUBSET Pids /\ lock' \in Procs \union {None}
    BY <1>1, Types DEF IInv, LeftBehind, Live
  <1>3. cmd' \in [Procs -> Cmds] /\ cmd'[Thread] = cmd[Thread]
    BY <1>1, SetsOne, RestIsCmd, Types DEF IInv, Procs
  <1>4. TypeOK' /\ WatchInv'
    BY <1>1, <1>2, <1>3, Types, TypesNext DEF IInv, WatchInv
  <1>5. NoBirth /\ RecordKept(h) /\ \A g \in Procs \ {h} : lock = g => lock' = g
    BY <1>1, NothingBorn DEF RecordKept
  <1>6. cmd[h].pc = "record" => (cmd[h].pid \in Live' => cmd[h].pid \in lost')
    BY <1>1, <1>5 DEF LeftBehind, NoBirth
  <1>7. Locks(h, Rest, lock') /\ ~HasPid(Rest)
    BY RestIsCmd DEF Locks, HasPid, Starting
  <1> QED BY <1>1, <1>4, <1>5, <1>6, <1>7, RestIsCmd, CommandStep

-----------------------------------------------------------------------------
\* The servers, the configuration and the watcher.

LEMMA ServersAct ==
  ASSUME IInv, NEW s \in Pids, Serve(s) \/ Obey(s) \/ Crash(s)
  PROVE  IInv'
  <1>1. UNCHANGED <<rec, stopFile, lock, port, pack, cmd, watch, begun, lost>> /\ s \in Live
    BY DEF Serve, Obey, Crash, Live
  <1>2. PICK v \in Servers : srv' = [srv EXCEPT ![s] = v] /\ v.st # "unborn"
    <2>1. srv[s] \in Servers /\ pack \in 0..MaxEdits
      BY Types DEF IInv
    <2>2. CASE Serve(s)
      <3> DEFINE v == IF Bound(srv[s].port) THEN [srv[s] EXCEPT !.st = "crashed"]
                      ELSE [srv[s] EXCEPT !.st = "up", !.pack = pack]
      <3>1. v \in Servers /\ v.st # "unborn"
        BY <2>1 DEF Servers
      <3>2. srv' = [srv EXCEPT ![s] = v]
        BY <2>2 DEF Serve
      <3> QED BY <3>1, <3>2
    <2>3. CASE Obey(s) \/ Crash(s)
      <3> DEFINE v(st) == [srv[s] EXCEPT !.st = st]
      <3>1. \A st \in {"stopped", "crashed"} : v(st) \in Servers /\ v(st).st # "unborn"
        BY <2>1 DEF Servers
      <3>2. \E st \in {"stopped", "crashed"} : srv' = [srv EXCEPT ![s] = v(st)]
        BY <2>3 DEF Obey, Crash
      <3> HIDE DEF v
      <3> QED BY <3>1, <3>2
    <2> QED BY <2>2, <2>3
  <1>3. /\ srv' \in [Pids -> Servers] /\ srv'[s] = v /\ \A p \in Pids : p # s => srv'[p] = srv[p]
    BY <1>2, Types DEF IInv
  <1>4. NoBirth
    BY <1>1, <1>2, <1>3 DEF NoBirth, Live, Born
  <1>5. TypeOK'
    BY <1>1, <1>3, Types, TypesNext DEF IInv
  <1> QED BY <1>1, <1>4, <1>5, ServerStep

LEMMA ConfigAct == ASSUME IInv, SetPort \/ Edit PROVE IInv'
  <1>1. UNCHANGED <<srv, rec, stopFile, lock, cmd, watch, lost>>
    BY DEF SetPort, Edit
  <1>2. begun' \in 0..MaxCommands /\ pack' \in 0..MaxEdits /\ port' \in Ports
    <2>1. \A b \in Nat, m \in Nat : b < m => b + 1 \in 0..m
      OBVIOUS
    <2>2. begun \in 0..MaxCommands /\ pack \in 0..MaxEdits /\ port \in Ports
      BY Types DEF IInv
    <2>3. \/ begun < MaxCommands /\ begun' = begun + 1 /\ pack' = pack /\ port' \in Ports
          \/ pack < MaxEdits /\ pack' = pack + 1 /\ begun' = begun /\ port' = port
      BY DEF SetPort, Edit
    <2> QED BY <2>1, <2>2, <2>3, ServerBounds
  <1>3. TypeOK'
    BY <1>1, <1>2, Types, TypesNext DEF IInv
  <1>4. NoBirth
    BY <1>1, NothingBorn
  <1> QED BY <1>1, <1>3, <1>4, ServerStep

\* The watcher looks or waits.
LEMMA WatcherOnly ==
  ASSUME IInv, Notice \/ Poll \/ Quiet
  PROVE  IInv'
  <1>1. UNCHANGED <<srv, rec, stopFile, lock, port, pack, cmd, begun, lost>>
    BY DEF Notice, Poll, Quiet
  <1>2. watch \in Watches /\ pack \in 0..MaxEdits
    BY Types DEF IInv
  <1>3. watch' \in Watches
    <2>1. CASE Notice
      BY <1>2, <2>1 DEF Notice, Watches
    <2>2. CASE Poll
      BY <1>2, <2>2 DEF Poll, Watches
    <2>3. CASE Quiet
      BY <1>2, <2>3 DEF Quiet, Settled, Watches
    <2> QED BY <2>1, <2>2, <2>3
  <1>4. watch.pc # "off"
    BY DEF Notice, Poll, Quiet
  <1>5. watch'.pc # "off"
    <2>1. CASE Notice
      BY <1>2, <2>1 DEF Notice, Watches
    <2>2. CASE Poll
      BY <1>2, <2>2 DEF Poll, Watches
    <2>3. CASE Quiet
      BY <1>2, <2>3 DEF Quiet, Settled, Watches
    <2> QED BY <2>1, <2>2, <2>3
  <1>6. TypeOK'
    BY <1>1, <1>3, Types, TypesNext DEF IInv
  <1> QED BY <1>1, <1>5, <1>6, NothingBorn, ServerStep

\* The watcher's thread or the watcher itself, at rest, is given a command.
LEMMA GivenAct ==
  ASSUME IInv, NEW h \in Procs, cmd[h] = Rest, NEW c \in Cmds, Sets(h, c), ~HasPid(c),
         c.pc \in {"lock", "look", "sweep"}, c.pc # "lock" => c.op \notin Starting,
         watch' \in Watches, watch'.pc # "off",
         UNCHANGED <<srv, rec, stopFile, lock, port, pack, begun, lost>>
  PROVE  IInv'
  <1>1. cmd' \in [Procs -> Cmds]
    BY SetsOne, Types DEF IInv
  <1>2. TypeOK'
    BY <1>1, Types, TypesNext DEF IInv
  <1>3. Locks(h, c, lock') /\ c.pc \notin {"record", "clean"}
    BY DEF Locks
  <1>4. NoBirth /\ RecordKept(h) /\ \A g \in Procs \ {h} : lock = g => lock' = g
    BY NothingBorn DEF RecordKept
  <1>5. c.op \in Starting => c.pc \notin {"sweep", "plan", "spawn"}
    OBVIOUS
  <1>6. WatchInv'
    BY DEF WatchInv
  <1> QED BY <1>2, <1>3, <1>4, <1>5, <1>6, RestIsCmd, CommandStep

LEMMA WatchAct == ASSUME IInv, Watch \/ Join PROVE IInv'
  <1> DEFINE c == [Rest EXCEPT !.op = "host", !.pc = "lock"]
  <1>1. c \in Cmds /\ ~HasPid(c) /\ c.pc = "lock"
    BY DEF Cmds, Rest, Ops, PCs, HasPid
  <1>2. Sets(Thread, c)
    BY DEF Watch, Join, StartThread, Sets
  <1>3. Thread \in Procs /\ cmd[Thread] = Rest
    BY DEF Procs, Watch, Join, Finished, WatchInv, IInv
  <1>4. watch' \in Watches /\ watch'.pc # "off"
    <2>1. watch \in Watches /\ pack \in 0..MaxEdits
      BY Types DEF IInv
    <2>2. CASE Watch
      BY <2>1, <2>2 DEF Watch, Watches
    <2>3. CASE Join
      BY <2>1, <2>3 DEF Join, Watches
    <2> QED BY <2>2, <2>3
  <1>5. UNCHANGED <<srv, rec, stopFile, lock, port, pack, begun, lost>>
    BY DEF Watch, Join
  <1> HIDE DEF c
  <1> QED BY <1>1, <1>2, <1>3, <1>4, <1>5, GivenAct

LEMMA AwaitAct == ASSUME IInv, Await PROVE IInv'
  <1>1. /\ Keeper \in Procs /\ cmd[Keeper] = Rest /\ watch.pc = "await"
        /\ UNCHANGED <<srv, rec, stopFile, lock, port, pack, begun, lost>>
    BY DEF Await, Procs
  <1>2. watch \in Watches
    BY Types DEF IInv
  <1>3. CASE /\ watch' = [watch EXCEPT !.pc = "stop"]
             /\ cmd' = [cmd EXCEPT ![Keeper] =
                          [Rest EXCEPT !.op = "stop", !.kill = TRUE, !.pc = "look"]]
    <2> DEFINE c == [Rest EXCEPT !.op = "stop", !.kill = TRUE, !.pc = "look"]
    <2>1. c \in Cmds /\ ~HasPid(c) /\ c.pc = "look" /\ c.op \notin Starting
      BY DEF Cmds, Rest, Ops, PCs, HasPid, Starting
    <2>2. Sets(Keeper, c)
      BY <1>3 DEF Sets
    <2>3. watch' \in Watches /\ watch'.pc # "off"
      BY <1>2, <1>3 DEF Watches
    <2> HIDE DEF c
    <2> QED BY <1>1, <2>1, <2>2, <2>3, GivenAct
  <1>4. CASE /\ UNCHANGED watch
             /\ cmd' = [cmd EXCEPT ![Keeper] = [Rest EXCEPT !.op = "none", !.pc = "sweep"]]
    <2> DEFINE c == [Rest EXCEPT !.op = "none", !.pc = "sweep"]
    <2>1. c \in Cmds /\ ~HasPid(c) /\ c.pc = "sweep" /\ c.op \notin Starting
      BY DEF Cmds, Rest, Ops, PCs, HasPid, Starting
    <2>2. Sets(Keeper, c)
      BY <1>4 DEF Sets
    <2> HIDE DEF c
    <2> QED BY <1>1, <1>2, <1>4, <2>1, <2>2, GivenAct
  <1> QED BY <1>3, <1>4 DEF Await

LEMMA AwaitSweepAct == ASSUME IInv, AwaitSweep PROVE IInv'
  <1>1. /\ Keeper \in Procs /\ cmd[Keeper].pc = "sweep" /\ srv' = srv
        /\ UNCHANGED <<lock, port, pack, watch, begun>> /\ Sets(Keeper, Rest)
    BY DEF AwaitSweep, Procs, Sets
  <1>2. /\ RecordKept(Keeper) /\ rec' \in {0} \union Pids /\ lost' \in SUBSET Pids
        /\ stopFile' \in BOOLEAN
    BY Removed DEF AwaitSweep, IInv
  <1>3. cmd' \in [Procs -> Cmds] /\ cmd'[Thread] = cmd[Thread]
    BY <1>1, SetsOne, RestIsCmd, Types, ServerProcsDiffer DEF IInv, Procs
  <1>4. TypeOK'
    BY <1>1, <1>2, <1>3, Types, TypesNext DEF IInv
  <1>5. WatchInv'
    BY <1>1, <1>3 DEF WatchInv, IInv
  <1>6. Locks(Keeper, Rest, lock') /\ ~HasPid(Rest)
    BY RestIsCmd DEF Locks, HasPid, Starting
  <1> QED BY <1>1, <1>2, <1>4, <1>5, <1>6, RestIsCmd, NothingBorn, CommandStep

\* The watcher dies, with both its threads.
LEMMA WatcherDiesAct == ASSUME IInv, WatcherDies PROVE IInv'
  <1> DEFINE Dead == {Keeper, Thread}
  <1>1. /\ srv' = srv /\ UNCHANGED <<rec, stopFile, port, pack, begun>>
        /\ lost' = lost \union LeftBehind(Keeper) \union LeftBehind(Thread)
        /\ lock' = IF lock \in Dead THEN None ELSE lock
        /\ watch' = [watch EXCEPT !.pc = "ended"]
    BY DEF WatcherDies
  <1>2. /\ cmd' \in [Procs -> Cmds]
        /\ \A h \in Procs : cmd'[h] = IF h \in Dead THEN Rest ELSE cmd[h]
    BY Types, RestIsCmd DEF WatcherDies, IInv, Procs
  <1>3. /\ lost \subseteq lost' /\ Live' = Live /\ \A p : Born(p)' = Born(p)
        /\ \A h \in Dead : cmd[h].pc = "record" => {cmd[h].pid} \cap Live \subseteq lost'
    BY <1>1 DEF Live, Born, LeftBehind
  <1>4. TypeOK' /\ WatchInv'
    <2>1. lost' \in SUBSET Pids /\ lock' \in Procs \union {None}
      BY <1>1, Types DEF IInv, LeftBehind, Live
    <2>2. watch' \in Watches /\ watch'.pc = "ended"
      BY <1>1, Types DEF IInv, Watches
    <2> QED BY <1>1, <1>2, <2>1, <2>2, Types, TypesNext DEF IInv, WatchInv
  <1> HIDE DEF Dead
  <1>5. PidInv'
    <2>1. ASSUME NEW h \in Procs
          PROVE  /\ HasPid(cmd'[h]) => Known(cmd[h])'
                 /\ cmd'[h].pc = "clean" => cmd'[h].pid \notin Live'
      <3>1. CASE h \in Dead
        BY <3>1, <1>2, RestIsCmd DEF HasPid
      <3>2. CASE h \notin Dead
        BY <3>2, <1>2, <1>3 DEF IInv, PidInv, Known
      <3> QED BY <3>1, <3>2
    <2>2. rec' # 0 => Born(rec)'
      BY <1>1, <1>3 DEF IInv, PidInv
    <2> QED BY <2>1, <2>2 DEF PidInv, HasPid
  <1>6. LockInv'
    <2>1. ASSUME NEW h \in Procs
          PROVE  Locks(h, cmd'[h], lock')
      <3>1. CASE h \in Dead
        BY <3>1, <1>2, RestIsCmd DEF Locks, Starting
      <3>2. CASE h \notin Dead
        BY <3>2, <1>1, <1>2 DEF IInv, LockInv, Locks
      <3> QED BY <3>1, <3>2
    <2> QED BY <2>1 DEF LockInv, Locks
  <1>7. Recorded'
    <2>1. ASSUME NEW s \in Live' \ lost'
          PROVE  rec' = s \/ \E g \in Procs : cmd'[g].pc = "record" /\ cmd'[g].pid = s
      <3>1. s \in Live \ lost
        BY <1>3
      <3>2. ASSUME NEW g \in Procs, cmd[g].pc = "record", cmd[g].pid = s
            PROVE  cmd'[g].pc = "record" /\ cmd'[g].pid = s
        <4>1. g \notin Dead
          BY <3>1, <3>2, <1>3
        <4> QED BY <3>2, <4>1, <1>2
      <3> QED BY <1>1, <3>1, <3>2 DEF IInv, ServersInv, Recorded
    <2> QED BY <2>1 DEF Recorded
  <1>8. NoOther'
    <2>1. ASSUME NEW g \in Procs
          PROVE  /\ cmd'[g].op \in Starting /\ cmd'[g].pc \in {"sweep", "plan", "spawn"} =>
                      Live' \subseteq lost'
                 /\ cmd'[g].pc = "record" => Live' \subseteq lost' \union {cmd'[g].pid}
      <3>1. CASE g \in Dead
        BY <3>1, <1>2, RestIsCmd DEF Starting
      <3>2. CASE g \notin Dead
        BY <3>2, <1>2, <1>3 DEF IInv, ServersInv, NoOther
      <3> QED BY <3>1, <3>2
    <2> QED BY <2>1 DEF NoOther
  <1> QED BY <1>4, <1>5, <1>6, <1>7, <1>8 DEF IInv, ServersInv

-----------------------------------------------------------------------------
\* The invariant, and what follows from it.

LEMMA InitInv == Init => IInv
  <1> SUFFICES ASSUME Init PROVE IInv
    OBVIOUS
  <1>1. Live = {}
    BY DEF Init, Live, Unborn
  <1>2. TypeOK
    <2>1. (CHOOSE p \in Ports : TRUE) \in Ports
      BY ServerBounds
    <2>2. srv \in [Pids -> Servers]
      BY ServerBounds DEF Init, Servers, Unborn
    <2>3. cmd \in [Procs -> Cmds] /\ watch \in Watches
      BY RestIsCmd, ServerBounds DEF Init, Watches
    <2>4. port \in Ports
      BY <2>1 DEF Init
    <2>5. 0 \in 0..MaxEdits /\ 0 \in 0..MaxCommands
      BY ServerBounds
    <2>6. /\ rec = 0 /\ stopFile = FALSE /\ lost = {} /\ lock = None /\ pack = 0 /\ begun = 0
      BY DEF Init
    <2> QED BY <2>2, <2>3, <2>4, <2>5, <2>6, Types
  <1>3. \A h \in Procs : cmd[h] = Rest
    BY DEF Init
  <1>4. Thread \in Procs /\ rec = 0
    BY DEF Procs, Init
  <1> QED BY <1>1, <1>2, <1>3, <1>4, RestIsCmd
          DEF IInv, PidInv, WatchInv, LockInv, ServersInv, Recorded, NoOther, Starting, HasPid

LEMMA StepInv == IInv /\ [Next]_vars => IInv'
  <1> SUFFICES ASSUME IInv, [Next]_vars PROVE IInv'
    OBVIOUS
  <1>1. CASE UNCHANGED vars
    <2>1. TypeOK' /\ NoBirth
      BY <1>1, NothingBorn, Types, TypesNext DEF vars, IInv
    <2> QED BY <1>1, <2>1, ServerStep DEF vars
  <1>2. ASSUME NEW h \in Procs, Step(h)
        PROVE  IInv'
    BY <1>2, StartLockAct, LookAct, SweepAct, PlanAct, SpawnAct, RecordAct, RereadAct, SettleAct,
       CleanAct, AskAct, AwaitGoneAct DEF Step
  <1> QED BY <1>1, <1>2, CommandAct, DieAct, RecordFailsAct, ServersAct, ConfigAct, WatchAct,
             WatcherOnly, AwaitAct, AwaitSweepAct, WatcherDiesAct DEF Next, KeeperStep

\* Values have their types.
THEOREM TypeCorrect == Spec => []TypeOK
  <1>1. IInv => TypeOK
    BY DEF IInv
  <1> QED BY <1>1, InitInv, StepInv, PTL DEF Spec

\* A live server is in the record, or its start is about to write it there, or it was left
\* without its record by a sweep that found it late, a record that could not be written or
\* the death of the command that spawned it; and a start past its check of the record is
\* alone with servers so left (start.lock, running_record).
THEOREM ServersAreRecorded == Spec => []ServersInv
  <1>1. IInv => ServersInv
    BY DEF IInv
  <1> QED BY <1>1, InitInv, StepInv, PTL DEF Spec

\* An instance has one server at a time, however the commands of any number of processes,
\* the watcher and the servers interleave and die: of two that live, one was left without
\* its record (instance.cpp:414).
THEOREM OneServerAtATime == Spec => []OneServer
  <1>1. ASSUME IInv
        PROVE  OneServer
    <2>2. Recorded /\ NoOther
      BY <1>1 DEF IInv, ServersInv
    <2>3. \E p : Live \ lost \subseteq {p}
      <3>1. CASE \E h \in Procs : cmd[h].pc = "record"
        BY <3>1, <2>2 DEF NoOther
      <3>2. CASE ~\E h \in Procs : cmd[h].pc = "record"
        BY <3>2, <2>2 DEF Recorded
      <3> QED BY <3>1, <3>2
    <2>4. PICK p : Live \ lost \subseteq {p}
      BY <2>3
    <2>5. IsFiniteSet({p}) /\ Cardinality({p}) = 1
      BY FS_Singleton
    <2>6. IsFiniteSet(Live \ lost) /\ Cardinality(Live \ lost) <= Cardinality({p})
      BY <2>4, <2>5, FS_Subset
    <2> QED BY <2>5, <2>6 DEF OneServer
  <1> QED BY <1>1, InitInv, StepInv, PTL DEF Spec

-----------------------------------------------------------------------------
(* Scripts (ScriptHost): the call stack under callbacks that nest.            *)

FrameLike(f) == {"fn", "id"} \subseteq DOMAIN f /\ f.id \in Nat
Stack(fs) == \E F : fs \in Seq(F) /\ \A f \in F : FrameLike(f)
Same(f, g) == f.fn = g.fn /\ f.id = g.id

(* The loops of dispatch_tick are at the bottom of the stack; nobody is hit   *)
(* whose death a script below is told of, if the dying are left alone.        *)
Loops == {"fire", "entities", "timers"}
Ordered(fs) ==
  /\ \A i \in 1..Len(fs) : fs[i].fn \in Loops => i = 1
  /\ DyingToo \/ \A i, j \in 1..Len(fs) :
                   i < j /\ fs[i].fn = "despawn" /\ fs[j].fn = "hit" => fs[i].id # fs[j].id

(* Ids are not used again; an entity that was told its death is there only    *)
(* until the despawn that told it goes on.                                    *)
IdsInv ==
  /\ next_script_entity_id_ \in Nat \ {0}
  /\ DOMAIN entities \subseteq 1..(next_script_entity_id_ - 1)
  /\ buried \subseteq 1..(next_script_entity_id_ - 1)
DeathInv == ~broken => buried \intersect DOMAIN entities \subseteq Pack!Dying

CallInv == Stack(frames) /\ Ordered(frames) /\ IdsInv /\ DeathInv

-----------------------------------------------------------------------------
\* What a step does to the stack: the m lowest frames stay what they are.

Lower(m) == Stack(frames') /\ \A i \in 1..m : Same(frames'[i], frames[i])

LEMMA StackShape ==
  ASSUME NEW fs, Stack(fs)
  PROVE  /\ Len(fs) \in Nat /\ DOMAIN fs = 1..Len(fs)
         /\ \A i \in 1..Len(fs) : FrameLike(fs[i])
         /\ fs # <<>> <=> Len(fs) > 0
  BY DEF Stack

LEMMA StackFront ==
  ASSUME NEW fs, Stack(fs), fs # <<>>
  PROVE  /\ Stack(Pack!Front(fs)) /\ Len(Pack!Front(fs)) = Len(fs) - 1
         /\ \A i \in 1..(Len(fs) - 1) : Pack!Front(fs)[i] = fs[i]
  <1>1. PICK F : fs \in Seq(F) /\ \A f \in F : FrameLike(f)
    BY DEF Stack
  <1>2. /\ Pack!Front(fs) \in Seq(F) /\ Len(Pack!Front(fs)) = Len(fs) - 1
        /\ \A i \in 1..(Len(fs) - 1) : Pack!Front(fs)[i] = fs[i]
    <2>1. Len(fs) \in Nat /\ Len(fs) > 0
      BY StackShape
    <2> DEFINE n == Len(fs) - 1
    <2>2. 1 \in Int /\ n \in Int /\ \A i \in 1..n : fs[i] \in F
      BY <1>1, <2>1, ElementOfSeq
    <2>3. /\ SubSeq(fs, 1, n) \in Seq(F) /\ Len(SubSeq(fs, 1, n)) = (IF 1 <= n THEN n - 1 + 1 ELSE 0)
          /\ \A i \in 1..(n - 1 + 1) : SubSeq(fs, 1, n)[i] = fs[1 + i - 1]
      BY <2>2, SubSeqProperties
    <2>4. Pack!Front(fs) = SubSeq(fs, 1, n)
      BY DEF Pack!Front
    <2>5. n \in Nat /\ n - 1 + 1 = n /\ \A i \in 1..n : 1 + i - 1 = i
      BY <2>1
    <2> HIDE DEF n
    <2>6. /\ Pack!Front(fs) \in Seq(F) /\ Len(Pack!Front(fs)) = n
          /\ \A i \in 1..n : Pack!Front(fs)[i] = fs[i]
      BY <2>3, <2>4, <2>5
    <2> QED BY <2>6 DEF n
  <1> QED BY <1>1, <1>2 DEF Stack

LEMMA StackIs ==
  ASSUME NEW fs, NEW F, fs \in Seq(F), \A f \in F : FrameLike(f)
  PROVE  Stack(fs)
  BY DEF Stack

IsOne(fs, f, gs) ==
  /\ Stack(gs) /\ Len(gs) = Len(fs) + 1 /\ \A i \in 1..Len(fs) : gs[i] = fs[i]
  /\ gs[Len(fs) + 1] = f

LEMMA StackOne ==
  ASSUME NEW fs, Stack(fs), NEW f, FrameLike(f), NEW gs, gs = fs \o <<f>>
  PROVE  IsOne(fs, f, gs)
  <1>1. PICK F : fs \in Seq(F) /\ \A g \in F : FrameLike(g)
    BY DEF Stack
  <1> DEFINE G == F \union {f}
  <1>2. fs \in Seq(G) /\ <<f>> \in Seq(G) /\ \A g \in G : FrameLike(g)
    BY <1>1
  <1> HIDE DEF G
  <1>3. gs \in Seq(G)
    BY <1>2
  <1>4. Stack(gs)
    BY <1>2, <1>3, StackIs
  <1> QED BY <1>2, <1>4 DEF IsOne

Two(fs, f, g) == fs \o <<f, g>>
IsTwo(fs, f, g, gs) ==
  /\ Stack(gs) /\ Len(gs) = Len(fs) + 2 /\ \A i \in 1..Len(fs) : gs[i] = fs[i]
  /\ gs[Len(fs) + 1] = f /\ gs[Len(fs) + 2] = g

LEMMA StackTwo ==
  ASSUME NEW fs, Stack(fs), NEW f, NEW g, FrameLike(f), FrameLike(g)
  PROVE  IsTwo(fs, f, g, Two(fs, f, g))
  <1>1. PICK F : fs \in Seq(F) /\ \A h \in F : FrameLike(h)
    BY DEF Stack
  <1> DEFINE G == F \union {f, g}
             gs == Two(fs, f, g)
  <1>2. fs \in Seq(G) /\ <<f, g>> \in Seq(G) /\ \A h \in G : FrameLike(h)
    BY <1>1
  <1> HIDE DEF G
  <1>3. /\ gs \in Seq(G) /\ Len(gs) = Len(fs) + 2 /\ \A i \in 1..Len(fs) : gs[i] = fs[i]
        /\ gs[Len(fs) + 1] = f /\ gs[Len(fs) + 2] = g
    BY <1>2 DEF Two
  <1> HIDE DEF gs
  <1>4. Stack(gs)
    BY <1>2, <1>3, StackIs
  <1>5. IsTwo(fs, f, g, gs)
    BY <1>3, <1>4 DEF IsTwo
  <1> QED BY <1>5 DEF gs

LEMMA NoStack ==
  ASSUME NEW fs, fs = <<>>
  PROVE  Stack(fs) /\ Ordered(fs) /\ Len(fs) = 0
  <1> DEFINE F == {}
  <1>1. fs \in Seq(F) /\ \A f \in F : FrameLike(f)
    OBVIOUS
  <1> HIDE DEF F
  <1>2. Stack(fs)
    BY <1>1, StackIs
  <1>3. Len(fs) = 0
    OBVIOUS
  <1> QED BY <1>2, <1>3 DEF Ordered

LEMMA LowerKeeps ==
  ASSUME CallInv, NEW m \in 0..Len(frames), Lower(m), Len(frames') = m
  PROVE  Stack(frames') /\ Ordered(frames')
  BY StackShape, SMTT(30) DEF CallInv, Lower, Ordered, Same

\* A frame on top of them, or two of which the upper one is a script.
LEMMA LowerOne ==
  ASSUME CallInv, NEW m \in 0..Len(frames), Lower(m), Len(frames') = m + 1,
         frames'[m + 1].fn \in Loops => m = 0,
         frames'[m + 1].fn = "hit" => DyingToo \/
           \A i \in 1..m : frames[i].fn = "despawn" => frames[i].id # frames'[m + 1].id
  PROVE  Stack(frames') /\ Ordered(frames')
  BY StackShape, SMTT(30) DEF CallInv, Lower, Ordered, Same

LEMMA LowerTwo ==
  ASSUME CallInv, NEW m \in 0..Len(frames), Lower(m), Len(frames') = m + 2,
         frames'[m + 1].fn \in Loops => m = 0,
         frames'[m + 1].fn = "hit" => DyingToo \/
           \A i \in 1..m : frames[i].fn = "despawn" => frames[i].id # frames'[m + 1].id,
         frames'[m + 2].fn \notin Loops \union {"hit"}
  PROVE  Stack(frames') /\ Ordered(frames')
  <1>1. Stack(frames') /\ Len(frames) \in Nat /\ m \in Nat /\ m <= Len(frames)
    BY StackShape DEF CallInv, Lower
  <1>2. \A i \in 1..m : i \in 1..Len(frames) /\ frames'[i].fn = frames[i].fn /\ frames'[i].id = frames[i].id
    BY <1>1 DEF Lower, Same
  <1>3. \A i \in 1..Len(frames') : i \in 1..m \/ i = m + 1 \/ i = m + 2
    BY <1>1
  <1>4. \A i \in 1..Len(frames') : frames'[i].fn \in Loops => i = 1
    BY <1>1, <1>2, <1>3 DEF CallInv, Ordered
  <1>5. ASSUME ~DyingToo, NEW i \in 1..Len(frames'), NEW j \in 1..Len(frames'), i < j,
               frames'[i].fn = "despawn", frames'[j].fn = "hit"
        PROVE  frames'[i].id # frames'[j].id
    <2>1. j # m + 2
      BY <1>5
    <2>2. CASE j \in 1..m
      <3>1. i \in 1..m
        BY <1>1, <2>2, <1>5
      <3> QED BY <1>2, <1>5, <2>2, <3>1 DEF CallInv, Ordered
    <2>3. CASE j = m + 1
      <3>1. i \in 1..m
        BY <1>1, <2>3, <1>5
      <3> QED BY <1>2, <1>5, <2>3, <3>1
    <2> QED BY <1>3, <2>1, <2>2, <2>3
  <1> QED BY <1>1, <1>4, <1>5 DEF Ordered

\* Who is dying stays so, but for the frame on top.
LEMMA DyingKept ==
  ASSUME CallInv, NEW m \in 0..Len(frames), Lower(m), Len(frames') >= m, NEW id,
         \E i \in 1..m : frames[i].fn = "despawn" /\ frames[i].id = id
  PROVE  id \in Pack!Dying'
  <1>1. PICK i \in 1..m : frames[i].fn = "despawn" /\ frames[i].id = id
    OBVIOUS
  <1>2. i \in DOMAIN frames' /\ frames'[i].fn = "despawn" /\ frames'[i].id = id
    BY <1>1, StackShape DEF CallInv, Lower, Same
  <1> QED BY <1>2 DEF Pack!Dying

LEMMA DyingIs ==
  ASSUME CallInv, NEW id
  PROVE  id \in Pack!Dying <=> \E i \in 1..Len(frames) : frames[i].fn = "despawn" /\ frames[i].id = id
  BY StackShape DEF CallInv, Pack!Dying

LEMMA TopShape ==
  ASSUME CallInv, NEW fn, Pack!Running(fn)
  PROVE  /\ Len(frames) \in Nat /\ Len(frames) > 0 /\ frames # <<>> /\ ~broken
         /\ Pack!Top = frames[Len(frames)] /\ Pack!Top.fn = fn /\ FrameLike(Pack!Top)
         /\ fn \in Loops => Len(frames) = 1
  <1>1. frames # <<>> /\ Pack!Top = frames[Len(frames)] /\ Pack!Top.fn = fn /\ ~broken
    BY DEF Pack!Running, Pack!Top, Pack!Last
  <1>2. /\ Len(frames) \in Nat /\ Len(frames) > 0 /\ Len(frames) \in 1..Len(frames)
        /\ FrameLike(frames[Len(frames)])
    BY <1>1, StackShape DEF CallInv
  <1>3. fn \in Loops => Len(frames) = 1
    <2>1. frames[Len(frames)].fn = fn
      BY <1>1
    <2>2. \A i \in 1..Len(frames) : frames[i].fn \in Loops => i = 1
      BY DEF CallInv, Ordered
    <2> QED BY <1>2, <2>1, <2>2
  <1> QED BY <1>1, <1>2, <1>3

\* The ways in which the steps change the stack.
LEMMA Popped ==
  ASSUME CallInv, frames # <<>>, frames' = Pack!Front(frames)
  PROVE  Lower(Len(frames) - 1) /\ Len(frames') = Len(frames) - 1
  BY StackShape, StackFront DEF CallInv, Lower, Same

LEMMA PoppedPushed ==
  ASSUME CallInv, frames # <<>>, NEW f, FrameLike(f), frames' = Pack!Replaced(<<f>>)
  PROVE  /\ Lower(Len(frames) - 1) /\ Len(frames') = Len(frames)
         /\ frames'[Len(frames)] = f
  <1> DEFINE low == Pack!Front(frames)
  <1>1. /\ Stack(low) /\ Len(low) = Len(frames) - 1 /\ Len(frames) \in Nat
        /\ \A i \in 1..(Len(frames) - 1) : low[i] = frames[i]
    BY StackShape, StackFront DEF CallInv
  <1>2. frames' = low \o <<f>>
    BY DEF Pack!Replaced
  <1> HIDE DEF low
  <1>3. IsOne(low, f, frames')
    BY <1>1, <1>2, StackOne
  <1>4. \A i \in 1..(Len(frames) - 1) : Same(frames'[i], frames[i])
    BY <1>1, <1>3 DEF Same, IsOne
  <1> QED BY <1>1, <1>3, <1>4 DEF Lower, IsOne

LEMMA PushedOn ==
  ASSUME NEW fs, Stack(fs), NEW f, NEW g, FrameLike(f), FrameLike(g), NEW gs, gs = fs \o <<f, g>>
  PROVE  IsTwo(fs, f, g, gs)
  <1>1. gs = Two(fs, f, g)
    BY DEF Two
  <1>2. IsTwo(fs, f, g, Two(fs, f, g))
    BY StackTwo
  <1> QED BY <1>1, <1>2, Zenon

LEMMA PoppedPushedTwo ==
  ASSUME CallInv, frames # <<>>, NEW f, NEW g, FrameLike(f), FrameLike(g),
         frames' = Pack!Replaced(<<f, g>>)
  PROVE  /\ Lower(Len(frames) - 1) /\ Len(frames') = Len(frames) + 1
         /\ frames'[Len(frames)] = f /\ frames'[Len(frames) + 1] = g
  <1> DEFINE low == Pack!Front(frames)
  <1>1. /\ Stack(low) /\ Len(low) = Len(frames) - 1 /\ Len(frames) \in Nat
        /\ \A i \in 1..(Len(frames) - 1) : low[i] = frames[i]
    BY StackShape, StackFront DEF CallInv
  <1>2. frames' = low \o <<f, g>>
    BY DEF Pack!Replaced
  <1> HIDE DEF low
  <1>3. IsTwo(low, f, g, frames')
    BY <1>1, <1>2, PushedOn
  <1>4. \A i \in 1..(Len(frames) - 1) : Same(frames'[i], frames[i])
    BY <1>1, <1>3 DEF Same, IsTwo
  <1> QED BY <1>1, <1>3, <1>4 DEF Lower, IsTwo

LEMMA PushedTwo ==
  ASSUME CallInv, NEW f, NEW g, FrameLike(f), FrameLike(g), frames' = frames \o <<f, g>>
  PROVE  /\ Lower(Len(frames)) /\ Len(frames') = Len(frames) + 2
         /\ frames'[Len(frames) + 1] = f /\ frames'[Len(frames) + 2] = g
  <1>1. Stack(frames) /\ Len(frames) \in Nat
    BY StackShape DEF CallInv
  <1>2. IsTwo(frames, f, g, frames')
    BY <1>1, PushedOn
  <1>3. \A i \in 1..Len(frames) : Same(frames'[i], frames[i])
    BY <1>2 DEF Same, IsTwo
  <1> QED BY <1>2, <1>3 DEF Lower, IsTwo

-----------------------------------------------------------------------------
\* What a step must keep to.

LEMMA DeathKept ==
  ASSUME CallInv, ~broken, NEW m \in 0..Len(frames), Lower(m), Len(frames') >= m,
         \A i \in 1..Len(frames) : i > m /\ frames[i].fn = "despawn" => frames[i].id \notin DOMAIN entities',
         \A id \in buried' \intersect DOMAIN entities' :
            id \in buried \intersect DOMAIN entities \/ id \in Pack!Dying'
  PROVE  DeathInv'
  <1>1. ASSUME NEW id \in buried' \intersect DOMAIN entities', id \in buried \intersect DOMAIN entities
        PROVE  id \in Pack!Dying'
    <2>1. id \in Pack!Dying
      BY <1>1 DEF CallInv, DeathInv
    <2>2. PICK i \in 1..Len(frames) : frames[i].fn = "despawn" /\ frames[i].id = id
      BY <2>1, DyingIs
    <2>3. Len(frames) \in Nat
      BY StackShape DEF CallInv
    <2>4. i \in 1..m
      BY <2>2, <2>3, <1>1
    <2> QED BY <2>2, <2>4, DyingKept
  <1> QED BY <1>1 DEF DeathInv

LEMMA CallOf ==
  ASSUME Len(frames) \in Nat, Len(frames') \in Nat,
         \/ Len(frames') <= Len(frames)
         \/ frames'[Len(frames')].fn # "script"
         \/ frames'[Len(frames')].id = 0
         \/ /\ frames'[Len(frames')].id \in DOMAIN entities'
            /\ ~Pack!Told(frames'[Len(frames')].id)
  PROVE  Pack!CallLives
  BY DEF Pack!CallLives, Pack!Last

LEMMA NewFrames ==
  ASSUME NEW fn, NEW id \in Nat
  PROVE  /\ FrameLike(Pack!NewFrame(fn)) /\ Pack!NewFrame(fn).fn = fn /\ Pack!NewFrame(fn).id = 0
         /\ FrameLike([Pack!NewFrame(fn) EXCEPT !.id = id])
         /\ [Pack!NewFrame(fn) EXCEPT !.id = id].fn = fn
         /\ [Pack!NewFrame(fn) EXCEPT !.id = id].id = id
         /\ FrameLike(Pack!Script(id)) /\ Pack!Script(id).fn = "script" /\ Pack!Script(id).id = id
  BY DEF Pack!NewFrame, Pack!Script, FrameLike

\* A step that only pops the frame on top.
LEMMA PopAct ==
  ASSUME CallInv, ~broken, frames # <<>>, frames' = Pack!Front(frames),
         IdsInv', buried' = buried, DOMAIN entities' \subseteq DOMAIN entities,
         Pack!Top.fn = "despawn" => Pack!Top.id \notin DOMAIN entities'
  PROVE  CallInv' /\ Pack!CallLives
  <1> DEFINE n == Len(frames)
  <1>1. n \in Nat /\ n > 0 /\ Pack!Top = frames[n]
    BY StackShape DEF CallInv, Pack!Top, Pack!Last
  <1>2. Lower(n - 1) /\ Len(frames') = n - 1 /\ n - 1 \in 0..n
    BY <1>1, Popped
  <1>3. Stack(frames') /\ Ordered(frames')
    BY <1>2, LowerKeeps
  <1>4. \A i \in 1..n : i > n - 1 => i = n
    BY <1>1
  <1>5. DeathInv'
    BY <1>1, <1>2, <1>4, DeathKept
  <1>6. Pack!CallLives
    BY <1>1, <1>2, CallOf
  <1> QED BY <1>3, <1>5, <1>6 DEF CallInv

\* A step that has one frame, which is nobody's death, instead of the one on top.
LEMMA TurnAct ==
  ASSUME CallInv, ~broken, frames # <<>>, NEW f, FrameLike(f), frames' = Pack!Replaced(<<f>>),
         UNCHANGED <<entities, next_script_entity_id_, buried>>, Pack!Top.fn # "despawn",
         f.fn # "hit", f.fn \in Loops => Pack!Top.fn \in Loops
  PROVE  CallInv' /\ Pack!CallLives
  <1> DEFINE n == Len(frames)
  <1>1. n \in Nat /\ n > 0 /\ Pack!Top = frames[n] /\ n \in 1..n
    BY StackShape DEF CallInv, Pack!Top, Pack!Last
  <1>2. Lower(n - 1) /\ Len(frames') = n /\ frames'[n] = f /\ n - 1 \in 0..n
    BY <1>1, PoppedPushed
  <1>3. f.fn \in Loops => n - 1 = 0
    <2>1. frames[n].fn \in Loops => n = 1
      BY <1>1 DEF CallInv, Ordered
    <2> QED BY <1>1, <2>1
  <1>4. Stack(frames') /\ Ordered(frames')
    <2>1. Len(frames') = (n - 1) + 1 /\ frames'[(n - 1) + 1] = f
      BY <1>1, <1>2
    <2> QED BY <1>2, <1>3, <2>1, LowerOne
  <1>5. \A i \in 1..n : i > n - 1 => i = n
    BY <1>1
  <1>6. IdsInv'
    BY DEF CallInv, IdsInv
  <1>7. DeathInv'
    BY <1>1, <1>2, <1>5, DeathKept
  <1>8. Pack!CallLives
    BY <1>1, <1>2, CallOf
  <1> QED BY <1>4, <1>6, <1>7, <1>8 DEF CallInv

\* A step that has two: the one on top went on and called something.
LEMMA CallAct ==
  ASSUME CallInv, ~broken, frames # <<>>, NEW f, NEW g, FrameLike(f), FrameLike(g),
         frames' = Pack!Replaced(<<f, g>>),
         UNCHANGED <<entities, next_script_entity_id_, buried>>, Pack!Top.fn # "despawn",
         f.fn # "hit", f.fn \in Loops => Pack!Top.fn \in Loops, g.fn \notin Loops \union {"hit"},
         g.fn # "script" \/ g.id = 0 \/ (g.id \in DOMAIN entities /\ ~Pack!Told(g.id))
  PROVE  CallInv' /\ Pack!CallLives
  <1> DEFINE n == Len(frames)
  <1>1. n \in Nat /\ n > 0 /\ Pack!Top = frames[n] /\ n \in 1..n
    BY StackShape DEF CallInv, Pack!Top, Pack!Last
  <1>2. /\ Lower(n - 1) /\ Len(frames') = n + 1 /\ frames'[n] = f /\ frames'[n + 1] = g
        /\ n - 1 \in 0..n
    BY <1>1, PoppedPushedTwo
  <1>3. f.fn \in Loops => n - 1 = 0
    <2>1. frames[n].fn \in Loops => n = 1
      BY <1>1 DEF CallInv, Ordered
    <2> QED BY <1>1, <2>1
  <1>4. Stack(frames') /\ Ordered(frames')
    <2>1. /\ Len(frames') = (n - 1) + 2 /\ frames'[(n - 1) + 1] = f
          /\ frames'[(n - 1) + 2] = g
      BY <1>1, <1>2
    <2> QED BY <1>2, <1>3, <2>1, LowerTwo
  <1>5. \A i \in 1..n : i > n - 1 => i = n
    BY <1>1
  <1>6. IdsInv'
    BY DEF CallInv, IdsInv
  <1>7. DeathInv'
    BY <1>1, <1>2, <1>5, DeathKept
  <1>8. Pack!CallLives
    BY <1>1, <1>2, CallOf
  <1> QED BY <1>4, <1>6, <1>7, <1>8 DEF CallInv


\* Undefined behaviour: nothing is claimed of what comes after it.
LEMMA BrokenAct ==
  ASSUME CallInv, Pack!Broken
  PROVE  CallInv' /\ Pack!CallLives
  <1>1. Stack(frames') /\ Ordered(frames') /\ Len(frames') = 0
    BY NoStack DEF Pack!Broken
  <1>2. IdsInv' /\ DeathInv'
    BY DEF CallInv, IdsInv, DeathInv, Pack!Broken, Pack!world
  <1>3. Pack!CallLives
    BY <1>1, StackShape, CallOf DEF CallInv
  <1> QED BY <1>1, <1>2, <1>3 DEF CallInv

\* A step that leaves every frame what it is.
LEMMA StayAct ==
  ASSUME CallInv, ~broken, Lower(Len(frames)), Len(frames') = Len(frames),
         IdsInv', buried' = buried, DOMAIN entities' = DOMAIN entities
  PROVE  CallInv' /\ Pack!CallLives
  <1> DEFINE n == Len(frames)
  <1>1. n \in Nat /\ n \in 0..n /\ \A i \in 1..n : ~(i > n)
    BY StackShape DEF CallInv
  <1>2. Stack(frames') /\ Ordered(frames')
    BY <1>1, LowerKeeps
  <1>3. DeathInv'
    BY <1>1, DeathKept
  <1>4. Pack!CallLives
    BY <1>1, CallOf
  <1> QED BY <1>2, <1>3, <1>4 DEF CallInv

\* on_death is called, above the m lowest frames.
LEMMA DiesAct ==
  ASSUME CallInv, ~broken, NEW m \in 0..Len(frames), Lower(m), Len(frames') = m + 2,
         \A i \in 1..Len(frames) : i > m => frames[i].fn # "despawn",
         NEW id \in DOMAIN entities, ~Pack!Told(id),
         frames'[m + 1].fn = "despawn", frames'[m + 1].id = id,
         frames'[m + 2].fn = "script", frames'[m + 2].id = id,
         DOMAIN entities' = DOMAIN entities, buried' = buried \union {id},
         UNCHANGED next_script_entity_id_
  PROVE  CallInv' /\ Pack!CallLives
  <1>1. Len(frames) \in Nat /\ m \in Nat
    BY StackShape DEF CallInv
  <1>2. Stack(frames') /\ Ordered(frames')
    BY LowerTwo DEF Loops
  <1>3. IdsInv'
    BY DEF CallInv, IdsInv
  <1>4. id \in Pack!Dying'
    <2>1. m + 1 \in DOMAIN frames'
      BY <1>1, <1>2, StackShape
    <2> QED BY <2>1 DEF Pack!Dying
  <1>5. DeathInv'
    BY <1>1, <1>4, DeathKept
  <1>6. Pack!CallLives
    BY <1>1, CallOf
  <1> QED BY <1>2, <1>3, <1>5, <1>6 DEF CallInv

LEMMA NotBuried ==
  ASSUME CallInv, ~broken, NEW id \in DOMAIN entities,
         DyingToo \/ id \notin Pack!Dying
  PROVE  ~Pack!Told(id)
  BY DEF CallInv, DeathInv, Pack!Told

LEMMA HandlesAreIds ==
  ASSUME CallInv, NEW id
  PROVE  id \in Pack!Handles \/ id \in DOMAIN entities => id \in Nat
  BY DEF CallInv, IdsInv, Pack!Handles

-----------------------------------------------------------------------------
\* The steps, one by one.

LEMMA DispatchTickAct ==
  ASSUME CallInv, Pack!DispatchTick
  PROVE  CallInv' /\ Pack!CallLives
  <1>1. PICK dt \in 1..2 :
          frames' = <<[Pack!NewFrame("fire") EXCEPT !.to = handlers, !.dt = dt]>>
    BY DEF Pack!DispatchTick
  <1> DEFINE f == [Pack!NewFrame("fire") EXCEPT !.to = handlers, !.dt = dt]
  <1>2. FrameLike(f) /\ f.fn = "fire"
    BY DEF FrameLike, Pack!NewFrame
  <1>3. frames' = <<f>>
    BY <1>1
  <1> HIDE DEF f
  <1>4. frames' \in Seq({f}) /\ Len(frames') = 1 /\ frames'[1] = f
    BY <1>3
  <1>5. Stack(frames')
    BY <1>2, <1>4, StackIs
  <1>6. Ordered(frames')
    BY <1>2, <1>4 DEF Ordered
  <1>7. Len(frames) = 0 /\ Len(frames) \in Nat
    BY NoStack DEF Pack!DispatchTick
  <1>8. IdsInv'
    BY DEF CallInv, IdsInv, Pack!DispatchTick, Pack!world
  <1>9. DeathInv'
    <2>1. ~broken /\ buried' = buried /\ entities' = entities
      BY DEF Pack!DispatchTick, Pack!world
    <2>2. Lower(0)
      BY <1>5 DEF Lower
    <2>3. 0 \in 0..Len(frames) /\ Len(frames') >= 0 /\ \A i \in 1..Len(frames) : FALSE
      BY <1>4, <1>7
    <2> QED BY <2>1, <2>2, <2>3, DeathKept
  <1>10. Pack!CallLives
    BY <1>2, <1>4, <1>7, CallOf
  <1> QED BY <1>5, <1>6, <1>8, <1>9, <1>10 DEF CallInv

LEMMA FireAct ==
  ASSUME CallInv, Pack!Fire
  PROVE  CallInv' /\ Pack!CallLives
  <1>1. Pack!Running("fire")
    BY DEF Pack!Fire
  <1>2. frames # <<>> /\ ~broken /\ Pack!Top.fn = "fire" /\ FrameLike(Pack!Top)
    BY <1>1, TopShape
  <1>3. CASE Pack!Broken
    BY <1>3, BrokenAct
  <1>4. CASE /\ Pack!Quiet
             /\ Pack!CallScript(Pack!Replaced(<<[Pack!Top EXCEPT !.at = @ + 1], Pack!Script(0)>>))
    <2> DEFINE f == [Pack!Top EXCEPT !.at = @ + 1]
    <2>1. FrameLike(f) /\ f.fn = "fire"
      BY <1>2 DEF FrameLike
    <2>2. FrameLike(Pack!Script(0)) /\ Pack!Script(0).fn = "script" /\ Pack!Script(0).id = 0
      BY NewFrames
    <2>3. /\ frames' = Pack!Replaced(<<f, Pack!Script(0)>>)
          /\ UNCHANGED <<entities, next_script_entity_id_, buried>>
      BY <1>4 DEF Pack!Quiet, Pack!CallScript, Pack!world
    <2> HIDE DEF f
    <2> QED BY <1>2, <2>1, <2>2, <2>3, CallAct DEF Loops
  <1>5. CASE /\ Pack!Quiet
             /\ frames' = Pack!Replaced(<<[Pack!NewFrame("entities") EXCEPT
                                             !.ids = DOMAIN entities, !.dt = Pack!Top.dt]>>)
    <2> DEFINE f == [Pack!NewFrame("entities") EXCEPT !.ids = DOMAIN entities, !.dt = Pack!Top.dt]
    <2>1. FrameLike(f) /\ f.fn = "entities"
      BY DEF FrameLike, Pack!NewFrame
    <2>2. frames' = Pack!Replaced(<<f>>) /\ UNCHANGED <<entities, next_script_entity_id_, buried>>
      BY <1>5 DEF Pack!Quiet, Pack!world
    <2> HIDE DEF f
    <2> QED BY <1>2, <2>1, <2>2, TurnAct DEF Loops
  <1> QED BY <1>3, <1>4, <1>5 DEF Pack!Fire


LEMMA EntityTickAct ==
  ASSUME CallInv, Pack!EntityTick
  PROVE  CallInv' /\ Pack!CallLives
  <1>1. Pack!Running("entities") /\ UNCHANGED <<entities, next_script_entity_id_, buried>>
    BY DEF Pack!EntityTick, Pack!Quiet, Pack!world
  <1>2. /\ frames # <<>> /\ ~broken /\ Pack!Top.fn = "entities" /\ FrameLike(Pack!Top)
        /\ Len(frames) = 1 /\ Pack!Top = frames[1]
    BY <1>1, TopShape DEF Loops
  <1>3. ASSUME NEW id \in Pack!Ticked(Pack!Top.ids),
               frames' = Pack!Replaced(<<[Pack!Top EXCEPT !.ids = @ \ {id}], Pack!Script(id)>>)
        PROVE  CallInv' /\ Pack!CallLives
    <2> DEFINE f == [Pack!Top EXCEPT !.ids = @ \ {id}]
    <2>1. FrameLike(f) /\ f.fn = "entities"
      BY <1>2 DEF FrameLike
    <2>2. id \in DOMAIN entities
      BY <1>3 DEF Pack!Ticked
    <2>3. id \in Nat
      BY <2>2, HandlesAreIds
    <2>4. FrameLike(Pack!Script(id)) /\ Pack!Script(id).fn = "script" /\ Pack!Script(id).id = id
      BY <2>3, NewFrames
    <2>5. id \notin Pack!Dying
      <3>1. \A i \in 1..Len(frames) : frames[i].fn = "entities"
        BY <1>2
      <3> QED BY <3>1, DyingIs
    <2>6. ~Pack!Told(id)
      BY <1>2, <2>2, <2>5, NotBuried
    <2>7. frames' = Pack!Replaced(<<f, Pack!Script(id)>>)
      BY <1>3
    <2> HIDE DEF f
    <2> QED BY <1>1, <1>2, <2>1, <2>2, <2>4, <2>6, <2>7, CallAct DEF Loops
  <1>4. CASE frames' = Pack!Replaced(<<[Pack!NewFrame("timers") EXCEPT !.to = Len(timers),
                                                                     !.dt = Pack!Top.dt]>>)
    <2> DEFINE f == [Pack!NewFrame("timers") EXCEPT !.to = Len(timers), !.dt = Pack!Top.dt]
    <2>1. FrameLike(f) /\ f.fn = "timers"
      BY DEF FrameLike, Pack!NewFrame
    <2>2. frames' = Pack!Replaced(<<f>>)
      BY <1>4
    <2> HIDE DEF f
    <2> QED BY <1>1, <1>2, <2>1, <2>2, TurnAct DEF Loops
  <1> QED BY <1>3, <1>4 DEF Pack!EntityTick, Pack!CallScript

LEMMA CountDownAct ==
  ASSUME CallInv, Pack!CountDown
  PROVE  CallInv' /\ Pack!CallLives
  <1>1. /\ Pack!Running("timers") /\ UNCHANGED <<entities, next_script_entity_id_, buried>>
        /\ frames' = Pack!Replaced(<<[Pack!Top EXCEPT !.at = @ + 1],
                          [Pack!NewFrame("timer") EXCEPT !.to = Pack!Top.at, !.at = 0]>>)
    BY DEF Pack!CountDown, Pack!world
  <1>2. frames # <<>> /\ ~broken /\ Pack!Top.fn = "timers" /\ FrameLike(Pack!Top)
    BY <1>1, TopShape
  <1> DEFINE f == [Pack!Top EXCEPT !.at = @ + 1]
             g == [Pack!NewFrame("timer") EXCEPT !.to = Pack!Top.at, !.at = 0]
  <1>3. FrameLike(f) /\ f.fn = "timers" /\ FrameLike(g) /\ g.fn = "timer"
    BY <1>2 DEF FrameLike, Pack!NewFrame
  <1>4. frames' = Pack!Replaced(<<f, g>>)
    BY <1>1
  <1> HIDE DEF f, g
  <1> QED BY <1>1, <1>2, <1>3, <1>4, CallAct DEF Loops

LEMMA FireTimerAct ==
  ASSUME CallInv, Pack!FireTimer
  PROVE  CallInv' /\ Pack!CallLives
  <1>1. Pack!Running("timer") /\ UNCHANGED <<entities, next_script_entity_id_, buried>>
    BY DEF Pack!FireTimer, Pack!Quiet, Pack!world
  <1>2. frames # <<>> /\ ~broken /\ Pack!Top.fn = "timer" /\ FrameLike(Pack!Top)
    BY <1>1, TopShape
  <1>3. CASE frames' = Pack!Replaced(<<[Pack!Top EXCEPT !.fn = "fired"], Pack!Script(0)>>)
    <2> DEFINE f == [Pack!Top EXCEPT !.fn = "fired"]
    <2>1. FrameLike(f) /\ f.fn = "fired"
      BY <1>2 DEF FrameLike
    <2>2. FrameLike(Pack!Script(0)) /\ Pack!Script(0).fn = "script" /\ Pack!Script(0).id = 0
      BY NewFrames
    <2>3. frames' = Pack!Replaced(<<f, Pack!Script(0)>>)
      BY <1>3
    <2> HIDE DEF f
    <2> QED BY <1>1, <1>2, <2>1, <2>2, <2>3, CallAct DEF Loops
  <1>4. CASE frames' = Pack!Front(frames)
    <2>1. IdsInv'
      BY <1>1 DEF CallInv, IdsInv
    <2> QED BY <1>1, <1>2, <1>4, <2>1, PopAct
  <1> QED BY <1>3, <1>4 DEF Pack!FireTimer, Pack!CallScript

LEMMA FiredAct ==
  ASSUME CallInv, Pack!Fired
  PROVE  CallInv' /\ Pack!CallLives
  <1>1. Pack!Running("fired")
    BY DEF Pack!Fired
  <1>2. frames # <<>> /\ ~broken /\ Pack!Top.fn = "fired" /\ FrameLike(Pack!Top)
    BY <1>1, TopShape
  <1>3. CASE Pack!Broken
    BY <1>3, BrokenAct
  <1>4. CASE /\ frames' = Pack!Replaced(<<[Pack!Top EXCEPT !.fn = "timer",
                                              !.at = IF @ < CatchUp THEN @ + 1 ELSE @]>>)
             /\ UNCHANGED <<entities, next_script_entity_id_, buried>>
    <2> DEFINE f == [Pack!Top EXCEPT !.fn = "timer", !.at = IF @ < CatchUp THEN @ + 1 ELSE @]
    <2>1. FrameLike(f) /\ f.fn = "timer"
      BY <1>2 DEF FrameLike
    <2>2. frames' = Pack!Replaced(<<f>>)
      BY <1>4
    <2> HIDE DEF f
    <2> QED BY <1>2, <1>4, <2>1, <2>2, TurnAct DEF Loops
  <1> QED BY <1>3, <1>4 DEF Pack!Fired, Pack!world

LEMMA EndTickAct ==
  ASSUME CallInv, Pack!EndTick
  PROVE  CallInv' /\ Pack!CallLives
  <1>1. /\ Pack!Running("timers") /\ UNCHANGED <<entities, next_script_entity_id_, buried>>
        /\ frames' = <<>>
    BY DEF Pack!EndTick, Pack!world
  <1>2. ~broken /\ Len(frames) = 1 /\ frames[1].fn = "timers"
    BY <1>1, TopShape DEF Loops
  <1>3. Stack(frames') /\ Ordered(frames') /\ Len(frames') = 0
    BY <1>1, NoStack
  <1>4. IdsInv'
    BY <1>1 DEF CallInv, IdsInv
  <1>5. DeathInv'
    <2>1. Lower(0) /\ 0 \in 0..Len(frames) /\ Len(frames') >= 0
      BY <1>2, <1>3 DEF Lower
    <2>2. \A i \in 1..Len(frames) : frames[i].fn = "timers"
      BY <1>2
    <2> QED BY <1>1, <1>2, <2>1, <2>2, DeathKept
  <1>6. Pack!CallLives
    BY <1>2, <1>3, CallOf
  <1> QED BY <1>3, <1>4, <1>5, <1>6 DEF CallInv

LEMMA DespawnAct ==
  ASSUME CallInv, Pack!Despawn
  PROVE  CallInv' /\ Pack!CallLives
  <1>1. Pack!Running("despawn")
    BY DEF Pack!Despawn
  <1>2. frames # <<>> /\ ~broken
    BY <1>1, TopShape
  <1>3. CASE Pack!Broken
    BY <1>3, BrokenAct
  <1>4. CASE /\ entities' = Pack!Without(Pack!Top.id) /\ frames' = Pack!Front(frames)
             /\ UNCHANGED <<next_script_entity_id_, buried>>
    <2>1. DOMAIN entities' = DOMAIN entities \ {Pack!Top.id}
      BY <1>4 DEF Pack!Without
    <2>2. IdsInv'
      BY <1>4, <2>1 DEF CallInv, IdsInv
    <2> QED BY <1>2, <1>4, <2>1, <2>2, PopAct
  <1> QED BY <1>3, <1>4 DEF Pack!Despawn


LEMMA HitAct ==
  ASSUME CallInv, Pack!Hit
  PROVE  CallInv' /\ Pack!CallLives
  <1> DEFINE n == Len(frames)
             id == Pack!Top.id
  <1>1. Pack!Running("hit") /\ UNCHANGED next_script_entity_id_
    BY DEF Pack!Hit
  <1>2. /\ frames # <<>> /\ ~broken /\ n \in Nat /\ n > 0 /\ n \in 1..n /\ Pack!Top = frames[n]
        /\ frames[n].fn = "hit" /\ id = frames[n].id
    BY <1>1, TopShape
  <1>3. ASSUME DOMAIN entities' = DOMAIN entities, frames' = Pack!Front(frames), UNCHANGED buried
        PROVE  CallInv' /\ Pack!CallLives
    <2>1. IdsInv'
      BY <1>1, <1>3 DEF CallInv, IdsInv
    <2> QED BY <1>2, <1>3, <2>1, PopAct
  <1>4. ASSUME NEW v, entities' = [entities EXCEPT ![id] = v], frames' = Pack!Front(frames),
               UNCHANGED buried
        PROVE  CallInv' /\ Pack!CallLives
    BY <1>3, <1>4
  <1>5. ASSUME id \in DOMAIN entities, NEW D, D = DOMAIN entities, DOMAIN entities' = D,
               Pack!Dies(Pack!Front(frames), id)
        PROVE  CallInv' /\ Pack!CallLives
    <2>1. DyingToo \/ id \notin Pack!Dying
      <3>1. ASSUME ~DyingToo, NEW i \in 1..n, frames[i].fn = "despawn" PROVE frames[i].id # id
        <4>1. i < n
          BY <1>2, <3>1
        <4> QED BY <1>2, <3>1, <4>1 DEF CallInv, Ordered
      <3> QED BY <3>1, DyingIs
    <2>2. ~Pack!Told(id) /\ id \in Nat
      BY <1>2, <1>5, <2>1, NotBuried, HandlesAreIds
    <2> DEFINE f == [Pack!NewFrame("despawn") EXCEPT !.id = id]
               g == Pack!Script(id)
    <2>3. /\ FrameLike(f) /\ f.fn = "despawn" /\ f.id = id
          /\ FrameLike(g) /\ g.fn = "script" /\ g.id = id
      BY <2>2, NewFrames
    <2>4. frames' = Pack!Replaced(<<f, g>>) /\ buried' = buried \union {id}
      BY <1>5 DEF Pack!Dies, Pack!CallScript, Pack!Replaced
    <2> HIDE DEF f, g, id
    <2>5. Lower(n - 1) /\ Len(frames') = n + 1 /\ frames'[n] = f /\ frames'[n + 1] = g
      BY <1>2, <2>3, <2>4, PoppedPushedTwo
    <2>6. /\ n - 1 \in 0..n /\ Len(frames') = (n - 1) + 2
          /\ frames'[(n - 1) + 1] = f /\ frames'[(n - 1) + 2] = g
      BY <1>2, <2>5
    <2>7. \A i \in 1..n : i > n - 1 => frames[i].fn # "despawn"
      BY <1>2
    <2> QED BY <1>1, <1>2, <1>5, <2>2, <2>3, <2>4, <2>5, <2>6, <2>7, DiesAct
  <1>6. CASE Pack!StillThere(id) /\ \E v : entities' = [entities EXCEPT ![id] = v]
             /\ frames' = Pack!Front(frames) /\ UNCHANGED buried
    BY <1>4, <1>6
  <1>7. CASE /\ Pack!StillThere(id)
             /\ entities' = [i \in DOMAIN entities |-> IF i = id THEN 0 ELSE entities[i]]
             /\ Pack!Dies(Pack!Front(frames), id)
    <2>1. DOMAIN entities' = DOMAIN entities
      BY <1>7
    <2> QED BY <1>5, <1>7, <2>1 DEF Pack!StillThere
  <1>8. CASE frames' = Pack!Front(frames) /\ UNCHANGED <<entities, buried>>
    BY <1>3, <1>8
  <1> QED BY <1>6, <1>7, <1>8 DEF Pack!Hit

LEMMA SpawnEntityAct ==
  ASSUME CallInv, Pack!Spawn
  PROVE  CallInv' /\ Pack!CallLives
  <1> DEFINE n == Len(frames)
             id == next_script_entity_id_
             g == Pack!Script(id)
  <1>1. Pack!Running("script") /\ UNCHANGED buried
    BY DEF Pack!Spawn, Pack!Binding
  <1>2. n \in Nat /\ n > 0 /\ ~broken
    BY <1>1, TopShape
  <1>3. DOMAIN entities' = DOMAIN entities \union {id} /\ next_script_entity_id_' = id + 1
    BY DEF Pack!Spawn
  <1>4. id \in Nat /\ id \notin buried /\ id > 0
    BY DEF CallInv, IdsInv
  <1>5. FrameLike(g) /\ g.fn = "script" /\ g.id = id
    BY <1>4, NewFrames
  <1>6. frames' = Append(frames, g)
    BY DEF Pack!Spawn, Pack!CallScript
  <1> HIDE DEF g
  <1>7. frames' = frames \o <<g>>
    <2>1. PICK F : frames \in Seq(F)
      BY DEF CallInv, Stack
    <2> DEFINE G == F \union {g}
    <2>2. frames \in Seq(G) /\ g \in G
      BY <2>1
    <2> HIDE DEF G
    <2> QED BY <1>6, <2>2, AppendIsConcat
  <1>8. Lower(n) /\ Len(frames') = n + 1 /\ frames'[n + 1] = g
    <2>1. Stack(frames)
      BY DEF CallInv
    <2>2. IsOne(frames, g, frames')
      BY <1>5, <1>7, <2>1, StackOne
    <2>3. \A i \in 1..n : Same(frames'[i], frames[i])
      BY <2>2 DEF Same, IsOne
    <2> QED BY <2>2, <2>3 DEF Lower, IsOne
  <1>9. Stack(frames') /\ Ordered(frames')
    BY <1>2, <1>5, <1>8, LowerOne DEF Loops
  <1>10. IdsInv'
    BY <1>1, <1>3 DEF CallInv, IdsInv
  <1>11. DeathInv'
    <2>1. \A i \in 1..n : ~(i > n)
      BY <1>2
    <2>2. buried' \intersect DOMAIN entities' \subseteq buried \intersect DOMAIN entities
      BY <1>1, <1>3, <1>4
    <2> QED BY <1>2, <1>8, <2>1, <2>2, DeathKept
  <1>12. Pack!CallLives
    BY <1>2, <1>3, <1>4, <1>5, <1>8, CallOf DEF Pack!Told
  <1> QED BY <1>9, <1>10, <1>11, <1>12 DEF CallInv

LEMMA DamageAct ==
  ASSUME CallInv, NEW id \in Pack!Handles, Pack!Damage(id)
  PROVE  CallInv' /\ Pack!CallLives
  <1> DEFINE n == Len(frames)
  <1>1. Pack!Running("script") /\ UNCHANGED <<entities, next_script_entity_id_, buried>>
    BY DEF Pack!Damage, Pack!Binding, Pack!world
  <1>2. n \in Nat /\ n > 0 /\ ~broken /\ id \in Nat /\ \A i \in 1..n : ~(i > n)
    BY <1>1, TopShape, HandlesAreIds
  <1>3. IdsInv'
    BY <1>1 DEF CallInv, IdsInv
  <1>4. CASE UNCHANGED frames
    <2>1. Lower(n) /\ Len(frames') = n
      BY <1>4 DEF CallInv, Lower, Same
    <2> QED BY <1>1, <1>2, <1>3, <2>1, StayAct
  <1>5. CASE /\ id \in DOMAIN entities
             /\ frames' = frames \o <<[Pack!NewFrame("hit") EXCEPT !.id = id], Pack!Script(id)>>
    <2>1. DyingToo \/ id \notin Pack!Dying
      BY DEF Pack!Damage, Pack!Usable
    <2>2. ~Pack!Told(id)
      BY <1>2, <1>5, <2>1, NotBuried
    <2> DEFINE f == [Pack!NewFrame("hit") EXCEPT !.id = id]
               g == Pack!Script(id)
    <2>3. /\ FrameLike(f) /\ f.fn = "hit" /\ f.id = id
          /\ FrameLike(g) /\ g.fn = "script" /\ g.id = id
      BY <1>2, NewFrames
    <2>4. frames' = frames \o <<f, g>>
      BY <1>5
    <2> HIDE DEF f, g
    <2>5. Lower(n) /\ Len(frames') = n + 2 /\ frames'[n + 1] = f /\ frames'[n + 2] = g
      BY <2>3, <2>4, PushedTwo
    <2>6. DyingToo \/ \A i \in 1..n : frames[i].fn = "despawn" => frames[i].id # id
      BY <2>1, DyingIs
    <2>7. Stack(frames') /\ Ordered(frames')
      BY <1>2, <2>3, <2>5, <2>6, LowerTwo DEF Loops
    <2>8. DeathInv'
      BY <1>1, <1>2, <2>5, DeathKept
    <2>9. Pack!CallLives
      BY <1>1, <1>2, <1>5, <2>2, <2>3, <2>5, CallOf
    <2> QED BY <1>3, <2>7, <2>8, <2>9 DEF CallInv
  <1> QED BY <1>4, <1>5 DEF Pack!Damage, Pack!CallScript

LEMMA DiesHere ==
  ASSUME CallInv, Pack!Running("script"), NEW id \in DOMAIN entities, Pack!Usable(id),
         DOMAIN entities' = DOMAIN entities, UNCHANGED next_script_entity_id_,
         Pack!Dies(frames, id)
  PROVE  CallInv' /\ Pack!CallLives
  <1> DEFINE n == Len(frames)
             f == [Pack!NewFrame("despawn") EXCEPT !.id = id]
             g == Pack!Script(id)
  <1>1. n \in Nat /\ n \in 0..n /\ ~broken /\ id \in Nat /\ \A i \in 1..n : ~(i > n)
    BY TopShape, HandlesAreIds
  <1>2. ~Pack!Told(id)
    BY <1>1, NotBuried DEF Pack!Usable
  <1>3. /\ FrameLike(f) /\ f.fn = "despawn" /\ f.id = id
        /\ FrameLike(g) /\ g.fn = "script" /\ g.id = id
    BY <1>1, NewFrames
  <1>4. frames' = frames \o <<f, g>> /\ buried' = buried \union {id}
    BY DEF Pack!Dies, Pack!CallScript
  <1> HIDE DEF f, g
  <1>5. Lower(n) /\ Len(frames') = n + 2 /\ frames'[n + 1] = f /\ frames'[n + 2] = g
    BY <1>3, <1>4, PushedTwo
  <1> QED BY <1>1, <1>2, <1>3, <1>4, <1>5, DiesAct


LEMMA RemoveEntityAct ==
  ASSUME CallInv, NEW id \in Pack!Handles, Pack!RemoveEntity(id)
  PROVE  CallInv' /\ Pack!CallLives
  <1>1. /\ Pack!Running("script") /\ Pack!Usable(id)
        /\ UNCHANGED <<entities, next_script_entity_id_>>
    BY DEF Pack!RemoveEntity, Pack!Binding, Pack!world
  <1>2. CASE id \in DOMAIN entities /\ Pack!Dies(frames, id)
    BY <1>1, <1>2, DiesHere
  <1>3. CASE UNCHANGED <<frames, buried>>
    <2>1. Lower(Len(frames)) /\ Len(frames') = Len(frames) /\ IdsInv' /\ ~broken
      BY <1>1, <1>3, TopShape DEF CallInv, Lower, Same, IdsInv
    <2> QED BY <1>1, <1>3, <2>1, StayAct
  <1> QED BY <1>2, <1>3 DEF Pack!RemoveEntity

LEMMA SetHealthAct ==
  ASSUME CallInv, NEW id \in Pack!Handles, NEW v, Pack!SetHealth(id, v)
  PROVE  CallInv' /\ Pack!CallLives
  <1>1. /\ Pack!Running("script") /\ Pack!Usable(id) /\ id \in DOMAIN entities
        /\ DOMAIN entities' = DOMAIN entities /\ UNCHANGED next_script_entity_id_
    BY DEF Pack!SetHealth, Pack!Binding
  <1>2. CASE Pack!Dies(frames, id)
    BY <1>1, <1>2, DiesHere
  <1>3. CASE UNCHANGED <<frames, buried>>
    <2>1. Lower(Len(frames)) /\ Len(frames') = Len(frames) /\ IdsInv' /\ ~broken
      BY <1>1, <1>3, TopShape DEF CallInv, Lower, Same, IdsInv
    <2> QED BY <1>1, <1>3, <2>1, StayAct
  <1> QED BY <1>2, <1>3 DEF Pack!SetHealth

\* push_back leaves the frames what they are, but for what they hold.
LEMMA MovedShape ==
  ASSUME CallInv, NEW fns, frames' \in {frames, Pack!Moved(fns)}
  PROVE  Lower(Len(frames)) /\ Len(frames') = Len(frames)
  <1> DEFINE n == Len(frames)
  <1>1. n \in Nat /\ DOMAIN frames = 1..n /\ \A i \in 1..n : FrameLike(frames[i])
    BY StackShape DEF CallInv
  <1>2. CASE frames' = frames
    BY <1>2 DEF CallInv, Lower, Same
  <1>3. CASE frames' = Pack!Moved(fns)
    <2>1. frames' = [i \in 1..n |-> IF frames[i].fn \in fns
                                    THEN [frames[i] EXCEPT !.stale = TRUE] ELSE frames[i]]
      BY <1>1, <1>3 DEF Pack!Moved
    <2>2. \A i \in 1..n : FrameLike(frames'[i]) /\ Same(frames'[i], frames[i])
      BY <1>1, <2>1 DEF FrameLike, Same
    <2> DEFINE G == {frames'[i] : i \in 1..n}
    <2>3. frames' \in [1..n -> G] /\ \A f \in G : FrameLike(f)
      BY <2>1, <2>2
    <2> HIDE DEF G
    <2>4. frames' \in Seq(G) /\ Len(frames') = n
      BY <1>1, <2>3
    <2> QED BY <2>2, <2>3, <2>4, StackIs DEF Lower
  <1> QED BY <1>2, <1>3

LEMMA ListsAct ==
  ASSUME CallInv, Pack!AddTimer \/ Pack!On
  PROVE  CallInv' /\ Pack!CallLives
  <1>1. /\ Pack!Running("script") /\ UNCHANGED <<entities, next_script_entity_id_, buried>>
        /\ \E fns : frames' \in {frames, Pack!Moved(fns)}
    BY DEF Pack!AddTimer, Pack!On, Pack!Binding, Pack!world
  <1>2. Lower(Len(frames)) /\ Len(frames') = Len(frames) /\ ~broken
    BY <1>1, MovedShape, TopShape
  <1>3. IdsInv'
    BY <1>1 DEF CallInv, IdsInv
  <1> QED BY <1>1, <1>2, <1>3, StayAct

LEMMA ScriptEndsAct ==
  ASSUME CallInv, Pack!Return
  PROVE  CallInv' /\ Pack!CallLives
  <1>1. /\ Pack!Running("script") /\ UNCHANGED <<entities, next_script_entity_id_, buried>>
        /\ frames' = Pack!Front(frames)
    BY DEF Pack!Return, Pack!world
  <1>2. frames # <<>> /\ ~broken /\ Pack!Top.fn = "script"
    BY <1>1, TopShape
  <1>3. IdsInv'
    BY <1>1 DEF CallInv, IdsInv
  <1> QED BY <1>1, <1>2, <1>3, PopAct

LEMMA CallStep == CallInv /\ [Pack!Next]_(Pack!vars) => CallInv' /\ [Pack!CallLives]_(Pack!vars)
  <1> SUFFICES ASSUME CallInv, [Pack!Next]_(Pack!vars)
               PROVE  CallInv' /\ [Pack!CallLives]_(Pack!vars)
    OBVIOUS
  <1>1. CASE UNCHANGED Pack!vars
    <2>1. UNCHANGED <<frames, entities, next_script_entity_id_, buried, broken>>
      BY <1>1 DEF Pack!vars, Pack!world
    <2>2. CallInv'
      BY <2>1 DEF CallInv, IdsInv, DeathInv, Pack!Dying
    <2> QED BY <1>1, <2>2
  <1>2. CASE Pack!UseBinding
    BY <1>2, SpawnEntityAct, ListsAct, DamageAct, RemoveEntityAct, SetHealthAct DEF Pack!UseBinding
  <1>3. CASE Pack!Next /\ ~Pack!UseBinding
    BY <1>3, DispatchTickAct, FireAct, EntityTickAct, CountDownAct, FireTimerAct, FiredAct,
       EndTickAct, HitAct, DespawnAct, ScriptEndsAct DEF Pack!Next, Pack!Step
  <1> QED BY <1>1, <1>2, <1>3

LEMMA CallInit == Pack!Init => CallInv
  <1> SUFFICES ASSUME Pack!Init PROVE CallInv
    OBVIOUS
  <1>1. Stack(frames) /\ Ordered(frames)
    BY NoStack DEF Pack!Init
  <1>2. DOMAIN entities = {} /\ buried = {} /\ next_script_entity_id_ = 1
    BY DEF Pack!Init
  <1> QED BY <1>1, <1>2 DEF CallInv, IdsInv, DeathInv

\* However callbacks nest, and whatever scripts spawn, hurt, remove or let run in the course of
\* a tick: a script is called only for an entity that is there and has not been told its death;
\* where a script that on_death runs may turn on the dying entity itself (DyingToo), for none
\* whose on_death is over (PackRuntime::dispatch_entity_tick, despawn_entity).
THEOREM ScriptsCallTheLiving == RunSpec => CallsTheLiving
  <1>1. RunInit => CallInv
    BY CallInit DEF RunInit
  <1>2. CallInv /\ [RunNext]_allVars => CallInv' /\ [Pack!CallLives]_(Pack!vars)
    <2> SUFFICES ASSUME CallInv, [RunNext]_allVars
                 PROVE  CallInv' /\ [Pack!CallLives]_(Pack!vars)
      OBVIOUS
    <2>1. [Pack!Next]_(Pack!vars)
      BY DEF RunNext, Only, allVars, packVars, Pack!vars, Pack!world
    <2> QED BY <2>1, CallStep
  <1> QED BY <1>1, <1>2, PTL DEF RunSpec, CallsTheLiving, Pack!CallsTheLiving


\* The session and the runtime come to know of an entity and to forget it together.
BooksInv == ~broken => script_entities = DOMAIN entities

LEMMA BooksStep == BooksInv /\ [Pack!Next]_(Pack!vars) => BooksInv'
  <1> SUFFICES ASSUME BooksInv, [Pack!Next]_(Pack!vars) PROVE BooksInv'
    OBVIOUS
  <1>1. ASSUME UNCHANGED broken, UNCHANGED script_entities, DOMAIN entities' = DOMAIN entities
        PROVE  BooksInv'
    BY <1>1 DEF BooksInv
  <1>2. CASE Pack!Despawn
    <2>1. CASE Pack!Broken
      BY <2>1 DEF Pack!Broken, BooksInv
    <2>2. CASE /\ entities' = Pack!Without(Pack!Top.id)
               /\ script_entities' = script_entities \ {Pack!Top.id} /\ UNCHANGED broken
      <3>1. DOMAIN entities' = DOMAIN entities \ {Pack!Top.id}
        BY <2>2 DEF Pack!Without
      <3> QED BY <2>2, <3>1 DEF BooksInv
    <2> QED BY <1>2, <2>1, <2>2 DEF Pack!Despawn
  <1>3. CASE Pack!Spawn
    BY <1>3 DEF Pack!Spawn, BooksInv
  <1>4. CASE Pack!Hit
    <2>1. DOMAIN entities' = DOMAIN entities
      BY <1>4 DEF Pack!Hit
    <2> QED BY <1>1, <1>4, <2>1 DEF Pack!Hit
  <1>5. CASE \E id, v : Pack!SetHealth(id, v)
    BY <1>1, <1>5 DEF Pack!SetHealth
  <1>6. CASE Pack!Fire \/ Pack!Fired
    <2>1. CASE Pack!Broken
      BY <2>1 DEF Pack!Broken, BooksInv
    <2> QED BY <1>1, <1>6, <2>1 DEF Pack!Fire, Pack!Fired, Pack!Quiet, Pack!world
  <1>7. CASE \/ Pack!DispatchTick \/ Pack!EntityTick \/ Pack!CountDown \/ Pack!FireTimer
             \/ Pack!EndTick \/ Pack!Return \/ Pack!AddTimer \/ Pack!On \/ UNCHANGED Pack!vars
             \/ \E id : Pack!Damage(id) \/ Pack!RemoveEntity(id)
    <2>1. UNCHANGED <<entities, script_entities, broken>>
      BY <1>7 DEF Pack!DispatchTick, Pack!EntityTick, Pack!CountDown, Pack!FireTimer, Pack!EndTick,
                  Pack!Return, Pack!AddTimer, Pack!On, Pack!Damage, Pack!RemoveEntity, Pack!Quiet,
                  Pack!vars, Pack!world
    <2> QED BY <1>1, <2>1
  <1> QED BY <1>2, <1>3, <1>4, <1>5, <1>6, <1>7 DEF Pack!Next, Pack!Step, Pack!UseBinding

\* Between ticks the session's entities and the runtime's are the same, and none of them has
\* been told its death (spawn_entity, despawn_entity of the session and of the runtime).
THEOREM NoEntityIsLeftBehind == RunSpec => []Pack!NoGhostEntity
  <1>1. RunInit => CallInv /\ BooksInv
    <2>1. Pack!Init => BooksInv
      BY DEF Pack!Init, BooksInv
    <2> QED BY <2>1, CallInit DEF RunInit
  <1>2. CallInv /\ BooksInv /\ [RunNext]_allVars => CallInv' /\ BooksInv'
    <2> SUFFICES ASSUME CallInv, BooksInv, [RunNext]_allVars PROVE CallInv' /\ BooksInv'
      OBVIOUS
    <2>1. [Pack!Next]_(Pack!vars)
      BY DEF RunNext, Only, allVars, packVars, Pack!vars, Pack!world
    <2> QED BY <2>1, CallStep, BooksStep
  <1>3. CallInv /\ BooksInv => Pack!NoGhostEntity
    <2> SUFFICES ASSUME CallInv, BooksInv, frames = <<>>, ~broken
                 PROVE  /\ script_entities = DOMAIN entities
                        /\ buried \intersect DOMAIN entities = {}
      BY DEF Pack!NoGhostEntity
    <2>1. \A i \in 1..Len(frames) : FALSE
      BY NoStack
    <2>2. Pack!Dying = {}
      BY <2>1, DyingIs
    <2> QED BY <2>2 DEF CallInv, DeathInv, BooksInv
  <1> QED BY <1>1, <1>2, <1>3, PTL DEF RunSpec

===========================================================================
