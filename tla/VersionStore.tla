---------------------------- MODULE VersionStore ----------------------------
(* The versions `vb` installs, and the commands that change them: install,   *)
(* update, uninstall, prune, use and self update (src/src/cli/store.cpp,     *)
(* installer.cpp, self_update.cpp and their commands).  Commands are         *)
(* processes that run side by side, share files and one file lock, and may   *)
(* die at any step.  Item 0 is the `vb` executable itself, which self        *)
(* update replaces with the installer's own download and check; the others   *)
(* are releases, and a greater number is a newer release.                    *)
EXTENDS Naturals, FiniteSets

CONSTANTS
  Cmds,         \* processes
  Releases,     \* release numbers, from 1
  None,
  Keep,         \* prune --keep
  MaxCommands   \* bound: commands started in a behaviour

\* Releases are numbered from 1, there are some, and there is a newest.
ASSUME StoreAssumption ==
  /\ Releases \subseteq Nat \ {0}
  /\ \E n \in Releases : \A r \in Releases : r <= n
  /\ None \notin Nat /\ None \notin Cmds
  /\ MaxCommands \in Nat

VARIABLES
  dir,      \* what versions/<v> holds (0: the vb executable)
  part,     \* downloads/<archive>.part
  archive,  \* downloads/<archive>
  litter,   \* .staging-* of a command that died
  default,  \* default_version of cli.toml
  source,   \* does cli.toml carry the user's other key, `source`?
  lock,     \* who holds the file lock
  latest,   \* the newest published release
  used,     \* releases that a server instance pins or runs
  cmd,      \* the running commands
  started   \* commands started so far

vars == <<dir, part, archive, litter, default, source, lock, latest, used, cmd, started>>

Self == 0
Items == Releases \union {Self}
Whole == {"good", "bad"}

\* The newest of some releases.
Newest(S) == IF S = {} THEN None ELSE CHOOSE r \in S : \A s \in S : s <= r

Idle == [op |-> "none", pc |-> "idle", v |-> None, force |-> FALSE, tries |-> 0,
         copy |-> "none", todo |-> {}, note |-> None]

Ops == {"none", "install", "update", "uninstall", "prune", "self"}
Steps == {"idle", "manifest", "lock", "latest", "fetch", "fetching", "verify", "finalize", "extract",
          "probe", "replace", "replacing", "commit", "default", "remove", "removing",
          "forget", "sweep"}

\* Values have their types.
TypeOK ==
  /\ dir \in [Items -> Whole \union {"none", "half"}]
  /\ part \in [Items -> Whole \union {"none", "cut"}]
  /\ archive \in [Items -> Whole \union {"none"}]
  /\ litter \in BOOLEAN /\ source \in BOOLEAN
  /\ default \in Releases \union {None}
  /\ lock \in Cmds \union {None}
  /\ latest \in Releases
  /\ used \subseteq Releases
  /\ cmd \in [Cmds -> [op: Ops, pc: Steps, v: Items \union {None}, force: BOOLEAN,
                       tries: 0..2, copy: Whole \union {"none"},
                       todo: SUBSET Releases, note: Releases \union {None}]]
  /\ started \in 0..MaxCommands

Init ==
  /\ dir \in {d \in [Items -> {"none", "good"}] : d[Self] = "good"}
  /\ \E b \in {"none", "cut", "bad"} :   \* what a command that died left of the newest
       part = [i \in Items |-> IF i = Newest(Releases) THEN b ELSE "none"]
  /\ archive = [i \in Items |-> "none"]
  /\ litter = FALSE
  /\ default = None
  /\ source = TRUE
  /\ lock = None
  /\ latest \in Releases
  /\ used = {}
  /\ cmd = [p \in Cmds |-> Idle]
  /\ started = 0

-----------------------------------------------------------------------------
Listed == {r \in Releases : dir[r] # "none"}

\* The command moves on to pc.
Goto(p, pc) == cmd' = [cmd EXCEPT ![p].pc = pc]

\* The command returns, for whatever reason; it closes the lock's file, and what
\* it staged is removed (DirCleanup).
Released(p) == IF lock = p THEN None ELSE lock
End(p) == cmd' = [cmd EXCEPT ![p] = Idle] /\ lock' = Released(p)

Begin(p, c) ==
  /\ cmd[p].pc = "idle" /\ started < MaxCommands
  /\ cmd' = [cmd EXCEPT ![p] = c]
  /\ started' = started + 1

\* vb install <v|latest> [--force], vb update: the newest release is noted first.
BeginInstall(p) ==
  /\ \E op \in {"install", "update"}, v \in Releases \union {None}, f \in BOOLEAN :
       /\ op = "update" => v = None
       /\ Begin(p, [Idle EXCEPT !.op = op, !.v = v, !.force = f, !.pc = "lock",
                                !.note = IF op = "update" THEN Newest(Listed) ELSE None])
  /\ UNCHANGED <<dir, part, archive, litter, default, source, lock, latest, used>>

\* vb self update: the manifest is read before the lock is taken.
BeginSelf(p) ==
  /\ Begin(p, [Idle EXCEPT !.op = "self", !.v = Self, !.pc = "manifest"])
  /\ UNCHANGED <<dir, part, archive, litter, default, source, lock, latest, used>>

\* vb uninstall: the use by servers is looked up unless --force; no lock.
BeginUninstall(p) ==
  /\ \E v \in Listed, f \in BOOLEAN :
       /\ f \/ v \notin used
       /\ Begin(p, [Idle EXCEPT !.op = "uninstall", !.v = v, !.force = f, !.pc = "remove",
                                !.note = IF default = v THEN v ELSE None])
  /\ UNCHANGED <<dir, part, archive, litter, default, source, lock, latest, used>>

\* vb prune: the versions in use are looked up before the lock is taken.
BeginPrune(p) ==
  /\ Begin(p, [Idle EXCEPT !.op = "prune", !.todo = used, !.pc = "lock"])
  /\ UNCHANGED <<dir, part, archive, litter, default, source, lock, latest, used>>

\* vb use.
WriteDefault(v) == default' = v
Use ==
  /\ started < MaxCommands /\ started' = started + 1
  /\ \E v \in Listed : WriteDefault(v)
  /\ UNCHANGED <<dir, part, archive, litter, source, lock, latest, used, cmd>>

-----------------------------------------------------------------------------
\* self_update: the latest manifest; up to date, unverifiable or unreachable ends it.
SelfManifest(p) ==
  /\ cmd[p].pc = "manifest"
  /\ \/ Goto(p, "lock") /\ UNCHANGED lock
     \/ End(p)
  /\ UNCHANGED <<dir, part, archive, litter, default, source, latest, used, started>>

\* Releases that prune removes: beyond the Keep newest, neither the default nor protected.
Surplus(protected) ==
  {r \in Listed : /\ Cardinality({s \in Listed : s > r}) >= Keep
                  /\ r # default /\ r \notin protected}

Free_ignored == TRUE

Free == lock = None

\* FileLock::acquire waits for the lock (install --no-wait fails instead).
Acquire(p) ==
  /\ cmd[p].pc = "lock"
  /\ \/ /\ Free /\ lock' = p
        /\ \/ cmd[p].op = "self" /\ Goto(p, "fetch")
           \/ cmd[p].op \in {"install", "update"} /\ Goto(p, "latest")
           \/ /\ cmd[p].op = "prune"
              /\ LET gone == Surplus(cmd[p].todo)
                 IN cmd' = [cmd EXCEPT ![p].todo = gone,
                                       ![p].v = IF gone = {} THEN None ELSE Newest(gone),
                                       ![p].pc = IF gone = {} THEN "sweep" ELSE "remove"]
     \/ ~Free /\ cmd[p].op = "install" /\ End(p)
  /\ UNCHANGED <<dir, part, archive, litter, default, source, latest, used, started>>

\* install_release: the manifest, its signature and its parse; what is installed already.
InstallManifest(p) ==
  /\ cmd[p].pc = "latest"
  /\ LET v == IF cmd[p].v = None THEN latest ELSE cmd[p].v
     IN \/ /\ dir[v] = "none" \/ cmd[p].force
           /\ cmd' = [cmd EXCEPT ![p].v = v, ![p].pc = "fetch"]
           /\ UNCHANGED lock
        \/ End(p)   \* refused, unreachable, or installed already
  /\ UNCHANGED <<dir, part, archive, litter, default, source, latest, used, started>>

\* source.fetch_file: what is there already is resumed, and a complete file is kept.
FetchStart(p) ==
  /\ cmd[p].pc = "fetch"
  /\ IF part[cmd[p].v] \in Whole THEN Goto(p, "verify") /\ UNCHANGED part
     ELSE Goto(p, "fetching") /\ part' = [part EXCEPT ![cmd[p].v] = "cut"]
  /\ UNCHANGED <<dir, archive, litter, default, source, lock, latest, used, started>>

\* The file is complete, and may not be what it should be (what was resumed need not
\* fit the rest); or the transfer breaks off and the part stays.
FetchEnd(p) ==
  /\ cmd[p].pc = "fetching"
  /\ \/ /\ \E b \in Whole : part' = [part EXCEPT ![cmd[p].v] = b]
        /\ Goto(p, "verify") /\ UNCHANGED lock
     \/ End(p) /\ UNCHANGED part
  /\ UNCHANGED <<dir, archive, litter, default, source, latest, used, started>>

Matches(b) == b = "good"

\* verify_archive: two attempts, and a part that does not fit is removed.
Verify(p) ==
  /\ cmd[p].pc = "verify"
  /\ LET v == cmd[p].v
     IN \/ Matches(part[v]) /\ Goto(p, "finalize") /\ UNCHANGED <<part, lock>>
        \/ /\ ~Matches(part[v])
           /\ part' = [part EXCEPT ![v] = "none"]
           /\ \/ /\ cmd[p].tries = 0
                 /\ cmd' = [cmd EXCEPT ![p].tries = 1, ![p].pc = "fetch"]
                 /\ UNCHANGED lock
              \/ cmd[p].tries = 1 /\ End(p)
  /\ UNCHANGED <<dir, archive, litter, default, source, latest, used, started>>

\* The part becomes the archive, by one rename.
Finalize(p) ==
  /\ cmd[p].pc = "finalize"
  /\ LET v == cmd[p].v
     IN \/ /\ part[v] \in Whole
           /\ archive' = [archive EXCEPT ![v] = part[v]]
           /\ part' = [part EXCEPT ![v] = "none"]
           /\ Goto(p, "extract") /\ UNCHANGED lock
        \/ End(p) /\ UNCHANGED <<part, archive>>   \* the rename fails
  /\ UNCHANGED <<dir, litter, default, source, latest, used, started>>

Extract_inplace(p) ==
  /\ cmd[p].pc = "extract"
  /\ dir' = [dir EXCEPT ![cmd[p].v] = "half"]
  /\ cmd' = [cmd EXCEPT ![p].copy = archive[cmd[p].v], ![p].pc = "probe"]
  /\ UNCHANGED <<part, archive, lock, litter, default, source, latest, used, started>>

\* Unpacked into a directory of the command's own; self update then drops the archive.
Extract(p) ==
  /\ cmd[p].pc = "extract"
  /\ LET v == cmd[p].v
     IN /\ archive[v] # "none"
        /\ \/ /\ archive' = [archive EXCEPT ![v] = "none"]   \* unusable
              /\ End(p)
           \/ /\ archive' = IF v = Self THEN [archive EXCEPT ![v] = "none"] ELSE archive
              /\ cmd' = [cmd EXCEPT ![p].copy = archive[v], ![p].pc = "probe"]
              /\ UNCHANGED lock
  /\ UNCHANGED <<dir, part, litter, default, source, latest, used, started>>

\* The binaries are there, the server answers --version, the receipt is written.
Probe(p) ==
  /\ cmd[p].pc = "probe"
  /\ \/ /\ Goto(p, IF cmd[p].force /\ dir[cmd[p].v] # "none" THEN "replace" ELSE "commit")
        /\ UNCHANGED lock
     \/ End(p)
  /\ UNCHANGED <<dir, part, archive, litter, default, source, latest, used, started>>

\* fs::remove_all is not one step: a directory is half there until it is gone.
Halve(v) == [dir EXCEPT ![v] = IF @ = "none" THEN @ ELSE "half"]
Gone(v) == [dir EXCEPT ![v] = IF @ = "half" THEN "none" ELSE @]

\* --force removes the version that stands in the way.
Replace(p) ==
  /\ \/ cmd[p].pc = "replace" /\ dir' = Halve(cmd[p].v) /\ Goto(p, "replacing")
     \/ cmd[p].pc = "replacing" /\ dir' = Gone(cmd[p].v) /\ Goto(p, "commit")
  /\ UNCHANGED <<part, archive, litter, default, source, lock, latest, used, started>>

\* May the staging directory be renamed to versions/<v>?  (An executable is replaced.)
Vacant(v) == dir[v] = "none" \/ v = Self

\* The commit: one rename of what was staged.  The lock is released.
Commit(p) ==
  /\ cmd[p].pc = "commit"
  /\ LET v == cmd[p].v
     IN \/ /\ Vacant(v)
           /\ dir' = [dir EXCEPT ![v] = cmd[p].copy]
           /\ archive' = [archive EXCEPT ![v] = "none"]
           /\ lock' = None
           /\ cmd' = [cmd EXCEPT ![p] = IF v = Self THEN Idle
                        ELSE [Idle EXCEPT !.op = cmd[p].op, !.v = v, !.note = cmd[p].note,
                                          !.pc = "default"]]
        \/ End(p) /\ UNCHANGED <<dir, archive>>   \* the rename fails
  /\ UNCHANGED <<part, litter, default, source, latest, used, started>>

\* cmd_install sets a default if there is none; cmd_update also follows the newest.
SetDefault(p) ==
  /\ cmd[p].pc = "default"
  /\ IF default = None \/ (cmd[p].op = "update" /\ default = cmd[p].note)
     THEN WriteDefault(cmd[p].v) ELSE UNCHANGED default
  /\ End(p)
  /\ UNCHANGED <<dir, part, archive, litter, source, latest, used, started>>

-----------------------------------------------------------------------------
\* uninstall and prune_releases: a release is removed; prune goes on to the next.
Remove(p) ==
  /\ \/ cmd[p].pc = "remove" /\ dir' = Halve(cmd[p].v) /\ Goto(p, "removing")
     \/ /\ cmd[p].pc = "removing" /\ dir' = Gone(cmd[p].v)
        /\ \/ cmd[p].op = "uninstall" /\ Goto(p, "forget")
           \/ /\ cmd[p].op = "prune"
              /\ LET left == cmd[p].todo \ {cmd[p].v}
                 IN cmd' = [cmd EXCEPT ![p].todo = left,
                                       ![p].v = IF left = {} THEN None ELSE Newest(left),
                                       ![p].pc = IF left = {} THEN "sweep" ELSE "remove"]
  /\ UNCHANGED <<part, archive, litter, default, source, lock, latest, used, started>>

\* uninstall of what was the default: the whole file cli.toml goes.
Forget(p) ==
  /\ cmd[p].pc = "forget"
  /\ IF cmd[p].note = None THEN UNCHANGED <<default, source>>
     ELSE default' = None /\ source' = FALSE
  /\ End(p)
  /\ UNCHANGED <<dir, part, archive, litter, latest, used, started>>

\* prune removes every staging directory, whoever's it is.
Sweep(p) ==
  /\ cmd[p].pc = "sweep"
  /\ litter' = FALSE
  /\ cmd' = [q \in Cmds |-> IF q = p THEN Idle
                            ELSE IF cmd[q].copy # "none" /\ cmd[q].v # Self
                            THEN [cmd[q] EXCEPT !.copy = "bad"] ELSE cmd[q]]
  /\ lock' = Released(p)
  /\ UNCHANGED <<dir, part, archive, default, source, latest, used, started>>

\* A command dies: the system releases its lock and nothing else is undone.
Dies(p) ==
  /\ cmd[p].pc # "idle"
  /\ litter' = (litter \/ cmd[p].copy # "none")
  /\ End(p)
  /\ UNCHANGED <<dir, part, archive, default, source, latest, used, started>>

\* The world outside: a release is published, an instance takes up a version or lets go.
Publish ==
  /\ \E r \in Releases : r > latest /\ latest' = r
  /\ UNCHANGED <<dir, part, archive, litter, default, source, lock, used, cmd, started>>

TakeUp ==
  /\ \E r \in Releases : used' = {r} \ used
  /\ UNCHANGED <<dir, part, archive, litter, default, source, lock, latest, cmd, started>>

Step(p) ==
  \/ SelfManifest(p) \/ Acquire(p) \/ InstallManifest(p) \/ FetchStart(p) \/ FetchEnd(p) \/ Verify(p)
  \/ Finalize(p) \/ Extract(p) \/ Probe(p) \/ Replace(p) \/ Commit(p) \/ SetDefault(p)
  \/ Remove(p) \/ Forget(p) \/ Sweep(p)

Next ==
  \/ \E p \in Cmds : \/ BeginInstall(p) \/ BeginSelf(p) \/ BeginUninstall(p) \/ BeginPrune(p)
                     \/ Step(p) \/ Dies(p)
  \/ Use \/ Publish \/ TakeUp

Spec == Init /\ [][Next]_vars

-----------------------------------------------------------------------------
\* What is installed, and the vb that replaces itself, is what the signed manifest
\* names: downloads are resumed, repeated and cut off, commands share the files of
\* downloads/ and die at any step (verify_archive and the lock).
OnlyVerified == \A i \in Items : dir[i] # "bad" /\ archive[i] # "bad"

\* versions/<v> is never half-written: a version appears whole and in one step where
\* there was nothing, and the vb executable is there at every moment
\* (installer.hpp:34, swap_executable).
NeverHalfWritten ==
  [][\A i \in Items : dir'[i] # dir[i] =>
       /\ dir'[i] \in Whole => dir[i] = "none" \/ i = Self
       /\ i = Self => dir'[i] \in Whole
       /\ dir'[i] = "half" =>
            \E p \in Cmds : cmd[p].v = i /\ cmd[p].pc \in {"replace", "remove"}]_vars
=============================================================================
