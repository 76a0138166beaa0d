------------------------ MODULE Copies_proofs ------------------------
(***************************************************************************)
(* What holds of the copies for all constants.  Of the store, for any      *)
(* number of commands that run side by side and die anywhere, of releases  *)
(* and of repetitions: types, that only verified bytes are installed, and  *)
(* that no release is installed by halves.  Of the asset cache, for any    *)
(* packs, files and limit: that a pack is used whole.  Of the replicator,  *)
(* whose own theorems come with WorldReplication_proofs: that the mirrors  *)
(* of the clients are true.                                                *)
(***************************************************************************)
EXTENDS MCCopies, FiniteSetTheorems, WellFoundedInduction, TLAPS

\* Steps of an installation, of which those after the archive was unpacked have a copy.
Installing == {"latest", "fetch", "fetching", "verify", "finalize", "extract", "probe",
               "replace", "replacing", "commit"}
Staged == {"probe", "replace", "replacing", "commit"}

\* What command p with state c keeps to, when l holds the lock and f is what is downloaded:
\* who installs or prunes holds the lock, from its first look at the shared files to its last;
\* what it has checked it has; and only what was unpacked from a checked archive is staged.
Fits(p, c, l, f) ==
  /\ c.pc \in Installing => l = p /\ c.op \in {"install", "update", "self"}
  /\ c.pc \in {"remove", "removing"} => c.v \in Releases /\ c.op \in {"uninstall", "prune"}
  /\ c.pc \in {"remove", "removing", "sweep"} /\ c.op = "prune" => l = p
  /\ c.pc = "sweep" => c.op = "prune"
  /\ c.pc = "latest" => c.op # "self"
  /\ c.pc \in Installing \ {"latest"} => c.v \in Items
  /\ c.pc \in {"replace", "replacing", "default"} => c.v \in Releases
  /\ c.op = "self" <=> c.v = Self
  /\ c.op = "self" => ~c.force
  /\ c.copy = IF c.pc \in Staged THEN "good" ELSE "none"
  /\ c.pc = "finalize" => f[c.v] = "good"

IInv == TypeOK /\ OnlyVerified /\ \A p \in Cmds : Fits(p, cmd[p], lock, part)

-----------------------------------------------------------------------------
(* Commands and releases *)

Commands == [op: Ops, pc: Steps, v: Items \union {None}, force: BOOLEAN,
             tries: 0..2, copy: Whole \union {"none"},
             todo: SUBSET Releases, note: Releases \union {None}]

LEMMA Numbers ==
  Self \notin Releases /\ None \notin Items /\ Releases \subseteq Items /\ Self \in Items
<1>1. Releases \subseteq Nat \ {0} /\ None \notin Nat
  BY StoreAssumption
<1>2. 0 \in Nat /\ 0 \notin Releases
  BY <1>1
<1> QED BY <1>1, <1>2 DEF Self, Items

\* The newest of some releases is one of them.
LEMMA NewestIsOne ==
  ASSUME NEW S \in SUBSET Releases, S # {}
  PROVE  Newest(S) \in S /\ Newest(S) \in Releases
<1>1. S \subseteq Nat
  BY StoreAssumption
<1>2. PICK n \in Nat : \A r \in S : r <= n
  BY StoreAssumption
<1> DEFINE T == {k \in Nat : n - k \in S}
           R == OpToRel(<, Nat)
<1>3. T \subseteq Nat /\ T # {}
  <2>1. PICK r \in S : TRUE
    OBVIOUS
  <2>2. n - r \in Nat /\ n - (n - r) = r
    BY <1>1, <1>2
  <2>3. n - r \in T
    BY <2>2
  <2> QED BY <2>3
<1>4. PICK k \in T : \A j \in T : ~(<<j, k>> \in R)
  <2>1. IsWellFoundedOn(R, Nat)
    BY NatLessThanWellFounded
  <2> HIDE DEF T, R
  <2> QED BY <1>3, <2>1, WFMin
<1>5. n - k \in S /\ \A s \in S : s <= n - k
  <2>1. ASSUME NEW s \in S, ~(s <= n - k) PROVE FALSE
    <3>1. n - s \in Nat /\ n - (n - s) = s /\ n - s < k /\ k \in Nat
      BY <1>1, <1>2, <2>1
    <3>2. n - s \in T
      BY <3>1
    <3>3. <<n - s, k>> \in R
      BY <3>1 DEF OpToRel
    <3> QED BY <1>4, <3>2, <3>3
  <2> QED BY <2>1
<1>6. Newest(S) = CHOOSE r \in S : \A s \in S : s <= r
  BY DEF Newest
<1>7. Newest(S) \in S
  BY <1>5, <1>6
<1> QED BY <1>7

LEMMA Types ==
  TypeOK <=> /\ dir \in [Items -> Whole \union {"none", "half"}]
             /\ part \in [Items -> Whole \union {"none", "cut"}]
             /\ archive \in [Items -> Whole \union {"none"}]
             /\ litter \in BOOLEAN /\ source \in BOOLEAN
             /\ default \in Releases \union {None} /\ lock \in Cmds \union {None}
             /\ latest \in Releases /\ used \subseteq Releases
             /\ cmd \in [Cmds -> Commands] /\ started \in 0..MaxCommands
BY DEF TypeOK, Commands

LEMMA TypesNext ==
  TypeOK' <=> /\ dir' \in [Items -> Whole \union {"none", "half"}]
              /\ part' \in [Items -> Whole \union {"none", "cut"}]
              /\ archive' \in [Items -> Whole \union {"none"}]
              /\ litter' \in BOOLEAN /\ source' \in BOOLEAN
              /\ default' \in Releases \union {None} /\ lock' \in Cmds \union {None}
              /\ latest' \in Releases /\ used' \subseteq Releases
              /\ cmd' \in [Cmds -> Commands] /\ started' \in 0..MaxCommands
BY DEF TypeOK, Commands

LEMMA Fields ==
  ASSUME NEW c \in Commands
  PROVE  /\ c.op \in Ops /\ c.pc \in Steps /\ c.v \in Items \union {None}
         /\ c.force \in BOOLEAN /\ c.tries \in 0..2 /\ c.copy \in Whole \union {"none"}
         /\ c.todo \in SUBSET Releases /\ c.note \in Releases \union {None}
BY DEF Commands

LEMMA IdleFits ==
  /\ Idle \in Commands
         /\ \A p, l, f : Fits(p, Idle, l, f)
<1>1. Idle \in Commands
  BY DEF Idle, Commands, Ops, Steps
<1>2. Idle.op = "none" /\ Idle.pc = "idle" /\ Idle.v = None /\ Idle.copy = "none"
  BY DEF Idle
<1>3. None # Self
  BY Numbers
<1> QED BY <1>1, <1>2, <1>3 DEF Fits, Installing, Staged

-----------------------------------------------------------------------------
(* One command's step *)

\* Command p becomes c; the others stay.
Sets(p, c) == cmd' = [cmd EXCEPT ![p] = c]

LEMMA GotoSets ==
  ASSUME TypeOK, NEW p \in Cmds, NEW pc \in Steps, Goto(p, pc)
  PROVE  \E c \in Commands :
           /\ Sets(p, c) /\ c.pc = pc /\ c.op = cmd[p].op /\ c.v = cmd[p].v
           /\ c.force = cmd[p].force /\ c.tries = cmd[p].tries /\ c.copy = cmd[p].copy
           /\ c.todo = cmd[p].todo /\ c.note = cmd[p].note
<1> DEFINE c == [cmd[p] EXCEPT !.pc = pc]
<1>1. cmd[p] \in Commands
  BY Types
<1>2. /\ c \in Commands /\ c.pc = pc /\ c.op = cmd[p].op /\ c.v = cmd[p].v
      /\ c.force = cmd[p].force /\ c.tries = cmd[p].tries /\ c.copy = cmd[p].copy
      /\ c.todo = cmd[p].todo /\ c.note = cmd[p].note
  BY <1>1 DEF Commands
<1>3. Sets(p, c)
  BY <1>1 DEF Goto, Sets
<1> QED BY <1>2, <1>3

\* What the shared files may become at the hands of p.
FilesKept(p) ==
  /\ dir' \in [Items -> Whole \union {"none", "half"}]
  /\ part' \in [Items -> Whole \union {"none", "cut"}]
  /\ archive' \in [Items -> Whole \union {"none"}]
  /\ OnlyVerified'
  /\ part' = part \/ lock = p

\* What is beside the files stays in its type.
RestKept ==
  /\ litter' \in BOOLEAN /\ source' \in BOOLEAN /\ default' \in Releases \union {None}
  /\ latest' = latest /\ used' = used /\ started' \in 0..MaxCommands

\* A step in which p, which fits, becomes c, which fits.
LEMMA CommandStep ==
  ASSUME IInv, NEW p \in Cmds, NEW c \in Commands, Sets(p, c), FilesKept(p), RestKept,
         lock' \in Cmds \union {None}, \A q \in Cmds \ {p} : lock = q => lock' = q,
         Fits(p, c, lock', part')
  PROVE  IInv'
<1>1. cmd \in [Cmds -> Commands] /\ TypeOK
  BY Types DEF IInv
<1>2. cmd' \in [Cmds -> Commands] /\ cmd'[p] = c /\ \A q \in Cmds \ {p} : cmd'[q] = cmd[q]
  BY <1>1 DEF Sets
<1>3. TypeOK'
  BY <1>1, <1>2, Types, TypesNext DEF FilesKept, RestKept
<1>4. ASSUME NEW q \in Cmds PROVE Fits(q, cmd'[q], lock', part')
  <2>1. CASE q = p
    BY <1>2, <2>1
  <2>2. CASE q # p
    <3>1. cmd'[q] = cmd[q] /\ Fits(q, cmd[q], lock, part) /\ (lock = q => lock' = q)
      BY <1>2, <2>2 DEF IInv
    <3>2. cmd[q].pc = "finalize" => part' = part
      BY <2>2, <3>1 DEF Fits, Installing, FilesKept
    <3> QED BY <3>1, <3>2 DEF Fits, Installing
  <2> QED BY <2>1, <2>2
<1> QED BY <1>3, <1>4 DEF IInv, FilesKept

\* A command that ends.
LEMMA EndStep ==
  ASSUME IInv, NEW p \in Cmds, End(p), FilesKept(p), RestKept
  PROVE  IInv'
<1>1. Sets(p, Idle) /\ lock' = IF lock = p THEN None ELSE lock
  BY DEF End, Released, Sets
<1>2. lock' \in Cmds \union {None} /\ \A q \in Cmds \ {p} : lock = q => lock' = q
  BY <1>1, Types DEF IInv
<1> QED BY <1>1, <1>2, IdleFits, CommandStep

\* A command that moves on and keeps what it has.
LEMMA GotoStep ==
  ASSUME IInv, NEW p \in Cmds, NEW pc \in Steps, Goto(p, pc), FilesKept(p), RestKept,
         lock' = lock,
         \A c \in Commands :
           /\ c.pc = pc /\ c.op = cmd[p].op /\ c.v = cmd[p].v /\ c.force = cmd[p].force
           /\ c.copy = cmd[p].copy
           => Fits(p, c, lock, part')
  PROVE  IInv'
<1>1. TypeOK /\ lock' \in Cmds \union {None}
  BY Types DEF IInv
<1>2. PICK c \in Commands :
        /\ Sets(p, c) /\ c.pc = pc /\ c.op = cmd[p].op /\ c.v = cmd[p].v
        /\ c.force = cmd[p].force /\ c.copy = cmd[p].copy
  BY <1>1, GotoSets
<1>3. Fits(p, c, lock', part')
  BY <1>2
<1> QED BY <1>1, <1>2, <1>3, CommandStep

\* Nothing happens to the files, or to anything else.
Still == UNCHANGED <<dir, part, archive>>
RestStill == UNCHANGED <<litter, default, source, latest, used, started>>

LEMMA StillKept ==
  ASSUME IInv, NEW p \in Cmds
  PROVE  /\ Still => FilesKept(p)
         /\ RestStill => RestKept
         /\ Fits(p, cmd[p], lock, part) /\ cmd[p] \in Commands
         /\ Self \in Items
<1>1. Still => FilesKept(p)
  BY Types DEF IInv, Still, FilesKept, OnlyVerified
<1>2. RestStill => RestKept
  BY Types DEF IInv, RestStill, RestKept
<1>3. Fits(p, cmd[p], lock, part) /\ cmd[p] \in Commands
  BY Types DEF IInv
<1> QED BY <1>1, <1>2, <1>3 DEF Items

-----------------------------------------------------------------------------
(* Each command *)

LEMMA BeginAct ==
  ASSUME IInv, NEW p \in Cmds,
         BeginInstall(p) \/ BeginSelf(p) \/ BeginUninstall(p) \/ BeginPrune(p)
  PROVE  IInv'
<1>0. /\ cmd[p].pc = "idle" /\ Still /\ lock' = lock
      /\ UNCHANGED <<litter, default, source, latest, used>>
      /\ started' = started + 1 /\ started < MaxCommands
  BY DEF BeginInstall, BeginSelf, BeginUninstall, BeginPrune, Begin, Still
<1>1. FilesKept(p) /\ RestKept /\ TypeOK /\ lock' \in Cmds \union {None}
  <2>1. started' \in 0..MaxCommands
    BY <1>0, Types, StoreAssumption DEF IInv
  <2> QED BY <1>0, <2>1, StillKept, Types DEF IInv, RestKept
<1>2. ASSUME NEW c \in Commands, cmd' = [cmd EXCEPT ![p] = c],
             c.pc \in {"lock", "manifest", "remove"}, c.copy = "none",
             c.pc = "remove" => c.op = "uninstall" /\ c.v \in Releases,
             c.op = "self" <=> c.v = Self, c.op = "self" => ~c.force
      PROVE  IInv'
  <2>1. Fits(p, c, lock', part')
    BY <1>2 DEF Fits, Installing, Staged
  <2> QED BY <1>0, <1>1, <1>2, <2>1, CommandStep DEF Sets
<1>3. /\ Self \notin Releases /\ None # Self /\ Releases \subseteq Items /\ Self \in Items
      /\ Idle \in Commands
  BY Numbers, IdleFits
<1>4. CASE BeginInstall(p)
  <2>1. PICK op \in {"install", "update"}, v \in Releases \union {None}, f \in BOOLEAN :
          cmd' = [cmd EXCEPT ![p] =
                    [Idle EXCEPT !.op = op, !.v = v, !.force = f, !.pc = "lock",
                                 !.note = IF op = "update" THEN Newest(Listed) ELSE None]]
    BY <1>4 DEF BeginInstall, Begin
  <2>2. Newest(Listed) \in Releases \union {None}
    <3>1. CASE Listed = {}
      BY <3>1 DEF Newest
    <3>2. CASE Listed # {}
      BY <3>2, NewestIsOne DEF Listed
    <3> QED BY <3>1, <3>2
  <2> DEFINE c == [Idle EXCEPT !.op = op, !.v = v, !.force = f, !.pc = "lock",
                               !.note = IF op = "update" THEN Newest(Listed) ELSE None]
  <2>3. /\ c \in Commands /\ c.pc = "lock" /\ c.copy = "none" /\ c.op = op /\ c.v = v
    <3>1. /\ op \in Ops /\ "lock" \in Steps /\ v \in Items \union {None}
          /\ (IF op = "update" THEN Newest(Listed) ELSE None) \in Releases \union {None}
      BY <1>3, <2>2 DEF Ops, Steps
    <3> QED BY <1>3, <3>1, ZenonT(60) DEF Idle, Commands
  <2>4. op # "self" /\ v # Self /\ op # "uninstall"
    BY <1>3
  <2>5. cmd' = [cmd EXCEPT ![p] = c]
    BY <2>1
  <2> HIDE DEF c
  <2> QED BY <1>2, <2>3, <2>4, <2>5
<1>5. CASE BeginSelf(p)
  <2> DEFINE c == [Idle EXCEPT !.op = "self", !.v = Self, !.pc = "manifest"]
  <2>1. cmd' = [cmd EXCEPT ![p] = c]
    BY <1>5 DEF BeginSelf, Begin
  <2>2. /\ c \in Commands /\ c.pc = "manifest" /\ c.copy = "none" /\ c.op = "self" /\ c.v = Self
        /\ ~c.force
    BY <1>3 DEF Idle, Commands, Ops, Steps
  <2> QED BY <1>2, <2>1, <2>2
<1>6. CASE BeginUninstall(p)
  <2>1. PICK v \in Listed, f \in BOOLEAN :
          cmd' = [cmd EXCEPT ![p] =
                    [Idle EXCEPT !.op = "uninstall", !.v = v, !.force = f, !.pc = "remove",
                                 !.note = IF default = v THEN v ELSE None]]
    BY <1>6 DEF BeginUninstall, Begin
  <2> DEFINE c == [Idle EXCEPT !.op = "uninstall", !.v = v, !.force = f, !.pc = "remove",
                               !.note = IF default = v THEN v ELSE None]
  <2>2. v \in Releases /\ v # Self /\ v \in Items
    BY <1>3 DEF Listed
  <2>3. /\ c \in Commands /\ c.pc = "remove" /\ c.copy = "none" /\ c.op = "uninstall" /\ c.v = v
    BY <1>3, <2>2 DEF Idle, Commands, Ops, Steps
  <2> QED BY <1>2, <2>1, <2>2, <2>3
<1>7. CASE BeginPrune(p)
  <2> DEFINE c == [Idle EXCEPT !.op = "prune", !.todo = used, !.pc = "lock"]
  <2>1. cmd' = [cmd EXCEPT ![p] = c]
    BY <1>7 DEF BeginPrune, Begin
  <2>2. used \subseteq Releases
    BY Types DEF IInv
  <2>3. c \in Commands /\ c.pc = "lock" /\ c.copy = "none" /\ c.op = "prune" /\ c.v = None
    BY <1>3, <2>2 DEF Idle, Commands, Ops, Steps
  <2> QED BY <1>2, <1>3, <2>1, <2>3
<1> QED BY <1>4, <1>5, <1>6, <1>7

LEMMA ManifestAct ==
  ASSUME IInv, NEW p \in Cmds, SelfManifest(p) PROVE IInv'
<1>1. cmd[p].pc = "manifest" /\ FilesKept(p) /\ RestKept
  BY StillKept DEF SelfManifest, Still, RestStill
<1>2. Fits(p, cmd[p], lock, part)
  BY StillKept
<1>3. CASE Goto(p, "lock") /\ UNCHANGED lock
  <2>1. \A c \in Commands :
          /\ c.pc = "lock" /\ c.op = cmd[p].op /\ c.v = cmd[p].v /\ c.force = cmd[p].force
          /\ c.copy = cmd[p].copy
          => Fits(p, c, lock, part')
    BY <1>1, <1>2 DEF Fits, Installing, Staged
  <2>2. "lock" \in Steps
    BY DEF Steps
  <2> QED BY <1>1, <1>3, <2>1, <2>2, GotoStep
<1>4. CASE End(p)
  BY <1>1, <1>4, EndStep
<1> QED BY <1>3, <1>4 DEF SelfManifest

LEMMA AcquireAct ==
  ASSUME IInv, NEW p \in Cmds, Acquire(p) PROVE IInv'
<1>1. cmd[p].pc = "lock" /\ FilesKept(p) /\ RestKept
  BY StillKept DEF Acquire, Still, RestStill
<1>2. Fits(p, cmd[p], lock, part) /\ cmd[p] \in Commands /\ TypeOK
  BY StillKept DEF IInv
<1>3. CASE Free /\ lock' = p
  <2>0. lock' \in Cmds \union {None} /\ \A q \in Cmds \ {p} : lock = q => lock' = q
    BY <1>3, StoreAssumption DEF Free
  <2>1. ASSUME NEW pc \in {"fetch", "latest"}, Goto(p, pc), pc = "fetch" <=> cmd[p].op = "self",
               cmd[p].op \in {"install", "update", "self"}
        PROVE  IInv'
    <3>1. PICK c \in Commands :
            /\ Sets(p, c) /\ c.pc = pc /\ c.op = cmd[p].op /\ c.v = cmd[p].v
            /\ c.force = cmd[p].force /\ c.copy = cmd[p].copy
      <4>1. pc \in Steps
        BY DEF Steps
      <4> QED BY <1>2, <2>1, <4>1, GotoSets
    <3>2. Fits(p, c, lock', part')
      BY <1>1, <1>2, <1>3, <2>1, <3>1, Numbers DEF Fits, Installing, Staged
    <3> QED BY <1>1, <2>0, <3>1, <3>2, CommandStep
  <2>2. CASE cmd[p].op = "self" /\ Goto(p, "fetch")
    BY <2>1, <2>2
  <2>3. CASE cmd[p].op \in {"install", "update"} /\ Goto(p, "latest")
    BY <2>1, <2>3
  <2>4. CASE cmd[p].op = "prune"
    <3> DEFINE gone == Surplus(cmd[p].todo)
               v == IF gone = {} THEN None ELSE Newest(gone)
               pc == IF gone = {} THEN "sweep" ELSE "remove"
               c == [cmd[p] EXCEPT !.todo = gone, !.v = v, !.pc = pc]
    <3>1. CASE cmd' = [cmd EXCEPT ![p].todo = gone, ![p].v = v, ![p].pc = pc]
      <4>1. gone \in SUBSET Releases
        BY DEF Surplus, Listed
      <4>2. /\ gone # {} => v \in Releases /\ v # Self /\ pc = "remove"
            /\ gone = {} => v = None /\ v # Self /\ pc = "sweep"
            /\ v \in Items \union {None}
        BY <4>1, NewestIsOne, Numbers
      <4>3. pc \in Steps
        BY <4>2 DEF Steps
      <4> HIDE DEF gone, v, pc
      <4>4. /\ c \in Commands /\ c.pc = pc /\ c.v = v /\ c.op = "prune" /\ c.copy = cmd[p].copy
        BY <1>2, <2>4, <4>1, <4>2, <4>3 DEF Commands
      <4>5. Sets(p, c)
        BY <1>2, <3>1, Types DEF Sets
      <4> HIDE DEF c
      <4>6. Fits(p, c, lock', part')
        BY <1>1, <1>2, <1>3, <4>2, <4>4 DEF Fits, Installing, Staged
      <4> QED BY <1>1, <2>0, <4>4, <4>5, <4>6, CommandStep
    <3>2. CASE cmd[p].op = "self" /\ Goto(p, "fetch")
      BY <2>4, <3>2
    <3>3. CASE cmd[p].op \in {"install", "update"} /\ Goto(p, "latest")
      BY <2>4, <3>3
    <3> QED BY <1>3, <2>4, <3>1 DEF Acquire, Free
  <2> QED BY <1>3, <2>2, <2>3, <2>4 DEF Acquire, Free
<1>4. CASE ~Free /\ cmd[p].op = "install" /\ End(p)
  BY <1>1, <1>4, EndStep
<1> QED BY <1>3, <1>4 DEF Acquire

LEMMA InstallManifestAct ==
  ASSUME IInv, NEW p \in Cmds, InstallManifest(p) PROVE IInv'
<1>1. cmd[p].pc = "latest" /\ FilesKept(p) /\ RestKept
  BY StillKept DEF InstallManifest, Still, RestStill
<1>2. Fits(p, cmd[p], lock, part) /\ cmd[p] \in Commands /\ TypeOK
  BY StillKept DEF IInv
<1> DEFINE v == IF cmd[p].v = None THEN latest ELSE cmd[p].v
           c == [cmd[p] EXCEPT !.v = v, !.pc = "fetch"]
<1>3. v \in Releases /\ v \in Items /\ v # Self
  <2>1. cmd[p].v \in Items \union {None} /\ cmd[p].v # Self /\ latest \in Releases
    BY <1>1, <1>2, Fields, Types DEF Fits
  <2> QED BY <2>1, Numbers DEF Items
<1>4. CASE cmd' = [cmd EXCEPT ![p].v = v, ![p].pc = "fetch"] /\ UNCHANGED lock
  <2> HIDE DEF v
  <2>1. "fetch" \in Steps
    BY DEF Steps
  <2>2. /\ c \in Commands /\ c.pc = "fetch" /\ c.v = v /\ c.op = cmd[p].op
        /\ c.copy = cmd[p].copy /\ c.force = cmd[p].force
    BY <1>2, <1>3, <2>1 DEF Commands
  <2>3. Sets(p, c)
    BY <1>2, <1>4, Types DEF Sets
  <2> HIDE DEF c
  <2>4. Fits(p, c, lock', part')
    BY <1>1, <1>2, <1>3, <1>4, <2>2 DEF Fits, Installing, Staged
  <2>5. lock' \in Cmds \union {None} /\ \A q \in Cmds \ {p} : lock = q => lock' = q
    BY <1>2, <1>4, Types
  <2> QED BY <1>1, <2>2, <2>3, <2>4, <2>5, CommandStep
<1>5. CASE End(p)
  BY <1>1, <1>5, EndStep
<1> QED BY <1>4, <1>5 DEF InstallManifest

\* Who installs may change what is downloaded of its release.
LEMMA PartKept ==
  ASSUME IInv, NEW p \in Cmds, cmd[p].pc \in Installing \ {"latest"},
         NEW b \in Whole \union {"none", "cut"}, part' = [part EXCEPT ![cmd[p].v] = b],
         UNCHANGED <<dir, archive>>
  PROVE  FilesKept(p) /\ part'[cmd[p].v] = b
<1>1. cmd[p].v \in Items /\ lock = p
  BY StillKept DEF Fits
<1> QED BY <1>1, Types DEF IInv, FilesKept, OnlyVerified

LEMMA FetchStartAct ==
  ASSUME IInv, NEW p \in Cmds, FetchStart(p) PROVE IInv'
<1>1. cmd[p].pc = "fetch" /\ RestKept /\ UNCHANGED <<dir, archive, lock>>
  BY StillKept DEF FetchStart, RestStill
<1>2. Fits(p, cmd[p], lock, part)
  BY StillKept
<1>3. ASSUME NEW pc \in {"verify", "fetching"}, FilesKept(p), Goto(p, pc) PROVE IInv'
  <2>1. pc \in Steps
    BY DEF Steps
  <2>2. \A c \in Commands :
          /\ c.pc = pc /\ c.op = cmd[p].op /\ c.v = cmd[p].v /\ c.force = cmd[p].force
          /\ c.copy = cmd[p].copy
          => Fits(p, c, lock, part')
    BY <1>1, <1>2 DEF Fits, Installing, Staged
  <2> QED BY <1>1, <1>3, <2>1, <2>2, GotoStep
<1>4. CASE Goto(p, "verify") /\ UNCHANGED part
  <2>1. FilesKept(p)
    BY <1>1, <1>4, StillKept DEF Still
  <2> QED BY <1>3, <1>4, <2>1
<1>5. CASE Goto(p, "fetching") /\ part' = [part EXCEPT ![cmd[p].v] = "cut"]
  <2>1. FilesKept(p)
    BY <1>1, <1>5, PartKept DEF Installing
  <2> QED BY <1>3, <1>5, <2>1
<1> QED BY <1>4, <1>5 DEF FetchStart

LEMMA FetchEndAct ==
  ASSUME IInv, NEW p \in Cmds, FetchEnd(p) PROVE IInv'
<1>1. cmd[p].pc = "fetching" /\ RestKept /\ UNCHANGED <<dir, archive>>
  BY StillKept DEF FetchEnd, RestStill
<1>2. Fits(p, cmd[p], lock, part)
  BY StillKept
<1>3. ASSUME NEW b \in Whole, part' = [part EXCEPT ![cmd[p].v] = b], Goto(p, "verify"),
             UNCHANGED lock
      PROVE  IInv'
  <2>1. FilesKept(p)
    BY <1>1, <1>3, PartKept DEF Installing
  <2>2. \A c \in Commands :
          /\ c.pc = "verify" /\ c.op = cmd[p].op /\ c.v = cmd[p].v /\ c.force = cmd[p].force
          /\ c.copy = cmd[p].copy
          => Fits(p, c, lock, part')
    BY <1>1, <1>2 DEF Fits, Installing, Staged
  <2>3. "verify" \in Steps
    BY DEF Steps
  <2> QED BY <1>1, <1>3, <2>1, <2>2, <2>3, GotoStep
<1>4. CASE End(p) /\ UNCHANGED part
  <2>1. FilesKept(p)
    BY <1>1, <1>4, StillKept DEF Still
  <2> QED BY <1>1, <1>4, <2>1, EndStep
<1> QED BY <1>3, <1>4 DEF FetchEnd

LEMMA VerifyAct ==
  ASSUME IInv, NEW p \in Cmds, Verify(p) PROVE IInv'
<1>1. cmd[p].pc = "verify" /\ RestKept /\ UNCHANGED <<dir, archive>>
  BY StillKept DEF Verify, RestStill
<1>2. Fits(p, cmd[p], lock, part) /\ cmd[p] \in Commands /\ TypeOK
  BY StillKept DEF IInv
<1>3. CASE Matches(part[cmd[p].v]) /\ Goto(p, "finalize") /\ UNCHANGED <<part, lock>>
  <2>1. FilesKept(p)
    BY <1>1, <1>3, StillKept DEF Still
  <2>2. \A c \in Commands :
          /\ c.pc = "finalize" /\ c.op = cmd[p].op /\ c.v = cmd[p].v /\ c.force = cmd[p].force
          /\ c.copy = cmd[p].copy
          => Fits(p, c, lock, part')
    BY <1>1, <1>2, <1>3 DEF Fits, Installing, Staged, Matches
  <2>3. "finalize" \in Steps
    BY DEF Steps
  <2> QED BY <1>1, <1>3, <2>1, <2>2, <2>3, GotoStep
<1>4. CASE part' = [part EXCEPT ![cmd[p].v] = "none"]
  <2>1. FilesKept(p)
    BY <1>1, <1>4, PartKept DEF Installing
  <2>2. CASE cmd' = [cmd EXCEPT ![p].tries = 1, ![p].pc = "fetch"] /\ UNCHANGED lock
    <3> DEFINE c == [cmd[p] EXCEPT !.tries = 1, !.pc = "fetch"]
    <3>1. "fetch" \in Steps /\ 1 \in 0..2
      BY DEF Steps
    <3>2. /\ c \in Commands /\ c.pc = "fetch" /\ c.v = cmd[p].v /\ c.op = cmd[p].op
          /\ c.copy = cmd[p].copy /\ c.force = cmd[p].force
      BY <1>2, <3>1 DEF Commands
    <3>3. Sets(p, c)
      BY <1>2, <2>2, Types DEF Sets
    <3> HIDE DEF c
    <3>4. Fits(p, c, lock', part')
      BY <1>1, <1>2, <2>2, <3>2 DEF Fits, Installing, Staged
    <3>5. lock' \in Cmds \union {None} /\ \A q \in Cmds \ {p} : lock = q => lock' = q
      BY <1>2, <2>2, Types
    <3> QED BY <1>1, <2>1, <3>2, <3>3, <3>4, <3>5, CommandStep
  <2>3. CASE End(p)
    BY <1>1, <2>1, <2>3, EndStep
  <2>4. CASE Matches(part[cmd[p].v]) /\ Goto(p, "finalize") /\ UNCHANGED <<part, lock>>
    BY <1>3, <2>4
  <2> QED BY <2>2, <2>3, <2>4 DEF Verify
<1> QED BY <1>3, <1>4 DEF Verify

\* The archive is what was checked: nobody else touches it between.
LEMMA FinalizeAct ==
  ASSUME IInv, NEW p \in Cmds, Finalize(p) PROVE IInv'
<1>1. cmd[p].pc = "finalize" /\ RestKept /\ UNCHANGED dir
  BY StillKept DEF Finalize, RestStill
<1>2. Fits(p, cmd[p], lock, part)
  BY StillKept
<1>3. CASE /\ archive' = [archive EXCEPT ![cmd[p].v] = part[cmd[p].v]]
           /\ part' = [part EXCEPT ![cmd[p].v] = "none"]
           /\ Goto(p, "extract") /\ UNCHANGED lock
  <2>1. part[cmd[p].v] = "good" /\ cmd[p].v \in Items /\ lock = p
    BY <1>1, <1>2 DEF Fits, Installing
  <2>2. FilesKept(p)
    BY <1>1, <1>3, <2>1, Types DEF FilesKept, IInv, OnlyVerified, Whole
  <2>3. \A c \in Commands :
          /\ c.pc = "extract" /\ c.op = cmd[p].op /\ c.v = cmd[p].v /\ c.force = cmd[p].force
          /\ c.copy = cmd[p].copy
          => Fits(p, c, lock, part')
    BY <1>1, <1>2 DEF Fits, Installing, Staged
  <2>4. "extract" \in Steps
    BY DEF Steps
  <2> QED BY <1>1, <1>3, <2>2, <2>3, <2>4, GotoStep
<1>4. CASE End(p) /\ UNCHANGED <<part, archive>>
  <2>1. FilesKept(p)
    BY <1>1, <1>4, StillKept DEF Still
  <2> QED BY <1>1, <1>4, <2>1, EndStep
<1> QED BY <1>3, <1>4 DEF Finalize

LEMMA ExtractAct ==
  ASSUME IInv, NEW p \in Cmds, Extract(p) PROVE IInv'
<1>1. /\ cmd[p].pc = "extract" /\ RestKept /\ UNCHANGED <<dir, part>>
      /\ archive[cmd[p].v] # "none"
  BY StillKept DEF Extract, RestStill
<1>2. Fits(p, cmd[p], lock, part) /\ cmd[p] \in Commands /\ TypeOK /\ OnlyVerified
  BY StillKept DEF IInv
<1>3. cmd[p].v \in Items /\ archive[cmd[p].v] = "good"
  <2>1. cmd[p].v \in Items
    BY <1>1, <1>2 DEF Fits, Installing
  <2> QED BY <1>1, <1>2, <2>1, Types DEF OnlyVerified, Whole
<1>4. archive' \in {archive, [archive EXCEPT ![cmd[p].v] = "none"]}
  BY DEF Extract
<1>5. FilesKept(p)
  BY <1>1, <1>2, <1>3, <1>4, Types DEF FilesKept, OnlyVerified
<1>6. CASE End(p)
  BY <1>1, <1>5, <1>6, EndStep
<1>7. CASE cmd' = [cmd EXCEPT ![p].copy = archive[cmd[p].v], ![p].pc = "probe"] /\ UNCHANGED lock
  <2> DEFINE c == [cmd[p] EXCEPT !.copy = "good", !.pc = "probe"]
  <2>1. "probe" \in Steps
    BY DEF Steps
  <2>2. /\ c \in Commands /\ c.pc = "probe" /\ c.v = cmd[p].v /\ c.op = cmd[p].op
        /\ c.copy = "good" /\ c.force = cmd[p].force
    BY <1>2, <2>1 DEF Commands, Whole
  <2>3. Sets(p, c)
    BY <1>2, <1>3, <1>7, Types DEF Sets
  <2> HIDE DEF c
  <2>4. Fits(p, c, lock', part')
    BY <1>1, <1>2, <1>3, <1>7, <2>2 DEF Fits, Installing, Staged
  <2>5. lock' \in Cmds \union {None} /\ \A q \in Cmds \ {p} : lock = q => lock' = q
    BY <1>2, <1>7, Types
  <2> QED BY <1>1, <1>5, <2>2, <2>3, <2>4, <2>5, CommandStep
<1> QED BY <1>6, <1>7 DEF Extract

LEMMA ProbeAct ==
  ASSUME IInv, NEW p \in Cmds, Probe(p) PROVE IInv'
<1>1. cmd[p].pc = "probe" /\ RestKept /\ FilesKept(p)
  BY StillKept DEF Probe, RestStill, Still
<1>2. Fits(p, cmd[p], lock, part)
  BY StillKept
<1> DEFINE pc == IF cmd[p].force /\ dir[cmd[p].v] # "none" THEN "replace" ELSE "commit"
<1>3. CASE Goto(p, pc) /\ UNCHANGED lock
  <2>1. pc \in Steps /\ (pc = "replace" => cmd[p].force) /\ pc \in {"replace", "commit"}
    BY DEF Steps
  <2>2. pc = "replace" => cmd[p].v \in Releases
    BY <1>1, <1>2, <2>1 DEF Fits, Installing, Items
  <2> HIDE DEF pc
  <2>3. UNCHANGED <<dir, part, archive>>
    BY DEF Probe
  <2>4. \A c \in Commands :
          /\ c.pc = pc /\ c.op = cmd[p].op /\ c.v = cmd[p].v /\ c.force = cmd[p].force
          /\ c.copy = cmd[p].copy
          => Fits(p, c, lock, part')
    BY <1>1, <1>2, <2>1, <2>2, <2>3 DEF Fits, Installing, Staged
  <2> QED BY <1>1, <1>3, <2>1, <2>4, GotoStep
<1>4. CASE End(p)
  BY <1>1, <1>4, EndStep
<1> QED BY <1>3, <1>4 DEF Probe

\* A release is taken away in two steps.
LEMMA HalvedKept ==
  ASSUME IInv, NEW p \in Cmds, NEW v \in Items, dir' \in {Halve(v), Gone(v)},
         UNCHANGED <<part, archive>>
  PROVE  FilesKept(p)
<1>1. dir \in [Items -> Whole \union {"none", "half"}] /\ OnlyVerified
  BY Types DEF IInv
<1>2. \A i \in Items : dir'[i] \in {dir[i], "none", "half"}
  BY <1>1 DEF Halve, Gone
<1>3. dir' \in [Items -> Whole \union {"none", "half"}]
  BY <1>1 DEF Halve, Gone
<1> QED BY <1>1, <1>2, <1>3, Types DEF IInv, FilesKept, OnlyVerified

LEMMA ReplaceAct ==
  ASSUME IInv, NEW p \in Cmds, Replace(p) PROVE IInv'
<1>1. /\ cmd[p].pc \in {"replace", "replacing"} /\ RestKept
      /\ dir' \in {Halve(cmd[p].v), Gone(cmd[p].v)} /\ UNCHANGED <<part, archive, lock>>
  BY StillKept DEF Replace, RestStill
<1>2. Fits(p, cmd[p], lock, part)
  BY StillKept
<1>3. cmd[p].v \in Items
  BY <1>1, <1>2, Numbers DEF Fits
<1>4. FilesKept(p)
  BY <1>1, <1>3, HalvedKept
<1>5. ASSUME NEW pc \in {"replacing", "commit"}, Goto(p, pc) PROVE IInv'
  <2>1. pc \in Steps
    BY DEF Steps
  <2>2. \A c \in Commands :
          /\ c.pc = pc /\ c.op = cmd[p].op /\ c.v = cmd[p].v /\ c.force = cmd[p].force
          /\ c.copy = cmd[p].copy
          => Fits(p, c, lock, part')
    BY <1>1, <1>2 DEF Fits, Installing, Staged
  <2> QED BY <1>1, <1>4, <1>5, <2>1, <2>2, GotoStep
<1> QED BY <1>5 DEF Replace

LEMMA CommitAct ==
  ASSUME IInv, NEW p \in Cmds, Commit(p) PROVE IInv'
<1>1. cmd[p].pc = "commit" /\ RestKept /\ UNCHANGED part
  BY StillKept DEF Commit, RestStill
<1>2. Fits(p, cmd[p], lock, part) /\ cmd[p] \in Commands /\ TypeOK
  BY StillKept DEF IInv
<1>3. cmd[p].v \in Items /\ cmd[p].copy = "good" /\ lock = p
      /\ cmd[p].op \in {"install", "update", "self"}
  BY <1>1, <1>2 DEF Fits, Installing, Staged
<1> DEFINE after == [Idle EXCEPT !.op = cmd[p].op, !.v = cmd[p].v, !.note = cmd[p].note,
                                 !.pc = "default"]
           c == IF cmd[p].v = Self THEN Idle ELSE after
<1>4. CASE /\ dir' = [dir EXCEPT ![cmd[p].v] = cmd[p].copy]
           /\ archive' = [archive EXCEPT ![cmd[p].v] = "none"]
           /\ lock' = None
           /\ cmd' = [cmd EXCEPT ![p] = c]
  <2>1. FilesKept(p)
    BY <1>1, <1>2, <1>3, <1>4, Types DEF FilesKept, IInv, OnlyVerified, Whole
  <2>2. CASE cmd[p].v = Self
    BY <1>1, <1>3, <1>4, <2>1, <2>2, EndStep DEF End, Released
  <2>3. CASE cmd[p].v # Self
    <3>1. cmd[p].v \in Releases /\ cmd[p].op # "self" /\ "default" \in Steps
          /\ cmd[p].note \in Releases \union {None} /\ cmd[p].op \in Ops
      BY <1>2, <1>3, <2>3, Fields DEF Fits, Items, Steps
    <3>2. Idle \in Commands /\ cmd[p].v \in Items
      BY <1>3, IdleFits
    <3>3. /\ after \in Commands /\ after.pc = "default" /\ after.v = cmd[p].v
          /\ after.op = cmd[p].op /\ after.copy = "none"
      BY <3>1, <3>2 DEF Idle, Commands
    <3>4. Sets(p, after)
      BY <1>4, <2>3 DEF Sets
    <3> HIDE DEF after
    <3>5. Fits(p, after, lock', part')
      BY <1>2, <2>3, <3>1, <3>3 DEF Fits, Installing, Staged
    <3>6. lock' \in Cmds \union {None} /\ \A q \in Cmds \ {p} : lock = q => lock' = q
      BY <1>3, <1>4
    <3> QED BY <1>1, <2>1, <3>3, <3>4, <3>5, <3>6, CommandStep
  <2> QED BY <2>2, <2>3
<1>5. CASE End(p) /\ UNCHANGED <<dir, archive>>
  <2>1. FilesKept(p)
    BY <1>1, <1>5, StillKept DEF Still
  <2> QED BY <1>1, <1>5, <2>1, EndStep
<1> QED BY <1>4, <1>5 DEF Commit

LEMMA DefaultAct ==
  ASSUME IInv, NEW p \in Cmds, SetDefault(p) \/ Forget(p) PROVE IInv'
<1>1. /\ cmd[p].pc \in {"default", "forget"} /\ FilesKept(p) /\ End(p)
      /\ UNCHANGED <<litter, latest, used, started>>
  BY StillKept DEF SetDefault, Forget, Still
<1>2. TypeOK /\ Fits(p, cmd[p], lock, part)
  BY StillKept DEF IInv
<1>3. default' \in Releases \union {None} /\ source' \in BOOLEAN
  <2>1. CASE SetDefault(p)
    <3>1. cmd[p].v \in Releases /\ default' \in {default, cmd[p].v} /\ UNCHANGED source
      BY <1>2, <2>1 DEF SetDefault, WriteDefault, Fits
    <3> QED BY <1>2, <3>1, Types
  <2>2. CASE Forget(p)
    BY <1>2, <2>2, Types DEF Forget
  <2> QED BY <2>1, <2>2
<1>4. RestKept
  BY <1>1, <1>2, <1>3, Types DEF RestKept
<1> QED BY <1>1, <1>4, EndStep

LEMMA RemoveAct ==
  ASSUME IInv, NEW p \in Cmds, Remove(p) PROVE IInv'
<1>1. /\ cmd[p].pc \in {"remove", "removing"} /\ RestKept
      /\ dir' \in {Halve(cmd[p].v), Gone(cmd[p].v)} /\ UNCHANGED <<part, archive, lock>>
  BY StillKept DEF Remove, RestStill
<1>2. Fits(p, cmd[p], lock, part) /\ cmd[p] \in Commands /\ TypeOK
  BY StillKept DEF IInv
<1>3. cmd[p].v \in Items /\ cmd[p].v \in Releases
  BY <1>1, <1>2, Numbers DEF Fits
<1>4. FilesKept(p)
  BY <1>1, <1>3, HalvedKept
<1>5. lock' \in Cmds \union {None} /\ \A q \in Cmds \ {p} : lock = q => lock' = q
  BY <1>1, <1>2, Types
<1>6. ASSUME NEW pc \in {"removing", "forget"}, Goto(p, pc), pc = "forget" => cmd[p].op = "uninstall"
      PROVE  IInv'
  <2>1. pc \in Steps
    BY DEF Steps
  <2>2. \A c \in Commands :
          /\ c.pc = pc /\ c.op = cmd[p].op /\ c.v = cmd[p].v /\ c.force = cmd[p].force
          /\ c.copy = cmd[p].copy
          => Fits(p, c, lock, part')
    BY <1>1, <1>2, <1>6 DEF Fits, Installing, Staged
  <2> QED BY <1>1, <1>4, <1>6, <2>1, <2>2, GotoStep
<1> DEFINE left == cmd[p].todo \ {cmd[p].v}
           v == IF left = {} THEN None ELSE Newest(left)
           pc == IF left = {} THEN "sweep" ELSE "remove"
           c == [cmd[p] EXCEPT !.todo = left, !.v = v, !.pc = pc]
<1>7. ASSUME cmd[p].op = "prune",
             cmd' = [cmd EXCEPT ![p].todo = left, ![p].v = v, ![p].pc = pc]
      PROVE  IInv'
  <2>1. left \in SUBSET Releases
    BY <1>2, Fields
  <2>2. /\ left # {} => v \in Releases /\ v # Self /\ pc = "remove"
        /\ left = {} => v = None /\ v # Self /\ pc = "sweep"
        /\ v \in Items \union {None}
    BY <2>1, NewestIsOne, Numbers
  <2>3. pc \in Steps
    BY <2>2 DEF Steps
  <2> HIDE DEF left, v, pc
  <2>4. /\ c \in Commands /\ c.pc = pc /\ c.v = v /\ c.op = "prune" /\ c.copy = cmd[p].copy
    BY <1>2, <1>7, <2>1, <2>2, <2>3 DEF Commands
  <2>5. Sets(p, c)
    BY <1>2, <1>7, Types DEF Sets
  <2> HIDE DEF c
  <2>6. Fits(p, c, lock', part')
    BY <1>1, <1>2, <1>7, <2>2, <2>4 DEF Fits, Installing, Staged
  <2> QED BY <1>1, <1>4, <1>5, <2>4, <2>5, <2>6, CommandStep
<1> QED BY <1>6, <1>7 DEF Remove

\* Only who holds the lock has a staging directory, so prune, which holds it, removes only what
\* dead commands left.
LEMMA SweepAct ==
  ASSUME IInv, NEW p \in Cmds, Sweep(p) PROVE IInv'
<1>1. cmd[p].pc = "sweep" /\ FilesKept(p) /\ UNCHANGED <<default, source, latest, used, started>>
      /\ litter' = FALSE /\ lock' = Released(p)
  BY StillKept DEF Sweep, Still
<1>2. TypeOK /\ \A q \in Cmds : Fits(q, cmd[q], lock, part)
  BY DEF IInv
<1>3. lock = p
  BY <1>1, <1>2 DEF Fits
<1>4. \A q \in Cmds \ {p} : cmd[q].copy = "none"
  BY <1>2, <1>3 DEF Fits, Installing, Staged
<1>5. cmd' = [cmd EXCEPT ![p] = Idle]
  <2>1. cmd' = [q \in Cmds |-> IF q = p THEN Idle ELSE cmd[q]]
    BY <1>4 DEF Sweep
  <2> QED BY <1>2, <2>1, Types
<1>6. RestKept
  BY <1>1, <1>2, Types DEF RestKept
<1> QED BY <1>1, <1>5, <1>6, EndStep DEF End

LEMMA DiesAct ==
  ASSUME IInv, NEW p \in Cmds, Dies(p) PROVE IInv'
<1>1. FilesKept(p) /\ End(p) /\ UNCHANGED <<default, source, latest, used, started>>
      /\ litter' = (litter \/ cmd[p].copy # "none")
  BY StillKept DEF Dies, Still
<1>2. RestKept
  BY <1>1, Types DEF IInv, RestKept
<1> QED BY <1>1, <1>2, EndStep

LEMMA OutsideAct ==
  ASSUME IInv, Use \/ Publish \/ TakeUp \/ UNCHANGED vars PROVE IInv'
<1>1. UNCHANGED <<dir, part, archive, lock, cmd>>
  BY DEF Use, Publish, TakeUp, vars
<1>2. /\ litter' \in BOOLEAN /\ source' \in BOOLEAN /\ default' \in Releases \union {None}
      /\ latest' \in Releases /\ used' \subseteq Releases /\ started' \in 0..MaxCommands
  <2>1. TypeOK /\ MaxCommands \in Nat
    BY StoreAssumption DEF IInv
  <2> QED BY <2>1, Types DEF Use, Publish, TakeUp, vars, WriteDefault, Listed
<1>3. TypeOK'
  BY <1>1, <1>2, Types, TypesNext DEF IInv
<1> QED BY <1>1, <1>3 DEF IInv, OnlyVerified

LEMMA StepInv == ASSUME IInv, [Next]_vars PROVE IInv'
<1>1. ASSUME NEW p \in Cmds, Step(p) PROVE IInv'
  BY <1>1, ManifestAct, AcquireAct, InstallManifestAct, FetchStartAct, FetchEndAct, VerifyAct,
     FinalizeAct, ExtractAct, ProbeAct, ReplaceAct, CommitAct, DefaultAct, RemoveAct, SweepAct
     DEF Step
<1> QED BY <1>1, BeginAct, DiesAct, OutsideAct DEF Next

LEMMA InitInv == ASSUME Init PROVE IInv
<1>1. \A r \in Releases : r \in Items
  BY DEF Items
<1>2. TypeOK
  <2>1. /\ dir \in [Items -> {"none", "good"}]
        /\ part \in [Items -> {"none", "cut", "bad"}]
        /\ archive = [i \in Items |-> "none"] /\ litter = FALSE /\ source = TRUE
        /\ default = None /\ lock = None /\ latest \in Releases /\ used = {}
        /\ cmd = [p \in Cmds |-> Idle] /\ started = 0
    BY DEF Init
  <2>2. cmd \in [Cmds -> Commands]
    BY <2>1, IdleFits
  <2>3. started \in 0..MaxCommands
    BY <2>1, StoreAssumption
  <2> QED BY <2>1, <2>2, <2>3, Types DEF Whole
<1>3. OnlyVerified
  BY DEF Init, OnlyVerified
<1>4. \A p \in Cmds : Fits(p, cmd[p], lock, part)
  BY IdleFits DEF Init
<1> QED BY <1>2, <1>3, <1>4 DEF IInv

-----------------------------------------------------------------------------
(* Theorems *)

\* The files, the lock and the commands have their types, for any number of releases and of
\* commands (src/cli/store.cpp, installer.cpp, self_update.cpp).
THEOREM TypeCorrect ==
  Spec => []TypeOK
<1>1. Init => IInv
  BY InitInv
<1>2. IInv /\ [Next]_vars => IInv'
  BY StepInv
<1>3. IInv => TypeOK
  BY DEF IInv
<1> QED BY <1>1, <1>2, <1>3, PTL DEF Spec

\* What is installed is what the signed manifest names, however many commands share the
\* downloads, break off and die: what is checked stays as it is until it is installed, for it
\* belongs to whoever holds the lock.
THEOREM OnlyVerifiedIsInstalled ==
  Spec => []OnlyVerified
<1>1. Init => IInv
  BY InitInv
<1>2. IInv /\ [Next]_vars => IInv'
  BY StepInv
<1>3. IInv => OnlyVerified
  BY DEF IInv
<1> QED BY <1>1, <1>2, <1>3, PTL DEF Spec

\* A step that changes a release.
LEMMA DirStep ==
  ASSUME IInv, [Next]_vars, NEW i \in Items, dir'[i] # dir[i]
  PROVE  /\ dir'[i] \in Whole => dir[i] = "none" \/ i = Self
         /\ i = Self => dir'[i] \in Whole
         /\ dir'[i] = "half" => \E p \in Cmds : cmd[p].v = i /\ cmd[p].pc \in {"replace", "remove"}
<1>1. dir \in [Items -> Whole \union {"none", "half"}] /\ Self \notin Releases
  BY Types, Numbers DEF IInv
<1>2. PICK p \in Cmds : Replace(p) \/ Remove(p) \/ Commit(p)
  BY DEF Next, vars, Step, Use, Publish, TakeUp, BeginInstall, BeginSelf, BeginUninstall,
         BeginPrune, SelfManifest, Acquire, InstallManifest, FetchStart, FetchEnd, Verify,
         Finalize, Extract, Probe, SetDefault, Forget, Sweep, Dies
<1>3. Fits(p, cmd[p], lock, part)
  BY StillKept
<1>4. ASSUME dir' \in {Halve(cmd[p].v), Gone(cmd[p].v)},
             cmd[p].v \in Releases,
             dir' = Halve(cmd[p].v) => cmd[p].pc \in {"replace", "remove"}
             \/ dir' = Gone(cmd[p].v)
      PROVE  /\ i = cmd[p].v /\ i # Self
             /\ dir'[i] \in {"none", "half"}
             /\ dir'[i] = "half" => cmd[p].pc \in {"replace", "remove"}
  <2>1. \A j \in Items : j # cmd[p].v => dir'[j] = dir[j]
    BY <1>1, <1>4 DEF Halve, Gone
  <2>2. i = cmd[p].v /\ i # Self
    BY <1>1, <1>4, <2>1
  <2>3. Halve(i)[i] = (IF dir[i] = "none" THEN dir[i] ELSE "half")
        /\ Gone(i)[i] = (IF dir[i] = "half" THEN "none" ELSE dir[i])
    BY <1>1 DEF Halve, Gone
  <2> QED BY <1>1, <1>4, <2>2, <2>3
<1>5. CASE Replace(p)
  <2>1. cmd[p].v \in Releases
    BY <1>3, <1>5 DEF Replace, Fits
  <2> QED BY <1>4, <1>5, <2>1 DEF Replace, Whole
<1>6. CASE Remove(p)
  <2>1. cmd[p].v \in Releases
    BY <1>3, <1>6 DEF Remove, Fits
  <2> QED BY <1>4, <1>6, <2>1 DEF Remove, Whole
<1>7. CASE Commit(p)
  <2>1. Vacant(cmd[p].v) /\ dir' = [dir EXCEPT ![cmd[p].v] = cmd[p].copy]
    BY <1>7 DEF Commit
  <2>2. cmd[p].copy = "good" /\ cmd[p].v \in Items
    BY <1>3, <1>7 DEF Commit, Fits, Installing, Staged
  <2>3. i = cmd[p].v /\ dir'[i] = "good"
    BY <1>1, <2>1, <2>2
  <2> QED BY <2>1, <2>3 DEF Vacant, Whole
<1> QED BY <1>2, <1>5, <1>6, <1>7

\* A release appears whole, in one step, where there was none; it is taken apart only by a
\* command that replaces or removes it, whose death may leave it so; and the vb executable is
\* there at every moment (install_release, prune_releases, swap_executable).
THEOREM NothingByHalves ==
  Spec => NeverHalfWritten
<1>1. Init => IInv
  BY InitInv
<1>2. IInv /\ [Next]_vars => IInv'
  BY StepInv
<1>3. IInv /\ [Next]_vars =>
        [\A i \in Items : dir'[i] # dir[i] =>
           /\ dir'[i] \in Whole => dir[i] = "none" \/ i = Self
           /\ i = Self => dir'[i] \in Whole
           /\ dir'[i] = "half" =>
                \E p \in Cmds : cmd[p].v = i /\ cmd[p].pc \in {"replace", "remove"}]_vars
  BY DirStep
<1> QED BY <1>1, <1>2, <1>3, PTL DEF Spec, NeverHalfWritten

-----------------------------------------------------------------------------
(* AssetCache: the packs of a client *)

\* Contents h are those of file f, or the part of it that got to the disk.
Shown(h, f) ==
  h = Assets!Contents(f, "whole") \/ (h = Assets!Contents(f, "torn") /\ f \in harmed)

\* A path of the pack that is synchronised shows its file, once that has come.
Shows(path) ==
  IF path \in DOMAIN manifest /\ manifest[path] \notin pending
  THEN Shown(vfs[path], manifest[path]) ELSE vfs[path] = None

\* The index on disk is the one in memory, and a torn file it lists is on record; files that are
\* awaited are not listed.  While a client synchronises it awaits something, and afterwards
\* nothing; the virtual file system shows what has come and nothing else.
AssetsHold ==
  /\ index = listed /\ IsFiniteSet(listed) /\ Cardinality(listed) <= Cap
  /\ \A f \in listed : disk[f] = "torn" => f \in harmed
  /\ conn # "off" => /\ manifest \in Packs /\ pending \cap index = {}
                     /\ conn = "joined" <=> pending = {}
                     /\ \A path \in Assets!Paths : Shows(path)

AssetsInv == Assets!TypeOK /\ AssetsHold

LEMMA PackFiles ==
  ASSUME NEW pack \in Packs, NEW path \in DOMAIN pack
  PROVE  path \in Assets!Paths /\ pack[path] \in Files
BY CopiesConstants DEF Assets!Paths

LEMMA AssetsStart == Assets!Init => AssetsInv
<1> SUFFICES ASSUME Assets!Init PROVE AssetsInv
  OBVIOUS
<1>1. IsFiniteSet({}) /\ Cardinality({}) = 0
  BY FS_EmptySet
<1>2. AssetsHold
  BY <1>1, CopiesConstants DEF Assets!Init, AssetsHold
<1>3. Assets!TypeOK
  BY CopiesConstants DEF Assets!Init, Assets!TypeOK
<1> QED BY <1>2, <1>3 DEF AssetsInv

\* What a manifest finds on disk is whole, and the rest is asked for.
LEMMA ConnectKeeps ==
  ASSUME AssetsInv, Assets!Connect
  PROVE  AssetsInv'
<1> DEFINE wanted == {served[path] : path \in DOMAIN served}
           missing == {f \in wanted : Assets!Missing(f)}
<1>1. /\ manifest' = served /\ pending' = missing /\ index' = index \ missing /\ listed' = index'
      /\ vfs' = [path \in Assets!Paths |->
           IF path \in DOMAIN served /\ served[path] \notin missing
           THEN Assets!Contents(served[path], disk[served[path]]) ELSE None]
      /\ conn' = IF missing = {} THEN "joined" ELSE "syncing"
      /\ UNCHANGED <<disk, served, harmed, changes>>
  BY DEF Assets!Connect
<1>2. /\ served \in Packs /\ wanted \subseteq Files /\ missing \subseteq wanted
      /\ index \subseteq Files /\ disk \in [Files -> {"absent", "torn", "whole"}]
  BY PackFiles DEF AssetsInv, Assets!TypeOK
<1>3. ASSUME NEW f \in wanted, f \notin missing
      PROVE  f \in index /\ disk[f] \in {"whole", "torn"} /\ (disk[f] = "torn" => f \in harmed)
  BY <1>2, <1>3 DEF Assets!Missing, AssetsInv, AssetsHold
<1>4. \A path \in Assets!Paths : Shows(path)'
  <2>1. \A path \in DOMAIN served : served[path] \in wanted
    OBVIOUS
  <2> HIDE DEF wanted, missing
  <2>2. \A path \in DOMAIN served :
          served[path] \notin missing
            => Shown(Assets!Contents(served[path], disk[served[path]]), served[path])
    BY <1>3, <2>1 DEF Shown
  <2>3. \A h, f : Shown(h, f) => Shown(h, f)'
    BY <1>1 DEF Shown, Assets!Contents
  <2> QED BY <1>1, <2>2, <2>3 DEF Shows
<1> HIDE DEF wanted, missing
<1>5. IsFiniteSet(listed') /\ Cardinality(listed') <= Cap
  <2>1. IsFiniteSet(listed) /\ Cardinality(listed) <= Cap /\ listed' \subseteq listed
    BY <1>1 DEF AssetsInv, AssetsHold
  <2>2. IsFiniteSet(listed') /\ Cardinality(listed') <= Cardinality(listed)
    BY <2>1, FS_Subset
  <2>3. Cardinality(listed) \in Nat /\ Cardinality(listed') \in Nat
    BY <2>1, <2>2, FS_CardinalityType
  <2> QED BY <2>1, <2>2, <2>3, CopiesConstants
<1>6. AssetsHold'
  BY <1>1, <1>2, <1>4, <1>5 DEF AssetsHold, AssetsInv
<1>7. vfs' \in [Assets!Paths -> {None} \cup [file : Files, how : {"torn", "whole"}]]
  BY <1>1, <1>2, <1>3, PackFiles DEF Assets!Contents, wanted
<1>8. Assets!TypeOK'
  BY <1>1, <1>2, <1>7 DEF AssetsInv, Assets!TypeOK, Assets!Paths
<1> QED BY <1>6, <1>8 DEF AssetsInv

\* Evictions leave room for one more file.
LEMMA OneMoreFits ==
  ASSUME AssetsInv, NEW f \in Files, NEW e \in Assets!Evictions(f)
  PROVE  /\ e \subseteq index /\ IsFiniteSet((index \ e) \cup {f})
         /\ Cardinality((index \ e) \cup {f}) <= Cap
<1>1. e \subseteq index /\ Assets!Cardinality(index \ e) < Cap
  BY DEF Assets!Evictions
<1>2. Assets!Cardinality(index \ e) = Cardinality(index \ e)
  BY DEF Assets!Cardinality, Cardinality
<1>3. IsFiniteSet(index)
  BY DEF AssetsInv, AssetsHold
<1>4. IsFiniteSet(index \ e) /\ Cardinality(index \ e) \in Nat
  BY <1>3, FS_Subset, FS_CardinalityType
<1>5. /\ IsFiniteSet((index \ e) \cup {f})
      /\ \/ Cardinality((index \ e) \cup {f}) = Cardinality(index \ e)
         \/ Cardinality((index \ e) \cup {f}) = Cardinality(index \ e) + 1
  BY <1>4, FS_AddElement
<1> QED BY <1>1, <1>2, <1>4, <1>5, CopiesConstants

\* A file that came is whole under all its paths.
LEMMA ReceivedKeeps ==
  ASSUME AssetsInv, NEW f \in Files, Assets!Received(f)
  PROVE  AssetsInv'
<1>1. /\ conn = "syncing" /\ f \in pending
      /\ vfs' = [path \in Assets!Paths |-> IF path \in DOMAIN manifest /\ manifest[path] = f
                                           THEN Assets!Contents(f, "whole") ELSE vfs[path]]
      /\ pending' = pending \ {f}
      /\ conn' = IF pending' = {} THEN "joined" ELSE "syncing"
      /\ UNCHANGED <<manifest, served, changes>>
  BY DEF Assets!Received
<1>2. PICK e \in Assets!Evictions(f), how \in {"whole", "torn"} :
        /\ index' = (index \ e) \cup {f} /\ listed' = index'
        /\ harmed' = IF how = "torn" THEN harmed \cup {f} ELSE harmed \ {f}
        /\ disk' = [d \in Files |-> IF d = f THEN how ELSE IF d \in e THEN "absent" ELSE disk[d]]
  BY DEF Assets!Received
<1>3. e \subseteq index /\ IsFiniteSet(index') /\ Cardinality(index') <= Cap
  BY <1>2, OneMoreFits
<1>4. /\ manifest \in Packs /\ pending \cap index = {} /\ index = listed
      /\ \A path \in Assets!Paths : Shows(path)
      /\ \A d \in listed : disk[d] = "torn" => d \in harmed
  BY <1>1 DEF AssetsInv, AssetsHold
<1>5. /\ index \subseteq Files /\ disk \in [Files -> {"absent", "torn", "whole"}]
      /\ pending \subseteq Files /\ harmed \subseteq Files
      /\ vfs \in [Assets!Paths -> {None} \cup [file : Files, how : {"torn", "whole"}]]
  BY DEF AssetsInv, Assets!TypeOK
<1>6. \A path \in Assets!Paths : Shows(path)'
  <2>1. \A h, d : d # f /\ Shown(h, d) => Shown(h, d)'
    BY <1>2 DEF Shown, Assets!Contents
  <2>2. Shown(Assets!Contents(f, "whole"), f)'
    BY DEF Shown, Assets!Contents
  <2>3. ASSUME NEW path \in Assets!Paths PROVE Shows(path)'
    <3>1. Assets!Paths' = Assets!Paths
      BY DEF Assets!Paths
    <3>2. vfs'[path] = IF path \in DOMAIN manifest /\ manifest[path] = f
                       THEN Assets!Contents(f, "whole") ELSE vfs[path]
      BY <1>1
    <3>3. CASE path \in DOMAIN manifest /\ manifest[path] = f
      BY <1>1, <2>2, <3>2, <3>3 DEF Shows, Assets!Contents
    <3>4. CASE path \in DOMAIN manifest /\ manifest[path] # f
      BY <1>1, <1>4, <2>1, <3>2, <3>4 DEF Shows
    <3>5. CASE path \notin DOMAIN manifest
      BY <1>1, <1>4, <3>2, <3>5 DEF Shows
    <3> QED BY <3>3, <3>4, <3>5
  <2> QED BY <2>3 DEF Assets!Paths
<1>7. index' \subseteq Files /\ \A d \in index' : disk'[d] = "torn" => d \in harmed'
  BY <1>2, <1>3, <1>4, <1>5
<1>8. pending' \cap index' = {}
  BY <1>1, <1>2, <1>4
<1>9. AssetsHold'
  BY <1>1, <1>2, <1>3, <1>4, <1>6, <1>7, <1>8 DEF AssetsHold, Assets!Paths
<1>10. disk' \in [Files -> {"absent", "torn", "whole"}]
  BY <1>2, <1>5
<1>11. vfs' \in [Assets!Paths -> {None} \cup [file : Files, how : {"torn", "whole"}]]
  BY <1>1, <1>5 DEF Assets!Contents
<1>12. Assets!TypeOK'
  BY <1>1, <1>2, <1>5, <1>7, <1>10, <1>11 DEF AssetsInv, Assets!TypeOK, Assets!Paths
<1> QED BY <1>9, <1>12 DEF AssetsInv

\* A process starts with the index on disk and nothing else.
LEMMA RestartKeeps ==
  ASSUME AssetsInv, Assets!Restarted, disk' \in [Files -> {"absent", "torn", "whole"}],
         listed' \subseteq Files, IsFiniteSet(listed'), Cardinality(listed') <= Cap,
         harmed' \subseteq Files, \A f \in listed' : disk'[f] = "torn" => f \in harmed',
         served' = served, changes' \in 0 .. MaxChanges
  PROVE  AssetsInv'
<1>1. AssetsHold'
  BY DEF AssetsHold, Assets!Restarted, AssetsInv
<1>2. Assets!TypeOK'
  BY DEF Assets!TypeOK, Assets!Restarted, AssetsInv, Assets!Paths
<1> QED BY <1>1, <1>2 DEF AssetsInv

\* A file that is torn by the death of the client is not listed, or it is on record.
LEMMA DiesKeeps ==
  ASSUME AssetsInv, NEW f \in Files, Assets!Dies(f)
  PROVE  AssetsInv'
<1>1. /\ conn = "syncing" /\ f \in pending /\ changes < MaxChanges /\ changes' = changes + 1
      /\ Assets!Restarted /\ served' = served
  BY DEF Assets!Dies
<1>2. PICK e \in Assets!Evictions(f), how \in {disk[f], "torn"} :
        /\ disk' = [d \in Files |-> IF d = f THEN how ELSE IF d \in e THEN "absent" ELSE disk[d]]
        /\ \/ listed' = listed /\ harmed' = harmed
           \/ listed' = (index \ e) \cup {f} /\ harmed' = harmed \cup {f}
  BY DEF Assets!Dies
<1>3. /\ disk \in [Files -> {"absent", "torn", "whole"}] /\ listed \subseteq Files
      /\ changes \in 0 .. MaxChanges /\ harmed \subseteq Files
  BY DEF AssetsInv, Assets!TypeOK
<1>4. /\ f \notin listed /\ index = listed /\ IsFiniteSet(listed) /\ Cardinality(listed) <= Cap
      /\ \A d \in listed : disk[d] = "torn" => d \in harmed
  BY <1>1 DEF AssetsInv, AssetsHold
<1>5. e \subseteq index /\ IsFiniteSet((index \ e) \cup {f}) /\ Cardinality((index \ e) \cup {f}) <= Cap
  BY OneMoreFits
<1>6. /\ listed' \subseteq Files /\ IsFiniteSet(listed') /\ Cardinality(listed') <= Cap
      /\ harmed' \subseteq Files
  BY <1>2, <1>3, <1>4, <1>5
<1>7. /\ disk' \in [Files -> {"absent", "torn", "whole"}]
      /\ \A d \in listed' : disk'[d] = "torn" => d \in harmed'
  BY <1>2, <1>3, <1>4, <1>5
<1>8. changes' \in 0 .. MaxChanges
  BY <1>1, <1>3, CopiesConstants
<1> QED BY <1>1, <1>6, <1>7, <1>8, RestartKeeps

LEMMA AssetsKeep ==
  ASSUME AssetsInv, [Assets!Next]_assetVars
  PROVE  AssetsInv'
<1> USE DEF AssetsInv
<1>1. CASE UNCHANGED assetVars
  BY <1>1 DEF assetVars, Assets!TypeOK, AssetsHold, Shows, Shown, Assets!Paths, Assets!Contents
<1>2. CASE Assets!Connect
  BY <1>2, ConnectKeeps
<1>3. CASE Assets!Exit
  BY <1>3, RestartKeeps DEF Assets!Exit, Assets!TypeOK, AssetsHold
<1>4. CASE Assets!Disconnect
  BY <1>4 DEF Assets!Disconnect, Assets!TypeOK, AssetsHold, Assets!Paths
<1>5. CASE Assets!PackChanges
  <2>1. Assets!TypeOK'
    BY <1>5, CopiesConstants DEF Assets!PackChanges, Assets!TypeOK, Assets!Paths
  <2>2. AssetsHold'
    BY <1>5 DEF Assets!PackChanges, AssetsHold, Shows, Shown, Assets!Paths, Assets!Contents
  <2> QED BY <2>1, <2>2
<1>6. ASSUME NEW f \in Files, Assets!Received(f) \/ Assets!Dies(f) PROVE AssetsInv'
  BY <1>6, ReceivedKeeps, DiesKeeps
<1>7. ASSUME NEW f \in Files, Assets!Deleted(f) PROVE AssetsInv'
  <2>1. Assets!TypeOK'
    BY <1>7, CopiesConstants DEF Assets!Deleted, Assets!TypeOK, Assets!Paths
  <2>2. AssetsHold'
    BY <1>7 DEF Assets!Deleted, Assets!TypeOK, AssetsHold, Shows, Shown, Assets!Paths, Assets!Contents
  <2> QED BY <2>1, <2>2
<1> QED BY <1>1, <1>2, <1>3, <1>4, <1>5, <1>6, <1>7 DEF Assets!Next

LEMMA AssetsSay == AssetsInv => Assets!TypeOK /\ Assets!PackIsWhole /\ Assets!CapIsKept
<1> SUFFICES ASSUME AssetsInv PROVE Assets!TypeOK /\ Assets!PackIsWhole /\ Assets!CapIsKept
  OBVIOUS
<1>1. Assets!PackIsWhole
  BY DEF AssetsInv, AssetsHold, Assets!PackIsWhole, Shows, Shown
<1>2. Assets!CapIsKept
  <2>1. Assets!Cardinality(listed) = Cardinality(listed)
    BY DEF Assets!Cardinality, Cardinality
  <2> QED BY <2>1 DEF AssetsInv, AssetsHold, Assets!CapIsKept
<1> QED BY <1>1, <1>2 DEF AssetsInv

-----------------------------------------------------------------------------
(* The copies side by side *)

\* A step of the run is a step of each part, or leaves it as it is.
LEMMA PartsStep ==
  ASSUME [RunNext]_allVars
  PROVE  [Next]_vars /\ [Assets!Next]_assetVars /\ [Mirrors!Next]_mirrorVars
BY DEF RunNext, allVars

LEMMA MirrorsStart == Mirrors!Init => Mirrors!Replicated
<1> SUFFICES ASSUME Mirrors!Init PROVE Mirrors!Replicated
  OBVIOUS
<1>1. Mirrors!TypeOK
  BY Mirrors!InitTypes, CopiesConstants
<1>2. Mirrors!Books /\ Mirrors!Lanes
  BY Mirrors!InitHeld, CopiesConstants
<1> QED BY <1>1, <1>2 DEF Mirrors!Replicated

LEMMA MirrorsKeep ==
  ASSUME Mirrors!Replicated, [Mirrors!Next]_mirrorVars
  PROVE  Mirrors!Replicated'
<1>1. [Mirrors!Next]_(Mirrors!vars)
  BY DEF Mirrors!vars, Mirrors!serverVars, mirrorVars
<1>2. /\ Mirrors!TypeOK /\ Mirrors!Books /\ Mirrors!Lanes /\ Mirrors!ReplicationAssumption
  BY CopiesConstants DEF Mirrors!Replicated
<1>3. Mirrors!TypeOK'
  BY <1>1, <1>2, Mirrors!StepTypes
<1>4. Mirrors!Books' /\ Mirrors!Lanes'
  BY <1>1, <1>2, Mirrors!StepHeld
<1> QED BY <1>3, <1>4 DEF Mirrors!Replicated

\* Who has joined has the files of the server's pack, each with its own contents, whatever was
\* interrupted, evicted or deleted before, unless a file was listed before it was on the disk
\* (commit_file); and the cache keeps within its limit (ClientAssetCache::compute_missing,
\* ingest_chunk, evict_until_fits).
THEOREM PackStaysWhole == RunSpec => []PackIsWhole
<1>1. RunInit => AssetsInv
  BY AssetsStart DEF RunInit
<1>2. AssetsInv /\ [RunNext]_allVars => AssetsInv'
  BY PartsStep, AssetsKeep
<1>3. AssetsInv => PackIsWhole
  BY AssetsSay DEF PackIsWhole
<1> QED BY <1>1, <1>2, <1>3, PTL DEF RunSpec

\* The mirrors of WorldReplication, as the run has them: the books are true and no mirror is torn,
\* but for the chunks an edit has overtaken (WorldReplicator, ClientChunkStore).
THEOREM MirrorsStayTrue == RunSpec => []MirrorsAreTrue
<1>1. RunInit => Mirrors!Replicated
  BY MirrorsStart DEF RunInit
<1>2. Mirrors!Replicated /\ [RunNext]_allVars => Mirrors!Replicated'
  BY PartsStep, MirrorsKeep
<1>3. Mirrors!Replicated => MirrorsAreTrue
  BY Mirrors!HeldIsTrue, CopiesConstants DEF Mirrors!Replicated, MirrorsAreTrue
<1> QED BY <1>1, <1>2, <1>3, PTL DEF RunSpec

\* All the variables of the copies are well typed.
THEOREM TypesAreRight == RunSpec => []TypesOK
<1>1. RunInit => IInv /\ AssetsInv /\ Mirrors!Replicated
  BY InitInv, AssetsStart, MirrorsStart DEF RunInit
<1>2. IInv /\ AssetsInv /\ Mirrors!Replicated /\ [RunNext]_allVars
        => (IInv /\ AssetsInv /\ Mirrors!Replicated)'
  BY PartsStep, StepInv, AssetsKeep, MirrorsKeep
<1>3. IInv /\ AssetsInv /\ Mirrors!Replicated => TypesOK
  BY AssetsSay DEF IInv, Mirrors!Replicated, TypesOK
<1> QED BY <1>1, <1>2, <1>3, PTL DEF RunSpec
=============================================================================
