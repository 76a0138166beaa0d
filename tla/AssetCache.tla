------------------------------ MODULE AssetCache ------------------------------
(***************************************************************************)
(* ClientAssetCache over many connections: the files of content packs on   *)
(* disk, the index of them, and the virtual file system of the pack that   *)
(* is being synchronised.  The server (handshake.cpp) sends a manifest and *)
(* then the files asked for; it may get another pack at any time.  Files   *)
(* are known by the hash of their contents; all of them are of one size.   *)
(* The reconnect fast path is left out: no host of the client remembers a  *)
(* manifest hash.                                                          *)
(***************************************************************************)
EXTENDS Naturals, FiniteSets

CONSTANTS
  Files,      \* hashes
  Packs,      \* the packs of the server: functions from a set of paths to Files
  Cap,        \* files that fit in the cache
  None,
  MaxChanges  \* bound: packs the server gets, and faults

VARIABLES
  disk,      \* of each file of the cache: "absent", "torn" (a part of it) or "whole"
  saved,     \* index.bin
  index,     \* index_, in memory
  manifest,  \* the pack whose manifest came last, or None
  pending,   \* the files asked for that have not come
  vfs,       \* the contents under each path, or None
  conn,      \* "off", "syncing", "joined"
  served,    \* the server's pack
  harmed,    \* history: the files listed though a part of them is all that got to the disk
  changes

vars == <<disk, saved, index, manifest, pending, vfs, conn, served, harmed, changes>>

Paths == UNION {DOMAIN p : p \in Packs}
Contents(f, how) == [file |-> f, how |-> how]

Init ==
  /\ disk = [f \in Files |-> "absent"]
  /\ saved = {} /\ index = {} /\ pending = {}
  /\ manifest = None /\ conn = "off"
  /\ vfs = [p \in Paths |-> None]
  /\ served \in Packs
  /\ harmed = {}
  /\ changes = 0

-----------------------------------------------------------------------------
(* The cache *)

\* (mutant) believes the index
Missing_listed(f) == f \notin index

\* A file the index lists may be gone from the disk all the same.
Missing(f) == f \notin index \/ disk[f] = "absent"

\* compute_missing(): what is here is read at once, the rest is asked for.
Connect ==
  /\ conn = "off"
  /\ manifest' = served
  /\ LET wanted == {served[p] : p \in DOMAIN served}
         missing == {f \in wanted : Missing(f)}
     IN /\ pending' = missing
        /\ index' = index \ missing
        /\ saved' = index'
        /\ vfs' = [p \in Paths |->
             IF p \in DOMAIN served /\ served[p] \notin missing
             THEN Contents(served[p], disk[served[p]]) ELSE None]
        /\ conn' = IF missing = {} THEN "joined" ELSE "syncing"
  /\ UNCHANGED <<disk, served, harmed, changes>>

\* (mutant) goes by what the files before it left free
Evictions_full(f) == {e \in SUBSET index : Cardinality(index \ e) <= Cap}

\* evict_until_fits(): entries go, the oldest first, until one more fits.  They are dated in
\* seconds, so which of several is the oldest is open.
Evictions(f) ==
  {e \in SUBSET index :
     /\ Cardinality(index \ e) < Cap
     /\ \A x \in e : Cardinality(index \ e) + 1 >= Cap}

\* ingest_chunk() of the last chunk of a file that is as hashed, in the virtual file system
\* under every path that has it.  How much of it gets to the disk is not looked at: that may be
\* full.
Received(f) ==
  /\ conn = "syncing" /\ f \in pending
  /\ \E p \in DOMAIN served : served[p] = f
  /\ \E e \in Evictions(f), how \in {"whole", "torn"} :
       /\ index' = (index \ e) \cup {f}
       /\ saved' = index'
       /\ harmed' = IF how = "torn" THEN harmed \cup {f} ELSE harmed \ {f}
       /\ disk' = [d \in Files |-> IF d = f THEN how ELSE IF d \in e THEN "absent" ELSE disk[d]]
  /\ vfs' = [p \in Paths |-> IF p \in DOMAIN manifest /\ manifest[p] = f
                             THEN Contents(f, "whole") ELSE vfs[p]]
  /\ pending' = pending \ {f}
  /\ conn' = IF pending' = {} THEN "joined" ELSE "syncing"
  /\ UNCHANGED <<manifest, served, changes>>

\* The client's process ends; the next one reads the index.
Restarted ==
  /\ conn' = "off" /\ pending' = {} /\ manifest' = None
  /\ vfs' = [p \in Paths |-> None]
  /\ index' = saved'

Exit ==
  /\ conn # "syncing"
  /\ UNCHANGED <<disk, saved, served, harmed, changes>>
  /\ Restarted

\* It dies while it commits a file: entries have been evicted, the file is opened, and the
\* index may have been saved by then, which is before the contents are out.
Dies(f) ==
  /\ conn = "syncing" /\ f \in pending /\ changes < MaxChanges
  /\ changes' = changes + 1
  /\ \E e \in Evictions(f), how \in {disk[f], "torn"} :
       /\ disk' = [d \in Files |-> IF d = f THEN how ELSE IF d \in e THEN "absent" ELSE disk[d]]
       /\ \/ UNCHANGED <<saved, harmed>>
          \/ how = "torn" /\ saved' = (index \ e) \cup {f} /\ harmed' = harmed \cup {f}
  /\ Restarted
  /\ UNCHANGED served

\* The user leaves, or the connection breaks, or the server no longer has what was asked for.
Disconnect ==
  /\ conn # "off"
  /\ conn' = "off"
  /\ UNCHANGED <<disk, saved, index, manifest, pending, vfs, served, harmed, changes>>

-----------------------------------------------------------------------------
(* Around it *)

PackChanges ==
  /\ changes < MaxChanges
  /\ served' \in Packs \ {served}
  /\ changes' = changes + 1
  /\ UNCHANGED <<disk, saved, index, manifest, pending, vfs, conn, harmed>>

\* A file of the cache is removed by hand.
Deleted(f) ==
  /\ changes < MaxChanges
  /\ disk[f] # "absent"
  /\ disk' = [disk EXCEPT ![f] = "absent"]
  /\ changes' = changes + 1
  /\ UNCHANGED <<saved, index, manifest, pending, vfs, conn, served, harmed>>

Next ==
  \/ Connect \/ Exit \/ Disconnect \/ PackChanges
  \/ \E f \in Files : Received(f) \/ Dies(f) \/ Deleted(f)

Spec == Init /\ [][Next]_vars

-----------------------------------------------------------------------------
TypeOK ==
  /\ disk \in [Files -> {"absent", "torn", "whole"}]
  /\ index \subseteq Files /\ saved \subseteq Files
  /\ manifest \in Packs \cup {None}
  /\ pending \subseteq Files
  /\ vfs \in [Paths -> {None} \cup [file : Files, how : {"torn", "whole"}]]
  /\ conn \in {"off", "syncing", "joined"}
  /\ served \in Packs /\ harmed \subseteq Files
  /\ changes \in 0 .. MaxChanges

\* Whoever has joined has exactly the files of the manifest, each with its own contents, from
\* whichever connections, processes and packs they are; of a file that was listed before its
\* contents were on the disk, and not fetched again, it may be the part that got there.
PackIsWhole ==
  conn = "joined" =>
    \A p \in Paths :
      IF p \in DOMAIN manifest
      THEN \E how \in {"whole", "torn"} :
             vfs[p] = Contents(manifest[p], how) /\ (how = "torn" => manifest[p] \in harmed)
      ELSE vfs[p] = None

\* The listed files fit in the cache.
CapIsKept == Cardinality(saved) <= Cap
=============================================================================
