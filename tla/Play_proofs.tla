---------------------- MODULE Play_proofs ----------------------
(* Theorems about what players and builders make.  About the structure editor, *)
(* for documents of any size, any number of variants and any number of edits:  *)
(* values have their types, undo and redo are exact, and the saved point,      *)
(* while it is valid, stands for the document that was saved.  About the       *)
(* blocks and cracks a player sees, for chunks of any size and any number of   *)
(* edits, punches and revisions: what is shown is what was last told.  About   *)
(* joins and leaves: the scripts know the logins of the players that are there. *)
(* About items: for any players, stacks and drops, none is doubled or lost.     *)
EXTENDS MCPlay, SequenceTheorems, FiniteSetTheorems, NaturalsInduction, TLAPS

(* The documents whose variants have n cells.                                 *)
Rows(n) == [0..(n - 1) -> Cells]
Docs(n) == {d \in [variants : Seq(Rows(n)), anchor : 0..(n - 1), placement : BOOLEAN] :
              Len(d.variants) \in 1..MaxVariants}
Good(d) == \E n \in 1..MaxSize : d \in Docs(n)

(* A sequence, of whatever elements.                                          *)
IsSeq(s) == s \in Seq({s[i] : i \in DOMAIN s})

(* The commands and the documents along them: every document is a good one,   *)
(* and the applied commands lead to the document shown.                       *)
TrailInv ==
  /\ IsSeq(commands) /\ IsSeq(trail) /\ next \in 0..Len(commands)
  /\ \A i \in DOMAIN trail : Good(trail[i])
  /\ UndoIsExact
  /\ file \notin {None, Torn} => Good(file)

(* What is shown, selected and copied.                                        *)
ShownInv ==
  /\ variant \in 1..Len(doc.variants)
  /\ selection = None \/ (selection \in Boxes /\ selection[2] < DocSize(doc))
  /\ IsSeq(clipboard) /\ \A i \in DOMAIN clipboard : clipboard[i] \in Cells

(* What is counted and asked.                                                 *)
CountInv ==
  /\ Len(commands) <= pushes /\ pushes \in 0..MaxPushes
  /\ saved \in 0..MaxPushes /\ savedValid \in BOOLEAN
  /\ dialog \in {None, "open", "new", "quit"} /\ quit \in BOOLEAN

(* The saved point, while valid, is a point of the history, and the document  *)
(* there is the one that was marked as saved: a document that counts as clean *)
(* for its sake is that one.                                                  *)
SavedPointIsKept == savedValid => saved + 1 \in DOMAIN trail /\ trail[saved + 1] = kept

IInv == TrailInv /\ ShownInv /\ CountInv /\ SavedPointIsKept
-----------------------------------------------------------------------------
\* Sequences and volumes.

\* Dropping what follows position n and appending e: the head stays (UndoStack::push).
LEMMA CutAppend ==
  ASSUME NEW s, IsSeq(s), NEW n \in 0..Len(s), NEW e
  PROVE  LET t == Append(SubSeq(s, 1, n), e)
         IN /\ IsSeq(t) /\ Len(t) = n + 1 /\ DOMAIN t = 1..(n + 1)
            /\ \A i \in 1..n : t[i] = s[i]
            /\ t[n + 1] = e
  <1> DEFINE S == {s[i] : i \in DOMAIN s} \union {e}
             u == SubSeq(s, 1, n)
             t == Append(u, e)
  <1>1. s \in Seq(S)
    BY DEF IsSeq
  <1>2. /\ u \in Seq(S) /\ Len(u) = n /\ \A i \in 1..n : u[i] = s[i]
    BY <1>1
  <1>3. /\ t \in Seq(S) /\ Len(t) = n + 1 /\ t[n + 1] = e /\ \A i \in 1..n : t[i] = u[i]
    BY <1>2
  <1>4. DOMAIN t = 1..(n + 1)
    BY <1>3
  <1>5. IsSeq(t)
    <2>1. \A i \in 1..Len(t) : t[i] \in {t[j] : j \in DOMAIN t}
      BY <1>3, <1>4
    <2> HIDE DEF t
    <2> QED BY <2>1, <1>3 DEF IsSeq
  <1> QED BY <1>2, <1>3, <1>4, <1>5

LEMMA EmptyAndOne ==
  ASSUME NEW e
  PROVE  /\ IsSeq(<<>>) /\ Len(<<>>) = 0 /\ DOMAIN <<>> = {}
         /\ IsSeq(<<e>>) /\ Len(<<e>>) = 1 /\ DOMAIN <<e>> = {1} /\ <<e>>[1] = e
  BY DEF IsSeq

\* A document's size is the number of cells in each of its variants.
LEMMA SizeOfDoc ==
  ASSUME NEW n \in Nat \ {0}, NEW d \in Docs(n)
  PROVE  /\ DocSize(d) = n
         /\ \A v \in 1..Len(d.variants) :
              d.variants[v] \in Rows(n) /\ DOMAIN d.variants[v] = 0..(n - 1) /\
              Size(d.variants[v]) = n
  <1>1. Cardinality(0..(n - 1)) = n
    BY FS_Interval
  <1>2. \A v \in 1..Len(d.variants) : d.variants[v] \in Rows(n)
    BY DEF Docs
  <1>3. 1 \in 1..Len(d.variants)
    BY DEF Docs
  <1> QED BY <1>1, <1>2, <1>3 DEF Rows, DocSize, Size

LEMMA DocShape ==
  ASSUME NEW n, NEW d \in Docs(n)
  PROVE  /\ d = [variants |-> d.variants, anchor |-> d.anchor, placement |-> d.placement]
         /\ d.variants \in Seq(Rows(n)) /\ Len(d.variants) \in 1..MaxVariants
         /\ d.anchor \in 0..(n - 1) /\ d.placement \in BOOLEAN
  BY DEF Docs

-----------------------------------------------------------------------------
\* The commands: what each makes of a document, and that reverting it gives the document back.

LEMMA NestedExcept ==
  ASSUME NEW d, NEW v, NEW x
  PROVE  [d EXCEPT !.variants[v] = x] = [d EXCEPT !.variants = [d.variants EXCEPT ![v] = x]]
  OBVIOUS

LEMMA TwoExcepts ==
  ASSUME NEW d, NEW x, NEW y
  PROVE  [d EXCEPT !.variants = x, !.anchor = y] = [[d EXCEPT !.variants = x] EXCEPT !.anchor = y]
  OBVIOUS

\* What a cell command makes of one variant, and Put as a change of the variants' sequence.
CellsPut(row, what) == [p \in DOMAIN row |-> IF p \in DOMAIN what THEN what[p] ELSE row[p]]

WithVariant(d, v, row) == [d EXCEPT !.variants = [d.variants EXCEPT ![v] = row]]

LEMMA PutCells ==
  ASSUME NEW d, NEW c, c.kind = "cells", NEW what
  PROVE  Put(d, c, what) =
         WithVariant(d, c.v, CellsPut(d.variants[c.v], what))
  <1>1. Put(d, c, what) = [d EXCEPT !.variants[c.v] = CellsPut(d.variants[c.v], what)]
    BY DEF Put, CellsPut
  <1> QED BY <1>1, NestedExcept DEF WithVariant

\* Command c is CellEdits of the cells in which the volume vol differs from old.
Changes(c, n, old, vol) ==
  LET changed == {q \in 0..(n - 1) : vol[q] # old[q]}
  IN /\ c.kind = "cells" /\ DOMAIN c.before = changed /\ DOMAIN c.after = changed
     /\ \A p \in changed : c.after[p] = vol[p] /\ c.before[p] = old[p]

\* Applying it makes vol of old, and reverting it old of vol.
LEMMA CellsExact ==
  ASSUME NEW n \in Nat \ {0}, NEW d \in Docs(n), NEW c, c.v \in 1..Len(d.variants),
         NEW vol \in Rows(n), Changes(c, n, d.variants[c.v], vol)
  PROVE  /\ Apply(d, c) \in Docs(n) /\ Len(Apply(d, c).variants) = Len(d.variants)
         /\ Revert(Apply(d, c), c) = d
  <1> DEFINE old == d.variants[c.v]
             w == [d.variants EXCEPT ![c.v] = vol]
             e == [variants |-> w, anchor |-> d.anchor, placement |-> d.placement]
  <1>1. /\ d.variants \in Seq(Rows(n)) /\ old \in [0..(n - 1) -> Cells]
        /\ DOMAIN d.variants = 1..Len(d.variants)
    BY SizeOfDoc DEF Docs, Rows
  <1>2. vol \in [0..(n - 1) -> Cells] /\ Changes(c, n, old, vol)
    BY DEF Rows
  <1>3. /\ c.kind = "cells" /\ old \in [0..(n - 1) -> Cells]
        /\ CellsPut(old, c.after) = vol /\ CellsPut(vol, c.before) = old
    <2>1. old \in [0..(n - 1) -> Cells]
      BY <1>1
    <2> HIDE DEF old
    <2>2. CellsPut(old, c.after) = vol
      BY <1>2, <2>1 DEF CellsPut, Changes
    <2>3. CellsPut(vol, c.before) = old
      BY <1>2, <2>1 DEF CellsPut, Changes
    <2> QED BY <1>2, <2>1, <2>2, <2>3 DEF Changes
  <1>4. /\ w \in Seq(Rows(n)) /\ Len(w) = Len(d.variants) /\ w[c.v] = vol
        /\ [w EXCEPT ![c.v] = old] = d.variants
    BY <1>1
  <1>5. Apply(d, c) = e
    <2>1. Apply(d, c) = WithVariant(d, c.v, vol)
      BY <1>3, PutCells DEF Apply
    <2>2. WithVariant(d, c.v, vol) = [d EXCEPT !.variants = w]
      BY DEF WithVariant
    <2> HIDE DEF w
    <2> QED BY <2>1, <2>2, DocShape
  <1>6. e.variants = w /\ e \in Docs(n)
    BY <1>4, DocShape DEF Docs
  <1>7. Revert(e, c) = [e EXCEPT !.variants = [w EXCEPT ![c.v] = old]]
    <2> HIDE DEF e
    <2>1. Revert(e, c) = WithVariant(e, c.v, CellsPut(w[c.v], c.before))
      BY <1>3, <1>6, PutCells DEF Revert
    <2>2. CellsPut(w[c.v], c.before) = old
      BY <1>3, <1>4
    <2> QED BY <2>1, <2>2, <1>6 DEF WithVariant
  <1>8. [e EXCEPT !.variants = d.variants] = d
    BY DocShape
  <1> QED BY <1>4, <1>5, <1>6, <1>7, <1>8

LEMMA VolumesExact ==
  ASSUME NEW n \in Nat \ {0}, NEW m \in Nat \ {0}, NEW d \in Docs(n),
         NEW vols \in Seq(Rows(m)), Len(vols) = Len(d.variants), NEW a \in 0..(m - 1), NEW c,
         c.kind = "volumes", c.before = <<d.variants, d.anchor>>, c.after = <<vols, a>>
  PROVE  /\ Apply(d, c) \in Docs(m) /\ Len(Apply(d, c).variants) = Len(d.variants)
         /\ Revert(Apply(d, c), c) = d
  <1> DEFINE e == [variants |-> vols, anchor |-> a, placement |-> d.placement]
  <1>1. Apply(d, c) = [d EXCEPT !.variants = vols, !.anchor = a]
    BY DEF Apply, Put
  <1>2. [d EXCEPT !.variants = vols, !.anchor = a] =
        [[d EXCEPT !.variants = vols] EXCEPT !.anchor = a]
    BY TwoExcepts
  <1>3. Apply(d, c) = e
    <2>1. [d EXCEPT !.variants = vols] =
          [variants |-> vols, anchor |-> d.anchor, placement |-> d.placement]
      BY DocShape
    <2> QED BY <1>1, <1>2, <2>1
  <1>4. Revert(e, c) = [e EXCEPT !.variants = d.variants, !.anchor = d.anchor]
    BY DEF Revert, Put
  <1>5. [e EXCEPT !.variants = d.variants, !.anchor = d.anchor] =
        [[e EXCEPT !.variants = d.variants] EXCEPT !.anchor = d.anchor]
    <2> HIDE DEF e
    <2> QED BY TwoExcepts
  <1>6. Revert(e, c) = d
    <2>1. [e EXCEPT !.variants = d.variants] =
          [variants |-> d.variants, anchor |-> a, placement |-> d.placement]
      OBVIOUS
    <2>2. \A f : f = [variants |-> d.variants, anchor |-> a, placement |-> d.placement] =>
                   [f EXCEPT !.anchor = d.anchor] = d
      BY DocShape
    <2>3. [[e EXCEPT !.variants = d.variants] EXCEPT !.anchor = d.anchor] = d
      <3> HIDE DEF e
      <3> QED BY <2>1, <2>2
    <2> QED BY <1>4, <1>5, <2>3, Zenon
  <1>7. e \in Docs(m) /\ Len(e.variants) = Len(d.variants)
    BY DocShape DEF Docs
  <1> QED BY <1>3, <1>6, <1>7

LEMMA VariantsExact ==
  ASSUME NEW n \in Nat \ {0}, NEW d \in Docs(n), NEW vols \in Seq(Rows(n)),
         Len(vols) \in 1..MaxVariants, NEW c,
         c.kind = "variants", c.before = d.variants, c.after = vols
  PROVE  /\ Apply(d, c) \in Docs(n) /\ Apply(d, c).variants = vols
         /\ Revert(Apply(d, c), c) = d
  <1>1. Apply(d, c) = [variants |-> vols, anchor |-> d.anchor, placement |-> d.placement]
    BY DocShape DEF Apply, Put
  <1>2. Revert(Apply(d, c), c) = [Apply(d, c) EXCEPT !.variants = d.variants]
    BY DEF Revert, Put
  <1>3. Revert(Apply(d, c), c) = d
    BY <1>1, <1>2, DocShape
  <1> QED BY <1>1, <1>3 DEF Docs

LEMMA PlacementExact ==
  ASSUME NEW n \in Nat \ {0}, NEW d \in Docs(n), NEW p \in BOOLEAN, NEW c,
         c.kind = "placement", c.before = d.placement, c.after = p
  PROVE  /\ Apply(d, c) \in Docs(n) /\ Apply(d, c).variants = d.variants
         /\ Revert(Apply(d, c), c) = d
  <1>1. Apply(d, c) = [variants |-> d.variants, anchor |-> d.anchor, placement |-> p]
    BY DocShape DEF Apply, Put
  <1>2. Revert(Apply(d, c), c) = [Apply(d, c) EXCEPT !.placement = d.placement]
    BY DEF Revert, Put
  <1>3. Revert(Apply(d, c), c) = d
    BY <1>1, <1>2, DocShape
  <1> QED BY <1>1, <1>3 DEF Docs

-----------------------------------------------------------------------------
\* The steps of an edit.

LEMMA DocIsGood ==
  ASSUME IInv
  PROVE  Good(doc) /\ DOMAIN trail = 1..(Len(commands) + 1) /\ DOMAIN commands = 1..Len(commands)
  BY DEF IInv, TrailInv, UndoIsExact, IsSeq

LEMMA VolumeIs ==
  ASSUME NEW n \in Nat \ {0}, doc \in Docs(n), ShownInv
  PROVE  Volume \in Rows(n) /\ DOMAIN Volume = 0..(n - 1)
  BY SizeOfDoc DEF Volume, ShownInv

\* UndoStack::push, of a command whose revert gives the document back.
LEMMA PushKeeps ==
  ASSUME IInv, NEW c, Push(c), Good(doc'), Revert(doc', c) = doc
  PROVE  TrailInv' /\ CountInv' /\ SavedPointIsKept'
  <1>1. /\ IsSeq(commands) /\ IsSeq(trail) /\ next \in 0..Len(commands)
        /\ Len(trail) = Len(commands) + 1 /\ doc = trail[next + 1]
        /\ DOMAIN trail = 1..(Len(commands) + 1) /\ DOMAIN commands = 1..Len(commands)
    BY DocIsGood DEF IInv, TrailInv, UndoIsExact
  <1>2. Len(commands) \in Nat
    BY <1>1 DEF IsSeq
  <1>3. /\ IsSeq(commands') /\ Len(commands') = next + 1 /\ DOMAIN commands' = 1..(next + 1)
        /\ \A i \in 1..next : commands'[i] = commands[i]
        /\ commands'[next + 1] = c
    <2>1. commands' = Append(SubSeq(commands, 1, next), c)
      BY DEF Push
    <2> QED BY <1>1, <2>1, CutAppend
  <1>4. /\ IsSeq(trail') /\ Len(trail') = next + 2 /\ DOMAIN trail' = 1..(next + 2)
        /\ \A i \in 1..(next + 1) : trail'[i] = trail[i]
        /\ trail'[next + 2] = doc'
    <2>1. next + 1 \in 0..Len(trail)
      BY <1>1, <1>2
    <2> QED BY <1>1, <1>2, <2>1, CutAppend DEF Push
  <1>5. next' = next + 1 /\ next \in Nat /\ next' \in 0..Len(commands')
    BY <1>1, <1>2, <1>3 DEF Push
  <1>6. \A i \in DOMAIN trail' : Good(trail'[i])
    BY <1>1, <1>2, <1>4, <1>5 DEF IInv, TrailInv
  <1>7. UndoIsExact'
    <2>1. doc' = trail'[next' + 1] /\ Len(trail') = Len(commands') + 1
      BY <1>3, <1>4, <1>5
    <2>2. ASSUME NEW i \in DOMAIN commands'
          PROVE  /\ Apply(trail'[i], commands'[i]) = trail'[i + 1]
                 /\ Revert(trail'[i + 1], commands'[i]) = trail'[i]
      <3>1. CASE i = next + 1
        <4>1. trail'[i] = doc /\ trail'[i + 1] = doc' /\ commands'[i] = c
          BY <1>1, <1>3, <1>4, <1>5, <3>1
        <4> QED BY <4>1 DEF Push
      <3>2. CASE i \in 1..next
        <4>1. /\ trail'[i] = trail[i] /\ trail'[i + 1] = trail[i + 1]
              /\ commands'[i] = commands[i] /\ i \in DOMAIN commands
          BY <1>1, <1>2, <1>3, <1>4, <1>5, <3>2
        <4> QED BY <4>1 DEF IInv, TrailInv, UndoIsExact
      <3> QED BY <1>3, <1>5, <3>1, <3>2
    <2> QED BY <2>1, <2>2 DEF UndoIsExact
  <1>8. TrailInv'
    BY <1>3, <1>4, <1>5, <1>6, <1>7 DEF TrailInv, Push, IInv
  <1>9. CountInv'
    BY <1>1, <1>2, <1>3, <1>5, EditorAssumption DEF CountInv, Push, IInv
  <1>10. SavedPointIsKept'
    <2>1. saved \in Nat
      BY EditorAssumption DEF IInv, CountInv
    <2>2. ASSUME savedValid'
          PROVE  saved' + 1 \in DOMAIN trail' /\ trail'[saved' + 1] = kept'
      <3>1. savedValid /\ saved <= next /\ saved' = saved /\ kept' = kept
        BY <2>2 DEF Push
      <3>2. trail[saved + 1] = kept
        BY <3>1 DEF IInv, SavedPointIsKept
      <3> QED BY <1>4, <1>5, <2>1, <3>1, <3>2
    <2> QED BY <2>2 DEF SavedPointIsKept
  <1> QED BY <1>8, <1>9, <1>10

LEMMA SameShape ==
  ASSUME NEW n \in Nat \ {0}, ShownInv, doc \in Docs(n), doc' \in Docs(n),
         Len(doc'.variants) = Len(doc.variants), UNCHANGED <<variant, selection, clipboard>>
  PROVE  ShownInv'
  <1>1. DocSize(doc) = n /\ DocSize(doc)' = n
    BY SizeOfDoc
  <1> QED BY <1>1 DEF ShownInv

\* An edit of the cells of the variant shown: it becomes vol.
LEMMA PushCellsKeeps ==
  ASSUME IInv, NEW n \in 1..MaxSize, doc \in Docs(n), NEW vol \in Rows(n),
         PushCells(vol)
  PROVE  /\ TrailInv' /\ CountInv' /\ SavedPointIsKept'
         /\ doc' \in Docs(n) /\ Len(doc'.variants) = Len(doc.variants)
  <1> DEFINE c == CellEdits(vol)
  <1>1. n \in Nat \ {0} /\ Volume \in Rows(n) /\ DOMAIN Volume = 0..(n - 1)
    BY VolumeIs, EditorAssumption DEF IInv
  <1>2. /\ c.kind = "cells" /\ c.v = variant /\ variant \in 1..Len(doc.variants)
        /\ Changes(c, n, Volume, vol)
    BY <1>1 DEF CellEdits, IInv, ShownInv, Changes
  <1>3. Push(c) /\ doc' = Apply(doc, c)
    BY DEF PushCells, Push
  <1> HIDE DEF c
  <1>4. /\ doc' \in Docs(n) /\ Len(doc'.variants) = Len(doc.variants) /\ Revert(doc', c) = doc
    <2>1. Volume = doc.variants[c.v] /\ c.v \in 1..Len(doc.variants)
      BY <1>2 DEF Volume
    <2>2. /\ Apply(doc, c) \in Docs(n) /\ Len(Apply(doc, c).variants) = Len(doc.variants)
          /\ Revert(Apply(doc, c), c) = doc
      <3>1. Changes(c, n, doc.variants[c.v], vol)
        BY <1>2, <2>1
      <3> QED BY <1>1, <2>1, <3>1, CellsExact
    <2> QED BY <1>3, <2>2
  <1>5. Good(doc')
    BY <1>4 DEF Good
  <1> QED BY <1>3, <1>4, <1>5, PushKeeps

\* An edit of the list of variants.
LEMMA PushVariantsKeeps ==
  ASSUME IInv, NEW n \in 1..MaxSize, doc \in Docs(n),
         NEW vols \in Seq(Rows(n)), Len(vols) \in 1..MaxVariants,
         NEW shown \in 1..Len(vols), PushVariants(vols, shown)
  PROVE  IInv'
  <1> DEFINE c == VariantsReplace(vols)
  <1>1. n \in Nat \ {0}
    BY EditorAssumption
  <1>2. c.kind = "variants" /\ c.before = doc.variants /\ c.after = vols
    BY DEF VariantsReplace
  <1>3. Push(c) /\ doc' = Apply(doc, c)
    BY DEF PushVariants, Push
  <1> HIDE DEF c
  <1>4. doc' \in Docs(n) /\ doc'.variants = vols /\ Revert(doc', c) = doc
    BY <1>1, <1>2, <1>3, VariantsExact
  <1>5. TrailInv' /\ CountInv' /\ SavedPointIsKept'
    BY <1>3, <1>4, PushKeeps DEF Good
  <1>6. ShownInv'
    BY <1>4 DEF PushVariants, ShownInv, IInv
  <1> QED BY <1>5, <1>6 DEF IInv

\* EditSession::undo and redo: to the document at another point of the history.
LEMMA MoveKeeps ==
  ASSUME IInv, next' \in 0..Len(commands), doc' = trail[next' + 1],
         Clamped(doc')
  PROVE  IInv'
  <1>1. Good(doc')
    <2>1. next' + 1 \in DOMAIN trail
      BY DocIsGood DEF IInv, TrailInv, IsSeq
    <2> QED BY <2>1 DEF IInv, TrailInv
  <1>2. PICK n \in 1..MaxSize : doc' \in Docs(n)
    BY <1>1 DEF Good
  <1>3. n \in Nat \ {0} /\ DocSize(doc)' = n /\ DocSize(doc') = n /\ Len(doc'.variants) \in 1..MaxVariants
    BY <1>2, SizeOfDoc, DocShape, EditorAssumption
  <1>4. TrailInv' /\ CountInv' /\ SavedPointIsKept'
    BY DEF IInv, TrailInv, CountInv, SavedPointIsKept, Clamped, UndoIsExact
  <1>5. variant' \in 1..Len(doc'.variants)
    <2>1. variant \in Nat \ {0}
      BY DEF IInv, ShownInv
    <2>2. Len(doc'.variants) \in Nat \ {0}
      BY <1>3, EditorAssumption
    <2> QED BY <2>1, <2>2 DEF Clamped
  <1>6. selection' = None \/ (selection' \in Boxes /\ selection'[2] < n)
    BY <1>3, EditorAssumption DEF IInv, ShownInv, Clamped, Clip, Boxes
  <1> QED BY <1>3, <1>4, <1>5, <1>6 DEF IInv, ShownInv, Clamped

-----------------------------------------------------------------------------
\* Every step keeps the invariant: the tools.

\* A tool that makes the variant shown vol, and changes nothing else.
LEMMA CellTool ==
  ASSUME IInv, NEW n \in 1..MaxSize, doc \in Docs(n), NEW vol \in Rows(n),
         PushCells(vol), UNCHANGED <<variant, selection, clipboard>>
  PROVE  IInv'
  <1>1. n \in Nat \ {0}
    BY EditorAssumption
  <1> QED BY <1>1, PushCellsKeeps, SameShape DEF IInv

\* The cells of the selection, copied.
LEMMA CopiedCells ==
  ASSUME IInv, selection # None
  PROVE  IsSeq(Copied) /\ \A i \in DOMAIN Copied : Copied[i] \in Cells
  <1>1. PICK n \in 1..MaxSize : doc \in Docs(n)
    BY DocIsGood DEF Good
  <1>2. n \in Nat \ {0} /\ Volume \in Rows(n) /\ DocSize(doc) = n
    BY <1>1, VolumeIs, SizeOfDoc, EditorAssumption DEF IInv
  <1>3. /\ selection[1] \in Nat /\ selection[2] \in Nat
        /\ selection[1] <= selection[2] /\ selection[2] < n
    BY <1>2, EditorAssumption DEF IInv, ShownInv, Boxes
  <1>4. Cardinality(Selected) = selection[2] - selection[1] + 1
    <2>1. Selected = selection[1]..selection[2]
      BY DEF Selected
    <2>2. selection[1] \in Int /\ selection[2] \in Int /\ ~(selection[1] > selection[2])
      BY <1>3
    <2>3. Cardinality(selection[1]..selection[2]) = selection[2] - selection[1] + 1
      BY <2>2, FS_Interval
    <2> QED BY <2>1, <2>3
  <1>5. /\ DOMAIN Copied = 1..Cardinality(Selected) /\ Cardinality(Selected) \in Nat
        /\ \A i \in DOMAIN Copied : Copied[i] = Volume[selection[1] + i - 1]
    BY <1>3, <1>4 DEF Copied
  <1>6. \A i \in DOMAIN Copied : Copied[i] \in Cells
    <2>1. ASSUME NEW i \in DOMAIN Copied
          PROVE  selection[1] + i - 1 \in 0..(n - 1)
      BY <1>2, <1>3, <1>4, <1>5
    <2> QED BY <1>2, <1>5, <2>1 DEF Rows
  <1>7. Copied \in Seq({Copied[i] : i \in DOMAIN Copied})
    BY <1>5 DEF Copied
  <1> QED BY <1>6, <1>7 DEF IsSeq

LEMMA FillStep == ASSUME IInv, Fill PROVE IInv'
  <1>1. PICK n \in 1..MaxSize : doc \in Docs(n)
    BY DocIsGood DEF Good
  <1>2. Volume \in Rows(n) /\ DOMAIN Volume = 0..(n - 1)
    BY <1>1, VolumeIs, EditorAssumption DEF IInv
  <1>3. PICK box \in Boxes, value \in Cells, sym \in BOOLEAN :
          PushCells([p \in DOMAIN Volume |->
                       IF p \in InBounds(Mirrored(box[1]..box[2], sym)) THEN value
                       ELSE Volume[p]])
    BY DEF Fill
  <1>4. [p \in DOMAIN Volume |->
           IF p \in InBounds(Mirrored(box[1]..box[2], sym)) THEN value ELSE Volume[p]] \in Rows(n)
    BY <1>2 DEF Rows
  <1> QED BY <1>1, <1>3, <1>4, CellTool DEF Fill

LEMMA PaintStep == ASSUME IInv, Paint PROVE IInv'
  <1>1. PICK n \in 1..MaxSize : doc \in Docs(n)
    BY DocIsGood DEF Good
  <1>2. Volume \in Rows(n) /\ DOMAIN Volume = 0..(n - 1)
    BY <1>1, VolumeIs, EditorAssumption DEF IInv
  <1>3. PICK c \in DOMAIN Volume, value \in Cells, sym \in BOOLEAN :
          PushCells([p \in DOMAIN Volume |->
                       IF p \in Mirrored({c}, sym) /\ Volume[p] # Keep THEN value ELSE Volume[p]])
    BY DEF Paint
  <1>4. [p \in DOMAIN Volume |->
           IF p \in Mirrored({c}, sym) /\ Volume[p] # Keep THEN value ELSE Volume[p]] \in Rows(n)
    BY <1>2 DEF Rows
  <1> QED BY <1>1, <1>3, <1>4, CellTool DEF Paint

LEMMA FloodStep == ASSUME IInv, Flood PROVE IInv'
  <1>1. PICK n \in 1..MaxSize : doc \in Docs(n)
    BY DocIsGood DEF Good
  <1>2. Volume \in Rows(n) /\ DOMAIN Volume = 0..(n - 1)
    BY <1>1, VolumeIs, EditorAssumption DEF IInv
  <1>3. PICK c \in DOMAIN Volume, value \in Cells, sym \in BOOLEAN :
          PushCells([p \in DOMAIN Volume |->
            IF p \in Mirrored(UNION {Region(s) : s \in Mirrored({c}, sym)}, sym) THEN value
            ELSE Volume[p]])
    BY DEF Flood
  <1>4. [p \in DOMAIN Volume |->
           IF p \in Mirrored(UNION {Region(s) : s \in Mirrored({c}, sym)}, sym) THEN value
           ELSE Volume[p]] \in Rows(n)
    BY <1>2 DEF Rows
  <1> QED BY <1>1, <1>3, <1>4, CellTool DEF Flood

LEMMA GenerateStep == ASSUME IInv, Generate PROVE IInv'
  <1>1. PICK n \in 1..MaxSize : doc \in Docs(n)
    BY DocIsGood DEF Good
  <1>2. DOMAIN Volume = 0..(n - 1)
    BY <1>1, VolumeIs, EditorAssumption DEF IInv
  <1>3. PICK vol \in Rows(n) : PushCells(vol)
    BY <1>2 DEF Generate, Rows
  <1> QED BY <1>1, <1>3, CellTool DEF Generate

LEMMA SelectStep == ASSUME IInv, Select PROVE IInv'
  <1>1. PICK n \in 1..MaxSize : doc \in Docs(n)
    BY DocIsGood DEF Good
  <1>2. n \in Nat \ {0} /\ DocSize(doc) = n
    BY <1>1, SizeOfDoc, EditorAssumption
  <1>3. selection' = None \/ (selection' \in Boxes /\ selection'[2] < n)
    BY <1>2, EditorAssumption DEF Select, Clip, Boxes
  <1> QED BY <1>2, <1>3 DEF IInv, TrailInv, ShownInv, CountInv, SavedPointIsKept, UndoIsExact, Select

LEMMA CopyStep == ASSUME IInv, Copy PROVE IInv'
  <1>1. IsSeq(clipboard') /\ \A i \in DOMAIN clipboard' : clipboard'[i] \in Cells
    BY CopiedCells DEF Copy
  <1> QED BY <1>1 DEF IInv, TrailInv, ShownInv, CountInv, SavedPointIsKept, UndoIsExact, Copy

LEMMA CutStep == ASSUME IInv, Cut PROVE IInv'
  <1>1. PICK n \in 1..MaxSize : doc \in Docs(n)
    BY DocIsGood DEF Good
  <1>2. n \in Nat \ {0} /\ Volume \in Rows(n) /\ DOMAIN Volume = 0..(n - 1) /\ DocSize(doc) = n
    BY <1>1, VolumeIs, SizeOfDoc, EditorAssumption DEF IInv
  <1> DEFINE vol == [p \in DOMAIN Volume |-> IF p \in Selected THEN Keep ELSE Volume[p]]
  <1>3. vol \in Rows(n) /\ PushCells(vol)
    BY <1>2 DEF Rows, Cut, Cells
  <1> HIDE DEF vol
  <1>4. /\ TrailInv' /\ CountInv' /\ SavedPointIsKept'
        /\ doc' \in Docs(n) /\ Len(doc'.variants) = Len(doc.variants)
    BY <1>1, <1>3, PushCellsKeeps
  <1>5. DocSize(doc)' = n
    BY <1>2, <1>4, SizeOfDoc
  <1>6. IsSeq(clipboard') /\ \A i \in DOMAIN clipboard' : clipboard'[i] \in Cells
    BY CopiedCells DEF Cut
  <1>7. ShownInv'
    BY <1>2, <1>4, <1>5, <1>6 DEF ShownInv, IInv, Cut
  <1> QED BY <1>4, <1>7 DEF IInv

LEMMA PasteStep == ASSUME IInv, Paste PROVE IInv'
  <1>1. PICK n \in 1..MaxSize : doc \in Docs(n)
    BY DocIsGood DEF Good
  <1>2. Volume \in Rows(n) /\ DOMAIN Volume = 0..(n - 1)
    BY <1>1, VolumeIs, EditorAssumption DEF IInv
  <1>3. PICK spot \in DOMAIN Volume :
          PushCells([p \in DOMAIN Volume |->
                       IF p - spot + 1 \in DOMAIN clipboard /\ clipboard[p - spot + 1] # Keep
                       THEN clipboard[p - spot + 1] ELSE Volume[p]])
    BY DEF Paste
  <1>4. [p \in DOMAIN Volume |->
           IF p - spot + 1 \in DOMAIN clipboard /\ clipboard[p - spot + 1] # Keep
           THEN clipboard[p - spot + 1] ELSE Volume[p]] \in Rows(n)
    BY <1>2 DEF Rows, IInv, ShownInv
  <1> QED BY <1>1, <1>3, <1>4, CellTool DEF Paste

LEMMA MoveStep == ASSUME IInv, Move PROVE IInv'
  <1>1. PICK n \in 1..MaxSize : doc \in Docs(n)
    BY DocIsGood DEF Good
  <1>2. n \in Nat \ {0} /\ Volume \in Rows(n) /\ DOMAIN Volume = 0..(n - 1) /\ DocSize(doc) = n
    BY <1>1, VolumeIs, SizeOfDoc, EditorAssumption DEF IInv
  <1> DEFINE moved == {p \in Selected : Volume[p] # Keep}
             vol(delta) == [p \in DOMAIN Volume |->
                              IF p - delta \in moved THEN Volume[p - delta]
                              ELSE IF p \in moved THEN Keep ELSE Volume[p]]
  <1>3. PICK delta \in {-1, 1} :
          /\ PushCells(vol(delta))
          /\ selection' = Clip(<<selection[1] + delta, selection[2] + delta>>, n)
    BY <1>2 DEF Move
  <1>4. /\ selection[1] \in Nat /\ selection[2] \in Nat
        /\ selection[1] <= selection[2] /\ selection[2] < n
    BY <1>2, EditorAssumption DEF IInv, ShownInv, Boxes, Move
  <1>5. \A q \in moved : q \in 0..(n - 1)
    BY <1>2, <1>4 DEF Selected
  <1>6. vol(delta) \in Rows(n)
    <2> HIDE DEF moved
    <2> QED BY <1>2, <1>5 DEF Rows, Cells
  <1> HIDE DEF vol
  <1>7. /\ TrailInv' /\ CountInv' /\ SavedPointIsKept'
        /\ doc' \in Docs(n) /\ Len(doc'.variants) = Len(doc.variants)
    BY <1>1, <1>3, <1>6, PushCellsKeeps
  <1>8. DocSize(doc)' = n
    BY <1>2, <1>7, SizeOfDoc
  <1>9. selection' = None \/ (selection' \in Boxes /\ selection'[2] < n)
    BY <1>1, <1>3, <1>4, EditorAssumption DEF Clip, Boxes
  <1>10. ShownInv'
    BY <1>7, <1>8, <1>9 DEF ShownInv, IInv, Move
  <1> QED BY <1>7, <1>10 DEF IInv

\* A step that pushes a replacement of all volumes, for other sizes or another anchor.
LEMMA VolumesTool ==
  ASSUME IInv, NEW n \in 1..MaxSize, doc \in Docs(n), NEW m \in 1..MaxSize,
         NEW vols \in Seq(Rows(m)), Len(vols) = Len(doc.variants), NEW a \in 0..(m - 1),
         Push(VolumeReplace(vols, a))
  PROVE  /\ TrailInv' /\ CountInv' /\ SavedPointIsKept'
         /\ doc' \in Docs(m) /\ Len(doc'.variants) = Len(doc.variants)
  <1> DEFINE c == VolumeReplace(vols, a)
  <1>1. n \in Nat \ {0} /\ m \in Nat \ {0}
    BY EditorAssumption
  <1>2. c.kind = "volumes" /\ c.before = <<doc.variants, doc.anchor>> /\ c.after = <<vols, a>>
    BY DEF VolumeReplace
  <1>3. Push(c) /\ doc' = Apply(doc, c)
    BY DEF Push
  <1> HIDE DEF c
  <1>4. /\ doc' \in Docs(m) /\ Len(doc'.variants) = Len(doc.variants) /\ Revert(doc', c) = doc
    BY <1>1, <1>2, <1>3, VolumesExact
  <1> QED BY <1>3, <1>4, PushKeeps DEF Good

LEMMA ResizeStep == ASSUME IInv, Resize PROVE IInv'
  <1>1. PICK n \in 1..MaxSize : doc \in Docs(n)
    BY DocIsGood DEF Good
  <1>2. n \in Nat \ {0} /\ DocSize(doc) = n /\ doc.variants \in Seq(Rows(n))
    BY <1>1, SizeOfDoc, DocShape, EditorAssumption
  <1> DEFINE vols(size, shift) == [v \in DOMAIN doc.variants |->
                                     Resized(doc.variants[v], size, shift)]
             within(x, size) == IF x < 0 THEN 0 ELSE IF x > size - 1 THEN size - 1 ELSE x
  <1>3. PICK size \in 1..MaxSize, side \in {"min", "max"} :
          Push(VolumeReplace(vols(size, IF side = "min" THEN 0 ELSE size - n),
                 within(doc.anchor + (IF side = "min" THEN 0 ELSE size - n), size)))
    BY <1>2 DEF Resize
  <1> DEFINE shift == IF side = "min" THEN 0 ELSE size - n
  <1>4. shift \in Int /\ size \in Nat \ {0} /\ doc.anchor \in Int
    BY <1>1, <1>2, DocShape, EditorAssumption
  <1> HIDE DEF shift
  <1>5. \A row \in Rows(n) : Resized(row, size, shift) \in Rows(size)
    BY <1>2, <1>4 DEF Rows, Resized, Cells
  <1>6. vols(size, shift) \in Seq(Rows(size)) /\ Len(vols(size, shift)) = Len(doc.variants)
    BY <1>2, <1>5
  <1>7. within(doc.anchor + shift, size) \in 0..(size - 1)
    <2>1. doc.anchor + shift \in Int
      BY <1>4
    <2> QED BY <1>4, <2>1
  <1> HIDE DEF vols, within
  <1>8. Push(VolumeReplace(vols(size, shift), within(doc.anchor + shift, size)))
    BY <1>3 DEF shift
  <1>9. /\ TrailInv' /\ CountInv' /\ SavedPointIsKept'
        /\ doc' \in Docs(size) /\ Len(doc'.variants) = Len(doc.variants)
    BY <1>1, <1>6, <1>7, <1>8, VolumesTool
  <1>10. ShownInv'
    BY <1>9 DEF ShownInv, IInv, Resize
  <1> QED BY <1>9, <1>10 DEF IInv

LEMMA SetAnchorStep == ASSUME IInv, SetAnchor PROVE IInv'
  <1>1. PICK n \in 1..MaxSize : doc \in Docs(n)
    BY DocIsGood DEF Good
  <1>2. n \in Nat \ {0} /\ DOMAIN Volume = 0..(n - 1) /\ doc.variants \in Seq(Rows(n))
    BY <1>1, VolumeIs, DocShape, EditorAssumption DEF IInv
  <1>3. PICK a \in 0..(n - 1) : Push(VolumeReplace(doc.variants, a))
    BY <1>2 DEF SetAnchor
  <1>4. /\ TrailInv' /\ CountInv' /\ SavedPointIsKept'
        /\ doc' \in Docs(n) /\ Len(doc'.variants) = Len(doc.variants)
    BY <1>1, <1>2, <1>3, VolumesTool
  <1>5. ShownInv'
    BY <1>1, <1>2, <1>4, SameShape DEF IInv, SetAnchor
  <1> QED BY <1>4, <1>5 DEF IInv

LEMMA SetPlacementStep == ASSUME IInv, SetPlacement PROVE IInv'
  <1>1. PICK n \in 1..MaxSize : doc \in Docs(n)
    BY DocIsGood DEF Good
  <1> DEFINE c == PlacementReplace(~doc.placement)
  <1>2. c.kind = "placement" /\ c.before = doc.placement /\ c.after = ~doc.placement
    BY DEF PlacementReplace
  <1>3. Push(c) /\ doc' = Apply(doc, c)
    BY DEF SetPlacement, Push
  <1> HIDE DEF c
  <1>4. n \in Nat \ {0} /\ (~doc.placement) \in BOOLEAN
    <2>1. n \in Nat \ {0}
      BY EditorAssumption
    <2>2. (~doc.placement) \in BOOLEAN
      OBVIOUS
    <2> QED BY <2>1, <2>2
  <1>5. doc' \in Docs(n) /\ doc'.variants = doc.variants /\ Revert(doc', c) = doc
    BY <1>1, <1>2, <1>3, <1>4, PlacementExact
  <1>6. TrailInv' /\ CountInv' /\ SavedPointIsKept'
    BY <1>3, <1>5, PushKeeps DEF Good
  <1>7. ShownInv'
    BY <1>1, <1>4, <1>5, SameShape DEF IInv, SetPlacement
  <1> QED BY <1>6, <1>7 DEF IInv

\* The volumes with one more after the i-th, and without the i-th.
LEMMA InsertedVariants ==
  ASSUME NEW n, doc \in Docs(n), NEW i \in 0..Len(doc.variants), NEW vol \in Rows(n)
  PROVE  Inserted(i, vol) \in Seq(Rows(n)) /\ Len(Inserted(i, vol)) = Len(doc.variants) + 1
  <1>1. doc.variants \in Seq(Rows(n)) /\ Len(doc.variants) \in Nat
    BY DocShape
  <1>2. /\ SubSeq(doc.variants, 1, i) \in Seq(Rows(n)) /\ Len(SubSeq(doc.variants, 1, i)) = i
        /\ SubSeq(doc.variants, i + 1, Len(doc.variants)) \in Seq(Rows(n))
        /\ Len(SubSeq(doc.variants, i + 1, Len(doc.variants))) = Len(doc.variants) - i
    BY <1>1
  <1>3. <<vol>> \in Seq(Rows(n)) /\ Len(<<vol>>) = 1
    OBVIOUS
  <1> DEFINE head == SubSeq(doc.variants, 1, i)
             tail == SubSeq(doc.variants, i + 1, Len(doc.variants))
  <1> HIDE DEF head, tail
  <1>4. head \o <<vol>> \in Seq(Rows(n)) /\ Len(head \o <<vol>>) = i + 1
    BY <1>2, <1>3 DEF head
  <1>5. /\ (head \o <<vol>>) \o tail \in Seq(Rows(n))
        /\ Len((head \o <<vol>>) \o tail) = i + 1 + (Len(doc.variants) - i)
    <2>1. tail \in Seq(Rows(n)) /\ Len(tail) = Len(doc.variants) - i
      BY <1>2 DEF tail
    <2>2. /\ (head \o <<vol>>) \o tail \in Seq(Rows(n))
          /\ Len((head \o <<vol>>) \o tail) = Len(head \o <<vol>>) + Len(tail)
      BY <1>4, <2>1, ConcatProperties
    <2> QED BY <1>4, <2>1, <2>2
  <1>6. Inserted(i, vol) = (head \o <<vol>>) \o tail
    BY DEF Inserted, head, tail
  <1>7. i + 1 + (Len(doc.variants) - i) = Len(doc.variants) + 1
    <2>1. \A l \in Nat : \A j \in 0..l : j + 1 + (l - j) = l + 1
      OBVIOUS
    <2> QED BY <1>1, <2>1
  <1> QED BY <1>5, <1>6, <1>7

LEMMA VariantSteps ==
  ASSUME IInv,
         AddVariant \/ DuplicateVariant \/ Bake \/ DeleteVariant \/ MoveVariant
  PROVE  IInv'
  <1>1. PICK n \in 1..MaxSize : doc \in Docs(n)
    BY DocIsGood DEF Good
  <1>2. /\ n \in Nat \ {0} /\ doc.variants \in Seq(Rows(n)) /\ Len(doc.variants) \in 1..MaxVariants
        /\ Volume \in Rows(n) /\ DOMAIN Volume = 0..(n - 1)
        /\ DOMAIN doc.variants = 1..Len(doc.variants) /\ variant \in 1..Len(doc.variants)
        /\ MaxVariants \in Nat
    BY <1>1, VolumeIs, DocShape, EditorAssumption DEF IInv, ShownInv
  <1>3. CASE AddVariant
    <2>1. [p \in DOMAIN Volume |-> Keep] \in Rows(n)
      BY <1>2 DEF Rows, Cells
    <2>2. /\ Inserted(variant, [p \in DOMAIN Volume |-> Keep]) \in Seq(Rows(n))
          /\ Len(Inserted(variant, [p \in DOMAIN Volume |-> Keep])) = Len(doc.variants) + 1
      BY <1>1, <1>2, <2>1, InsertedVariants
    <2>3. /\ Len(doc.variants) < MaxVariants
          /\ PushVariants(Inserted(variant, [p \in DOMAIN Volume |-> Keep]), variant + 1)
      BY <1>3 DEF AddVariant
    <2>4. /\ Len(doc.variants) + 1 \in 1..MaxVariants /\ variant + 1 \in 1..(Len(doc.variants) + 1)
      BY <1>2, <2>3
    <2> QED BY <1>1, <2>2, <2>3, <2>4, PushVariantsKeeps
  <1>4. CASE DuplicateVariant
    <2>1. PICK i \in 1..Len(doc.variants) : PushVariants(Inserted(i, doc.variants[i]), i + 1)
      BY <1>2, <1>4 DEF DuplicateVariant
    <2>2. /\ Inserted(i, doc.variants[i]) \in Seq(Rows(n))
          /\ Len(Inserted(i, doc.variants[i])) = Len(doc.variants) + 1
      <3>1. doc.variants[i] \in Rows(n) /\ i \in 0..Len(doc.variants)
        BY <1>2
      <3> HIDE <2>1
      <3> QED BY <1>1, <3>1, InsertedVariants
    <2>3. /\ Len(doc.variants) + 1 \in 1..MaxVariants /\ i + 1 \in 1..(Len(doc.variants) + 1)
      BY <1>2, <1>4 DEF DuplicateVariant
    <2> QED BY <1>1, <2>1, <2>2, <2>3, PushVariantsKeeps
  <1>5. CASE Bake
    <2>1. PICK vol \in Rows(n) : PushVariants(Append(doc.variants, vol), Len(doc.variants) + 1)
      BY <1>2, <1>5 DEF Bake, Rows
    <2>2. /\ Append(doc.variants, vol) \in Seq(Rows(n))
          /\ Len(Append(doc.variants, vol)) = Len(doc.variants) + 1
      BY <1>2
    <2>3. /\ Len(doc.variants) + 1 \in 1..MaxVariants
          /\ Len(doc.variants) + 1 \in 1..(Len(doc.variants) + 1)
      BY <1>2, <1>5 DEF Bake
    <2> QED BY <1>1, <2>1, <2>2, <2>3, PushVariantsKeeps
  <1>6. CASE DeleteVariant
    <2> DEFINE left(i) == SubSeq(doc.variants, 1, i - 1) \o
                          SubSeq(doc.variants, i + 1, Len(doc.variants))
    <2>1. PICK i \in 1..Len(doc.variants) : PushVariants(left(i), IF i = 1 THEN 1 ELSE i - 1)
      BY <1>2, <1>6 DEF DeleteVariant
    <2>2. Len(doc.variants) >= 2
      BY <1>6 DEF DeleteVariant
    <2>3. /\ SubSeq(doc.variants, 1, i - 1) \in Seq(Rows(n))
          /\ Len(SubSeq(doc.variants, 1, i - 1)) = i - 1
          /\ SubSeq(doc.variants, i + 1, Len(doc.variants)) \in Seq(Rows(n))
          /\ Len(SubSeq(doc.variants, i + 1, Len(doc.variants))) = Len(doc.variants) - i
      BY <1>2
    <2>4. left(i) \in Seq(Rows(n)) /\ Len(left(i)) = Len(doc.variants) - 1
      <3> DEFINE front == SubSeq(doc.variants, 1, i - 1)
                 back == SubSeq(doc.variants, i + 1, Len(doc.variants))
      <3>1. /\ front \in Seq(Rows(n)) /\ back \in Seq(Rows(n))
            /\ Len(front) = i - 1 /\ Len(back) = Len(doc.variants) - i
        BY <2>3
      <3>2. left(i) = front \o back
        OBVIOUS
      <3> HIDE DEF front, back, left
      <3>3. Len(front \o back) = Len(front) + Len(back) /\ front \o back \in Seq(Rows(n))
        BY <3>1, ConcatProperties
      <3>4. i \in Nat /\ Len(doc.variants) \in Nat
        BY <1>2
      <3> QED BY <3>1, <3>2, <3>3, <3>4
    <2>5. /\ Len(doc.variants) - 1 \in 1..MaxVariants
          /\ (IF i = 1 THEN 1 ELSE i - 1) \in 1..(Len(doc.variants) - 1)
      BY <1>2, <2>2
    <2> HIDE DEF left
    <2> QED BY <1>1, <2>1, <2>4, <2>5, PushVariantsKeeps
  <1>7. CASE MoveVariant
    <2> DEFINE moved(i) == [doc.variants EXCEPT ![i] = doc.variants[i + 1],
                                                ![i + 1] = doc.variants[i]]
    <2>1. PICK i \in 1..(Len(doc.variants) - 1), target \in 1..Len(doc.variants) :
            PushVariants(moved(i), target)
      BY <1>7 DEF MoveVariant
    <2>2. moved(i) \in Seq(Rows(n)) /\ Len(moved(i)) = Len(doc.variants)
      BY <1>2
    <2> HIDE DEF moved
    <2> QED BY <1>1, <1>2, <2>1, <2>2, PushVariantsKeeps
  <1> QED BY <1>3, <1>4, <1>5, <1>6, <1>7

LEMMA SetVariantStep == ASSUME IInv, SetVariant PROVE IInv'
  <1>1. variant' \in 1..Len(doc.variants)
    BY DocIsGood, DocShape DEF Good, SetVariant
  <1> QED BY <1>1 DEF IInv, TrailInv, ShownInv, CountInv, SavedPointIsKept, UndoIsExact, SetVariant

LEMMA UndoStep == ASSUME IInv, Undo PROVE IInv'
  <1>1. /\ next \in DOMAIN commands /\ next' = next - 1 /\ doc' = Revert(doc, commands[next])
        /\ doc = trail[next + 1] /\ next' \in 0..Len(commands)
    BY DocIsGood DEF IInv, TrailInv, UndoIsExact, Undo, IsSeq
  <1>2. doc' = trail[next]
    BY <1>1 DEF IInv, TrailInv, UndoIsExact
  <1>3. next' + 1 = next
    BY <1>1 DEF IInv, TrailInv
  <1> QED BY <1>1, <1>2, <1>3, MoveKeeps DEF Undo

LEMMA RedoStep == ASSUME IInv, Redo PROVE IInv'
  <1>1. /\ next + 1 \in DOMAIN commands /\ next' = next + 1
        /\ doc' = Apply(doc, commands[next + 1])
        /\ doc = trail[next + 1] /\ next' \in 0..Len(commands)
    BY DocIsGood DEF IInv, TrailInv, UndoIsExact, Redo, IsSeq
  <1>2. doc' = trail[next + 1 + 1]
    BY <1>1 DEF IInv, TrailInv, UndoIsExact
  <1> QED BY <1>1, <1>2, MoveKeeps DEF Redo

-----------------------------------------------------------------------------
\* Saving, opening, leaving.

\* Another document is opened: the history starts anew.
LEMMA FreshKeeps ==
  ASSUME IInv, NEW d, Good(d), Fresh(d),
         pushes' = pushes, dialog' \in {None, "open", "new", "quit"}, quit' = quit,
         file' \notin {None, Torn} => Good(file')
  PROVE  IInv'
  <1>1. PICK n \in 1..MaxSize : d \in Docs(n)
    BY DEF Good
  <1>2. /\ doc' = d /\ variant' = 1 /\ selection' = None /\ clipboard' = <<>> /\ kept' = d
        /\ commands' = <<>> /\ next' = 0 /\ saved' = 0 /\ savedValid' = TRUE /\ trail' = <<d>>
    BY DEF Fresh
  <1>3. 1 \in 1..Len(d.variants)
    BY <1>1, DocShape, EditorAssumption
  <1>4. UndoIsExact'
    BY <1>2, EmptyAndOne DEF UndoIsExact
  <1>5. TrailInv'
    BY <1>2, <1>4, EmptyAndOne DEF TrailInv
  <1>6. ShownInv'
    BY <1>2, <1>3, EmptyAndOne DEF ShownInv
  <1>7. CountInv'
    BY <1>2, EmptyAndOne, EditorAssumption DEF CountInv, IInv
  <1>8. SavedPointIsKept'
    BY <1>2, EmptyAndOne DEF SavedPointIsKept
  <1> QED BY <1>5, <1>6, <1>7, <1>8 DEF IInv

LEMMA BlankIsGood ==
  ASSUME NEW n \in 1..MaxSize
  PROVE  Good(Blank(n))
  <1>1. [p \in 0..(n - 1) |-> Keep] \in Rows(n)
    BY DEF Rows, Cells
  <1>2. /\ <<[p \in 0..(n - 1) |-> Keep]>> \in Seq(Rows(n))
        /\ Len(<<[p \in 0..(n - 1) |-> Keep]>>) \in 1..MaxVariants
    BY <1>1, EditorAssumption
  <1>3. 0 \in 0..(n - 1)
    BY EditorAssumption
  <1>4. Blank(n) \in Docs(n)
    BY <1>2, <1>3 DEF Blank, Docs
  <1> QED BY <1>4 DEF Good

\* The document stays, the file becomes f and the saved point is s, valid or not, with k there.
LEMMA StaysKeeps ==
  ASSUME IInv,
         UNCHANGED <<doc, variant, selection, clipboard, commands, next, trail, pushes>>,
         file' \notin {None, Torn} => Good(file'),
         saved' \in 0..MaxPushes, savedValid' \in BOOLEAN, SavedPointIsKept',
         dialog' \in {None, "open", "new", "quit"}, quit' \in BOOLEAN
  PROVE  IInv'
  <1>1. TrailInv'
    BY DEF IInv, TrailInv, UndoIsExact
  <1>2. ShownInv'
    BY DEF IInv, ShownInv
  <1>3. CountInv'
    BY DEF IInv, CountInv
  <1> QED BY <1>1, <1>2, <1>3 DEF IInv

\* The point shown is one that can be marked as saved.
LEMMA PointShown ==
  ASSUME IInv
  PROVE  /\ next \in 0..MaxPushes /\ next + 1 \in DOMAIN trail /\ trail[next + 1] = doc
  BY DocIsGood, EditorAssumption DEF IInv, TrailInv, UndoIsExact, CountInv, IsSeq

\* GoOn: the file f is good and the saved point it is given is a right one.
LEMMA GoOnKeeps ==
  ASSUME IInv, NEW action, NEW f, NEW s \in 0..MaxPushes, NEW v \in BOOLEAN,
         NEW k, f \notin {None, Torn} => Good(f), v => s + 1 \in DOMAIN trail /\ trail[s + 1] = k,
         GoOn(action, f, s, v, k), pushes' = pushes,
         dialog' \in {None, "open", "new", "quit"}
  PROVE  IInv'
  <1>1. CASE /\ UNCHANGED <<doc, variant, selection, clipboard, commands, next, trail>>
             /\ file' = f /\ Mark(s, v, k) /\ (quit' = quit \/ quit' = TRUE)
    <2>1. saved' = s /\ savedValid' = v /\ kept' = k /\ trail' = trail
      BY <1>1 DEF Mark
    <2>2. SavedPointIsKept'
      BY <2>1 DEF SavedPointIsKept
    <2>3. quit' \in BOOLEAN
      BY <1>1 DEF IInv, CountInv
    <2> QED BY <1>1, <2>1, <2>2, <2>3, StaysKeeps
  <1>2. CASE f \notin {None, Torn} /\ Fresh(f) /\ file' = f /\ UNCHANGED quit
    BY <1>2, FreshKeeps
  <1>3. CASE Fresh(Blank(1)) /\ file' = None /\ UNCHANGED quit
    <2>1. Good(Blank(1))
      BY BlankIsGood, EditorAssumption
    <2> QED BY <1>3, <2>1, FreshKeeps
  <1> QED BY <1>1, <1>2, <1>3 DEF GoOn

LEMMA SaveStep == ASSUME IInv, Save PROVE IInv'
  <1>1. file' \notin {None, Torn} => Good(file')
    BY DocIsGood DEF Save, Written, NotWritten, IInv, TrailInv
  <1>2. /\ saved' \in 0..MaxPushes /\ savedValid' \in BOOLEAN /\ SavedPointIsKept'
    <2>1. CASE Written
      BY <2>1, PointShown DEF Save, Written, MarkSaved, Mark, SavedPointIsKept
    <2>2. CASE NotWritten
      BY <2>2 DEF Save, NotWritten, SavedPointIsKept, IInv, CountInv
    <2> QED BY <2>1, <2>2 DEF Save
  <1> QED BY <1>1, <1>2, StaysKeeps DEF Save, IInv, CountInv

LEMMA LeaveStep == ASSUME IInv, Leave PROVE IInv'
  <1>1. PICK action \in {"open", "new", "quit"} :
          \/ /\ dialog' = action
             /\ UNCHANGED <<doc, variant, selection, clipboard, commands, next, saved,
                            savedValid, kept, file, trail, quit>>
          \/ GoOn(action, file, saved, savedValid, kept) /\ UNCHANGED dialog
    BY DEF Leave
  <1>2. CASE /\ dialog' = action
             /\ UNCHANGED <<doc, variant, selection, clipboard, commands, next, saved,
                            savedValid, kept, file, trail, quit>>
    <2>1. dialog' \in {None, "open", "new", "quit"}
      BY <1>2
    <2>2. SavedPointIsKept' /\ (file' \notin {None, Torn} => Good(file'))
      BY <1>2 DEF SavedPointIsKept, IInv, TrailInv
    <2> QED BY <1>2, <2>1, <2>2, StaysKeeps DEF Leave, IInv, CountInv
  <1>3. CASE GoOn(action, file, saved, savedValid, kept) /\ UNCHANGED dialog
    <2>1. /\ saved \in 0..MaxPushes /\ savedValid \in BOOLEAN
          /\ dialog' \in {None, "open", "new", "quit"}
      BY <1>3 DEF IInv, CountInv
    <2>2. /\ file \notin {None, Torn} => Good(file)
          /\ savedValid => saved + 1 \in DOMAIN trail /\ trail[saved + 1] = kept
      BY DEF IInv, TrailInv, SavedPointIsKept
    <2> QED BY <1>3, <2>1, <2>2, GoOnKeeps DEF Leave
  <1> QED BY <1>1, <1>2, <1>3

LEMMA AnswerSaveStep == ASSUME IInv, AnswerSave PROVE IInv'
  <1>1. pushes' = pushes /\ dialog' = None /\ dialog' \in {None, "open", "new", "quit"}
    BY DEF AnswerSave, Answered
  <1>2. CASE GoOn(dialog, doc, next, TRUE, doc)
    BY <1>1, <1>2, PointShown, DocIsGood, GoOnKeeps
  <1>3. CASE NotWritten /\ UNCHANGED <<doc, variant, selection, clipboard, commands, next, trail,
                                       quit>>
    <2>1. /\ file' \notin {None, Torn} => Good(file')
          /\ saved' \in 0..MaxPushes /\ savedValid' \in BOOLEAN /\ SavedPointIsKept'
          /\ quit' \in BOOLEAN
      BY <1>3, DocIsGood DEF NotWritten, SavedPointIsKept, IInv, TrailInv, CountInv
    <2> QED BY <1>1, <1>3, <2>1, StaysKeeps
  <1> QED BY <1>2, <1>3 DEF AnswerSave

LEMMA DiscardStep == ASSUME IInv, Discard PROVE IInv'
  <1>1. pushes' = pushes /\ dialog' = None /\ dialog' \in {None, "open", "new", "quit"}
    BY DEF Discard, Answered
  <1>2. file \notin {None, Torn} => Good(file)
    BY DEF IInv, TrailInv
  <1> QED BY <1>1, <1>2, PointShown, GoOnKeeps DEF Discard

LEMMA CancelStep == ASSUME IInv, Cancel PROVE IInv'
  <1>1. pushes' = pushes /\ dialog' = None /\ dialog' \in {None, "open", "new", "quit"}
    BY DEF Cancel, Answered
  <1>2. SavedPointIsKept' /\ (file' \notin {None, Torn} => Good(file'))
    BY DEF Cancel, SavedPointIsKept, IInv, TrailInv
  <1> QED BY <1>1, <1>2, StaysKeeps DEF Cancel, IInv, CountInv

-----------------------------------------------------------------------------
\* The invariant, and what follows from it.

LEMMA InitInv == ASSUME Init PROVE IInv
  <1>1. Good(doc)
    BY BlankIsGood, EditorAssumption DEF Init
  <1>2. 1 \in 1..Len(doc.variants)
    BY <1>1, DocShape, EditorAssumption DEF Good
  <1>3. /\ commands = <<>> /\ trail = <<doc>> /\ clipboard = <<>> /\ next = 0
    BY DEF Init
  <1>4. UndoIsExact
    BY <1>3, EmptyAndOne DEF UndoIsExact
  <1>5. TrailInv
    BY <1>1, <1>3, <1>4, EmptyAndOne DEF TrailInv, Init
  <1>6. ShownInv
    BY <1>2, <1>3, EmptyAndOne DEF ShownInv, Init
  <1>7. CountInv
    <2>1. Len(commands) <= pushes
      BY <1>3 DEF Init
    <2>2. pushes \in 0..MaxPushes /\ saved \in 0..MaxPushes
      BY EditorAssumption DEF Init
    <2>3. /\ savedValid \in BOOLEAN /\ dialog \in {None, "open", "new", "quit"}
          /\ quit \in BOOLEAN
      BY DEF Init
    <2> QED BY <2>1, <2>2, <2>3 DEF CountInv
  <1>8. SavedPointIsKept
    BY <1>3, EmptyAndOne DEF SavedPointIsKept, Init
  <1> QED BY <1>5, <1>6, <1>7, <1>8 DEF IInv

LEMMA StepInv == ASSUME IInv, [Next]_vars PROVE IInv'
  <1>1. CASE UNCHANGED vars
    BY <1>1 DEF vars, IInv, TrailInv, ShownInv, CountInv, SavedPointIsKept, UndoIsExact
  <1> QED BY <1>1, FillStep, PaintStep, FloodStep, GenerateStep, SelectStep, CopyStep, CutStep,
             PasteStep, MoveStep, ResizeStep, SetAnchorStep, VariantSteps, SetVariantStep,
             SetPlacementStep, UndoStep, RedoStep, SaveStep, LeaveStep, AnswerSaveStep,
             DiscardStep, CancelStep DEF Next

\* The inductive invariant holds in every state of the editor.
THEOREM Invariant == Spec => []IInv
  BY InitInv, StepInv, PTL DEF Spec

\* Undo and redo are exact: each command, applied to the document it was made for or
\* reverted from the one it led to, gives the other, whatever was edited after it and undone
\* since (UndoStack, Command::apply and revert).
THEOREM UndoStaysExact == Spec => []UndoIsExact
  <1>1. IInv => UndoIsExact
    BY DEF IInv, TrailInv
  <1> QED BY <1>1, Invariant, PTL

\* While the saved point is valid, a document that counts as clean is the one that was marked
\* as saved (UndoStack::dirty).  What CleanIsSaved says beyond this is false.
CleanWhileValid == savedValid /\ ~Dirty => doc = kept

THEOREM CleanIsKept == Spec => []CleanWhileValid
  <1>1. IInv => CleanWhileValid
    BY DEF IInv, TrailInv, UndoIsExact, SavedPointIsKept, CleanWhileValid, Dirty
  <1> QED BY <1>1, Invariant, PTL

LEMMA EditorTypes == ASSUME IInv PROVE TypeOK
  <1>1. PICK n \in 1..MaxSize : doc \in Docs(n)
    BY DocIsGood DEF Good
  <1>2. /\ n \in Nat \ {0} /\ DocSize(doc) = n /\ MaxVariants \in Nat
        /\ doc.variants \in Seq(Rows(n)) /\ Len(doc.variants) \in 1..MaxVariants
        /\ doc.anchor \in 0..(n - 1) /\ doc.placement \in BOOLEAN
        /\ \A v \in 1..Len(doc.variants) : Size(doc.variants[v]) = n
    BY <1>1, SizeOfDoc, DocShape, EditorAssumption
  <1>3. Rows(n) \subseteq Volumes
    BY DEF Rows, Volumes
  <1>4. doc.variants \in [1..Len(doc.variants) -> Volumes]
    BY <1>2, <1>3
  <1>5. Len(commands) <= MaxPushes
    BY DocIsGood, EditorAssumption DEF IInv, CountInv, TrailInv, IsSeq
  <1> QED BY <1>2, <1>4, <1>5 DEF TypeOK, IInv, TrailInv, ShownInv, CountInv

\* Values have their types; the variant shown exists, all variants have one size, and the
\* anchor and the selection lie inside it after every edit, undo and redo (EditSession).
THEOREM TypeCorrect == Spec => []TypeOK
  BY EditorTypes, Invariant, PTL

-----------------------------------------------------------------------------
(* Lanes: what is added at the end and taken from the front                                     *)

LEMMA Queued ==
  ASSUME NEW S, NEW s \in Seq(S)
  PROVE  Len(s) \in Nat /\ DOMAIN s = 1..Len(s) /\ \A i \in DOMAIN s : s[i] \in S
  BY ElementOfSeq

LEMMA TakenFromFront ==
  ASSUME NEW S, NEW s \in Seq(S), s # <<>>
  PROVE  /\ 1 \in DOMAIN s /\ Head(s) = s[1] /\ Head(s) \in S /\ Tail(s) \in Seq(S)
         /\ \A i \in DOMAIN Tail(s) : i \in Nat \ {0} /\ i + 1 \in DOMAIN s /\ Tail(s)[i] = s[i + 1]
         /\ \A i \in DOMAIN s : i # 1 => i - 1 \in DOMAIN Tail(s) /\ Tail(s)[i - 1] = s[i]
  <1>1. Len(s) \in Nat /\ DOMAIN s = 1..Len(s) /\ Len(s) # 0
    BY EmptySeq
  <1>2. /\ Head(s) \in S /\ Tail(s) \in Seq(S) /\ Len(Tail(s)) = Len(s) - 1
        /\ \A i \in 1..Len(Tail(s)) : Tail(s)[i] = s[i + 1]
    BY HeadTailProperties
  <1>3. DOMAIN Tail(s) = 1..(Len(s) - 1)
    BY <1>1, <1>2
  <1> QED BY <1>1, <1>2, <1>3

LEMMA PutAtEnd ==
  ASSUME NEW S, NEW s \in Seq(S), NEW e \in S
  PROVE  /\ Append(s, e) \in Seq(S) /\ DOMAIN Append(s, e) = 1..(Len(s) + 1) /\ Len(s) \in Nat
         /\ Append(s, e)[Len(s) + 1] = e /\ DOMAIN s = 1..Len(s)
         /\ \A i \in DOMAIN s : i \in DOMAIN Append(s, e) /\ Append(s, e)[i] = s[i]
         /\ \A i \in DOMAIN Append(s, e) : i \in DOMAIN s \/ i = Len(s) + 1
  <1>1. Len(s) \in Nat /\ DOMAIN s = 1..Len(s)
    OBVIOUS
  <1>2. /\ Append(s, e) \in Seq(S) /\ Len(Append(s, e)) = Len(s) + 1
        /\ \A i \in 1..Len(s) : Append(s, e)[i] = s[i]
        /\ Append(s, e)[Len(s) + 1] = e
    BY AppendProperties
  <1>3. DOMAIN Append(s, e) = 1..(Len(s) + 1)
    BY <1>1, <1>2
  <1> QED BY <1>1, <1>2, <1>3

(* What a player sees of a chunk                                              *)

Words == [block : View!Cells, gen : Nat]
Frames == [type : {"add"}, rev : Nat, word : [Positions -> Words]]
          \union [type : {"delta"}, pos : Positions, rev : Nat, word : Words]
          \union [type : {"result"}, seq : Nat, accepted : BOOLEAN]
          \union [type : {"remove"}]
Cracks == [pos : Positions, punches : 0..(CountSize - 1), rev : Nat, gen : Nat]

(* Frames and their revisions have their types, and none is of a revision to come. *)
ViewTypes ==
  /\ block \in [Positions -> View!Cells] /\ blockRev \in 1..MaxRev
  /\ counts \in [Positions -> 0..(CountSize - 1)]
  /\ inView \in BOOLEAN /\ covered \in BOOLEAN /\ sent \in 0..MaxRev /\ edits \in Nat
  /\ gen \in [Positions -> Nat] /\ countGen \in [Positions -> Nat]
  /\ up \in Seq([seq : Nat, pos : Positions, block : View!Cells])
  /\ blockLane \in Seq(Frames) /\ feedback \in Seq(Cracks)
  /\ held \in [Positions -> View!Cells] \union {Absent}
  /\ pendingEdits \in Seq([seq : Nat, pos : Positions, prev : View!Cells])
  /\ cracks \in [Positions -> 0..(CountSize - 1)]
  /\ damageRev \in [Positions -> Nat] /\ changeRev \in [Positions -> Nat]
  /\ said \in [Positions -> Words] /\ predicted \in SUBSET Positions

OnTime ==
  /\ \A p \in Positions : /\ cracks[p] = 0 <=> damageRev[p] = 0
                          /\ damageRev[p] <= blockRev /\ changeRev[p] <= blockRev
  /\ \A i \in DOMAIN blockLane : blockLane[i].type \in {"add", "delta"}
                                 => blockLane[i].rev \in 1..blockRev
  /\ \A i \in DOMAIN feedback : feedback[i].rev \in 1..blockRev

(* Only where it predicted does the client show, or may come to show, what it was not told. *)
WordInv ==
  held # Absent =>
    /\ \A p \in Positions \ predicted : held[p] = said[p].block
    /\ \A i \in DOMAIN pendingEdits : pendingEdits[i].pos \in predicted

(* Where all changes are told as they are made, generations tell what revisions do: an update on  *)
(* its way is older than a change exactly if it is of an earlier block.                            *)
Plain == ways \subseteq {"edit", "punch"}
Alters(f, p) == f.type = "delta" /\ f.pos = p

ToldOfChanges(p) ==
  /\ \A i \in DOMAIN blockLane : Alters(blockLane[i], p) =>
       /\ said[p].gen < blockLane[i].word.gen /\ blockLane[i].word.gen <= gen[p]
       /\ changeRev[p] < blockLane[i].rev
       /\ \A j \in DOMAIN blockLane : i < j /\ Alters(blockLane[j], p) =>
            /\ blockLane[i].word.gen < blockLane[j].word.gen
            /\ blockLane[i].rev < blockLane[j].rev
  /\ \/ said[p].gen = gen[p]
     \/ \E i \in DOMAIN blockLane : Alters(blockLane[i], p) /\ blockLane[i].word.gen = gen[p]

UpdatesFit(p) ==
  \A i \in DOMAIN feedback : feedback[i].pos = p =>
    LET f == feedback[i]
    IN /\ f.gen <= gen[p] /\ damageRev[p] <= f.rev
       /\ f.rev < changeRev[p] <=> f.gen < said[p].gen
       /\ damageRev[p] # 0 => f.gen >= said[p].gen
       /\ \A j \in DOMAIN blockLane : Alters(blockLane[j], p)
            => (f.rev < blockLane[j].rev <=> f.gen < blockLane[j].word.gen)
       /\ \A j \in DOMAIN feedback : i < j /\ feedback[j].pos = p
            => f.rev <= feedback[j].rev /\ f.gen <= feedback[j].gen

(* What is shown of p is what was last told of it, as long as the block is the one it was told of. *)
ShownIsTold(p) ==
  /\ cracks[p] = IF countGen[p] >= said[p].gen THEN counts[p] ELSE 0
  /\ damageRev[p] # 0 => \A j \in DOMAIN blockLane : Alters(blockLane[j], p)
       => (damageRev[p] < blockLane[j].rev <=> countGen[p] < blockLane[j].word.gen)

IsLastOf(i, p) ==
  /\ i \in DOMAIN feedback /\ feedback[i].pos = p
  /\ feedback[i].gen = countGen[p] /\ feedback[i].punches = counts[p]
  /\ \A j \in DOMAIN feedback : i < j => feedback[j].pos # p

ToldOfCounts(p) ==
  /\ countGen[p] <= gen[p]
  /\ \/ \E i \in DOMAIN feedback : IsLastOf(i, p)
     \/ (\A i \in DOMAIN feedback : feedback[i].pos # p) /\ ShownIsTold(p)

CrackInv ==
  Plain =>
    /\ inView /\ covered /\ sent = blockRev /\ held # Absent
    /\ \A i \in DOMAIN blockLane : blockLane[i].type \in {"delta", "result"}
    /\ \A p \in Positions : ToldOfChanges(p) /\ UpdatesFit(p) /\ ToldOfCounts(p)

ViewInv == ViewTypes /\ OnTime /\ WordInv /\ CrackInv /\ ways \in Settings

-----------------------------------------------------------------------------
(* The server's steps                                                                           *)

(* The block at p changes (changed), and the player is told of its count (told).                *)
IsNew(f, p) == Alters(f, p) /\ f.rev = blockRev + 1 /\ f.word.gen = gen[p] + 1

LaneGrows(p, changed) ==
  /\ \A i \in DOMAIN blockLane : i \in DOMAIN blockLane' /\ blockLane'[i] = blockLane[i]
  /\ \A i \in DOMAIN blockLane' : \/ i \in DOMAIN blockLane
                                  \/ blockLane'[i].type = "result"
                                  \/ changed /\ i = Len(blockLane') /\ IsNew(blockLane'[i], p)
  /\ changed => LET n == Len(blockLane')
                IN n \in DOMAIN blockLane' /\ n \notin DOMAIN blockLane /\ IsNew(blockLane'[n], p)

LaneKept == LaneGrows({}, FALSE)

ServerChanges(p, changed) ==
  IF changed
  THEN blockRev' = blockRev + 1 /\ gen' = [gen EXCEPT ![p] = @ + 1] /\ blockRev + 1 \in 1..MaxRev
  ELSE UNCHANGED <<blockRev, gen>>

ServerTells(p, told) ==
  IF told
  THEN \E n \in 0..(CountSize - 1) :
         /\ counts' = [counts EXCEPT ![p] = n] /\ countGen' = [countGen EXCEPT ![p] = gen'[p]]
         /\ feedback' = Append(feedback, [pos |-> p, punches |-> n, rev |-> blockRev',
                                          gen |-> gen'[p]])
  ELSE UNCHANGED <<counts, countGen, feedback>>

ClientWaits == UNCHANGED <<held, pendingEdits, cracks, damageRev, changeRev, said, predicted, ways>>

LEMMA LaneFacts ==
  ASSUME ViewTypes
  PROVE  /\ Len(blockLane) \in Nat /\ DOMAIN blockLane = 1..Len(blockLane)
         /\ \A i \in DOMAIN blockLane : blockLane[i] \in Frames
         /\ Len(feedback) \in Nat /\ DOMAIN feedback = 1..Len(feedback)
         /\ \A i \in DOMAIN feedback : feedback[i] \in Cracks
  BY ElementOfSeq DEF ViewTypes

\* A frame about a change has a revision and a generation.
LEMMA ChangeIs ==
  ASSUME NEW f \in Frames, NEW p, Alters(f, p)
  PROVE  f.rev \in Nat /\ f.word.gen \in Nat /\ f.word.block \in View!Cells /\ f.pos \in Positions
         /\ f \in [type : {"delta"}, pos : Positions, rev : Nat, word : Words]
  BY DEF Frames, Alters, Words

LEMMA ServerKeepsChanges ==
  ASSUME ViewInv, Plain, NEW p \in Positions, NEW changed \in BOOLEAN, LaneGrows(p, changed),
         ServerChanges(p, changed), ClientWaits, NEW q \in Positions, blockLane' \in Seq(Frames)
  PROVE  ToldOfChanges(q)'
  <1>1. /\ said'[q].gen = said[q].gen /\ changeRev'[q] = changeRev[q]
        /\ changeRev[q] \in Nat /\ changeRev[q] <= blockRev /\ blockRev \in Nat
        /\ said[q].gen \in Nat /\ gen[q] \in Nat /\ ToldOfChanges(q)
    BY DEF ClientWaits, ViewInv, ViewTypes, OnTime, Words, CrackInv
  <1>2. Len(blockLane') \in Nat /\ DOMAIN blockLane' = 1..Len(blockLane')
    OBVIOUS
  <1>3. gen'[q] = IF changed /\ q = p THEN gen[q] + 1 ELSE gen[q]
    BY DEF ServerChanges, ViewInv, ViewTypes
  <1>4. said[q].gen <= gen[q]
    <2>1. CASE said[q].gen = gen[q]
      BY <1>1, <2>1
    <2>2. CASE \E i \in DOMAIN blockLane : Alters(blockLane[i], q) /\ blockLane[i].word.gen = gen[q]
      BY <1>1, <2>2 DEF ToldOfChanges
    <2> QED BY <1>1, <2>1, <2>2 DEF ToldOfChanges
  <1>5. ASSUME NEW i \in DOMAIN blockLane, Alters(blockLane[i], q)
        PROVE  /\ said[q].gen < blockLane[i].word.gen /\ blockLane[i].word.gen <= gen[q]
               /\ changeRev[q] < blockLane[i].rev /\ blockLane[i].rev <= blockRev
               /\ blockLane[i].rev \in Nat /\ blockLane[i].word.gen \in Nat
    <2>1. blockLane[i] \in Frames
      BY LaneFacts DEF ViewInv
    <2>2. blockLane[i].rev \in 1..blockRev
      BY <1>5 DEF ViewInv, OnTime, Alters
    <2> QED BY <1>1, <1>5, <2>1, <2>2, ChangeIs DEF ToldOfChanges
  <1>6. ASSUME NEW i \in DOMAIN blockLane', Alters(blockLane'[i], q)
        PROVE  \/ i \in DOMAIN blockLane /\ blockLane'[i] = blockLane[i]
               \/ changed /\ q = p /\ i = Len(blockLane') /\ i \notin DOMAIN blockLane
                  /\ blockLane'[i].rev = blockRev + 1 /\ blockLane'[i].word.gen = gen[q] + 1
    BY <1>6 DEF LaneGrows, IsNew, Alters
  <1>7. ASSUME NEW i \in DOMAIN blockLane', Alters(blockLane'[i], q)
        PROVE  /\ said'[q].gen < blockLane'[i].word.gen /\ blockLane'[i].word.gen <= gen'[q]
               /\ changeRev'[q] < blockLane'[i].rev
    <2>1. CASE i \in DOMAIN blockLane /\ blockLane'[i] = blockLane[i]
      BY <1>1, <1>3, <1>5, <1>7, <2>1
    <2>2. CASE changed /\ q = p /\ i = Len(blockLane')
               /\ blockLane'[i].rev = blockRev + 1 /\ blockLane'[i].word.gen = gen[q] + 1
      BY <1>1, <1>3, <1>4, <2>2
    <2> QED BY <1>6, <1>7, <2>1, <2>2
  <1>8. ASSUME NEW i \in DOMAIN blockLane', Alters(blockLane'[i], q),
               NEW j \in DOMAIN blockLane', i < j, Alters(blockLane'[j], q)
        PROVE  /\ blockLane'[i].word.gen < blockLane'[j].word.gen
               /\ blockLane'[i].rev < blockLane'[j].rev
    <2>1. i \in DOMAIN blockLane /\ blockLane'[i] = blockLane[i]
      BY <1>2, <1>6, <1>8
    <2>2. CASE j \in DOMAIN blockLane /\ blockLane'[j] = blockLane[j]
      BY <1>1, <1>8, <2>1, <2>2 DEF ToldOfChanges
    <2>3. CASE blockLane'[j].rev = blockRev + 1 /\ blockLane'[j].word.gen = gen[q] + 1
      BY <1>1, <1>5, <1>8, <2>1, <2>3
    <2> QED BY <1>6, <1>8, <2>2, <2>3
  <1>9. \/ said'[q].gen = gen'[q]
        \/ \E i \in DOMAIN blockLane' : Alters(blockLane'[i], q) /\ blockLane'[i].word.gen = gen'[q]
    <2>1. CASE changed /\ q = p
      BY <1>3, <2>1 DEF LaneGrows, IsNew
    <2>2. CASE ~(changed /\ q = p) /\ said[q].gen = gen[q]
      BY <1>1, <1>3, <2>2
    <2>3. CASE ~(changed /\ q = p) /\ \E i \in DOMAIN blockLane :
                 Alters(blockLane[i], q) /\ blockLane[i].word.gen = gen[q]
      BY <1>3, <2>3 DEF LaneGrows
    <2> QED BY <1>1, <2>1, <2>2, <2>3 DEF ToldOfChanges
  <1> QED BY <1>7, <1>8, <1>9 DEF ToldOfChanges, Alters

\* Updates on their way, after a step of the server: what was there has the place it had, and a
\* new one is of the newest block.
LEMMA ServerFeeds ==
  ASSUME ViewInv, NEW p \in Positions, NEW changed \in BOOLEAN, NEW told \in BOOLEAN,
         ServerChanges(p, changed), ServerTells(p, told), NEW q \in Positions
  PROVE  /\ feedback' \in Seq(Cracks)
         /\ DOMAIN feedback' = 1..Len(feedback') /\ Len(feedback') \in Nat
         /\ \A i \in DOMAIN feedback : i \in DOMAIN feedback' /\ feedback'[i] = feedback[i]
         /\ ~(told /\ q = p) => /\ counts'[q] = counts[q] /\ countGen'[q] = countGen[q]
                                /\ \A i \in DOMAIN feedback' :
                                     feedback'[i].pos = q => i \in DOMAIN feedback
         /\ told /\ q = p =>
              /\ countGen'[q] = gen'[q] /\ Len(feedback') = Len(feedback) + 1
              /\ LET f == feedback'[Len(feedback')]
                 IN /\ f.pos = q /\ f.rev = blockRev' /\ f.gen = gen'[q]
                    /\ f.punches = counts'[q]
         /\ \A i \in DOMAIN feedback' : i \in DOMAIN feedback \/ i = Len(feedback')
         /\ counts' \in [Positions -> 0..(CountSize - 1)] /\ countGen' \in [Positions -> Nat]
         /\ gen' \in [Positions -> Nat] /\ blockRev' \in 1..MaxRev
  <1>1. /\ gen \in [Positions -> Nat] /\ blockRev \in Nat /\ blockRev \in 1..MaxRev
        /\ counts \in [Positions -> 0..(CountSize - 1)] /\ countGen \in [Positions -> Nat]
        /\ feedback \in Seq(Cracks)
    BY PlayConstants DEF ViewInv, ViewTypes
  <1>2. gen' \in [Positions -> Nat] /\ blockRev' \in 1..MaxRev /\ blockRev' \in Nat
    BY <1>1 DEF ServerChanges
  <1>3. Len(feedback) \in Nat /\ DOMAIN feedback = 1..Len(feedback)
    BY <1>1
  <1>4. CASE ~told
    BY <1>1, <1>2, <1>3, <1>4 DEF ServerTells
  <1>5. CASE told
    <2>1. PICK n \in 0..(CountSize - 1) :
            /\ counts' = [counts EXCEPT ![p] = n] /\ countGen' = [countGen EXCEPT ![p] = gen'[p]]
            /\ feedback' = Append(feedback, [pos |-> p, punches |-> n, rev |-> blockRev',
                                             gen |-> gen'[p]])
      BY <1>5 DEF ServerTells
    <2> DEFINE f == [pos |-> p, punches |-> n, rev |-> blockRev', gen |-> gen'[p]]
    <2>2. f \in Cracks /\ f.pos = p /\ f.rev = blockRev' /\ f.gen = gen'[p] /\ f.punches = n
      BY <1>2 DEF Cracks
    <2> HIDE DEF f
    <2>3. feedback' = Append(feedback, f)
      BY <2>1 DEF f
    <2>4. /\ feedback' \in Seq(Cracks) /\ DOMAIN feedback' = 1..(Len(feedback) + 1)
          /\ feedback'[Len(feedback) + 1] = f
          /\ \A i \in DOMAIN feedback : i \in DOMAIN feedback' /\ feedback'[i] = feedback[i]
          /\ \A i \in DOMAIN feedback' : i \in DOMAIN feedback \/ i = Len(feedback) + 1
      BY <1>1, <2>2, <2>3, PutAtEnd
    <2>5. Len(feedback') = Len(feedback) + 1
      BY <1>3, <2>4
    <2>6. /\ counts' \in [Positions -> 0..(CountSize - 1)] /\ countGen' \in [Positions -> Nat]
          /\ counts'[q] = IF q = p THEN n ELSE counts[q]
          /\ countGen'[q] = IF q = p THEN gen'[p] ELSE countGen[q]
      BY <1>1, <1>2, <2>1
    <2> QED BY <1>2, <1>3, <1>5, <2>2, <2>4, <2>5, <2>6
  <1> QED BY <1>4, <1>5

LEMMA ViewNumbers ==
  ASSUME ViewInv, NEW q \in Positions
  PROVE  /\ damageRev[q] \in Nat /\ damageRev[q] <= blockRev /\ changeRev[q] \in Nat
         /\ changeRev[q] <= blockRev /\ blockRev \in Nat /\ said[q] \in Words
         /\ said[q].gen \in Nat /\ gen[q] \in Nat /\ countGen[q] \in Nat
  <1>1. blockRev \in Nat
    BY PlayConstants DEF ViewInv, ViewTypes
  <1>2. /\ damageRev[q] \in Nat /\ changeRev[q] \in Nat /\ gen[q] \in Nat /\ countGen[q] \in Nat
        /\ said[q] \in Words
    BY DEF ViewInv, ViewTypes
  <1>3. damageRev[q] <= blockRev /\ changeRev[q] <= blockRev
    BY DEF ViewInv, OnTime
  <1> QED BY <1>1, <1>2, <1>3 DEF Words

LEMMA ServerKeepsUpdates ==
  ASSUME ViewInv, Plain, NEW p \in Positions, NEW changed \in BOOLEAN, NEW told \in BOOLEAN,
         LaneGrows(p, changed), ServerChanges(p, changed), ServerTells(p, told), ClientWaits,
         NEW q \in Positions, blockLane' \in Seq(Frames)
  PROVE  UpdatesFit(q)'
  <1>1. /\ said'[q].gen = said[q].gen /\ changeRev'[q] = changeRev[q]
        /\ damageRev'[q] = damageRev[q] /\ damageRev[q] \in Nat /\ damageRev[q] <= blockRev
        /\ changeRev[q] \in Nat /\ changeRev[q] <= blockRev /\ blockRev \in Nat
        /\ said[q].gen \in Nat /\ gen[q] \in Nat
    BY ViewNumbers DEF ClientWaits
  <1>2. ToldOfChanges(q)' /\ ToldOfChanges(q) /\ UpdatesFit(q)
    BY ServerKeepsChanges DEF ViewInv, CrackInv
  <1>3. /\ gen'[q] = IF changed /\ q = p THEN gen[q] + 1 ELSE gen[q]
        /\ blockRev' = IF changed THEN blockRev + 1 ELSE blockRev
    BY DEF ServerChanges, ViewInv, ViewTypes
  <1>4. Len(feedback') \in Nat /\ DOMAIN feedback' = 1..Len(feedback') /\ feedback' \in Seq(Cracks)
    BY ServerFeeds
  <1>5. ASSUME NEW i \in DOMAIN feedback', feedback'[i].pos = q
        PROVE  \/ i \in DOMAIN feedback /\ feedback'[i] = feedback[i]
               \/ /\ told /\ q = p /\ i = Len(feedback')
                  /\ feedback'[i].rev = blockRev' /\ feedback'[i].gen = gen'[q]
    BY <1>5, ServerFeeds
  <1>6. ASSUME NEW i \in DOMAIN feedback', feedback'[i].pos = q
        PROVE  feedback'[i].rev \in Nat /\ feedback'[i].gen \in Nat
    <2>1. feedback'[i] \in Cracks
      BY <1>4, ElementOfSeq
    <2> QED BY <2>1 DEF Cracks
  <1>7. ASSUME NEW i \in DOMAIN feedback, feedback[i].pos = q
        PROVE  /\ feedback[i].rev \in Nat /\ feedback[i].gen \in Nat /\ feedback[i].rev <= blockRev
               /\ feedback[i].gen <= gen[q]
    BY <1>2, <1>7, LaneFacts DEF Cracks, ViewInv, OnTime, UpdatesFit
  <1>8. ASSUME NEW j \in DOMAIN blockLane', Alters(blockLane'[j], q)
        PROVE  /\ blockLane'[j].rev \in Nat /\ blockLane'[j].word.gen \in Nat
               /\ blockLane'[j].word.gen <= gen'[q] /\ blockLane'[j].rev <= blockRev'
               /\ \/ j \in DOMAIN blockLane /\ blockLane'[j] = blockLane[j]
                  \/ /\ changed /\ q = p
                     /\ blockLane'[j].rev = blockRev + 1 /\ blockLane'[j].word.gen = gen[q] + 1
    <2>1. blockLane'[j] \in Frames
      BY ElementOfSeq
    <2>2. CASE j \in DOMAIN blockLane /\ blockLane'[j] = blockLane[j]
      <3>1. blockLane[j].rev \in 1..blockRev
        BY <1>8, <2>2 DEF ViewInv, OnTime, Alters
      <3> QED BY <1>1, <1>2, <1>3, <1>8, <2>1, <2>2, <3>1, ChangeIs DEF ToldOfChanges
    <2>3. CASE changed /\ IsNew(blockLane'[j], p)
      BY <1>1, <1>3, <1>8, <2>1, <2>3, ChangeIs DEF IsNew, Alters
    <2> QED BY <1>8, <2>2, <2>3 DEF LaneGrows, Alters
  <1>9. said[q].gen <= gen'[q]
    <2>1. CASE said[q].gen = gen[q]
      BY <1>1, <1>3, <2>1
    <2>2. CASE \E i \in DOMAIN blockLane : Alters(blockLane[i], q) /\ blockLane[i].word.gen = gen[q]
      BY <1>1, <1>2, <1>3, <2>2 DEF ToldOfChanges
    <2> QED BY <1>2, <2>1, <2>2 DEF ToldOfChanges
  <1>10. ASSUME NEW i \in DOMAIN feedback', feedback'[i].pos = q
         PROVE  LET f == feedback'[i]
                IN /\ f.gen <= gen'[q] /\ damageRev'[q] <= f.rev
                   /\ f.rev < changeRev'[q] <=> f.gen < said'[q].gen
                   /\ damageRev'[q] # 0 => f.gen >= said'[q].gen
    <2>1. CASE i \in DOMAIN feedback /\ feedback'[i] = feedback[i]
      BY <1>1, <1>2, <1>3, <1>7, <1>10, <2>1 DEF UpdatesFit
    <2>2. CASE feedback'[i].rev = blockRev' /\ feedback'[i].gen = gen'[q]
      BY <1>1, <1>3, <1>9, <2>2
    <2> QED BY <1>5, <1>10, <2>1, <2>2
  <1>11. ASSUME NEW i \in DOMAIN feedback', feedback'[i].pos = q,
                NEW j \in DOMAIN blockLane', Alters(blockLane'[j], q)
         PROVE  feedback'[i].rev < blockLane'[j].rev <=> feedback'[i].gen < blockLane'[j].word.gen
    <2>1. CASE i \in DOMAIN feedback /\ feedback'[i] = feedback[i]
               /\ j \in DOMAIN blockLane /\ blockLane'[j] = blockLane[j]
      BY <1>2, <1>11, <2>1 DEF UpdatesFit
    <2>2. CASE i \in DOMAIN feedback /\ feedback'[i] = feedback[i]
               /\ blockLane'[j].rev = blockRev + 1 /\ blockLane'[j].word.gen = gen[q] + 1
      BY <1>1, <1>7, <1>11, <2>2
    <2>3. CASE feedback'[i].rev = blockRev' /\ feedback'[i].gen = gen'[q]
      BY <1>1, <1>3, <1>8, <1>11, <2>3
    <2> QED BY <1>5, <1>8, <1>11, <2>1, <2>2, <2>3
  <1>12. ASSUME NEW i \in DOMAIN feedback', feedback'[i].pos = q,
                NEW j \in DOMAIN feedback', i < j, feedback'[j].pos = q
         PROVE  feedback'[i].rev <= feedback'[j].rev /\ feedback'[i].gen <= feedback'[j].gen
    <2>1. i \in DOMAIN feedback /\ feedback'[i] = feedback[i]
      <3>1. i # Len(feedback')
        BY <1>4, <1>12
      <3> QED BY <1>5, <1>12, <3>1
    <2>2. CASE j \in DOMAIN feedback /\ feedback'[j] = feedback[j]
      BY <1>2, <1>12, <2>1, <2>2 DEF UpdatesFit
    <2>3. CASE feedback'[j].rev = blockRev' /\ feedback'[j].gen = gen'[q]
      BY <1>1, <1>3, <1>7, <1>12, <2>1, <2>3
    <2> QED BY <1>5, <1>12, <2>2, <2>3
  <1> QED BY <1>10, <1>11, <1>12 DEF UpdatesFit, Alters

LEMMA ServerKeepsCounts ==
  ASSUME ViewInv, Plain, NEW p \in Positions, NEW changed \in BOOLEAN, NEW told \in BOOLEAN,
         LaneGrows(p, changed), ServerChanges(p, changed), ServerTells(p, told), ClientWaits,
         NEW q \in Positions, blockLane' \in Seq(Frames)
  PROVE  ToldOfCounts(q)'
  <1>1. /\ said'[q].gen = said[q].gen /\ cracks'[q] = cracks[q]
        /\ damageRev'[q] = damageRev[q] /\ damageRev[q] \in Nat /\ damageRev[q] <= blockRev
        /\ blockRev \in Nat /\ said[q].gen \in Nat /\ gen[q] \in Nat /\ countGen[q] \in Nat
        /\ ToldOfCounts(q)
    BY DEF ClientWaits, ViewInv, ViewTypes, OnTime, Words, CrackInv
  <1>2. /\ gen'[q] = IF changed /\ q = p THEN gen[q] + 1 ELSE gen[q]
        /\ blockRev' = IF changed THEN blockRev + 1 ELSE blockRev
    BY DEF ServerChanges, ViewInv, ViewTypes
  <1>3. Len(feedback') \in Nat /\ DOMAIN feedback' = 1..Len(feedback')
    BY ServerFeeds
  <1>4. CASE told /\ q = p
    <2>0. PICK n \in Nat : n = Len(feedback')
      BY <1>3
    <2>1. IsLastOf(n, q)'
      <3>1. /\ countGen'[q] = gen'[q] /\ Len(feedback') = Len(feedback) + 1
            /\ feedback'[n].pos = q /\ feedback'[n].gen = gen'[q]
            /\ feedback'[n].punches = counts'[q]
        BY <1>4, <2>0, ServerFeeds
      <3>2. n \in DOMAIN feedback' /\ \A j \in DOMAIN feedback' : ~(n < j)
        BY <1>3, <2>0, <3>1, LaneFacts DEF ViewInv
      <3> QED BY <3>1, <3>2 DEF IsLastOf
    <2>2. countGen'[q] = gen'[q]
      BY <1>4, ServerFeeds
    <2>3. countGen'[q] <= gen'[q]
      BY <1>1, <1>2, <2>2
    <2> QED BY <2>1, <2>3 DEF ToldOfCounts, IsLastOf
  <1>5. CASE ~(told /\ q = p)
    <2>1. /\ counts'[q] = counts[q] /\ countGen'[q] = countGen[q]
          /\ \A i \in DOMAIN feedback' : feedback'[i].pos = q => i \in DOMAIN feedback
          /\ \A i \in DOMAIN feedback : i \in DOMAIN feedback' /\ feedback'[i] = feedback[i]
      BY <1>5, ServerFeeds
    <2>2. countGen'[q] <= gen'[q]
      BY <1>1, <1>2, <2>1 DEF ToldOfCounts
    <2>3. CASE \E i \in DOMAIN feedback : IsLastOf(i, q)
      <3>1. PICK i \in DOMAIN feedback : IsLastOf(i, q)
        BY <2>3
      <3>2. IsLastOf(i, q)'
        BY <2>1, <3>1 DEF IsLastOf
      <3> QED BY <2>1, <2>2, <3>2 DEF ToldOfCounts, IsLastOf
    <2>4. CASE (\A i \in DOMAIN feedback : feedback[i].pos # q) /\ ShownIsTold(q)
      <3>1. \A i \in DOMAIN feedback' : feedback'[i].pos # q
        BY <2>1, <2>4
      <3>2. ASSUME damageRev[q] # 0, NEW j \in DOMAIN blockLane', Alters(blockLane'[j], q)
            PROVE  damageRev[q] < blockLane'[j].rev <=> countGen[q] < blockLane'[j].word.gen
        <4>1. CASE j \in DOMAIN blockLane /\ blockLane'[j] = blockLane[j]
          BY <2>4, <3>2, <4>1 DEF ShownIsTold
        <4>2. CASE changed /\ q = p
                   /\ blockLane'[j].rev = blockRev + 1 /\ blockLane'[j].word.gen = gen[q] + 1
          BY <1>1, <1>2, <2>1, <2>2, <4>2 DEF ToldOfCounts
        <4> QED BY <3>2, <4>1, <4>2 DEF LaneGrows, IsNew, Alters
      <3>3. ShownIsTold(q)'
        BY <1>1, <2>1, <2>4, <3>2 DEF ShownIsTold, Alters
      <3> QED BY <2>2, <3>1, <3>3 DEF ToldOfCounts
    <2> QED BY <1>1, <2>3, <2>4 DEF ToldOfCounts
  <1> QED BY <1>4, <1>5

\* Where all changes are told, a step of the server keeps what revisions and generations say.
LEMMA ServerKeepsCracks ==
  ASSUME ViewInv, NEW p \in Positions, NEW changed \in BOOLEAN, NEW told \in BOOLEAN,
         Plain => LaneGrows(p, changed), ServerChanges(p, changed), ServerTells(p, told),
         ClientWaits, blockLane' \in Seq(Frames),
         Plain => UNCHANGED <<inView, covered>> /\ sent' = blockRev'
  PROVE  CrackInv'
  <1> SUFFICES ASSUME Plain PROVE CrackInv'
    BY DEF CrackInv, Plain, ClientWaits
  <1>1. inView' /\ covered' /\ sent' = blockRev' /\ held' # Absent
    BY DEF ViewInv, CrackInv, ClientWaits
  <1>2. \A i \in DOMAIN blockLane' : blockLane'[i].type \in {"delta", "result"}
    BY DEF ViewInv, CrackInv, LaneGrows, IsNew, Alters
  <1>3. \A q \in Positions : ToldOfChanges(q)' /\ UpdatesFit(q)' /\ ToldOfCounts(q)'
    BY ServerKeepsChanges, ServerKeepsUpdates, ServerKeepsCounts
  <1> QED BY <1>1, <1>2, <1>3 DEF CrackInv

\* New frames are of the newest revision at most.
LaneOnTime ==
  \A i \in DOMAIN blockLane' :
    \/ i \in DOMAIN blockLane /\ blockLane'[i] = blockLane[i]
    \/ blockLane'[i].type \in {"add", "delta"} => blockLane'[i].rev \in 1..blockRev'

LEMMA ServerIsOnTime ==
  ASSUME ViewInv, ClientWaits, blockRev' \in Nat, blockRev <= blockRev', LaneOnTime,
         \A i \in DOMAIN feedback' : \/ i \in DOMAIN feedback /\ feedback'[i] = feedback[i]
                                     \/ feedback'[i].rev \in 1..blockRev'
  PROVE  OnTime' /\ WordInv'
  <1>1. blockRev \in Nat /\ 1..blockRev \subseteq 1..blockRev'
    BY PlayConstants DEF ViewInv, ViewTypes
  <1>2. \A p \in Positions : /\ cracks'[p] = 0 <=> damageRev'[p] = 0
                             /\ damageRev'[p] <= blockRev' /\ changeRev'[p] <= blockRev'
    BY <1>1, ViewNumbers DEF ViewInv, OnTime, ClientWaits
  <1>3. OnTime'
    BY <1>1, <1>2 DEF ViewInv, OnTime, LaneOnTime
  <1>4. WordInv'
    BY DEF ViewInv, WordInv, ClientWaits
  <1> QED BY <1>3, <1>4

LEMMA ServerTypes ==
  ASSUME ViewInv, ClientWaits, block' \in [Positions -> View!Cells], blockRev' \in 1..MaxRev,
         counts' \in [Positions -> 0..(CountSize - 1)], gen' \in [Positions -> Nat],
         inView' \in BOOLEAN, covered' \in BOOLEAN, sent' \in 0..MaxRev, UNCHANGED edits,
         countGen' \in [Positions -> Nat],
         up' \in Seq([seq : Nat, pos : Positions, block : View!Cells]),
         blockLane' \in Seq(Frames), feedback' \in Seq(Cracks)
  PROVE  ViewTypes' /\ ways' \in Settings
  <1>1. inView' \in BOOLEAN /\ covered' \in BOOLEAN
    OBVIOUS
  <1> QED BY <1>1 DEF ViewTypes, ViewInv, ClientWaits

LEMMA BlockChanges ==
  ASSUME ViewInv, NEW p \in Positions, NEW b \in View!Cells, View!Replace(p, b)
  PROVE  /\ ServerChanges(p, TRUE) /\ block' \in [Positions -> View!Cells]
         /\ gen' \in [Positions -> Nat] /\ blockRev' \in 1..MaxRev
         /\ blockRev' = blockRev + 1 /\ blockRev \in Nat \ {0}
         /\ View!Delta(p, b) \in Frames /\ IsNew(View!Delta(p, b), p)
  <1>1. /\ blockRev \in 1..MaxRev /\ MaxRev \in Nat /\ gen \in [Positions -> Nat]
        /\ block \in [Positions -> View!Cells] /\ blockRev < MaxRev
    BY PlayConstants DEF ViewInv, ViewTypes, View!Replace, View!ViewConstants
  <1>2. /\ blockRev' = blockRev + 1 /\ gen' = [gen EXCEPT ![p] = @ + 1]
        /\ block' = [block EXCEPT ![p] = b]
    BY DEF View!Replace
  <1>3. gen[p] + 1 \in Nat /\ blockRev + 1 \in Nat
    BY <1>1
  <1>4. View!Delta(p, b) \in [type : {"delta"}, pos : Positions, rev : Nat, word : Words]
    BY <1>3 DEF View!Delta, Words
  <1>5. IsNew(View!Delta(p, b), p)
    BY DEF IsNew, Alters, View!Delta
  <1> QED BY <1>1, <1>2, <1>3, <1>4, <1>5 DEF ServerChanges, Frames

\* One frame more.
LEMMA LaneAppended ==
  ASSUME ViewInv, NEW f \in Frames, blockLane' = Append(blockLane, f), NEW p,
         f.type \in {"add", "delta"} => f.rev \in 1..blockRev'
  PROVE  /\ blockLane' \in Seq(Frames) /\ LaneOnTime
         /\ f.type = "result" => LaneGrows(p, FALSE)
         /\ IsNew(f, p) => LaneGrows(p, TRUE)
  <1>1. /\ blockLane' \in Seq(Frames) /\ DOMAIN blockLane' = 1..(Len(blockLane) + 1)
        /\ blockLane'[Len(blockLane) + 1] = f /\ DOMAIN blockLane = 1..Len(blockLane)
        /\ Len(blockLane) \in Nat /\ Len(blockLane') = Len(blockLane) + 1
        /\ \A i \in DOMAIN blockLane : i \in DOMAIN blockLane' /\ blockLane'[i] = blockLane[i]
        /\ \A i \in DOMAIN blockLane' : i \in DOMAIN blockLane \/ i = Len(blockLane) + 1
    <2>1. blockLane \in Seq(Frames)
      BY DEF ViewInv, ViewTypes
    <2>2. Len(Append(blockLane, f)) = Len(blockLane) + 1
      BY <2>1
    <2> QED BY <2>1, <2>2, PutAtEnd
  <1>2. LaneOnTime
    BY <1>1 DEF LaneOnTime
  <1>3. ASSUME f.type = "result" PROVE LaneGrows(p, FALSE)
    BY <1>1, <1>3 DEF LaneGrows
  <1>4. ASSUME IsNew(f, p) PROVE LaneGrows(p, TRUE)
    <2>1. Len(blockLane') \in DOMAIN blockLane' /\ Len(blockLane') \notin DOMAIN blockLane
      BY <1>1
    <2> QED BY <1>1, <1>4, <2>1 DEF LaneGrows
  <1> QED BY <1>1, <1>2, <1>3, <1>4

LEMMA LaneIsKept ==
  ASSUME ViewInv, UNCHANGED blockLane, NEW p
  PROVE  blockLane' \in Seq(Frames) /\ LaneOnTime /\ LaneGrows(p, FALSE)
BY DEF ViewInv, ViewTypes, LaneOnTime, LaneGrows

\* A block is changed by others, and the player told if the chunk is mirrored.
LEMMA BrokenDoes ==
  ASSUME ViewInv, NEW p \in Positions, NEW b \in View!Cells, View!Broken(p, b), UNCHANGED covered
  PROVE  /\ ServerChanges(p, TRUE) /\ block' \in [Positions -> View!Cells]
         /\ gen' \in [Positions -> Nat] /\ blockRev' \in 1..MaxRev /\ sent' \in 0..MaxRev
         /\ blockRev' = blockRev + 1 /\ blockRev \in Nat
         /\ blockLane' \in Seq(Frames) /\ LaneOnTime
         /\ covered => LaneGrows(p, TRUE) /\ sent' = blockRev'
  <1>1. /\ View!Replace(p, b) /\ blockLane' = IF covered THEN Append(blockLane, View!Delta(p, b))
                                              ELSE blockLane
        /\ sent' = IF covered THEN blockRev + 1 ELSE sent
    BY DEF View!Broken
  <1>2. /\ ServerChanges(p, TRUE) /\ block' \in [Positions -> View!Cells]
        /\ gen' \in [Positions -> Nat] /\ blockRev' \in 1..MaxRev
        /\ blockRev' = blockRev + 1 /\ blockRev \in Nat \ {0}
        /\ View!Delta(p, b) \in Frames /\ IsNew(View!Delta(p, b), p)
    BY <1>1, BlockChanges
  <1>3. sent' \in 0..MaxRev
    BY <1>1, <1>2 DEF ViewInv, ViewTypes
  <1>4. View!Delta(p, b).rev \in 1..blockRev'
    BY <1>2 DEF IsNew
  <1>5. CASE covered
    BY <1>1, <1>2, <1>3, <1>4, <1>5, LaneAppended
  <1>6. CASE ~covered
    BY <1>1, <1>2, <1>3, <1>6, LaneIsKept
  <1> QED BY <1>5, <1>6

LEMMA HandleEditStep == ASSUME ViewInv, View!HandleEdit, UNCHANGED ways PROVE ViewInv'
  <1> DEFINE e == Head(up)
  <1>1. /\ e \in [seq : Nat, pos : Positions, block : View!Cells]
        /\ up' \in Seq([seq : Nat, pos : Positions, block : View!Cells])
    BY TakenFromFront DEF View!HandleEdit, ViewInv, ViewTypes
  <1>2. /\ ClientWaits /\ UNCHANGED <<counts, inView, covered, events, countGen, feedback, edits>>
    BY DEF View!HandleEdit, View!client, ClientWaits
  <1>3. /\ feedback' \in Seq(Cracks) /\ counts' \in [Positions -> 0..(CountSize - 1)]
        /\ inView' \in BOOLEAN /\ covered' \in BOOLEAN /\ countGen' \in [Positions -> Nat]
        /\ \A i \in DOMAIN feedback' : i \in DOMAIN feedback /\ feedback'[i] = feedback[i]
        /\ ServerTells(e.pos, FALSE)
    BY <1>2 DEF ViewInv, ViewTypes, ServerTells
  <1>4. \A ok \in BOOLEAN : View!Result(e, ok) \in Frames /\ View!Result(e, ok).type = "result"
    BY <1>1 DEF View!Result, Frames
  <1>5. CASE /\ blockLane' = Append(blockLane, View!Result(e, FALSE))
             /\ UNCHANGED <<block, blockRev, gen, sent>>
    <2>1. /\ blockLane' \in Seq(Frames) /\ LaneOnTime /\ LaneGrows(e.pos, FALSE)
      BY <1>4, <1>5, LaneAppended
    <2>2. /\ ServerChanges(e.pos, FALSE) /\ blockRev' \in Nat /\ blockRev <= blockRev'
          /\ block' \in [Positions -> View!Cells] /\ blockRev' \in 1..MaxRev
          /\ gen' \in [Positions -> Nat] /\ sent' \in 0..MaxRev
      BY <1>5, PlayConstants DEF ServerChanges, ViewInv, ViewTypes
    <2>3. Plain => sent' = blockRev'
      BY <1>5 DEF ViewInv, CrackInv
    <2>4. OnTime' /\ WordInv'
      BY <1>2, <1>3, <2>1, <2>2, ServerIsOnTime
    <2>5. ViewTypes' /\ ways' \in Settings
      BY <1>1, <1>2, <1>3, <2>1, <2>2, ServerTypes
    <2>6. CrackInv'
      BY <1>1, <1>2, <1>3, <2>1, <2>2, <2>3, ServerKeepsCracks
    <2> QED BY <2>4, <2>5, <2>6 DEF ViewInv
  <1>6. CASE /\ View!Replace(e.pos, e.block) /\ sent' = blockRev + 1
             /\ blockLane' = Append(Append(blockLane, View!Result(e, TRUE)),
                                    View!Delta(e.pos, e.block))
    <2> DEFINE d == View!Delta(e.pos, e.block)
               r == View!Result(e, TRUE)
               mid == Append(blockLane, r)
    <2>1. /\ ServerChanges(e.pos, TRUE) /\ block' \in [Positions -> View!Cells]
          /\ gen' \in [Positions -> Nat] /\ blockRev' \in 1..MaxRev
          /\ blockRev' = blockRev + 1 /\ blockRev \in Nat \ {0}
          /\ d \in Frames /\ IsNew(d, e.pos)
      BY <1>1, <1>6, BlockChanges
    <2>2. r \in Frames /\ r.type = "result"
      BY <1>4
    <2>3. blockLane' = Append(mid, d)
      BY <1>6
    <2> HIDE DEF d, r
    <2>4. /\ mid \in Seq(Frames) /\ DOMAIN mid = 1..(Len(blockLane) + 1)
          /\ mid[Len(blockLane) + 1] = r /\ DOMAIN blockLane = 1..Len(blockLane)
          /\ Len(blockLane) \in Nat
          /\ \A i \in DOMAIN blockLane : i \in DOMAIN mid /\ mid[i] = blockLane[i]
          /\ \A i \in DOMAIN mid : i \in DOMAIN blockLane \/ i = Len(blockLane) + 1
      <3>1. blockLane \in Seq(Frames)
        BY DEF ViewInv, ViewTypes
      <3> QED BY <2>2, <3>1, PutAtEnd
    <2> HIDE DEF mid
    <2>5. /\ blockLane' \in Seq(Frames) /\ DOMAIN blockLane' = 1..(Len(mid) + 1)
          /\ blockLane'[Len(mid) + 1] = d /\ Len(mid) \in Nat
          /\ \A i \in DOMAIN mid : i \in DOMAIN blockLane' /\ blockLane'[i] = mid[i]
          /\ \A i \in DOMAIN blockLane' : i \in DOMAIN mid \/ i = Len(mid) + 1
      BY <2>1, <2>3, <2>4, PutAtEnd
    <2>6. Len(mid) = Len(blockLane) + 1 /\ Len(blockLane') = Len(mid) + 1
      BY <2>4, <2>5
    <2>7. LaneGrows(e.pos, TRUE)
      <3>1. \A i \in DOMAIN blockLane : i \in DOMAIN blockLane' /\ blockLane'[i] = blockLane[i]
        BY <2>4, <2>5
      <3>2. ASSUME NEW i \in DOMAIN blockLane'
            PROVE  \/ i \in DOMAIN blockLane \/ blockLane'[i].type = "result"
                   \/ i = Len(blockLane') /\ IsNew(blockLane'[i], e.pos)
        BY <2>1, <2>2, <2>4, <2>5, <2>6, <3>2
      <3>3. /\ Len(blockLane') \in DOMAIN blockLane' /\ Len(blockLane') \notin DOMAIN blockLane
            /\ IsNew(blockLane'[Len(blockLane')], e.pos)
        BY <2>1, <2>4, <2>5, <2>6
      <3> QED BY <3>1, <3>2, <3>3 DEF LaneGrows
    <2>8. LaneOnTime
      <3>1. d.rev \in 1..blockRev'
        BY <2>1 DEF IsNew
      <3> QED BY <2>2, <2>4, <2>5, <2>6, <3>1 DEF LaneOnTime
    <2>9. sent' \in 0..MaxRev /\ sent' = blockRev' /\ blockRev' \in Nat /\ blockRev <= blockRev'
      BY <1>6, <2>1
    <2>10. OnTime' /\ WordInv'
      BY <1>2, <1>3, <2>8, <2>9, ServerIsOnTime
    <2>11. ViewTypes' /\ ways' \in Settings
      BY <1>1, <1>2, <1>3, <2>1, <2>5, <2>9, ServerTypes
    <2>12. CrackInv'
      BY <1>1, <1>2, <1>3, <2>1, <2>5, <2>7, <2>9, ServerKeepsCracks
    <2> QED BY <2>10, <2>11, <2>12 DEF ViewInv
  <1> QED BY <1>5, <1>6 DEF View!HandleEdit

LEMMA OtherEditStep ==
  ASSUME ViewInv, NEW p \in Positions, NEW b \in View!Cells, View!OtherEdit(p, b), UNCHANGED ways
  PROVE  ViewInv'
  <1>1. /\ View!Broken(p, b) /\ ClientWaits
        /\ UNCHANGED <<counts, inView, covered, events, countGen, feedback, up, edits>>
    BY DEF View!OtherEdit, View!client, ClientWaits
  <1>2. /\ ServerChanges(p, TRUE) /\ block' \in [Positions -> View!Cells]
        /\ gen' \in [Positions -> Nat] /\ blockRev' \in 1..MaxRev /\ sent' \in 0..MaxRev
        /\ blockRev' = blockRev + 1 /\ blockRev \in Nat
        /\ blockLane' \in Seq(Frames) /\ LaneOnTime
        /\ covered => LaneGrows(p, TRUE) /\ sent' = blockRev'
    BY <1>1, BrokenDoes
  <1>3. /\ feedback' \in Seq(Cracks) /\ counts' \in [Positions -> 0..(CountSize - 1)]
        /\ inView' \in BOOLEAN /\ covered' \in BOOLEAN /\ countGen' \in [Positions -> Nat]
        /\ \A i \in DOMAIN feedback' : i \in DOMAIN feedback /\ feedback'[i] = feedback[i]
        /\ ServerTells(p, FALSE)
        /\ up' \in Seq([seq : Nat, pos : Positions, block : View!Cells])
    BY <1>1 DEF ViewInv, ViewTypes, ServerTells
  <1>4. OnTime' /\ WordInv'
    BY <1>1, <1>2, <1>3, ServerIsOnTime
  <1>5. ViewTypes' /\ ways' \in Settings
    BY <1>1, <1>2, <1>3, ServerTypes
  <1>6. Plain => covered
    BY DEF ViewInv, CrackInv
  <1>7. CrackInv'
    BY <1>1, <1>2, <1>3, <1>6, ServerKeepsCracks
  <1> QED BY <1>4, <1>5, <1>7 DEF ViewInv

LEMMA ScriptSetStep ==
  ASSUME ViewInv, NEW p \in Positions, NEW b \in View!Cells, View!ScriptSet(p, b), UNCHANGED ways
  PROVE  ViewInv'
  <1>1. /\ View!Replace(p, b) /\ ClientWaits /\ ~Plain
        /\ UNCHANGED <<counts, inView, covered, sent, events, countGen, blockLane, feedback, up, edits>>
    BY DEF View!ScriptSet, View!client, ClientWaits, Plain
  <1>2. /\ block' \in [Positions -> View!Cells] /\ gen' \in [Positions -> Nat]
        /\ blockRev' \in 1..MaxRev /\ blockRev' = blockRev + 1 /\ blockRev \in Nat
    BY <1>1, BlockChanges
  <1>3. /\ feedback' \in Seq(Cracks) /\ counts' \in [Positions -> 0..(CountSize - 1)]
        /\ inView' \in BOOLEAN /\ covered' \in BOOLEAN /\ countGen' \in [Positions -> Nat]
        /\ \A i \in DOMAIN feedback' : i \in DOMAIN feedback /\ feedback'[i] = feedback[i]
        /\ up' \in Seq([seq : Nat, pos : Positions, block : View!Cells])
        /\ sent' \in 0..MaxRev
    BY <1>1 DEF ViewInv, ViewTypes
  <1>4. blockLane' \in Seq(Frames) /\ LaneOnTime
    BY <1>1, LaneIsKept
  <1>5. OnTime' /\ WordInv'
    BY <1>1, <1>2, <1>3, <1>4, ServerIsOnTime
  <1>6. ViewTypes' /\ ways' \in Settings
    BY <1>1, <1>2, <1>3, <1>4, ServerTypes
  <1>7. CrackInv'
    BY <1>1 DEF CrackInv, Plain, ClientWaits
  <1> QED BY <1>5, <1>6, <1>7 DEF ViewInv

\* The server's count goes to whoever mirrors the chunk.
LEMMA BroadcastDoes ==
  ASSUME ViewInv, NEW p \in Positions, NEW n \in 0..(CountSize - 1), View!Broadcast(p, n),
         gen' \in [Positions -> Nat], blockRev' \in 1..MaxRev, UNCHANGED covered
  PROVE  /\ counts' \in [Positions -> 0..(CountSize - 1)] /\ countGen' \in [Positions -> Nat]
         /\ feedback' \in Seq(Cracks)
         /\ \A i \in DOMAIN feedback' : \/ i \in DOMAIN feedback /\ feedback'[i] = feedback[i]
                                        \/ feedback'[i].rev \in 1..blockRev'
         /\ covered => ServerTells(p, TRUE)
  <1> DEFINE f == [pos |-> p, punches |-> n, rev |-> blockRev', gen |-> gen'[p]]
  <1>1. /\ feedback' = IF covered THEN Append(feedback, f) ELSE feedback
        /\ counts' = [counts EXCEPT ![p] = n] /\ countGen' = [countGen EXCEPT ![p] = gen'[p]]
    BY DEF View!Broadcast
  <1>2. f \in Cracks /\ f.rev \in 1..blockRev'
    BY PlayConstants DEF Cracks
  <1>3. covered => ServerTells(p, TRUE)
    BY <1>1 DEF ServerTells
  <1> HIDE DEF f
  <1>4. feedback \in Seq(Cracks)
    BY DEF ViewInv, ViewTypes
  <1>5. /\ feedback' \in Seq(Cracks)
        /\ \A i \in DOMAIN feedback' : \/ i \in DOMAIN feedback /\ feedback'[i] = feedback[i]
                                       \/ feedback'[i].rev \in 1..blockRev'
    <2>1. CASE covered
      BY <1>1, <1>2, <1>4, <2>1, PutAtEnd
    <2>2. CASE ~covered
      BY <1>1, <1>4, <2>2
    <2> QED BY <2>1, <2>2
  <1>6. counts' \in [Positions -> 0..(CountSize - 1)] /\ countGen' \in [Positions -> Nat]
    BY <1>1 DEF ViewInv, ViewTypes
  <1> QED BY <1>3, <1>5, <1>6

LEMMA PunchStep ==
  ASSUME ViewInv, NEW p \in Positions, NEW damage \in 1..2, View!Punch(p, damage), UNCHANGED ways
  PROVE  ViewInv'
  <1> DEFINE n == (counts[p] + damage) % CountSize
  <1>1. ClientWaits /\ UNCHANGED <<inView, covered, up, edits>>
    BY DEF View!Punch, View!client, ClientWaits
  <1>2. /\ n \in 0..(CountSize - 1) /\ 0 \in 0..(CountSize - 1)
    <2>1. counts[p] + damage \in Nat /\ CountSize \in Nat \ {0}
      <3>1. CountSize \in Nat \ {0}
        BY PlayConstants DEF View!ViewConstants
      <3>2. counts[p] \in 0..(CountSize - 1)
        BY DEF ViewInv, ViewTypes
      <3> QED BY <3>1, <3>2
    <2> QED BY <2>1
  <1>3. /\ inView' \in BOOLEAN /\ covered' \in BOOLEAN
        /\ up' \in Seq([seq : Nat, pos : Positions, block : View!Cells])
    BY <1>1 DEF ViewInv, ViewTypes
  <1>4. Plain => covered /\ sent = blockRev
    BY DEF ViewInv, CrackInv
  <1> HIDE DEF n
  <1>5. CASE UNCHANGED <<block, blockRev, gen, blockLane, sent>> /\ View!Broadcast(p, n)
    <2>1. /\ ServerChanges(p, FALSE) /\ blockRev' \in Nat /\ blockRev <= blockRev'
          /\ block' \in [Positions -> View!Cells] /\ blockRev' \in 1..MaxRev
          /\ gen' \in [Positions -> Nat] /\ sent' \in 0..MaxRev
      BY <1>5, PlayConstants DEF ServerChanges, ViewInv, ViewTypes
    <2>2. blockLane' \in Seq(Frames) /\ LaneOnTime /\ LaneGrows(p, FALSE)
      BY <1>5, LaneIsKept
    <2>3. /\ counts' \in [Positions -> 0..(CountSize - 1)] /\ countGen' \in [Positions -> Nat]
          /\ feedback' \in Seq(Cracks)
          /\ \A i \in DOMAIN feedback' : \/ i \in DOMAIN feedback /\ feedback'[i] = feedback[i]
                                         \/ feedback'[i].rev \in 1..blockRev'
          /\ covered => ServerTells(p, TRUE)
      BY <1>1, <1>2, <1>5, <2>1, BroadcastDoes
    <2>4. OnTime' /\ WordInv'
      BY <1>1, <2>1, <2>2, <2>3, ServerIsOnTime
    <2>5. ViewTypes' /\ ways' \in Settings
      BY <1>1, <1>3, <2>1, <2>2, <2>3, ServerTypes
    <2>6. CrackInv'
      <3>1. CASE covered
        BY <1>1, <1>4, <1>5, <2>1, <2>2, <2>3, <3>1, ServerKeepsCracks
      <3>2. CASE ~covered
        BY <1>1, <1>4, <3>2 DEF CrackInv, Plain, ClientWaits
      <3> QED BY <3>1, <3>2
    <2> QED BY <2>4, <2>5, <2>6 DEF ViewInv
  <1>6. CASE View!Broken(p, Air) /\ View!Broadcast(p, 0)
    <2>1. Air \in View!Cells
      BY DEF View!Cells
    <2>2. /\ ServerChanges(p, TRUE) /\ block' \in [Positions -> View!Cells]
          /\ gen' \in [Positions -> Nat] /\ blockRev' \in 1..MaxRev /\ sent' \in 0..MaxRev
          /\ blockRev' = blockRev + 1 /\ blockRev \in Nat
          /\ blockLane' \in Seq(Frames) /\ LaneOnTime
          /\ covered => LaneGrows(p, TRUE) /\ sent' = blockRev'
      BY <1>1, <1>6, <2>1, BrokenDoes
    <2>3. /\ counts' \in [Positions -> 0..(CountSize - 1)] /\ countGen' \in [Positions -> Nat]
          /\ feedback' \in Seq(Cracks)
          /\ \A i \in DOMAIN feedback' : \/ i \in DOMAIN feedback /\ feedback'[i] = feedback[i]
                                         \/ feedback'[i].rev \in 1..blockRev'
          /\ covered => ServerTells(p, TRUE)
      BY <1>1, <1>2, <1>6, <2>2, BroadcastDoes
    <2>4. OnTime' /\ WordInv'
      BY <1>1, <2>2, <2>3, ServerIsOnTime
    <2>5. ViewTypes' /\ ways' \in Settings
      BY <1>1, <1>3, <2>2, <2>3, ServerTypes
    <2>6. CrackInv'
      <3>1. CASE covered
        BY <1>1, <2>2, <2>3, <3>1, ServerKeepsCracks
      <3>2. CASE ~covered
        BY <1>1, <1>4, <3>2 DEF CrackInv, Plain, ClientWaits
      <3> QED BY <3>1, <3>2
    <2> QED BY <2>4, <2>5, <2>6 DEF ViewInv
  <1> QED BY <1>5, <1>6 DEF View!Punch, n

LEMMA HealStep ==
  ASSUME ViewInv, NEW p \in Positions, View!Heal(p), UNCHANGED ways
  PROVE  ViewInv'
  <1>1. /\ ClientWaits /\ View!Broadcast(p, counts[p] - 1) /\ counts[p] > 0
        /\ UNCHANGED <<block, blockRev, gen, blockLane, sent, inView, covered, up, edits>>
    BY DEF View!Heal, View!client, ClientWaits
  <1>2. counts[p] - 1 \in 0..(CountSize - 1)
    <2>1. counts[p] \in 0..(CountSize - 1) /\ CountSize \in Nat
      BY PlayConstants DEF ViewInv, ViewTypes, View!ViewConstants
    <2> QED BY <1>1, <2>1
  <1>3. /\ inView' \in BOOLEAN /\ covered' \in BOOLEAN
        /\ up' \in Seq([seq : Nat, pos : Positions, block : View!Cells])
        /\ ServerChanges(p, FALSE) /\ blockRev' \in Nat /\ blockRev <= blockRev'
        /\ block' \in [Positions -> View!Cells] /\ blockRev' \in 1..MaxRev
        /\ gen' \in [Positions -> Nat] /\ sent' \in 0..MaxRev
    BY <1>1, PlayConstants DEF ServerChanges, ViewInv, ViewTypes
  <1>4. Plain => covered /\ sent = blockRev
    BY DEF ViewInv, CrackInv
  <1>5. blockLane' \in Seq(Frames) /\ LaneOnTime /\ LaneGrows(p, FALSE)
    BY <1>1, LaneIsKept
  <1>6. /\ counts' \in [Positions -> 0..(CountSize - 1)] /\ countGen' \in [Positions -> Nat]
        /\ feedback' \in Seq(Cracks)
        /\ \A i \in DOMAIN feedback' : \/ i \in DOMAIN feedback /\ feedback'[i] = feedback[i]
                                       \/ feedback'[i].rev \in 1..blockRev'
        /\ covered => ServerTells(p, TRUE)
    BY <1>1, <1>2, <1>3, BroadcastDoes
  <1>7. OnTime' /\ WordInv'
    BY <1>1, <1>3, <1>5, <1>6, ServerIsOnTime
  <1>8. ViewTypes' /\ ways' \in Settings
    BY <1>1, <1>3, <1>5, <1>6, ServerTypes
  <1>9. CrackInv'
    <2>1. CASE covered
      BY <1>1, <1>3, <1>4, <1>5, <1>6, <2>1, ServerKeepsCracks
    <2>2. CASE ~covered
      BY <1>1, <1>4, <2>2 DEF CrackInv, Plain, ClientWaits
    <2> QED BY <2>1, <2>2
  <1> QED BY <1>7, <1>8, <1>9 DEF ViewInv

LEMMA TickStep == ASSUME ViewInv, View!Tick, UNCHANGED ways PROVE ViewInv'
  <1>1. /\ ClientWaits
        /\ UNCHANGED <<block, blockRev, counts, inView, gen, countGen, feedback, up, edits>>
    BY DEF View!Tick, View!client, ClientWaits
  <1>2. ~Plain
    BY DEF ViewInv, CrackInv, View!Tick
  <1>3. /\ inView' \in BOOLEAN /\ feedback' \in Seq(Cracks)
        /\ up' \in Seq([seq : Nat, pos : Positions, block : View!Cells])
        /\ blockRev' \in Nat /\ blockRev <= blockRev' /\ blockRev \in 1..MaxRev
        /\ block' \in [Positions -> View!Cells] /\ blockRev' \in 1..MaxRev
        /\ gen' \in [Positions -> Nat] /\ countGen' \in [Positions -> Nat]
        /\ counts' \in [Positions -> 0..(CountSize - 1)]
        /\ \A i \in DOMAIN feedback' : i \in DOMAIN feedback /\ feedback'[i] = feedback[i]
        /\ MaxRev \in Nat
    BY <1>1, PlayConstants DEF ViewInv, ViewTypes, View!ViewConstants
  <1>4. /\ View!Add \in Frames /\ View!Add.rev = blockRev /\ [type |-> "remove"] \in Frames
        /\ [type |-> "remove"].type = "remove"
    <2>1. View!Word \in [Positions -> Words]
      BY DEF View!Word, Words, ViewInv, ViewTypes
    <2>2. blockRev \in Nat
      BY <1>3
    <2> QED BY <2>1, <2>2 DEF View!Add, Frames
  <1>5. covered' \in BOOLEAN /\ sent' \in 0..MaxRev
    <2>1. covered' \in BOOLEAN /\ (sent' = blockRev \/ sent' = 0)
      BY DEF View!Tick
    <2> QED BY <1>3, <2>1
  <1>6. blockLane' \in Seq(Frames) /\ LaneOnTime
    <2>1. CASE blockLane' = Append(blockLane, View!Add)
      <3>1. PICK f : f = View!Add
        OBVIOUS
      <3>2. f \in Frames /\ f.rev \in 1..blockRev'
        BY <1>1, <1>3, <1>4, <3>1
      <3> QED BY <2>1, <3>1, <3>2, LaneAppended
    <2>2. CASE blockLane' = Append(blockLane, [type |-> "remove"])
      <3>1. PICK f : f = [type |-> "remove"]
        OBVIOUS
      <3> QED BY <1>4, <2>2, <3>1, LaneAppended
    <2>3. CASE blockLane' = blockLane
      BY <2>3 DEF ViewInv, ViewTypes, LaneOnTime
    <2> QED BY <2>1, <2>2, <2>3 DEF View!Tick
  <1>7. OnTime' /\ WordInv'
    BY <1>1, <1>3, <1>6, ServerIsOnTime
  <1>8. ViewTypes' /\ ways' \in Settings
    BY <1>1, <1>3, <1>5, <1>6, ServerTypes
  <1>9. CrackInv'
    BY <1>1, <1>2 DEF CrackInv, Plain, ClientWaits
  <1> QED BY <1>7, <1>8, <1>9 DEF ViewInv

LEMMA TurnStep == ASSUME ViewInv, View!Turn, UNCHANGED ways PROVE ViewInv'
  <1>1. /\ ClientWaits /\ inView' \in BOOLEAN
        /\ UNCHANGED <<block, blockRev, counts, covered, sent, gen, countGen, blockLane, feedback,
                       up, edits>>
    BY DEF View!Turn, View!client, ClientWaits
  <1>2. ~Plain
    BY DEF Plain, View!Turn
  <1>3. OnTime' /\ WordInv'
    BY <1>1 DEF ViewInv, OnTime, WordInv, ClientWaits
  <1>4. ViewTypes' /\ ways' \in Settings
    BY <1>1 DEF ViewInv, ViewTypes, ClientWaits
  <1>5. CrackInv'
    BY <1>1, <1>2 DEF CrackInv, Plain, ClientWaits
  <1> QED BY <1>3, <1>4, <1>5 DEF ViewInv

-----------------------------------------------------------------------------
(* The client's steps                                                                           *)

LEMMA PushEditStep ==
  ASSUME ViewInv, NEW p \in Positions, NEW b \in View!Cells, View!PushEdit(p, b), UNCHANGED ways
  PROVE  ViewInv'
  <1> DEFINE was == IF held = Absent THEN Air ELSE held[p]
             e == [seq |-> edits + 1, pos |-> p, prev |-> was]
             u == [seq |-> edits + 1, pos |-> p, block |-> b]
  <1>1. /\ pendingEdits' = Append(pendingEdits, e) /\ up' = Append(up, u) /\ edits' = edits + 1
        /\ held' = IF held = Absent THEN Absent ELSE [held EXCEPT ![p] = b]
        /\ predicted' = IF held = Absent THEN predicted ELSE predicted \union {p}
        /\ UNCHANGED <<cracks, damageRev, changeRev, said, blockLane, feedback, ways>>
        /\ UNCHANGED <<block, blockRev, counts, inView, covered, sent, gen, countGen>>
    BY DEF View!PushEdit, View!server
  <1>2. /\ edits \in Nat /\ held \in [Positions -> View!Cells] \union {Absent}
        /\ pendingEdits \in Seq([seq : Nat, pos : Positions, prev : View!Cells])
        /\ up \in Seq([seq : Nat, pos : Positions, block : View!Cells])
    BY DEF ViewInv, ViewTypes
  <1>3. was \in View!Cells
    BY <1>2 DEF View!Cells
  <1>4. /\ e \in [seq : Nat, pos : Positions, prev : View!Cells] /\ e.pos = p
        /\ u \in [seq : Nat, pos : Positions, block : View!Cells]
    BY <1>2, <1>3
  <1> HIDE DEF was, e, u
  <1>5. /\ pendingEdits' \in Seq([seq : Nat, pos : Positions, prev : View!Cells])
        /\ \A i \in DOMAIN pendingEdits' :
             \/ i \in DOMAIN pendingEdits /\ pendingEdits'[i] = pendingEdits[i]
             \/ pendingEdits'[i] = e
        /\ up' \in Seq([seq : Nat, pos : Positions, block : View!Cells])
    BY <1>1, <1>2, <1>4, PutAtEnd
  <1>6. held' \in [Positions -> View!Cells] \union {Absent} /\ edits' \in Nat
    BY <1>1, <1>2
  <1>7. predicted' \in SUBSET Positions
    BY <1>1 DEF ViewInv, ViewTypes
  <1>8. ViewTypes' /\ ways' \in Settings
    BY <1>1, <1>5, <1>6, <1>7 DEF ViewInv, ViewTypes
  <1>9. OnTime'
    BY <1>1 DEF ViewInv, OnTime
  <1>10. WordInv'
    <2> SUFFICES ASSUME held' # Absent PROVE WordInv'
      BY DEF WordInv
    <2>1. /\ held \in [Positions -> View!Cells] /\ held' = [held EXCEPT ![p] = b]
          /\ predicted' = predicted \union {p} /\ held # Absent
      BY <1>1, <1>2
    <2>2. \A q \in Positions \ predicted' : held'[q] = said'[q].block
      BY <1>1, <2>1 DEF ViewInv, WordInv
    <2>3. \A i \in DOMAIN pendingEdits' : pendingEdits'[i].pos \in predicted'
      BY <1>4, <1>5, <2>1 DEF ViewInv, WordInv
    <2> QED BY <2>2, <2>3 DEF WordInv
  <1>11. held # Absent => held' # Absent
    <2>1. held # Absent => held' \in [Positions -> View!Cells]
      BY <1>1, <1>2
    <2> QED BY <2>1, PlayConstants DEF View!ViewConstants
  <1>12. CrackInv'
    BY <1>1, <1>11 DEF ViewInv, CrackInv, Plain, ToldOfChanges, UpdatesFit, ToldOfCounts, ShownIsTold,
         IsLastOf
  <1> QED BY <1>8, <1>9, <1>10, <1>12 DEF ViewInv


\* The first frame has been taken from the world lane.
LaneShifts ==
  /\ 1 \in DOMAIN blockLane
  /\ \A i \in DOMAIN blockLane' : /\ i \in Nat \ {0} /\ i + 1 \in DOMAIN blockLane
                                  /\ blockLane'[i] = blockLane[i + 1]
  /\ \A i \in DOMAIN blockLane : i # 1 => /\ i - 1 \in DOMAIN blockLane'
                                          /\ blockLane'[i - 1] = blockLane[i]

ServerWaits ==
  UNCHANGED <<block, blockRev, counts, inView, covered, sent, gen, countGen, feedback, up, edits, ways>>

LEMMA FrameTaken ==
  ASSUME ViewInv, View!ReceiveWorld, UNCHANGED ways
  PROVE  /\ blockLane' \in Seq(Frames) /\ LaneShifts /\ Head(blockLane) = blockLane[1]
         /\ Head(blockLane) \in Frames /\ ServerWaits
         /\ Head(blockLane).type \in {"add", "delta"} => Head(blockLane).rev \in 1..blockRev
  <1>1. blockLane # <<>> /\ blockLane' = Tail(blockLane) /\ ServerWaits
    BY DEF View!ReceiveWorld, View!server, ServerWaits
  <1>2. blockLane \in Seq(Frames)
    BY DEF ViewInv, ViewTypes
  <1>3. blockLane' \in Seq(Frames) /\ LaneShifts /\ Head(blockLane) = blockLane[1]
        /\ Head(blockLane) \in Frames
    BY <1>1, <1>2, TakenFromFront DEF LaneShifts
  <1> QED BY <1>1, <1>3 DEF ViewInv, OnTime, LaneShifts

\* What a step that takes a frame has to keep, from what it does to the client.
LEMMA ClientTypes ==
  ASSUME ViewInv, ServerWaits, blockLane' \in Seq(Frames), LaneShifts,
         held' \in [Positions -> View!Cells] \union {Absent},
         pendingEdits' \in Seq([seq : Nat, pos : Positions, prev : View!Cells]),
         cracks' \in [Positions -> 0..(CountSize - 1)],
         damageRev' \in [Positions -> Nat], changeRev' \in [Positions -> Nat],
         \A p \in Positions : /\ cracks'[p] = 0 <=> damageRev'[p] = 0
                              /\ damageRev'[p] <= blockRev /\ changeRev'[p] <= blockRev,
         said' \in [Positions -> Words], predicted' \in SUBSET Positions
  PROVE  ViewTypes' /\ OnTime' /\ ways' \in Settings
  <1>1. ViewTypes' /\ ways' \in Settings
    BY DEF ViewInv, ViewTypes, ServerWaits
  <1>2. \A i \in DOMAIN blockLane' : blockLane'[i].type \in {"add", "delta"}
                                     => blockLane'[i].rev \in 1..blockRev'
    BY DEF ViewInv, OnTime, LaneShifts, ServerWaits
  <1>3. OnTime'
    BY <1>2 DEF ViewInv, OnTime, ServerWaits
  <1> QED BY <1>1, <1>3

\* A position the frame does not change.
LEMMA OthersKeepCracks ==
  ASSUME ViewInv, Plain, LaneShifts, ServerWaits, NEW p \in Positions, ~Alters(blockLane[1], p),
         said'[p] = said[p], changeRev'[p] = changeRev[p], damageRev'[p] = damageRev[p],
         cracks'[p] = cracks[p]
  PROVE  ToldOfChanges(p)' /\ UpdatesFit(p)' /\ ToldOfCounts(p)'
  <1>1. /\ ToldOfChanges(p) /\ UpdatesFit(p) /\ ToldOfCounts(p)
        /\ UNCHANGED <<feedback, counts, countGen, gen>>
    BY DEF ViewInv, CrackInv, ServerWaits
  <1>2. \A i \in DOMAIN blockLane' : /\ i \in Nat /\ i + 1 \in DOMAIN blockLane
                                     /\ blockLane'[i] = blockLane[i + 1]
    BY DEF LaneShifts
  <1>3. ToldOfChanges(p)'
    <2>1. ASSUME NEW i \in DOMAIN blockLane', Alters(blockLane'[i], p)
          PROVE  /\ said'[p].gen < blockLane'[i].word.gen /\ blockLane'[i].word.gen <= gen'[p]
                 /\ changeRev'[p] < blockLane'[i].rev
      BY <1>1, <1>2, <2>1 DEF ToldOfChanges
    <2>2. ASSUME NEW i \in DOMAIN blockLane', Alters(blockLane'[i], p),
                 NEW j \in DOMAIN blockLane', i < j, Alters(blockLane'[j], p)
          PROVE  /\ blockLane'[i].word.gen < blockLane'[j].word.gen
                 /\ blockLane'[i].rev < blockLane'[j].rev
      <3>1. i + 1 < j + 1
        BY <1>2, <2>2
      <3> QED BY <1>1, <1>2, <2>2, <3>1 DEF ToldOfChanges
    <2>3. \/ said'[p].gen = gen'[p]
          \/ \E i \in DOMAIN blockLane' : Alters(blockLane'[i], p) /\ blockLane'[i].word.gen = gen'[p]
      <3>1. CASE said[p].gen = gen[p]
        BY <1>1, <3>1
      <3>2. CASE \E i \in DOMAIN blockLane : Alters(blockLane[i], p) /\ blockLane[i].word.gen = gen[p]
        BY <1>1, <3>2 DEF LaneShifts
      <3> QED BY <1>1, <3>1, <3>2 DEF ToldOfChanges
    <2> QED BY <2>1, <2>2, <2>3 DEF ToldOfChanges, Alters
  <1>4. UpdatesFit(p)'
    BY <1>1, <1>2 DEF UpdatesFit, Alters
  <1>5. ToldOfCounts(p)'
    BY <1>1, <1>2 DEF ToldOfCounts, IsLastOf, ShownIsTold, Alters
  <1> QED BY <1>3, <1>4, <1>5

\* The position it changes: an update on its way is of an earlier block exactly if it is older, and
\* so is the update shown.
LEMMA ChangeKeepsCracks ==
  ASSUME ViewInv, Plain, LaneShifts, ServerWaits, NEW p \in Positions,
         Alters(blockLane[1], p), said'[p] = blockLane[1].word,
         changeRev'[p] = IF blockLane[1].rev > changeRev[p] THEN blockLane[1].rev ELSE changeRev[p],
         damageRev'[p] = IF damageRev[p] < blockLane[1].rev THEN 0 ELSE damageRev[p],
         cracks'[p] = IF damageRev[p] < blockLane[1].rev THEN 0 ELSE cracks[p]
  PROVE  ToldOfChanges(p)' /\ UpdatesFit(p)' /\ ToldOfCounts(p)'
  <1> DEFINE d == blockLane[1]
  <1>1. /\ ToldOfChanges(p) /\ UpdatesFit(p) /\ ToldOfCounts(p)
        /\ UNCHANGED <<feedback, counts, countGen, gen>>
    BY DEF ViewInv, CrackInv, ServerWaits
  <1>2. \A i \in DOMAIN blockLane' : /\ i \in Nat \ {0} /\ i + 1 \in DOMAIN blockLane
                                     /\ blockLane'[i] = blockLane[i + 1]
    BY DEF LaneShifts
  <1>3. /\ 1 \in DOMAIN blockLane /\ d \in Frames /\ d.rev \in Nat /\ d.word.gen \in Nat
        /\ damageRev[p] \in Nat /\ changeRev[p] \in Nat /\ said[p].gen \in Nat
        /\ gen[p] \in Nat /\ countGen[p] \in Nat
    BY LaneFacts, ChangeIs, ViewNumbers DEF ViewInv, LaneShifts
  <1>4. /\ said[p].gen < d.word.gen /\ d.word.gen <= gen[p] /\ changeRev[p] < d.rev
        /\ \A j \in DOMAIN blockLane : 1 < j /\ Alters(blockLane[j], p) =>
             d.word.gen < blockLane[j].word.gen /\ d.rev < blockLane[j].rev
    BY <1>1, <1>3 DEF ToldOfChanges
  <1>5. said'[p].gen = d.word.gen /\ changeRev'[p] = d.rev
    BY <1>3, <1>4
  <1>6. ToldOfChanges(p)'
    <2>1. ASSUME NEW i \in DOMAIN blockLane', Alters(blockLane'[i], p)
          PROVE  /\ said'[p].gen < blockLane'[i].word.gen /\ blockLane'[i].word.gen <= gen'[p]
                 /\ changeRev'[p] < blockLane'[i].rev
      <3>1. 1 < i + 1 /\ i + 1 \in DOMAIN blockLane /\ Alters(blockLane[i + 1], p)
            /\ blockLane'[i] = blockLane[i + 1]
        BY <1>2, <2>1
      <3>2. d.word.gen < blockLane[i + 1].word.gen /\ d.rev < blockLane[i + 1].rev
        BY <1>4, <3>1
      <3>3. blockLane[i + 1].word.gen <= gen[p]
        BY <1>1, <3>1 DEF ToldOfChanges
      <3> QED BY <1>1, <1>5, <3>1, <3>2, <3>3
    <2>2. ASSUME NEW i \in DOMAIN blockLane', Alters(blockLane'[i], p),
                 NEW j \in DOMAIN blockLane', i < j, Alters(blockLane'[j], p)
          PROVE  /\ blockLane'[i].word.gen < blockLane'[j].word.gen
                 /\ blockLane'[i].rev < blockLane'[j].rev
      <3>1. i + 1 < j + 1
        BY <1>2, <2>2
      <3> QED BY <1>1, <1>2, <2>2, <3>1 DEF ToldOfChanges
    <2>3. \/ said'[p].gen = gen'[p]
          \/ \E i \in DOMAIN blockLane' : Alters(blockLane'[i], p) /\ blockLane'[i].word.gen = gen'[p]
      <3>1. PICK i \in DOMAIN blockLane : Alters(blockLane[i], p) /\ blockLane[i].word.gen = gen[p]
        BY <1>1, <1>3, <1>4 DEF ToldOfChanges
      <3>2. CASE i = 1
        BY <1>1, <1>5, <3>1, <3>2
      <3>3. CASE i # 1
        BY <1>1, <3>1, <3>3 DEF LaneShifts
      <3> QED BY <3>2, <3>3
    <2> QED BY <2>1, <2>2, <2>3 DEF ToldOfChanges, Alters
  <1>7. UpdatesFit(p)'
    <2> SUFFICES ASSUME NEW i \in DOMAIN feedback, feedback[i].pos = p
                 PROVE  /\ feedback[i].gen <= gen[p] /\ damageRev'[p] <= feedback[i].rev
                        /\ feedback[i].rev < changeRev'[p] <=> feedback[i].gen < said'[p].gen
                        /\ damageRev'[p] # 0 => feedback[i].gen >= said'[p].gen
                        /\ \A j \in DOMAIN blockLane' : Alters(blockLane'[j], p)
                             => (feedback[i].rev < blockLane'[j].rev
                                 <=> feedback[i].gen < blockLane'[j].word.gen)
                        /\ \A j \in DOMAIN feedback : i < j /\ feedback[j].pos = p
                             => feedback[i].rev <= feedback[j].rev /\ feedback[i].gen <= feedback[j].gen
      BY <1>1 DEF UpdatesFit, Alters
    <2>1. /\ feedback[i].gen <= gen[p] /\ damageRev[p] <= feedback[i].rev
          /\ feedback[i].rev < d.rev <=> feedback[i].gen < d.word.gen
          /\ \A j \in DOMAIN blockLane : Alters(blockLane[j], p)
               => (feedback[i].rev < blockLane[j].rev <=> feedback[i].gen < blockLane[j].word.gen)
          /\ \A j \in DOMAIN feedback : i < j /\ feedback[j].pos = p
               => feedback[i].rev <= feedback[j].rev /\ feedback[i].gen <= feedback[j].gen
      BY <1>1, <1>3 DEF UpdatesFit
    <2>2. feedback[i].rev \in Nat /\ feedback[i].gen \in Nat
      BY LaneFacts DEF ViewInv, Cracks
    <2>3. damageRev'[p] <= feedback[i].rev
      BY <1>3, <2>1, <2>2
    <2>4. damageRev'[p] # 0 => feedback[i].gen >= said'[p].gen
      BY <1>3, <1>5, <2>1, <2>2
    <2>5. feedback[i].rev < changeRev'[p] <=> feedback[i].gen < said'[p].gen
      BY <1>5, <2>1
    <2>6. \A j \in DOMAIN blockLane' : Alters(blockLane'[j], p)
            => (feedback[i].rev < blockLane'[j].rev <=> feedback[i].gen < blockLane'[j].word.gen)
      BY <1>2, <2>1
    <2> QED BY <2>1, <2>3, <2>4, <2>5, <2>6
  <1>8. ToldOfCounts(p)'
    <2>1. CASE \E i \in DOMAIN feedback : IsLastOf(i, p)
      BY <1>1, <2>1 DEF ToldOfCounts, IsLastOf
    <2>2. CASE (\A i \in DOMAIN feedback : feedback[i].pos # p) /\ ShownIsTold(p)
      <3>1. counts[p] \in Nat /\ (cracks[p] = 0 <=> damageRev[p] = 0)
        BY PlayConstants DEF ViewInv, ViewTypes, OnTime, View!ViewConstants
      <3>2. /\ cracks[p] = IF countGen[p] >= said[p].gen THEN counts[p] ELSE 0
            /\ damageRev[p] # 0 => (damageRev[p] < d.rev <=> countGen[p] < d.word.gen)
            /\ damageRev[p] # 0 => \A j \in DOMAIN blockLane : Alters(blockLane[j], p)
                 => (damageRev[p] < blockLane[j].rev <=> countGen[p] < blockLane[j].word.gen)
        BY <1>3, <2>2 DEF ShownIsTold
      <3>3. cracks'[p] = IF countGen[p] >= d.word.gen THEN counts[p] ELSE 0
        <4>1. CASE damageRev[p] = 0
          <5>1. cracks[p] = 0 /\ cracks'[p] = 0
            BY <1>3, <1>4, <3>1, <4>1, ViewNumbers DEF ViewInv
          <5> QED BY <1>3, <1>4, <3>2, <5>1
        <4>2. CASE damageRev[p] # 0 /\ damageRev[p] < d.rev
          BY <1>3, <3>2, <4>2
        <4>3. CASE damageRev[p] # 0 /\ ~(damageRev[p] < d.rev)
          BY <1>3, <1>4, <3>2, <4>3
        <4> QED BY <4>1, <4>2, <4>3
      <3>4. damageRev'[p] # 0 => \A j \in DOMAIN blockLane' : Alters(blockLane'[j], p)
              => (damageRev'[p] < blockLane'[j].rev <=> countGen[p] < blockLane'[j].word.gen)
        BY <1>2, <1>3, <3>2
      <3>5. ShownIsTold(p)'
        BY <1>1, <1>5, <3>3, <3>4 DEF ShownIsTold, Alters
      <3> QED BY <1>1, <2>2, <3>5 DEF ToldOfCounts
    <2> QED BY <1>1, <2>1, <2>2 DEF ToldOfCounts
  <1> QED BY <1>6, <1>7, <1>8

\* BlockDamageTracker::on_block_changed forgets what is older.
LEMMA BlockChangedDoes ==
  ASSUME ViewInv, NEW ps \in SUBSET Positions, NEW r \in 1..blockRev, View!BlockChanged(ps, r)
  PROVE  /\ cracks' \in [Positions -> 0..(CountSize - 1)]
         /\ damageRev' \in [Positions -> Nat] /\ changeRev' \in [Positions -> Nat]
         /\ \A p \in Positions : /\ cracks'[p] = 0 <=> damageRev'[p] = 0
                                 /\ damageRev'[p] <= blockRev /\ changeRev'[p] <= blockRev
         /\ \A p \in Positions :
              IF p \in ps
              THEN /\ changeRev'[p] = IF r > changeRev[p] THEN r ELSE changeRev[p]
                   /\ damageRev'[p] = IF damageRev[p] < r THEN 0 ELSE damageRev[p]
                   /\ cracks'[p] = IF damageRev[p] < r THEN 0 ELSE cracks[p]
              ELSE /\ changeRev'[p] = changeRev[p] /\ damageRev'[p] = damageRev[p]
                   /\ cracks'[p] = cracks[p]
  <1>1. /\ cracks \in [Positions -> 0..(CountSize - 1)] /\ CountSize \in Nat \ {0}
        /\ damageRev \in [Positions -> Nat] /\ changeRev \in [Positions -> Nat]
        /\ blockRev \in Nat /\ r \in Nat /\ r <= blockRev /\ 0 \in 0..(CountSize - 1)
        /\ \A p \in Positions : /\ cracks[p] = 0 <=> damageRev[p] = 0
                                /\ damageRev[p] <= blockRev /\ changeRev[p] <= blockRev
    <2>1. CountSize \in Nat \ {0} /\ MaxRev \in Nat
      BY PlayConstants DEF View!ViewConstants
    <2>2. /\ cracks \in [Positions -> 0..(CountSize - 1)]
          /\ damageRev \in [Positions -> Nat] /\ changeRev \in [Positions -> Nat]
          /\ blockRev \in 1..MaxRev
      BY DEF ViewInv, ViewTypes
    <2>3. \A p \in Positions : /\ cracks[p] = 0 <=> damageRev[p] = 0
                              /\ damageRev[p] <= blockRev /\ changeRev[p] <= blockRev
      BY DEF ViewInv, OnTime
    <2> QED BY <2>1, <2>2, <2>3
  <1> DEFINE gone == {p \in ps : damageRev[p] < r}
  <1>2. /\ changeRev' = [p \in Positions |-> IF p \in ps /\ r > changeRev[p] THEN r ELSE changeRev[p]]
        /\ cracks' = [p \in Positions |-> IF p \in gone THEN 0 ELSE cracks[p]]
        /\ damageRev' = [p \in Positions |-> IF p \in gone THEN 0 ELSE damageRev[p]]
    BY DEF View!BlockChanged
  <1>3. \A p \in Positions : p \in gone <=> p \in ps /\ damageRev[p] < r
    OBVIOUS
  <1> HIDE DEF gone
  <1>4. /\ cracks' \in [Positions -> 0..(CountSize - 1)]
        /\ damageRev' \in [Positions -> Nat] /\ changeRev' \in [Positions -> Nat]
    BY <1>1, <1>2
  <1>5. \A p \in Positions :
          /\ changeRev'[p] = IF p \in ps /\ r > changeRev[p] THEN r ELSE changeRev[p]
          /\ cracks'[p] = IF p \in ps /\ damageRev[p] < r THEN 0 ELSE cracks[p]
          /\ damageRev'[p] = IF p \in ps /\ damageRev[p] < r THEN 0 ELSE damageRev[p]
    BY <1>2, <1>3
  <1>6. \A p \in Positions : /\ cracks'[p] = 0 <=> damageRev'[p] = 0
                             /\ damageRev'[p] <= blockRev /\ changeRev'[p] <= blockRev
    BY <1>1, <1>5
  <1> QED BY <1>4, <1>5, <1>6

LEMMA EditsFit ==
  ASSUME ViewTypes
  PROVE  \A i \in DOMAIN pendingEdits : /\ pendingEdits[i].pos \in Positions
                                        /\ pendingEdits[i].prev \in View!Cells
  <1>1. PICK E : E = [seq : Nat, pos : Positions, prev : View!Cells]
    OBVIOUS
  <1>2. pendingEdits \in Seq(E)
    BY <1>1 DEF ViewTypes
  <1>3. \A i \in DOMAIN pendingEdits : pendingEdits[i] \in E
    BY <1>2, Queued
  <1> QED BY <1>1, <1>3

LEMMA TakeAddStep ==
  ASSUME ViewInv, View!ReceiveWorld, UNCHANGED ways, Head(blockLane).type = "add"
  PROVE  ViewInv'
  <1> PICK f : f = Head(blockLane)
    OBVIOUS
  <1>1. /\ blockLane' \in Seq(Frames) /\ LaneShifts /\ f = blockLane[1] /\ f \in Frames
        /\ ServerWaits /\ f.rev \in 1..blockRev
    BY FrameTaken
  <1>2. f.word \in [Positions -> Words]
    BY <1>1 DEF Frames
  <1>3. ~Plain
    BY <1>1 DEF ViewInv, CrackInv, LaneShifts
  <1>4. /\ held' = [p \in Positions |-> f.word[p].block] /\ said' = f.word
        /\ predicted' = {pendingEdits[i].pos : i \in DOMAIN pendingEdits}
        /\ UNCHANGED pendingEdits
    BY DEF View!ReceiveWorld, View!TakeAdd
  <1>5. PICK ps \in SUBSET Positions :
          ps = IF held = Absent THEN {} ELSE {p \in Positions : held[p] # f.word[p].block}
    OBVIOUS
  <1>6. View!BlockChanged(ps, f.rev)
    BY <1>5 DEF View!ReceiveWorld, View!TakeAdd, View!BlockChanged
  <1>7. /\ cracks' \in [Positions -> 0..(CountSize - 1)]
        /\ damageRev' \in [Positions -> Nat] /\ changeRev' \in [Positions -> Nat]
        /\ \A p \in Positions : /\ cracks'[p] = 0 <=> damageRev'[p] = 0
                                /\ damageRev'[p] <= blockRev /\ changeRev'[p] <= blockRev
    BY <1>1, <1>6, BlockChangedDoes
  <1>8. pendingEdits \in Seq([seq : Nat, pos : Positions, prev : View!Cells])
    BY DEF ViewInv, ViewTypes
  <1>9. \A i \in DOMAIN pendingEdits : pendingEdits[i].pos \in Positions
    BY EditsFit DEF ViewInv
  <1>10. /\ held' \in [Positions -> View!Cells] \union {Absent} /\ predicted' \in SUBSET Positions
        /\ said' \in [Positions -> Words]
    BY <1>2, <1>4, <1>9 DEF Words
  <1>11. ViewTypes' /\ OnTime' /\ ways' \in Settings
    BY <1>1, <1>4, <1>7, <1>8, <1>10, ClientTypes
  <1>12. WordInv'
    BY <1>4 DEF WordInv
  <1>13. CrackInv'
    BY <1>1, <1>3 DEF CrackInv, Plain, ServerWaits
  <1> QED BY <1>11, <1>12, <1>13 DEF ViewInv

\* The chunk is held, and the frame is about one of its blocks.
LEMMA DeltaTold ==
  ASSUME ViewInv, View!ReceiveWorld, UNCHANGED ways, NEW f, f = Head(blockLane),
         f.type = "delta", View!Forget(pendingEdits) = pendingEdits', held # Absent,
         held' = [held EXCEPT ![f.pos] = f.word.block], said' = [said EXCEPT ![f.pos] = f.word],
         predicted' = predicted \ {f.pos}, View!BlockChanged({f.pos}, f.rev)
  PROVE  ViewInv'
  <1>1. /\ blockLane' \in Seq(Frames) /\ LaneShifts /\ f = blockLane[1] /\ f \in Frames
        /\ ServerWaits /\ f.rev \in 1..blockRev
    BY FrameTaken
  <1>2. f.pos \in Positions /\ f.word \in Words /\ f.word.block \in View!Cells
    BY <1>1 DEF Frames, Words
  <1>3. /\ held \in [Positions -> View!Cells] /\ said \in [Positions -> Words]
        /\ predicted \in SUBSET Positions
    BY DEF ViewInv, ViewTypes
  <1>4. pendingEdits' = <<>>
    BY DEF View!Forget
  <1>5. /\ cracks' \in [Positions -> 0..(CountSize - 1)]
        /\ damageRev' \in [Positions -> Nat] /\ changeRev' \in [Positions -> Nat]
        /\ \A p \in Positions : /\ cracks'[p] = 0 <=> damageRev'[p] = 0
                                /\ damageRev'[p] <= blockRev /\ changeRev'[p] <= blockRev
        /\ \A p \in Positions :
              IF p \in {f.pos}
              THEN /\ changeRev'[p] = IF f.rev > changeRev[p] THEN f.rev ELSE changeRev[p]
                   /\ damageRev'[p] = IF damageRev[p] < f.rev THEN 0 ELSE damageRev[p]
                   /\ cracks'[p] = IF damageRev[p] < f.rev THEN 0 ELSE cracks[p]
              ELSE /\ changeRev'[p] = changeRev[p] /\ damageRev'[p] = damageRev[p]
                   /\ cracks'[p] = cracks[p]
    <2>1. PICK ps \in SUBSET Positions : ps = {f.pos}
      BY <1>2
    <2>2. PICK r \in 1..blockRev : r = f.rev
      BY <1>1
    <2>3. View!BlockChanged(ps, r)
      BY <2>1, <2>2
    <2>4. /\ cracks' \in [Positions -> 0..(CountSize - 1)]
          /\ damageRev' \in [Positions -> Nat] /\ changeRev' \in [Positions -> Nat]
          /\ \A p \in Positions : /\ cracks'[p] = 0 <=> damageRev'[p] = 0
                                  /\ damageRev'[p] <= blockRev /\ changeRev'[p] <= blockRev
          /\ \A p \in Positions :
                IF p \in ps
                THEN /\ changeRev'[p] = IF r > changeRev[p] THEN r ELSE changeRev[p]
                     /\ damageRev'[p] = IF damageRev[p] < r THEN 0 ELSE damageRev[p]
                     /\ cracks'[p] = IF damageRev[p] < r THEN 0 ELSE cracks[p]
                ELSE /\ changeRev'[p] = changeRev[p] /\ damageRev'[p] = damageRev[p]
                     /\ cracks'[p] = cracks[p]
      BY <2>3, BlockChangedDoes
    <2> QED BY <2>1, <2>2, <2>4
  <1>6. /\ held' \in [Positions -> View!Cells] \union {Absent} /\ predicted' \in SUBSET Positions
        /\ held' \in [Positions -> View!Cells] /\ said' \in [Positions -> Words]
        /\ pendingEdits' \in Seq([seq : Nat, pos : Positions, prev : View!Cells])
    BY <1>2, <1>3, <1>4
  <1>7. ViewTypes' /\ OnTime' /\ ways' \in Settings
    BY <1>1, <1>5, <1>6, ClientTypes
  <1>8. WordInv'
    <2>1. ASSUME NEW p \in Positions \ predicted' PROVE held'[p] = said'[p].block
      <3>1. CASE p = f.pos
        BY <1>3, <3>1
      <3>2. CASE p # f.pos
        BY <1>3, <2>1, <3>2 DEF ViewInv, WordInv
      <3> QED BY <3>1, <3>2
    <2> QED BY <1>4, <2>1 DEF WordInv
  <1>9. CrackInv'
    <2> SUFFICES ASSUME Plain PROVE CrackInv'
      BY <1>1 DEF CrackInv, Plain, ServerWaits
    <2>1. ASSUME NEW p \in Positions PROVE ToldOfChanges(p)' /\ UpdatesFit(p)' /\ ToldOfCounts(p)'
      <3>1. CASE p = f.pos
        <4>1. Alters(blockLane[1], p) /\ said'[p] = blockLane[1].word
          BY <1>1, <1>3, <3>1 DEF Alters
        <4> QED BY <1>1, <1>5, <3>1, <4>1, ChangeKeepsCracks
      <3>2. CASE p # f.pos
        <4>1. ~Alters(blockLane[1], p) /\ said'[p] = said[p]
          BY <1>1, <1>3, <3>2 DEF Alters
        <4> QED BY <1>1, <1>5, <3>2, <4>1, OthersKeepCracks
      <3> QED BY <3>1, <3>2
    <2>2. held' # Absent
      BY <1>6, PlayConstants DEF View!ViewConstants
    <2>3. /\ inView' /\ covered' /\ sent' = blockRev'
          /\ \A i \in DOMAIN blockLane' : blockLane'[i].type \in {"delta", "result"}
      BY <1>1 DEF ViewInv, CrackInv, ServerWaits, LaneShifts
    <2> QED BY <2>1, <2>2, <2>3 DEF CrackInv
  <1> QED BY <1>7, <1>8, <1>9 DEF ViewInv

LEMMA TakeDeltaStep ==
  ASSUME ViewInv, View!ReceiveWorld, UNCHANGED ways, Head(blockLane).type = "delta"
  PROVE  ViewInv'
  <1> PICK f : f = Head(blockLane)
    OBVIOUS
  <1>1. /\ blockLane' \in Seq(Frames) /\ LaneShifts /\ ServerWaits
    BY FrameTaken
  <1>2. CASE held = Absent /\ UNCHANGED <<held, said, predicted, cracks, damageRev, changeRev>>
    <2>1. pendingEdits' = <<>>
      BY DEF View!ReceiveWorld, View!TakeDelta, View!Forget
    <2>2. pendingEdits' \in Seq([seq : Nat, pos : Positions, prev : View!Cells])
      BY <2>1
    <2>3. /\ held' \in [Positions -> View!Cells] \union {Absent}
          /\ cracks' \in [Positions -> 0..(CountSize - 1)]
          /\ damageRev' \in [Positions -> Nat] /\ changeRev' \in [Positions -> Nat]
          /\ \A p \in Positions : /\ cracks'[p] = 0 <=> damageRev'[p] = 0
                                  /\ damageRev'[p] <= blockRev /\ changeRev'[p] <= blockRev
          /\ said' \in [Positions -> Words] /\ predicted' \in SUBSET Positions
      BY <1>2 DEF ViewInv, ViewTypes, OnTime
    <2>4. ViewTypes' /\ OnTime' /\ ways' \in Settings
      BY <1>1, <2>2, <2>3, ClientTypes
    <2>5. WordInv'
      BY <1>2 DEF WordInv
    <2>6. CrackInv'
      BY <1>1, <1>2 DEF ViewInv, CrackInv, Plain, ServerWaits
    <2> QED BY <2>4, <2>5, <2>6 DEF ViewInv
  <1>3. CASE /\ held # Absent /\ held' = [held EXCEPT ![f.pos] = f.word.block]
             /\ said' = [said EXCEPT ![f.pos] = f.word]
             /\ predicted' = predicted \ {f.pos} /\ View!BlockChanged({f.pos}, f.rev)
    <2>1. View!Forget(pendingEdits) = pendingEdits'
      BY DEF View!ReceiveWorld, View!TakeDelta
    <2> QED BY <1>3, <2>1, DeltaTold
  <1> QED BY <1>2, <1>3 DEF View!ReceiveWorld, View!TakeDelta, View!BlockChanged

LEMMA LeastOf ==
  ASSUME NEW S \in SUBSET Nat, S # {}
  PROVE  \E i \in S : \A j \in S : i <= j
  <1> DEFINE R == OpToRel(<, Nat)
  <1>1. PICK i \in S : \A j \in S : ~(<<j, i>> \in R)
    <2>1. IsWellFoundedOn(R, Nat)
      BY NatLessThanWellFounded
    <2> HIDE DEF R
    <2> QED BY <2>1, WFMin
  <1>2. ASSUME NEW j \in S, ~(i <= j) PROVE FALSE
    <2>1. i \in Nat /\ j \in Nat /\ j < i
      BY <1>2
    <2>2. <<j, i>> \in R
      BY <2>1 DEF OpToRel
    <2> QED BY <1>1, <2>2
  <1> QED BY <1>2

\* The first entry of a queue of which something holds is an entry.
LEMMA Found ==
  ASSUME NEW S, NEW s \in Seq(S), NEW I \in SUBSET (1..Len(s)), I # {}
  PROVE  View!Min(I) \in DOMAIN s
  <1>1. I \in SUBSET Nat
    OBVIOUS
  <1>2. \E i \in I : \A j \in I : i <= j
    BY <1>1, LeastOf
  <1>3. View!Min(I) \in I
    BY <1>2 DEF View!Min
  <1>4. I \subseteq DOMAIN s
    OBVIOUS
  <1> QED BY <1>3, <1>4

\* What stays in a queue was in it.
LEMMA StaysQueued ==
  ASSUME NEW S, NEW s \in Seq(S), NEW i \in DOMAIN s
  PROVE  /\ View!RemoveAt(s, i) \in Seq(S)
         /\ \A j \in DOMAIN View!RemoveAt(s, i) : \E k \in DOMAIN s : View!RemoveAt(s, i)[j] = s[k]
  <1> DEFINE a == SubSeq(s, 1, i - 1)
             b == SubSeq(s, i + 1, Len(s))
             T == {s[k] : k \in DOMAIN s}
  <1>1. /\ Len(s) \in Nat /\ DOMAIN s = 1..Len(s) /\ i \in 1..Len(s) /\ i - 1 \in Int /\ i + 1 \in Int
        /\ T \subseteq S
    OBVIOUS
  <1>2. a \in Seq(T)
    <2>1. \A j \in 1..(i - 1) : s[j] \in T
      BY <1>1
    <2> HIDE DEF T
    <2> QED BY <1>1, <2>1, SubSeqProperties
  <1>3. b \in Seq(T)
    <2>1. \A j \in (i + 1)..Len(s) : s[j] \in T
      BY <1>1
    <2> HIDE DEF T
    <2> QED BY <1>1, <2>1, SubSeqProperties
  <1>4. View!RemoveAt(s, i) = a \o b
    BY DEF View!RemoveAt
  <1>5. a \o b \in Seq(T)
    <2> HIDE DEF a, b, T
    <2> QED BY <1>2, <1>3, ConcatProperties
  <1>6. View!RemoveAt(s, i) \in Seq(T)
    BY <1>4, <1>5
  <1>7. View!RemoveAt(s, i) \in Seq(S)
    <2> HIDE DEF T
    <2> QED BY <1>1, <1>6
  <1>8. ASSUME NEW j \in DOMAIN View!RemoveAt(s, i) PROVE View!RemoveAt(s, i)[j] \in T
    <2> HIDE DEF T
    <2> QED BY <1>6, Queued
  <1> QED BY <1>7, <1>8

LEMMA TakeResultStep ==
  ASSUME ViewInv, View!ReceiveWorld, UNCHANGED ways, Head(blockLane).type = "result"
  PROVE  ViewInv'
  <1> PICK f : f = Head(blockLane)
    OBVIOUS
  <1> DEFINE of == View!SelectInSeq(pendingEdits, LAMBDA e : e.seq = f.seq)
  <1>1. /\ blockLane' \in Seq(Frames) /\ LaneShifts /\ f = blockLane[1] /\ ServerWaits
    BY FrameTaken
  <1>2. /\ pendingEdits' = IF of = 0 THEN pendingEdits ELSE View!RemoveAt(pendingEdits, of)
        /\ held' = IF of = 0 \/ f.accepted \/ held = Absent THEN held
                   ELSE [held EXCEPT ![pendingEdits[of].pos] = pendingEdits[of].prev]
        /\ UNCHANGED <<said, predicted, cracks, damageRev, changeRev>>
    BY DEF View!ReceiveWorld, View!TakeResult, View!SelectInSeq
  <1>3. /\ pendingEdits \in Seq([seq : Nat, pos : Positions, prev : View!Cells])
        /\ held \in [Positions -> View!Cells] \union {Absent}
    BY DEF ViewInv, ViewTypes
  <1>4. of # 0 => of \in DOMAIN pendingEdits
    <2>1. PICK I \in SUBSET (1..Len(pendingEdits)) : of = IF I # {} THEN View!Min(I) ELSE 0
      BY DEF View!SelectInSeq
    <2> HIDE DEF of
    <2> QED BY <1>3, <2>1, Found
  <1> HIDE DEF of
  <1>5. /\ pendingEdits' \in Seq([seq : Nat, pos : Positions, prev : View!Cells])
        /\ \A j \in DOMAIN pendingEdits' : \E k \in DOMAIN pendingEdits :
             pendingEdits'[j] = pendingEdits[k]
    BY <1>2, <1>3, <1>4, StaysQueued
  <1>6. of # 0 => pendingEdits[of].pos \in Positions /\ pendingEdits[of].prev \in View!Cells
    BY <1>4, EditsFit DEF ViewInv
  <1>7. /\ held' \in [Positions -> View!Cells] \union {Absent}
        /\ held # Absent => held' \in [Positions -> View!Cells]
    BY <1>2, <1>3, <1>6
  <1>8. held' = Absent <=> held = Absent
    BY <1>2, <1>7, PlayConstants DEF View!ViewConstants
  <1>9. /\ cracks' \in [Positions -> 0..(CountSize - 1)]
        /\ damageRev' \in [Positions -> Nat] /\ changeRev' \in [Positions -> Nat]
        /\ \A p \in Positions : /\ cracks'[p] = 0 <=> damageRev'[p] = 0
                                /\ damageRev'[p] <= blockRev /\ changeRev'[p] <= blockRev
        /\ said' \in [Positions -> Words] /\ predicted' \in SUBSET Positions
    BY <1>2 DEF ViewInv, ViewTypes, OnTime
  <1>10. ViewTypes' /\ OnTime' /\ ways' \in Settings
    BY <1>1, <1>5, <1>7, <1>9, ClientTypes
  <1>11. WordInv'
    <2> SUFFICES ASSUME held' # Absent PROVE WordInv'
      BY DEF WordInv
    <2>1. /\ held # Absent /\ held \in [Positions -> View!Cells]
          /\ \A p \in Positions \ predicted : held[p] = said[p].block
          /\ \A i \in DOMAIN pendingEdits : pendingEdits[i].pos \in predicted
      BY <1>3, <1>8 DEF ViewInv, WordInv
    <2>2. \A p \in Positions \ predicted : held'[p] = held[p]
      BY <1>2, <1>4, <2>1
    <2>3. \A i \in DOMAIN pendingEdits' : pendingEdits'[i].pos \in predicted'
      BY <1>2, <1>5, <2>1
    <2> QED BY <1>2, <2>1, <2>2, <2>3 DEF WordInv
  <1>12. CrackInv'
    <2> SUFFICES ASSUME Plain PROVE CrackInv'
      BY <1>1 DEF CrackInv, Plain, ServerWaits
    <2>1. ASSUME NEW p \in Positions PROVE ToldOfChanges(p)' /\ UpdatesFit(p)' /\ ToldOfCounts(p)'
      <3>1. ~Alters(blockLane[1], p)
        BY <1>1 DEF Alters
      <3> QED BY <1>1, <1>2, <3>1, OthersKeepCracks
    <2>2. /\ inView' /\ covered' /\ sent' = blockRev' /\ held' # Absent
          /\ \A i \in DOMAIN blockLane' : blockLane'[i].type \in {"delta", "result"}
      BY <1>1, <1>8 DEF ViewInv, CrackInv, ServerWaits, LaneShifts
    <2> QED BY <2>1, <2>2 DEF CrackInv
  <1> QED BY <1>10, <1>11, <1>12 DEF ViewInv

LEMMA TakeRemoveStep ==
  ASSUME ViewInv, View!ReceiveWorld, UNCHANGED ways, Head(blockLane).type = "remove"
  PROVE  ViewInv'
  <1> PICK f : f = Head(blockLane)
    OBVIOUS
  <1>1. /\ blockLane' \in Seq(Frames) /\ LaneShifts /\ f = blockLane[1] /\ ServerWaits
    BY FrameTaken
  <1>2. /\ held' = Absent /\ cracks' = View!Zero /\ damageRev' = View!Zero
        /\ changeRev' = View!Zero /\ said' = [p \in Positions |-> View!NoWord]
        /\ predicted' = {} /\ UNCHANGED pendingEdits
    BY DEF View!ReceiveWorld, View!TakeRemove
  <1>3. ~Plain
    BY <1>1 DEF ViewInv, CrackInv, LaneShifts
  <1>4. /\ pendingEdits' \in Seq([seq : Nat, pos : Positions, prev : View!Cells])
        /\ blockRev \in Nat /\ 0 \in 0..(CountSize - 1) /\ View!NoWord \in Words
    BY <1>2, PlayConstants DEF ViewInv, ViewTypes, View!ViewConstants, View!NoWord, Words, View!Cells
  <1>5. /\ cracks' \in [Positions -> 0..(CountSize - 1)]
        /\ damageRev' \in [Positions -> Nat] /\ changeRev' \in [Positions -> Nat]
        /\ \A p \in Positions : /\ cracks'[p] = 0 <=> damageRev'[p] = 0
                                /\ damageRev'[p] <= blockRev /\ changeRev'[p] <= blockRev
        /\ said' \in [Positions -> Words] /\ predicted' \in SUBSET Positions
        /\ held' \in [Positions -> View!Cells] \union {Absent}
    BY <1>2, <1>4 DEF View!Zero
  <1>6. ViewTypes' /\ OnTime' /\ ways' \in Settings
    BY <1>1, <1>4, <1>5, ClientTypes
  <1>7. WordInv' /\ CrackInv'
    BY <1>1, <1>2, <1>3 DEF WordInv, CrackInv, Plain, ServerWaits
  <1> QED BY <1>6, <1>7 DEF ViewInv

LEMMA ReceiveWorldStep == ASSUME ViewInv, View!ReceiveWorld, UNCHANGED ways PROVE ViewInv'
  <1>1. Head(blockLane).type \in {"add", "delta", "result", "remove"}
    BY DEF View!ReceiveWorld
  <1> QED BY <1>1, TakeAddStep, TakeDeltaStep, TakeResultStep, TakeRemoveStep

\* The first update has been taken from the damage lane.
DamageShifts ==
  /\ 1 \in DOMAIN feedback
  /\ \A i \in DOMAIN feedback' : /\ i \in Nat \ {0} /\ i + 1 \in DOMAIN feedback
                                 /\ feedback'[i] = feedback[i + 1]
  /\ \A i \in DOMAIN feedback : i # 1 => /\ i - 1 \in DOMAIN feedback'
                                         /\ feedback'[i - 1] = feedback[i]

\* An update is one of an earlier block exactly if the client drops it.
LEMMA DamageTold ==
  ASSUME ViewInv, Plain, DamageShifts, NEW p \in Positions,
         UNCHANGED <<blockLane, gen, countGen, counts, said, changeRev>>,
         \/ feedback[1].pos # p /\ cracks'[p] = cracks[p] /\ damageRev'[p] = damageRev[p]
         \/ /\ feedback[1].pos = p /\ View!OutOfDate(feedback[1])
            /\ cracks'[p] = cracks[p] /\ damageRev'[p] = damageRev[p]
         \/ /\ feedback[1].pos = p /\ ~View!OutOfDate(feedback[1])
            /\ cracks'[p] = feedback[1].punches
            /\ damageRev'[p] = IF feedback[1].punches = 0 THEN 0 ELSE feedback[1].rev
  PROVE  UpdatesFit(p)' /\ ToldOfCounts(p)'
  <1> DEFINE f == feedback[1]
  <1>1. UpdatesFit(p) /\ ToldOfCounts(p)
    BY DEF ViewInv, CrackInv
  <1>2. /\ 1 \in DOMAIN feedback
        /\ \A i \in DOMAIN feedback' : /\ i \in Nat /\ i + 1 \in DOMAIN feedback /\ 1 < i + 1
                                       /\ feedback'[i] = feedback[i + 1]
        /\ \A i \in DOMAIN feedback : i # 1 => i - 1 \in DOMAIN feedback' /\ feedback'[i - 1] = feedback[i]
    BY DEF DamageShifts
  <1>3. /\ damageRev[p] \in Nat /\ changeRev[p] \in Nat /\ said[p].gen \in Nat
        /\ gen[p] \in Nat /\ countGen[p] \in Nat /\ (cracks[p] = 0 <=> damageRev[p] = 0)
    BY ViewNumbers DEF ViewInv, OnTime
  <1>4. \A i \in DOMAIN feedback : /\ feedback[i].rev \in Nat /\ feedback[i].gen \in Nat
                                   /\ feedback[i].punches \in Nat
    BY LaneFacts, PlayConstants DEF ViewInv, Cracks, View!ViewConstants
  <1>5. f.pos = p => /\ f.gen <= gen[p] /\ damageRev[p] <= f.rev
                     /\ (f.rev < changeRev[p] <=> f.gen < said[p].gen)
                     /\ (damageRev[p] # 0 => f.gen >= said[p].gen)
                     /\ \A j \in DOMAIN blockLane : Alters(blockLane[j], p)
                          => (f.rev < blockLane[j].rev <=> f.gen < blockLane[j].word.gen)
                     /\ \A j \in DOMAIN feedback : 1 < j /\ feedback[j].pos = p
                          => f.rev <= feedback[j].rev /\ f.gen <= feedback[j].gen
    BY <1>1, <1>2 DEF UpdatesFit
  <1>6. f.pos = p => (View!OutOfDate(f) <=> f.rev < changeRev[p])
    BY <1>2, <1>3, <1>4, <1>5 DEF View!OutOfDate
  <1>7. ASSUME NEW i \in DOMAIN feedback', feedback'[i].pos = p
        PROVE  /\ damageRev'[p] <= feedback'[i].rev
               /\ damageRev'[p] # 0 => feedback'[i].gen >= said[p].gen
    <2>1. /\ i + 1 \in DOMAIN feedback /\ 1 < i + 1 /\ feedback'[i] = feedback[i + 1]
          /\ feedback[i + 1].rev \in Nat /\ feedback[i + 1].gen \in Nat
          /\ damageRev[p] <= feedback[i + 1].rev
          /\ damageRev[p] # 0 => feedback[i + 1].gen >= said[p].gen
      BY <1>1, <1>2, <1>4, <1>7 DEF UpdatesFit
    <2>2. CASE f.pos = p /\ ~View!OutOfDate(f) /\ damageRev'[p] = IF f.punches = 0 THEN 0 ELSE f.rev
      <3>1. /\ f.rev <= feedback[i + 1].rev /\ f.gen <= feedback[i + 1].gen /\ f.gen >= said[p].gen
            /\ f.rev \in Nat /\ f.gen \in Nat
        BY <1>2, <1>3, <1>4, <1>5, <1>6, <1>7, <2>1, <2>2
      <3> QED BY <1>3, <2>1, <2>2, <3>1
    <2>3. CASE damageRev'[p] = damageRev[p]
      BY <2>1, <2>3
    <2> QED BY <2>2, <2>3
  <1>8. UpdatesFit(p)'
    <2> SUFFICES ASSUME NEW i \in DOMAIN feedback', feedback'[i].pos = p
                 PROVE  /\ feedback'[i].gen <= gen[p]
                        /\ feedback'[i].rev < changeRev[p] <=> feedback'[i].gen < said[p].gen
                        /\ \A j \in DOMAIN blockLane : Alters(blockLane[j], p)
                             => (feedback'[i].rev < blockLane[j].rev
                                 <=> feedback'[i].gen < blockLane[j].word.gen)
                        /\ \A j \in DOMAIN feedback' : i < j /\ feedback'[j].pos = p
                             => feedback'[i].rev <= feedback'[j].rev /\ feedback'[i].gen <= feedback'[j].gen
      BY <1>7 DEF UpdatesFit, Alters
    <2>1. i + 1 \in DOMAIN feedback /\ feedback'[i] = feedback[i + 1]
      BY <1>2
    <2>2. \A j \in DOMAIN feedback' : i < j => i + 1 < j + 1
      BY <1>2
    <2> QED BY <1>1, <1>2, <2>1, <2>2 DEF UpdatesFit
  <1>9. ToldOfCounts(p)'
    <2>1. CASE \E i \in DOMAIN feedback : i # 1 /\ IsLastOf(i, p)
      <3>1. PICK i \in DOMAIN feedback : i # 1 /\ IsLastOf(i, p)
        BY <2>1
      <3>2. i - 1 \in DOMAIN feedback' /\ feedback'[i - 1] = feedback[i] /\ i \in Int
        BY <1>2, <3>1, LaneFacts DEF ViewInv
      <3>3. \A j \in DOMAIN feedback' : i - 1 < j => feedback'[j].pos # p
        BY <1>2, <3>1, <3>2 DEF IsLastOf
      <3>4. IsLastOf(i - 1, p)'
        BY <3>1, <3>2, <3>3 DEF IsLastOf
      <3> QED BY <1>1, <3>2, <3>4 DEF ToldOfCounts
    <2>2. CASE IsLastOf(1, p)
      <3>1. /\ f.pos = p /\ f.gen = countGen[p] /\ f.punches = counts[p]
            /\ \A i \in DOMAIN feedback' : feedback'[i].pos # p
        BY <1>2, <2>2 DEF IsLastOf
      <3>2. ShownIsTold(p)'
        <4>1. CASE View!OutOfDate(f)
          <5>1. f.gen < said[p].gen
            BY <1>5, <1>6, <3>1, <4>1
          <5>2. damageRev[p] = 0 /\ cracks[p] = 0
            BY <1>2, <1>3, <1>4, <1>5, <3>1, <5>1
          <5>3. cracks'[p] = 0 /\ damageRev'[p] = 0
            BY <3>1, <4>1, <5>2
          <5> QED BY <1>2, <1>3, <1>4, <3>1, <5>1, <5>3 DEF ShownIsTold
        <4>2. CASE ~View!OutOfDate(f)
          <5>1. cracks'[p] = f.punches /\ damageRev'[p] = IF f.punches = 0 THEN 0 ELSE f.rev
            BY <3>1, <4>2
          <5>2. f.gen >= said[p].gen
            BY <1>2, <1>3, <1>4, <1>5, <1>6, <3>1, <4>2
          <5> QED BY <1>5, <3>1, <5>1, <5>2 DEF ShownIsTold, Alters
        <4> QED BY <4>1, <4>2
      <3> QED BY <1>1, <3>1, <3>2 DEF ToldOfCounts
    <2>3. CASE (\A i \in DOMAIN feedback : feedback[i].pos # p) /\ ShownIsTold(p)
      <3>1. f.pos # p /\ \A i \in DOMAIN feedback' : feedback'[i].pos # p
        BY <1>2, <2>3
      <3>2. cracks'[p] = cracks[p] /\ damageRev'[p] = damageRev[p]
        BY <3>1
      <3> QED BY <1>1, <2>3, <3>1, <3>2 DEF ToldOfCounts, ShownIsTold, Alters
    <2> QED BY <1>1, <2>1, <2>2, <2>3 DEF ToldOfCounts
  <1> QED BY <1>8, <1>9

LEMMA ReceiveDamageStep == ASSUME ViewInv, View!ReceiveDamage, UNCHANGED ways PROVE ViewInv'
  <1> PICK f : f = Head(feedback)
    OBVIOUS
  <1>1. /\ feedback # <<>> /\ feedback' = Tail(feedback)
        /\ IF View!OutOfDate(f) THEN UNCHANGED <<cracks, damageRev>>
           ELSE /\ cracks' = [cracks EXCEPT ![f.pos] = f.punches]
                /\ damageRev' = [damageRev EXCEPT ![f.pos] = IF f.punches = 0 THEN 0 ELSE f.rev]
        /\ UNCHANGED <<held, pendingEdits, changeRev, edits, said, predicted, up, blockLane, ways>>
        /\ UNCHANGED <<block, blockRev, counts, inView, covered, sent, gen, countGen>>
    BY DEF View!ReceiveDamage, View!OutOfDate, View!server
  <1>2. feedback \in Seq(Cracks)
    BY DEF ViewInv, ViewTypes
  <1>3. feedback' \in Seq(Cracks) /\ DamageShifts /\ f = feedback[1] /\ f \in Cracks
    BY <1>1, <1>2, TakenFromFront DEF DamageShifts
  <1>4. /\ f.pos \in Positions /\ f.punches \in 0..(CountSize - 1) /\ f.rev \in 1..blockRev
        /\ f.rev \in Nat /\ f.rev # 0 /\ f.rev <= blockRev /\ CountSize \in Nat
    <2>1. f.rev \in 1..blockRev /\ blockRev \in Nat
      BY <1>3, PlayConstants DEF ViewInv, ViewTypes, OnTime, DamageShifts
    <2> QED BY <1>3, <2>1, PlayConstants DEF Cracks, View!ViewConstants
  <1>5. /\ cracks \in [Positions -> 0..(CountSize - 1)] /\ damageRev \in [Positions -> Nat]
    BY DEF ViewInv, ViewTypes
  <1>6. /\ cracks' \in [Positions -> 0..(CountSize - 1)] /\ damageRev' \in [Positions -> Nat]
        /\ \A p \in Positions :
             \/ cracks'[p] = cracks[p] /\ damageRev'[p] = damageRev[p]
                /\ (f.pos = p => View!OutOfDate(f))
             \/ /\ f.pos = p /\ ~View!OutOfDate(f) /\ cracks'[p] = f.punches
                /\ damageRev'[p] = IF f.punches = 0 THEN 0 ELSE f.rev
    <2>1. CASE View!OutOfDate(f)
      BY <1>1, <1>5, <2>1
    <2>2. CASE ~View!OutOfDate(f)
      BY <1>1, <1>4, <1>5, <2>2
    <2> QED BY <2>1, <2>2
  <1>7. \A p \in Positions : /\ cracks'[p] = 0 <=> damageRev'[p] = 0
                             /\ damageRev'[p] <= blockRev /\ changeRev[p] <= blockRev
    <2> SUFFICES ASSUME NEW p \in Positions
                 PROVE  /\ cracks'[p] = 0 <=> damageRev'[p] = 0
                        /\ damageRev'[p] <= blockRev /\ changeRev[p] <= blockRev
      OBVIOUS
    <2>1. /\ cracks[p] = 0 <=> damageRev[p] = 0
          /\ damageRev[p] <= blockRev /\ changeRev[p] <= blockRev
      BY DEF ViewInv, OnTime
    <2>2. blockRev \in Nat
      BY PlayConstants DEF ViewInv, ViewTypes
    <2>3. CASE cracks'[p] = cracks[p] /\ damageRev'[p] = damageRev[p]
      BY <2>1, <2>3
    <2>4. CASE cracks'[p] = f.punches /\ damageRev'[p] = IF f.punches = 0 THEN 0 ELSE f.rev
      BY <1>4, <2>1, <2>2, <2>4
    <2> QED BY <1>6, <2>3, <2>4
  <1>8. \A i \in DOMAIN feedback' : feedback'[i].rev \in 1..blockRev
    BY <1>3 DEF ViewInv, OnTime, DamageShifts
  <1>9. ViewTypes' /\ OnTime' /\ WordInv' /\ ways' \in Settings
    BY <1>1, <1>3, <1>6, <1>7, <1>8 DEF ViewInv, ViewTypes, OnTime, WordInv
  <1>10. CrackInv'
    <2> SUFFICES ASSUME Plain PROVE CrackInv'
      BY <1>1 DEF CrackInv, Plain
    <2>1. ASSUME NEW p \in Positions PROVE ToldOfChanges(p)' /\ UpdatesFit(p)' /\ ToldOfCounts(p)'
      <3>1. \/ feedback[1].pos # p /\ cracks'[p] = cracks[p] /\ damageRev'[p] = damageRev[p]
            \/ /\ feedback[1].pos = p /\ View!OutOfDate(feedback[1])
               /\ cracks'[p] = cracks[p] /\ damageRev'[p] = damageRev[p]
            \/ /\ feedback[1].pos = p /\ ~View!OutOfDate(feedback[1])
               /\ cracks'[p] = feedback[1].punches
               /\ damageRev'[p] = IF feedback[1].punches = 0 THEN 0 ELSE feedback[1].rev
        BY <1>3, <1>6 DEF View!OutOfDate
      <3>2. UpdatesFit(p)' /\ ToldOfCounts(p)'
        BY <1>1, <1>3, <3>1, DamageTold
      <3>3. ToldOfChanges(p)'
        BY <1>1 DEF ViewInv, CrackInv, ToldOfChanges
      <3> QED BY <3>2, <3>3
    <2> QED BY <1>1, <2>1 DEF ViewInv, CrackInv
  <1> QED BY <1>9, <1>10 DEF ViewInv

LEMMA PruneStep ==
  ASSUME ViewInv, NEW q \in Positions, View!Prune(q), UNCHANGED ways
  PROVE  ViewInv'
  <1>1. /\ changeRev[q] # 0 /\ \A i \in DOMAIN feedback : feedback[i].rev >= changeRev[q]
        /\ changeRev' = [changeRev EXCEPT ![q] = 0]
        /\ UNCHANGED <<held, pendingEdits, cracks, damageRev, edits, said, predicted, up, blockLane,
                       feedback, ways>>
        /\ UNCHANGED <<block, blockRev, counts, inView, covered, sent, gen, countGen>>
    BY DEF View!Prune, View!server
  <1>2. /\ changeRev \in [Positions -> Nat] /\ blockRev \in Nat
        /\ \A p \in Positions : changeRev[p] <= blockRev
    BY PlayConstants DEF ViewInv, ViewTypes, OnTime
  <1>3. /\ changeRev' \in [Positions -> Nat] /\ changeRev'[q] = 0
        /\ \A p \in Positions : changeRev'[p] <= blockRev /\ (p # q => changeRev'[p] = changeRev[p])
    BY <1>1, <1>2
  <1>4. ViewTypes' /\ OnTime' /\ WordInv' /\ ways' \in Settings
    BY <1>1, <1>3 DEF ViewInv, ViewTypes, OnTime, WordInv
  <1>5. CrackInv'
    <2> SUFFICES ASSUME Plain PROVE CrackInv'
      BY <1>1 DEF CrackInv, Plain
    <2>1. ASSUME NEW p \in Positions PROVE ToldOfChanges(p)' /\ UpdatesFit(p)' /\ ToldOfCounts(p)'
      <3>1. ToldOfChanges(p) /\ UpdatesFit(p) /\ ToldOfCounts(p)
        BY DEF ViewInv, CrackInv
      <3>2. ToldOfCounts(p)'
        BY <1>1, <3>1 DEF ToldOfCounts, IsLastOf, ShownIsTold
      <3>3. CASE p # q
        <4>1. changeRev'[p] = changeRev[p]
          BY <1>3, <3>3
        <4> QED BY <1>1, <3>1, <3>2, <4>1 DEF ToldOfChanges, UpdatesFit
      <3>4. CASE p = q
        <4>1. \A i \in DOMAIN blockLane : Alters(blockLane[i], p) => 0 < blockLane[i].rev
          BY DEF ViewInv, OnTime, Alters
        <4>2. ToldOfChanges(p)'
          BY <1>1, <1>3, <3>1, <3>4, <4>1 DEF ToldOfChanges
        <4>3. ASSUME NEW i \in DOMAIN feedback, feedback[i].pos = p
              PROVE  feedback[i].rev < changeRev'[p] <=> feedback[i].gen < said'[p].gen
          <5>1. /\ feedback[i].rev \in Nat /\ feedback[i].gen \in Nat /\ said[p].gen \in Nat
                /\ changeRev[p] \in Nat
            BY LaneFacts, ViewNumbers DEF ViewInv, Cracks
          <5>2. feedback[i].rev < changeRev[p] <=> feedback[i].gen < said[p].gen
            BY <3>1, <4>3 DEF UpdatesFit
          <5> QED BY <1>1, <1>3, <3>4, <5>1, <5>2
        <4>4. UpdatesFit(p)'
          BY <1>1, <3>1, <4>3 DEF UpdatesFit
        <4> QED BY <3>2, <4>2, <4>4
      <3> QED BY <3>3, <3>4
    <2> QED BY <1>1, <2>1 DEF ViewInv, CrackInv
  <1> QED BY <1>4, <1>5 DEF ViewInv

-----------------------------------------------------------------------------
(* The view's specification                                                                     *)

LEMMA ViewStarts == ASSUME View!Init PROVE ViewInv
  <1>1. /\ block \in [Positions -> View!Cells] /\ blockRev = 1 /\ counts = View!Zero
        /\ inView = TRUE /\ covered = TRUE /\ sent = 1
        /\ up = <<>> /\ blockLane = <<>> /\ feedback = <<>> /\ held = block /\ pendingEdits = <<>>
        /\ cracks = View!Zero /\ damageRev = View!Zero /\ changeRev = View!Zero
        /\ edits = 0 /\ gen = View!Zero /\ countGen = View!Zero
        /\ said = [p \in Positions |-> [block |-> block[p], gen |-> 0]] /\ predicted = {}
        /\ ways \in Settings
    BY DEF View!Init
  <1>2. /\ CountSize \in Nat \ {0} /\ MaxRev \in Nat \ {0} /\ Absent \notin [Positions -> View!Cells]
    BY PlayConstants DEF View!ViewConstants
  <1>3. /\ 0 \in 0..(CountSize - 1) /\ 1 \in 1..MaxRev /\ 1 \in 0..MaxRev
    BY <1>2
  <1>4. /\ View!Zero \in [Positions -> Nat] /\ View!Zero \in [Positions -> 0..(CountSize - 1)]
        /\ \A p \in Positions : View!Zero[p] = 0
    BY <1>3 DEF View!Zero
  <1>5. \A p \in Positions : said[p].block = block[p] /\ said[p].gen = 0 /\ said[p] \in Words
    BY <1>1 DEF Words
  <1>6. said \in [Positions -> Words]
    BY <1>1, <1>5
  <1>7. ViewTypes
    BY <1>1, <1>3, <1>4, <1>6 DEF ViewTypes
  <1>8. OnTime /\ WordInv
    BY <1>1, <1>4, <1>5 DEF OnTime, WordInv
  <1>9. CrackInv
    <2>1. ASSUME NEW p \in Positions PROVE ToldOfChanges(p) /\ UpdatesFit(p) /\ ToldOfCounts(p)
      BY <1>1, <1>4, <1>5 DEF ToldOfChanges, UpdatesFit, ToldOfCounts, ShownIsTold
    <2> QED BY <1>1, <1>2, <2>1 DEF CrackInv
  <1> QED BY <1>1, <1>7, <1>8, <1>9 DEF ViewInv

LEMMA ViewKeeps == ASSUME ViewInv, [View!Next]_viewVars PROVE ViewInv'
  <1>1. CASE UNCHANGED viewVars
    <2>1. /\ UNCHANGED <<block, blockRev, counts, inView, covered, sent, up, blockLane, feedback>>
          /\ UNCHANGED <<held, pendingEdits, cracks, damageRev, changeRev, edits, gen, countGen>>
          /\ UNCHANGED <<said, predicted, ways>>
      BY <1>1 DEF viewVars
    <2>2. ViewTypes' /\ OnTime' /\ WordInv' /\ ways' \in Settings
      BY <2>1 DEF ViewInv, ViewTypes, OnTime, WordInv
    <2>3. CrackInv'
      BY <2>1 DEF ViewInv, CrackInv, Plain, ToldOfChanges, UpdatesFit, ToldOfCounts, ShownIsTold, IsLastOf
    <2> QED BY <2>2, <2>3 DEF ViewInv
  <1>2. CASE View!Step /\ UNCHANGED ways
    <2>1. CASE View!HandleEdit
      BY <1>2, <2>1, HandleEditStep
    <2>2. CASE View!Tick
      BY <1>2, <2>2, TickStep
    <2>3. CASE View!Turn
      BY <1>2, <2>3, TurnStep
    <2>4. CASE View!ReceiveWorld
      BY <1>2, <2>4, ReceiveWorldStep
    <2>5. CASE View!ReceiveDamage
      BY <1>2, <2>5, ReceiveDamageStep
    <2>6. ASSUME NEW p \in Positions, NEW b \in View!Cells, View!OtherEdit(p, b) PROVE ViewInv'
      BY <1>2, <2>6, OtherEditStep
    <2>7. ASSUME NEW p \in Positions, NEW b \in View!Cells, View!ScriptSet(p, b) PROVE ViewInv'
      BY <1>2, <2>7, ScriptSetStep
    <2>8. ASSUME NEW p \in Positions, NEW b \in View!Cells, View!PushEdit(p, b) PROVE ViewInv'
      BY <1>2, <2>8, PushEditStep
    <2>9. ASSUME NEW p \in Positions, NEW damage \in 1..2, View!Punch(p, damage) PROVE ViewInv'
      BY <1>2, <2>9, PunchStep
    <2>10. ASSUME NEW p \in Positions, View!Heal(p) PROVE ViewInv'
      BY <1>2, <2>10, HealStep
    <2>11. ASSUME NEW p \in Positions, View!Prune(p) PROVE ViewInv'
      BY <1>2, <2>11, PruneStep
    <2> QED BY <1>2, <2>1, <2>2, <2>3, <2>4, <2>5, <2>6, <2>7, <2>8, <2>9, <2>10, <2>11 DEF View!Step
  <1> QED BY <1>1, <1>2 DEF View!Next

LEMMA ViewSays ==
  ASSUME ViewInv
  PROVE  View!AuthoritativeWins /\ View!CracksSettle /\ View!TypeOK
  <1>1. View!AuthoritativeWins
    BY DEF ViewInv, WordInv, View!AuthoritativeWins
  <1>2. View!CracksSettle
    <2> SUFFICES ASSUME View!Settled, Plain, NEW p \in Positions
                 PROVE  cracks[p] = IF countGen[p] = gen[p] THEN counts[p] ELSE 0
      BY DEF View!CracksSettle, Plain
    <2>1. blockLane = <<>> /\ feedback = <<>>
      BY DEF View!Settled
    <2>2. ToldOfChanges(p) /\ ToldOfCounts(p)
      BY DEF ViewInv, CrackInv
    <2>3. said[p].gen = gen[p]
      BY <2>1, <2>2 DEF ToldOfChanges
    <2>4. ShownIsTold(p) /\ countGen[p] <= gen[p]
      BY <2>1, <2>2 DEF ToldOfCounts, IsLastOf
    <2>5. countGen[p] \in Nat /\ gen[p] \in Nat
      BY ViewNumbers
    <2> QED BY <2>3, <2>4, <2>5 DEF ShownIsTold
  <1>3. View!TypeOK
    <2>1. \A i \in DOMAIN pendingEdits : /\ pendingEdits[i].pos \in Positions
                                         /\ pendingEdits[i].prev \in View!Cells
      BY EditsFit DEF ViewInv
    <2> QED BY <2>1 DEF ViewInv, ViewTypes, OnTime, View!TypeOK
  <1> QED BY <1>1, <1>2, <1>3

-----------------------------------------------------------------------------
(* Joins, changed logins and leaves on their way to the scripts                                 *)

In(s) == {s[i] : i \in DOMAIN s}
Once(s) == \A i \in DOMAIN s : \A j \in DOMAIN s : s[i] = s[j] => i = j

LEMMA QueuedLast ==
  ASSUME NEW S, NEW s \in Seq(S), NEW e \in S
  PROVE  /\ Append(s, e) \in Seq(S) /\ In(Append(s, e)) = In(s) \union {e}
         /\ Once(s) /\ e \notin In(s) => Once(Append(s, e))
  <1> DEFINE t == Append(s, e)
  <1>1. /\ t \in Seq(S) /\ DOMAIN t = 1..(Len(s) + 1) /\ Len(s) \in Nat
        /\ t[Len(s) + 1] = e /\ DOMAIN s = 1..Len(s)
        /\ \A i \in DOMAIN s : i \in DOMAIN t /\ t[i] = s[i]
        /\ \A i \in DOMAIN t : i \in DOMAIN s \/ i = Len(s) + 1
    BY PutAtEnd
  <1> HIDE DEF t
  <1>2. In(t) = In(s) \union {e}
    BY <1>1 DEF In
  <1>3. ASSUME Once(s), e \notin In(s) PROVE Once(t)
    BY <1>1, <1>3 DEF Once, In
  <1> QED BY <1>1, <1>2, <1>3 DEF t

LEMMA ToldFirst ==
  ASSUME NEW S, NEW s \in Seq(S), s # <<>>
  PROVE  /\ Tail(s) \in Seq(S) /\ Head(s) \in In(s) /\ Head(s) \in S
         /\ In(s) = In(Tail(s)) \union {Head(s)}
         /\ Once(s) => Head(s) \notin In(Tail(s)) /\ Once(Tail(s))
  <1> DEFINE t == Tail(s)
             h == Head(s)
  <1>1. /\ 1 \in DOMAIN s /\ h = s[1] /\ h \in S /\ t \in Seq(S)
        /\ \A i \in DOMAIN t : i \in Nat \ {0} /\ i + 1 \in DOMAIN s /\ t[i] = s[i + 1]
        /\ \A i \in DOMAIN s : i # 1 => i - 1 \in DOMAIN t /\ t[i - 1] = s[i]
    BY TakenFromFront
  <1> HIDE DEF t, h
  <1>2. h \in In(s) /\ In(s) = In(t) \union {h}
    BY <1>1 DEF In
  <1>3. ASSUME Once(s) PROVE h \notin In(t) /\ Once(t)
    <2>1. h \notin In(t)
      BY <1>1, <1>3 DEF Once, In
    <2>2. ASSUME NEW i \in DOMAIN t, NEW j \in DOMAIN t, t[i] = t[j] PROVE i = j
      <3>1. i + 1 = j + 1
        BY <1>1, <1>3, <2>2 DEF Once
      <3> QED BY <1>1, <3>1
    <2> QED BY <2>1, <2>2 DEF Once
  <1> QED BY <1>1, <1>2, <1>3 DEF t, h

(* A player joins once and leaves once, and what the scripts are still to be told of it comes in   *)
(* that order: no change of a login before its join, no leave before either.                      *)
Here(p) == stage[p] = "playing" \/ p \in In(leaves)

LoginInv ==
  /\ joins \in Seq(Players) /\ login_changes \in Seq(Players) /\ leaves \in Seq(Players)
  /\ logins \in SUBSET Players /\ stage \in [Players -> {"out", "playing", "gone"}]
  /\ Once(joins) /\ Once(leaves)
  /\ \A p \in In(leaves) : stage[p] = "gone"
  /\ \A p \in In(joins) : Here(p)
  /\ \A p \in In(login_changes) : Here(p) /\ p \notin In(joins)
  /\ \A p \in Players : p \in logins <=> Here(p) /\ p \notin In(joins)

LEMMA LoginsStart == ASSUME Game!Init PROVE LoginInv
  BY DEF Game!Init, LoginInv, In, Once, Here

LEMMA LoginsKept ==
  ASSUME LoginInv, UNCHANGED <<stage, joins, login_changes, leaves, logins>>
  PROVE  LoginInv'
  BY DEF LoginInv, In, Once, Here

LEMMA JoinStep == ASSUME LoginInv, NEW p \in Players, Game!Join(p) PROVE LoginInv'
  <1>1. /\ stage[p] = "out" /\ stage' = [stage EXCEPT ![p] = "playing"]
        /\ joins' = Append(joins, p) /\ UNCHANGED <<login_changes, leaves, logins>>
    BY DEF Game!Join
  <1>2. In(joins)' = In(joins') /\ In(leaves)' = In(leaves) /\ In(login_changes)' = In(login_changes)
        /\ Once(joins)' = Once(joins') /\ Once(leaves)' = Once(leaves)
    BY <1>1 DEF In, Once
  <1>3. joins \in Seq(Players) /\ p \notin In(joins) /\ p \notin In(leaves)
    BY <1>1 DEF LoginInv, Here
  <1>4. joins' \in Seq(Players) /\ In(joins)' = In(joins) \union {p} /\ Once(joins)'
    BY <1>1, <1>2, <1>3, QueuedLast DEF LoginInv
  <1>5. /\ stage' \in [Players -> {"out", "playing", "gone"}] /\ stage'[p] = "playing"
        /\ \A q \in Players : q # p => stage'[q] = stage[q]
    BY <1>1 DEF LoginInv
  <1>6. In(joins) \subseteq Players /\ In(leaves) \subseteq Players /\ In(login_changes) \subseteq Players
    BY DEF LoginInv, In
  <1>7. \A q \in Players : Here(q)' <=> Here(q) \/ q = p
    BY <1>1, <1>2, <1>3, <1>5 DEF Here
  <1>8. p \notin logins /\ p \notin In(login_changes)
    BY <1>1, <1>3 DEF LoginInv, Here
  <1> QED BY <1>1, <1>2, <1>3, <1>4, <1>5, <1>6, <1>7, <1>8 DEF LoginInv

LEMMA LeaveGameStep == ASSUME LoginInv, NEW p \in Players, Game!Leave(p) PROVE LoginInv'
  <1>1. /\ stage[p] = "playing" /\ stage' = [stage EXCEPT ![p] = "gone"]
        /\ leaves' = Append(leaves, p) /\ UNCHANGED <<joins, login_changes, logins>>
    BY DEF Game!Leave
  <1>2. In(joins)' = In(joins) /\ In(leaves)' = In(leaves') /\ In(login_changes)' = In(login_changes)
        /\ Once(joins)' = Once(joins) /\ Once(leaves)' = Once(leaves')
    BY <1>1 DEF In, Once
  <1>3. leaves \in Seq(Players) /\ p \notin In(leaves)
    BY <1>1 DEF LoginInv
  <1>4. leaves' \in Seq(Players) /\ In(leaves)' = In(leaves) \union {p} /\ Once(leaves)'
    BY <1>1, <1>2, <1>3, QueuedLast DEF LoginInv
  <1>5. /\ stage' \in [Players -> {"out", "playing", "gone"}] /\ stage'[p] = "gone"
        /\ \A q \in Players : q # p => stage'[q] = stage[q]
    BY <1>1 DEF LoginInv
  <1>6. In(joins) \subseteq Players /\ In(leaves) \subseteq Players /\ In(login_changes) \subseteq Players
    BY DEF LoginInv, In
  <1>7. \A q \in Players : Here(q)' <=> Here(q)
    BY <1>1, <1>3, <1>4, <1>5 DEF Here
  <1> QED BY <1>1, <1>2, <1>4, <1>5, <1>6, <1>7 DEF LoginInv

LEMMA LoginChangesStep == ASSUME LoginInv, NEW p \in Players, Game!LoginChanges(p) PROVE LoginInv'
  <1>1. /\ stage[p] = "playing" /\ p \notin In(joins)
        /\ login_changes' = Append(login_changes, p) /\ UNCHANGED <<stage, joins, leaves, logins>>
    BY DEF Game!LoginChanges, Game!ToSet, Game!session, In
  <1>2. In(joins)' = In(joins) /\ In(leaves)' = In(leaves) /\ In(login_changes)' = In(login_changes')
        /\ Once(joins)' = Once(joins) /\ Once(leaves)' = Once(leaves)
    BY <1>1 DEF In, Once
  <1>3. login_changes' \in Seq(Players) /\ In(login_changes)' = In(login_changes) \union {p}
    BY <1>1, <1>2, QueuedLast DEF LoginInv
  <1>4. \A q : Here(q)' <=> Here(q)
    BY <1>1, <1>2 DEF Here
  <1>5. Here(p)
    BY <1>1 DEF Here
  <1> QED BY <1>1, <1>2, <1>3, <1>4, <1>5 DEF LoginInv

LEMMA HostJoinStep == ASSUME LoginInv, Game!HostJoin PROVE LoginInv'
  <1>1. /\ joins # <<>> /\ joins' = Tail(joins) /\ logins' = logins \union {Head(joins)}
        /\ UNCHANGED <<stage, login_changes, leaves>>
    BY DEF Game!HostJoin, Game!session
  <1>2. In(joins)' = In(joins') /\ In(leaves)' = In(leaves) /\ In(login_changes)' = In(login_changes)
        /\ Once(joins)' = Once(joins') /\ Once(leaves)' = Once(leaves)
    BY <1>1 DEF In, Once
  <1>3. /\ joins' \in Seq(Players) /\ Head(joins) \in In(joins) /\ Head(joins) \in Players
        /\ In(joins) = In(joins)' \union {Head(joins)}
        /\ Head(joins) \notin In(joins)' /\ Once(joins)'
    BY <1>1, <1>2, ToldFirst DEF LoginInv
  <1>4. \A q : Here(q)' <=> Here(q)
    BY <1>1, <1>2 DEF Here
  <1> QED BY <1>1, <1>2, <1>3, <1>4 DEF LoginInv

LEMMA HostLoginChangedStep == ASSUME LoginInv, Game!HostLoginChanged PROVE LoginInv'
  <1>1. /\ login_changes # <<>> /\ login_changes' = Tail(login_changes)
        /\ logins' = logins \union {Head(login_changes)} /\ UNCHANGED <<stage, joins, leaves>>
    BY DEF Game!HostLoginChanged, Game!session
  <1>2. In(joins)' = In(joins) /\ In(leaves)' = In(leaves) /\ In(login_changes)' = In(login_changes')
        /\ Once(joins)' = Once(joins) /\ Once(leaves)' = Once(leaves)
    BY <1>1 DEF In, Once
  <1>3. /\ login_changes' \in Seq(Players) /\ Head(login_changes) \in In(login_changes)
        /\ Head(login_changes) \in Players /\ In(login_changes)' \subseteq In(login_changes)
    BY <1>1, <1>2, ToldFirst DEF LoginInv
  <1>4. \A q : Here(q)' <=> Here(q)
    BY <1>1, <1>2 DEF Here
  <1>5. logins' = logins
    BY <1>1, <1>3 DEF LoginInv
  <1> QED BY <1>1, <1>2, <1>3, <1>4, <1>5 DEF LoginInv

LEMMA HostLeaveStep == ASSUME LoginInv, Game!HostLeave PROVE LoginInv'
  <1>1. /\ joins = <<>> /\ login_changes = <<>> /\ leaves # <<>>
        /\ leaves' = Tail(leaves) /\ logins' = logins \ {Head(leaves)}
        /\ UNCHANGED <<stage, joins, login_changes>>
    BY DEF Game!HostLeave, Game!MayTellLeave, Game!session
  <1>2. In(joins)' = {} /\ In(leaves)' = In(leaves') /\ In(login_changes)' = {}
        /\ In(joins) = {} /\ Once(joins)' = Once(joins) /\ Once(leaves)' = Once(leaves')
    BY <1>1 DEF In, Once
  <1>3. /\ leaves' \in Seq(Players) /\ Head(leaves) \in In(leaves) /\ Head(leaves) \in Players
        /\ In(leaves) = In(leaves)' \union {Head(leaves)}
        /\ Head(leaves) \notin In(leaves)' /\ Once(leaves)'
    BY <1>1, <1>2, ToldFirst DEF LoginInv
  <1>4. stage[Head(leaves)] = "gone"
    BY <1>3 DEF LoginInv
  <1>5. \A q \in Players : Here(q)' <=> Here(q) /\ q # Head(leaves)
    BY <1>1, <1>3, <1>4 DEF Here
  <1> QED BY <1>1, <1>2, <1>3, <1>5 DEF LoginInv

LEMMA LoginsKeep == ASSUME LoginInv, [Game!Next]_gameVars PROVE LoginInv'
  <1>1. CASE UNCHANGED gameVars
    BY <1>1, LoginsKept DEF gameVars
  <1>2. CASE Game!NextPhase
    BY <1>2, LoginsKept DEF Game!NextPhase, Game!session, Game!queues
  <1>3. CASE Game!Script
    BY <1>3, LoginsKept DEF Game!Script, Game!Give, Game!Take, Game!SpawnDrop, Game!Damage,
         Game!Teleport, Game!session, Game!queues
  <1>4. CASE Game!UpdateDrops
    BY <1>4, LoginsKept DEF Game!UpdateDrops, Game!session, Game!queues
  <1>5. CASE Game!UpdateHold
    BY <1>5, LoginsKept DEF Game!UpdateHold, Game!session, Game!queues
  <1>6. CASE Game!HostJoin \/ Game!HostLoginChanged \/ Game!HostLeave
    BY <1>6, HostJoinStep, HostLoginChangedStep, HostLeaveStep
  <1>7. ASSUME NEW p \in Players, Game!Network(p) PROVE LoginInv'
    <2>1. CASE Game!Move(p) \/ Game!BreakBegin(p) \/ Game!BreakStop(p)
      BY <2>1, LoginsKept DEF Game!Move, Game!BreakBegin, Game!BreakStop, Game!session, Game!queues
    <2> QED BY <1>7, <2>1, JoinStep, LeaveGameStep, LoginChangesStep DEF Game!Network
  <1>8. ASSUME NEW p \in Players,
               Game!Hunger(p) \/ Game!Alive(p) \/ Game!Respawn(p) \/ Game!Occupancy(p)
        PROVE  LoginInv'
    BY <1>8, LoginsKept DEF Game!Hunger, Game!Alive, Game!Respawn, Game!Occupancy, Game!session,
         Game!queues
  <1> QED BY <1>1, <1>2, <1>3, <1>4, <1>5, <1>6, <1>7, <1>8 DEF Game!Next

-----------------------------------------------------------------------------
(* The run's specification, which may be any of the parts                     *)

(* What a part keeps only while it runs, it keeps in the run.                  *)
LEMMA ViewAlways == RunSpec => [](which = "view" => ViewInv)
  <1>1. RunInit => (which = "view" => ViewInv)
    BY ViewStarts DEF RunInit
  <1>2. (which = "view" => ViewInv) /\ [RunNext]_allVars => (which = "view" => ViewInv)'
    <2> SUFFICES ASSUME which' = "view", which = "view" => ViewInv, [RunNext]_allVars PROVE ViewInv'
      OBVIOUS
    <2>1. which = "view"
      BY DEF RunNext, allVars
    <2>2. [View!Next]_viewVars
      BY <2>1 DEF RunNext, Only, allVars
    <2> QED BY <2>1, <2>2, ViewKeeps
  <1> QED BY <1>1, <1>2, PTL DEF RunSpec

\* What the server last said of a block is what the client shows, except where the client itself
\* predicted something since; and the cracks of a block end up as the server counts them, on the
\* block they were counted for, in a chunk whose changes are told as they are made
\* (session.cpp:2133, BlockDamageTracker).
THEOREM ViewAlwaysSettles == RunSpec => []ViewSettles
  <1>1. (which = "view" => ViewInv) => ViewSettles
    BY ViewSays DEF ViewSettles
  <1> QED BY <1>1, ViewAlways, PTL

\* The player's blocks, edits and cracks have their types, and nothing the client remembers is of a
\* revision the chunk has yet to have.
THEOREM ViewTypeCorrect == RunSpec => [](which = "view" => View!TypeOK)
  <1>1. (which = "view" => ViewInv) => (which = "view" => View!TypeOK)
    BY ViewSays
  <1> QED BY <1>1, ViewAlways, PTL

\* A player's login is known to the scripts from its join until they are told that it left, and no
\* longer, in whatever order joins, changed logins and leaves come to the three queues
\* (PackRuntime).
THEOREM LoginsAlwaysFollow == RunSpec => []LoginsFollow
  <1>1. RunInit => (which = "game" => LoginInv)
    BY LoginsStart DEF RunInit
  <1>2. (which = "game" => LoginInv) /\ [RunNext]_allVars => (which = "game" => LoginInv)'
    <2> SUFFICES ASSUME which' = "game", which = "game" => LoginInv, [RunNext]_allVars PROVE LoginInv'
      OBVIOUS
    <2>1. which = "game"
      BY DEF RunNext, allVars
    <2>2. [Game!Next]_gameVars
      BY <2>1 DEF RunNext, Only, allVars
    <2> QED BY <2>1, <2>2, LoginsKeep
  <1>3. (which = "game" => LoginInv) => LoginsFollow
    BY DEF LoginsFollow, Game!LoginsFollow, LoginInv, Here, In, Game!ToSet
  <1> QED BY <1>1, <1>2, <1>3, PTL DEF RunSpec

-----------------------------------------------------------------------------
(* Sums of sequences, by which the stacks and drops of Gameplay are counted.   *)

\* Induction up to N: of what holds of 0, and of the next number of each, the complement has no
\* least element.
LEMMA Inductive ==
  ASSUME NEW N \in Nat, NEW P, 0 \in P, \A n \in 0..(N - 1) : n \in P => n + 1 \in P
  PROVE  \A n \in 0..N : n \in P
<1> DEFINE Out == {n \in 0..N : n \notin P}
<1> SUFFICES ASSUME Out # {} PROVE FALSE
  OBVIOUS
<1>1. PICK m \in Out : \A k \in Out : m <= k
  <2>1. Out \in SUBSET Nat
    OBVIOUS
  <2> HIDE DEF Out
  <2> QED BY <2>1, LeastOf
<1>2. m # 0 /\ m - 1 \in 0..(N - 1)
  BY <1>1
<1>3. m - 1 \in P
  BY <1>1, <1>2
<1>4. (m - 1) + 1 \in P
  BY <1>2, <1>3
<1> QED BY <1>1, <1>4

\* The sums of the first n are there, and are what their definition says.
LEMMA SumsAre ==
  ASSUME NEW s, Len(s) \in Nat
  PROVE  /\ DOMAIN Game!Sums(s) = 0..Len(s) /\ Game!Sums(s)[0] = 0
         /\ \A n \in 1..Len(s) : Game!Sums(s)[n] = Game!Sums(s)[n - 1] + s[n]
<1> DEFINE First(f, m) == f = [n \in 0..m |-> IF n = 0 THEN 0 ELSE f[n - 1] + s[n]]
           P == {m \in Nat : \E f : First(f, m)}
<1>1. 0 \in P
  <2>1. First([n \in 0..0 |-> 0], 0)
    OBVIOUS
  <2> QED BY <2>1
<1>2. ASSUME NEW m \in 0..(Len(s) - 1), m \in P PROVE m + 1 \in P
  <2>1. PICK f : First(f, m)
    BY <1>2
  <2> DEFINE g == [n \in 0..(m + 1) |-> IF n = m + 1 THEN f[m] + s[m + 1] ELSE f[n]]
  <2>2. First(g, m + 1)
    <3>1. ASSUME NEW n \in 0..(m + 1) PROVE g[n] = IF n = 0 THEN 0 ELSE g[n - 1] + s[n]
      BY <2>1
    <3> QED BY <3>1
  <2>3. \E h : First(h, m + 1)
    <3> HIDE DEF First, g
    <3> QED BY <2>2
  <2> QED BY <2>3
<1>3. \E f : First(f, Len(s))
  <2>1. \A m \in 0..(Len(s) - 1) : m \in P => m + 1 \in P
    BY <1>2
  <2> HIDE DEF P
  <2>2. \A m \in 0..Len(s) : m \in P
    BY <1>1, <2>1, Inductive
  <2>3. Len(s) \in P
    BY <2>2
  <2> QED BY <2>3 DEF P
<1>4. First(Game!Sums(s), Len(s))
  BY <1>3 DEF Game!Sums
<1> HIDE DEF P
<1> QED BY <1>4

\* Whatever adds up in the same way is the sum.
LEMMA SumsOf ==
  ASSUME NEW s \in Seq(Int), NEW g, g[0] = 0,
         \A n \in 1..Len(s) : g[n - 1] \in Int => g[n] = g[n - 1] + s[n]
  PROVE  \A n \in 0..Len(s) : Game!Sums(s)[n] \in Int /\ g[n] = Game!Sums(s)[n]
<1> DEFINE P == {n \in Nat : Game!Sums(s)[n] \in Int /\ g[n] = Game!Sums(s)[n]}
<1>1. Len(s) \in Nat /\ \A n \in 1..Len(s) : s[n] \in Int
  BY LenProperties, ElementOfSeq
<1>2. 0 \in P
  BY <1>1, SumsAre
<1>3. ASSUME NEW n \in 0..(Len(s) - 1), n \in P PROVE n + 1 \in P
  <2>1. n + 1 \in 1..Len(s) /\ (n + 1) - 1 = n
    BY <1>1
  <2>2. Game!Sums(s)[n + 1] = Game!Sums(s)[n] + s[n + 1]
    BY <1>1, <2>1, SumsAre
  <2>3. g[n + 1] = g[n] + s[n + 1]
    BY <1>3, <2>1
  <2> QED BY <1>1, <1>3, <2>1, <2>2, <2>3
<1> HIDE DEF P
<1>4. \A n \in 0..Len(s) : n \in P
  BY <1>1, <1>2, <1>3, Inductive
<1> QED BY <1>4 DEF P

LEMMA SumsInt ==
  ASSUME NEW s \in Seq(Int)
  PROVE  /\ \A n \in 0..Len(s) : Game!Sums(s)[n] \in Int
         /\ Game!Sums(s)[0] = 0
         /\ \A n \in 1..Len(s) : Game!Sums(s)[n] = Game!Sums(s)[n - 1] + s[n]
         /\ Game!Sum(s) \in Int /\ Game!Sum(s) = Game!Sums(s)[Len(s)]
<1>1. Len(s) \in Nat
  BY LenProperties
<1>2. \A n \in 0..Len(s) : Game!Sums(s)[n] \in Int
  BY <1>1, SumsAre, SumsOf
<1> QED BY <1>1, <1>2, SumsAre DEF Game!Sum

\* What adds up in the same way ends with the sum.
LEMMA SumOf ==
  ASSUME NEW s \in Seq(Int), NEW g, g[0] = 0,
         \A n \in 1..Len(s) : g[n - 1] \in Int => g[n] = g[n - 1] + s[n]
  PROVE  Game!Sum(s) = g[Len(s)]
<1>1. Len(s) \in 0..Len(s)
  BY LenProperties
<1>2. g[Len(s)] = Game!Sums(s)[Len(s)]
  BY <1>1, SumsOf
<1> QED BY <1>2 DEF Game!Sum

\* Of numbers that are not negative nor is the sum.
LEMMA SumsNat ==
  ASSUME NEW s \in Seq(Nat)
  PROVE  (\A n \in 0..Len(s) : Game!Sums(s)[n] \in Nat) /\ Game!Sum(s) \in Nat /\ s \in Seq(Int)
<1> DEFINE P == {n \in Nat : Game!Sums(s)[n] \in Nat}
<1>1. s \in Seq(Int) /\ Len(s) \in Nat /\ \A n \in 1..Len(s) : s[n] \in Nat
  <2>1. s \in Seq(Int)
    BY SeqDef
  <2> QED BY <2>1, LenProperties, ElementOfSeq
<1>2. 0 \in P
  BY <1>1, SumsInt
<1>3. ASSUME NEW n \in 0..(Len(s) - 1), n \in P PROVE n + 1 \in P
  <2>1. n + 1 \in 1..Len(s) /\ (n + 1) - 1 = n
    BY <1>1
  <2>2. Game!Sums(s)[n + 1] = Game!Sums(s)[n] + s[n + 1]
    BY <1>1, <2>1, SumsInt
  <2> QED BY <1>1, <1>3, <2>1, <2>2
<1> HIDE DEF P
<1>4. \A n \in 0..Len(s) : n \in P
  BY <1>1, <1>2, <1>3, Inductive
<1> QED BY <1>1, <1>4 DEF P, Game!Sum

\* A function on 1..n is a sequence.
LEMMA AsSeq ==
  ASSUME NEW N \in Nat, NEW S, NEW s \in [1..N -> S]
  PROVE  s \in Seq(S) /\ Len(s) = N /\ DOMAIN s = 1..N
<1>1. s \in Seq(S)
  BY SeqDef
<1> QED BY <1>1, LenProperties

\* One number more.
LEMMA SumAppend ==
  ASSUME NEW s \in Seq(Int), NEW n \in Int
  PROVE  Append(s, n) \in Seq(Int) /\ Game!Sum(Append(s, n)) = Game!Sum(s) + n
<1> DEFINE t == Append(s, n)
           g == [i \in 0..Len(t) |-> IF i = Len(t) THEN Game!Sum(s) + n ELSE Game!Sums(s)[i]]
<1>1. /\ t \in Seq(Int) /\ Len(s) \in Nat /\ Len(t) = Len(s) + 1
      /\ \A i \in 1..Len(s) : t[i] = s[i]
      /\ t[Len(t)] = n
  BY AppendProperties, LenProperties
<1> HIDE DEF t
<1>2. g[0] = 0 /\ \A i \in 1..Len(t) : g[i - 1] \in Int => g[i] = g[i - 1] + t[i]
  <2>1. g[0] = 0
    BY <1>1, SumsInt
  <2>2. ASSUME NEW i \in 1..Len(t) PROVE g[i] = g[i - 1] + t[i]
    <3>1. CASE i = Len(t)
      <4>1. g[i] = Game!Sum(s) + n /\ g[i - 1] = Game!Sums(s)[Len(s)]
        BY <1>1, <3>1
      <4> QED BY <1>1, <3>1, <4>1, SumsInt
    <3>2. CASE i # Len(t)
      <4>1. i \in 1..Len(s) /\ t[i] = s[i] /\ g[i] = Game!Sums(s)[i] /\ g[i - 1] = Game!Sums(s)[i - 1]
        BY <1>1, <3>2
      <4> QED BY <4>1, SumsInt
    <3> QED BY <3>1, <3>2
  <2> QED BY <2>1, <2>2
<1>3. g[Len(t)] = Game!Sum(s) + n
  BY <1>1
<1> HIDE DEF g
<1>4. Game!Sum(t) = g[Len(t)]
  BY <1>1, <1>2, SumOf
<1> QED BY <1>1, <1>3, <1>4 DEF t

\* One number is another.
LEMMA SumChanged ==
  ASSUME NEW s \in Seq(Int), NEW t \in Seq(Int), Len(t) = Len(s), NEW k \in 1..Len(s),
         \A i \in 1..Len(s) : i # k => t[i] = s[i]
  PROVE  Game!Sum(t) = Game!Sum(s) - s[k] + t[k]
<1>1. Len(s) \in Nat /\ s[k] \in Int /\ t[k] \in Int
  BY LenProperties, ElementOfSeq
<1>2. PICK g : g = [i \in 0..Len(t) |-> Game!Sums(s)[i] + (IF i < k THEN 0 ELSE t[k] - s[k])]
  OBVIOUS
<1>3. g[0] = 0
  BY <1>1, <1>2, SumsInt
<1>4. ASSUME NEW i \in 1..Len(t) PROVE g[i] = g[i - 1] + t[i]
  <2>1. t[i] \in Int /\ s[i] \in Int /\ (i # k => t[i] = s[i])
    BY ElementOfSeq
  <2>2. Game!Sums(s)[i] = Game!Sums(s)[i - 1] + s[i] /\ Game!Sums(s)[i - 1] \in Int
    <3>1. i - 1 \in 0..Len(s) /\ i \in 1..Len(s)
      BY <1>1
    <3> QED BY <3>1, SumsInt
  <2>3. /\ g[i] = Game!Sums(s)[i] + (IF i < k THEN 0 ELSE t[k] - s[k])
        /\ g[i - 1] = Game!Sums(s)[i - 1] + (IF i - 1 < k THEN 0 ELSE t[k] - s[k])
    BY <1>1, <1>2
  <2>4. CASE i = k
    BY <1>1, <2>1, <2>2, <2>3, <2>4
  <2>5. CASE i # k
    <3>1. i < k <=> i - 1 < k
      BY <1>1, <2>5
    <3>2. PICK c \in Int : c = (IF i < k THEN 0 ELSE t[k] - s[k])
      BY <1>1
    <3>3. g[i] = Game!Sums(s)[i] + c /\ g[i - 1] = Game!Sums(s)[i - 1] + c
      BY <2>3, <3>1, <3>2, Zenon
    <3> QED BY <2>1, <2>2, <2>5, <3>3
  <2> QED BY <2>4, <2>5
<1>5. g[Len(t)] = Game!Sum(s) - s[k] + t[k]
  BY <1>1, <1>2, SumsInt
<1>6. Game!Sum(t) = g[Len(t)]
  BY <1>3, <1>4, SumOf
<1> QED BY <1>5, <1>6

\* The sum of sums.
LEMMA SumsAdd ==
  ASSUME NEW r \in Seq(Int), NEW s \in Seq(Int), NEW t \in Seq(Int), Len(r) = Len(s), Len(r) = Len(t),
         \A i \in 1..Len(r) : r[i] = s[i] + t[i]
  PROVE  Game!Sum(r) = Game!Sum(s) + Game!Sum(t)
<1> DEFINE g == [i \in 0..Len(r) |-> Game!Sums(s)[i] + Game!Sums(t)[i]]
<1>1. Len(r) \in Nat
  BY LenProperties
<1>2. g[0] = 0
  BY <1>1, SumsInt
<1>3. ASSUME NEW i \in 1..Len(r) PROVE g[i] = g[i - 1] + r[i]
  <2>1. i \in 1..Len(s) /\ i \in 1..Len(t) /\ i - 1 \in 0..Len(s) /\ i - 1 \in 0..Len(t)
    BY <1>1
  <2>2. /\ Game!Sums(s)[i] = Game!Sums(s)[i - 1] + s[i] /\ Game!Sums(s)[i - 1] \in Int
        /\ Game!Sums(t)[i] = Game!Sums(t)[i - 1] + t[i] /\ Game!Sums(t)[i - 1] \in Int
    BY <2>1, SumsInt
  <2>3. s[i] \in Int /\ t[i] \in Int /\ r[i] = s[i] + t[i]
    BY <2>1, ElementOfSeq
  <2>4. g[i] = Game!Sums(s)[i] + Game!Sums(t)[i] /\ g[i - 1] = Game!Sums(s)[i - 1] + Game!Sums(t)[i - 1]
    BY <1>1
  <2>5. Game!Sums(s)[i] + Game!Sums(t)[i]
          = (Game!Sums(s)[i - 1] + Game!Sums(t)[i - 1]) + r[i]
    BY <2>2, <2>3, SMTT(30)
  <2> QED BY <2>4, <2>5
<1>4. g[Len(r)] = Game!Sum(s) + Game!Sum(t)
  BY <1>1 DEF Game!Sum
<1> HIDE DEF g
<1>5. Game!Sum(r) = g[Len(r)]
  BY <1>2, <1>3, SumOf
<1> QED BY <1>4, <1>5

-----------------------------------------------------------------------------
(* Stacks of items.                                                            *)

LEMMA MaxMinOfTwo ==
  ASSUME NEW a \in Int, NEW b \in Int
  PROVE  /\ Game!Max({a, b}) = IF a >= b THEN a ELSE b
         /\ Game!Min({a, b}) = IF a <= b THEN a ELSE b
<1>1. Game!Max({a, b}) = IF a >= b THEN a ELSE b
  <2>1. \E x \in {a, b} : \A y \in {a, b} : x >= y
    OBVIOUS
  <2>2. Game!Max({a, b}) \in {a, b} /\ \A y \in {a, b} : Game!Max({a, b}) >= y
    BY <2>1 DEF Game!Max
  <2> QED BY <2>2
<1>2. Game!Min({a, b}) = IF a <= b THEN a ELSE b
  <2>1. \E x \in {a, b} : \A y \in {a, b} : x <= y
    OBVIOUS
  <2>2. Game!Min({a, b}) \in {a, b} /\ \A y \in {a, b} : Game!Min({a, b}) <= y
    BY <2>1 DEF Game!Min
  <2> QED BY <2>2
<1> QED BY <1>1, <1>2

\* What goes onto a stack that has room, of n when `before` went onto others.
LEMMA Fills ==
  ASSUME NEW n \in Int, NEW room \in Nat, NEW before \in Nat
  PROVE  LET goes == Game!Max({0, Game!Min({room, n - before})})
         IN  /\ goes \in 0..room
             /\ n <= before => goes = 0
             /\ before <= n /\ n <= before + room => goes = n - before
             /\ before + room <= n => goes = room
<1>1. PICK y \in Int : y = n - before
  OBVIOUS
<1>2. PICK m \in Int : m = Game!Min({room, y}) /\ m = IF room <= y THEN room ELSE y
  <2>1. Game!Min({room, y}) = IF room <= y THEN room ELSE y
    BY MaxMinOfTwo
  <2> QED BY <2>1
<1>3. PICK a \in Int : a = Game!Max({0, m}) /\ a = IF 0 >= m THEN 0 ELSE m
  <2>1. Game!Max({0, m}) = IF 0 >= m THEN 0 ELSE m
    BY MaxMinOfTwo
  <2> QED BY <2>1
<1>4. /\ a \in 0..room
      /\ n <= before => a = 0
      /\ before <= n /\ n <= before + room => a = n - before
      /\ before + room <= n => a = room
  <2>1. room <= n - before => m = room
    BY <1>1, <1>2
  <2>2. ~(room <= n - before) => m = n - before
    BY <1>1, <1>2
  <2>3. (0 >= m => a = 0) /\ (~(0 >= m) => a = m)
    BY <1>3
  <2>4. CASE n <= before
    <3>1. m <= 0
      BY <2>1, <2>2, <2>4
    <3> QED BY <2>3, <2>4, <3>1
  <2>5. CASE before < n /\ n <= before + room
    <3>1. m = n - before
      BY <2>1, <2>2, <2>5
    <3> QED BY <2>3, <2>5, <3>1
  <2>6. CASE before + room < n
    <3>1. m = room
      BY <2>1, <2>2, <2>6
    <3> QED BY <2>3, <2>6, <3>1
  <2> QED BY <2>4, <2>5, <2>6
<1> QED BY <1>1, <1>2, <1>3, <1>4, Zenon

Stacks == Seq(1..MaxStack)

LEMMA StacksAre ==
  ASSUME NEW s \in Stacks
  PROVE  /\ s \in Seq(Int) /\ s \in Seq(Nat) /\ Len(s) \in Nat /\ DOMAIN s = 1..Len(s)
         /\ \A i \in 1..Len(s) : s[i] \in 1..MaxStack
         /\ MaxStack \in Nat \ {0}
<1>1. MaxStack \in Nat \ {0}
  BY PlayConstants DEF Game!GameBounds
<1>2. s \in Seq(Int) /\ s \in Seq(Nat)
  BY <1>1, SeqDef DEF Stacks
<1> QED BY <1>1, <1>2, LenProperties, ElementOfSeq DEF Stacks

\* Giving n items (as many as fit one stack, at most) leaves stacks with n items more.
LEMMA StackedAdds ==
  ASSUME NEW s \in Stacks, NEW n \in 1..MaxStack
  PROVE  /\ Game!Stacked(s, n) \in Stacks
         /\ Game!Sum(Game!Stacked(s, n)) = Game!Sum(s) + n
<1>1. PICK free : free = [i \in DOMAIN s |-> MaxStack - s[i]]
  OBVIOUS
<1>2. /\ free \in Seq(Nat) /\ free \in Seq(Int) /\ Len(free) = Len(s)
      /\ \A i \in 1..Len(s) : free[i] = MaxStack - s[i] /\ free[i] \in Nat
  <2>1. \A i \in 1..Len(s) : free[i] = MaxStack - s[i] /\ free[i] \in Nat
    BY <1>1, StacksAre
  <2>2. free \in [1..Len(s) -> Nat]
    BY <1>1, <2>1, StacksAre
  <2> QED BY <2>1, <2>2, StacksAre, AsSeq, SumsNat
<1>3. PICK room : room = Game!Sums(free)
  OBVIOUS
<1>4. /\ room[0] = 0 /\ \A i \in 0..Len(s) : room[i] \in Nat
      /\ \A i \in 1..Len(s) : room[i] = room[i - 1] + free[i]
  BY <1>2, <1>3, SumsNat, SumsInt
<1>5. PICK filled : filled = [i \in DOMAIN s |->
                               s[i] + Game!Max({0, Game!Min({MaxStack - s[i], n - room[i - 1]})})]
  OBVIOUS
<1>6. ASSUME NEW i \in 1..Len(s)
      PROVE  /\ filled[i] \in 1..MaxStack
             /\ n <= room[i - 1] => filled[i] = s[i]
             /\ room[i - 1] <= n /\ n <= room[i] => filled[i] = s[i] + n - room[i - 1]
             /\ room[i] <= n => filled[i] = s[i] + free[i]
  <2>1. s[i] \in 1..MaxStack /\ room[i - 1] \in Nat /\ room[i] = room[i - 1] + free[i]
        /\ free[i] = MaxStack - s[i] /\ free[i] \in Nat /\ MaxStack \in Nat
    BY <1>2, <1>4, StacksAre
  <2>2. PICK goes : goes = Game!Max({0, Game!Min({free[i], n - room[i - 1]})})
    OBVIOUS
  <2>3. /\ goes \in 0..free[i]
        /\ n <= room[i - 1] => goes = 0
        /\ room[i - 1] <= n /\ n <= room[i - 1] + free[i] => goes = n - room[i - 1]
        /\ room[i - 1] + free[i] <= n => goes = free[i]
    <3>1. n \in Int /\ free[i] \in Nat /\ room[i - 1] \in Nat
      BY <2>1
    <3> QED BY <2>2, <3>1, Fills, Zenon
  <2>4. filled[i] = s[i] + goes
    BY <1>5, <2>1, <2>2, StacksAre
  <2> QED BY <2>1, <2>3, <2>4
<1>7. filled \in Stacks /\ filled \in Seq(Int) /\ Len(filled) = Len(s)
  <2>1. filled \in [1..Len(s) -> 1..MaxStack]
    BY <1>5, <1>6, StacksAre
  <2>2. filled \in Seq(1..MaxStack) /\ Len(filled) = Len(s)
    BY <2>1, StacksAre, AsSeq
  <2> QED BY <2>2, StacksAre DEF Stacks
<1>8. PICK g : g = [i \in 0..Len(s) |-> Game!Sums(s)[i] + (IF n <= room[i] THEN n ELSE room[i])]
  OBVIOUS
<1>9. g[0] = 0
  BY <1>4, <1>8, StacksAre, SumsInt
<1>10. ASSUME NEW i \in 1..Len(s) PROVE g[i] = g[i - 1] + filled[i]
  <2>1. /\ Game!Sums(s)[i] = Game!Sums(s)[i - 1] + s[i] /\ Game!Sums(s)[i - 1] \in Int
        /\ s[i] \in Int /\ free[i] \in Nat
        /\ room[i - 1] \in Nat /\ room[i] \in Nat /\ room[i] = room[i - 1] + free[i]
    <3>1. i - 1 \in 0..Len(s) /\ i \in 0..Len(s) /\ s[i] \in Int
      BY StacksAre
    <3>2. Game!Sums(s)[i] = Game!Sums(s)[i - 1] + s[i] /\ Game!Sums(s)[i - 1] \in Int
      BY <3>1, StacksAre, SumsInt
    <3> QED BY <1>2, <1>4, <3>1, <3>2
  <2>2. /\ g[i] = Game!Sums(s)[i] + (IF n <= room[i] THEN n ELSE room[i])
        /\ g[i - 1] = Game!Sums(s)[i - 1] + (IF n <= room[i - 1] THEN n ELSE room[i - 1])
    BY <1>8, StacksAre
  <2>3. CASE n <= room[i - 1]
    <3>1. n <= room[i] /\ filled[i] = s[i]
      BY <1>6, <2>1, <2>3
    <3> QED BY <2>1, <2>2, <2>3, <3>1
  <2>4. CASE room[i - 1] < n /\ n <= room[i]
    <3>1. filled[i] = s[i] + n - room[i - 1]
      BY <1>6, <2>1, <2>4
    <3> QED BY <2>1, <2>2, <2>4, <3>1
  <2>5. CASE room[i] < n
    <3>1. room[i - 1] < n /\ filled[i] = s[i] + free[i]
      BY <1>6, <2>1, <2>5, SMTT(30)
    <3> QED BY <2>1, <2>2, <2>5, <3>1, SMTT(30)
  <2> QED BY <2>1, <2>3, <2>4, <2>5
<1>11. Game!Sum(filled) = Game!Sum(s) + (IF n <= room[Len(s)] THEN n ELSE room[Len(s)])
  <2>1. Game!Sum(filled) = g[Len(s)]
    BY <1>7, <1>9, <1>10, SumOf
  <2>2. g[Len(s)] = Game!Sums(s)[Len(s)] + (IF n <= room[Len(s)] THEN n ELSE room[Len(s)])
    BY <1>8, StacksAre
  <2> QED BY <2>1, <2>2, StacksAre, SumsInt
<1>12. Game!Stacked(s, n) = IF n - room[Len(s)] > 0 THEN Append(filled, n - room[Len(s)]) ELSE filled
  BY <1>1, <1>3, <1>5 DEF Game!Stacked
<1>13. room[Len(s)] \in Nat /\ Game!Sum(s) \in Int
  BY <1>4, StacksAre, SumsInt
<1>14. CASE n - room[Len(s)] > 0
  <2>1. PICK rest \in 1..MaxStack : rest = n - room[Len(s)]
    BY <1>13, <1>14, StacksAre
  <2>2. Append(filled, rest) \in Stacks
    BY <1>7, <2>1, AppendProperties DEF Stacks
  <2>3. Game!Sum(Append(filled, rest)) = Game!Sum(filled) + rest
    BY <1>7, <2>1, SumAppend
  <2> QED BY <1>11, <1>12, <1>13, <1>14, <2>1, <2>2, <2>3
<1>15. CASE ~(n - room[Len(s)] > 0)
  BY <1>7, <1>11, <1>12, <1>13, <1>15
<1> QED BY <1>14, <1>15

\* Taking n of the items that are there leaves stacks with n items less.
LEMMA TakenTakes ==
  ASSUME NEW s \in Stacks, NEW n \in 1..MaxStack, Game!Sum(s) >= n
  PROVE  /\ Game!Taken(s, n) \in Stacks
         /\ Game!Sum(Game!Taken(s, n)) = Game!Sum(s) - n
<1>1. PICK used : used = Game!Sums(s)
  OBVIOUS
<1>2. /\ used[0] = 0 /\ \A i \in 0..Len(s) : used[i] \in Nat
      /\ \A i \in 1..Len(s) : used[i] = used[i - 1] + s[i]
      /\ Game!Sum(s) = used[Len(s)]
  BY <1>1, StacksAre, SumsNat, SumsInt
<1>3. \E k \in 0..Len(s) : used[k] <= n /\ (k < Len(s) => n < used[k + 1])
  <2> DEFINE Enough == {k \in 0..Len(s) : k < Len(s) => n < used[k + 1]}
  <2>1. PICK k \in Enough : \A j \in Enough : k <= j
    <3>1. Enough \in SUBSET Nat /\ Len(s) \in Enough
      BY StacksAre
    <3> HIDE DEF Enough
    <3> QED BY <3>1, LeastOf
  <2>2. CASE k = 0
    BY <1>2, <2>1, <2>2, StacksAre
  <2>3. CASE k # 0
    <3>1. k - 1 \in 0..Len(s)
      BY <2>1, <2>3, StacksAre
    <3>3. k - 1 \notin Enough
      <4>1. ~(k <= k - 1)
        BY <3>1
      <4> HIDE DEF Enough
      <4> QED BY <2>1, <4>1
    <3>2. ~(n < used[(k - 1) + 1]) /\ (k - 1) + 1 = k /\ k \in 0..Len(s)
      BY <2>1, <3>1, <3>3
    <3> QED BY <1>2, <2>1, <3>2, StacksAre
  <2> QED BY <2>2, <2>3
<1>4. PICK gone \in 0..Len(s) :
        /\ used[gone] <= n /\ (gone < Len(s) => n < used[gone + 1])
        /\ Game!Taken(s, n) =
             [i \in 1..(Len(s) - gone) |-> IF i = 1 THEN used[gone + 1] - n ELSE s[gone + i]]
  <2> DEFINE k == CHOOSE k \in 0..Len(s) : used[k] <= n /\ (k < Len(s) => n < used[k + 1])
  <2>1. k \in 0..Len(s) /\ used[k] <= n /\ (k < Len(s) => n < used[k + 1])
    BY <1>3
  <2>2. Game!Taken(s, n) = [i \in 1..(Len(s) - k) |-> IF i = 1 THEN used[k + 1] - n ELSE s[k + i]]
    BY <1>1 DEF Game!Taken
  <2> HIDE DEF k
  <2> QED BY <2>1, <2>2
<1>5. PICK t : t = Game!Taken(s, n)
  OBVIOUS
<1>6. PICK N \in Nat : N = Len(s) - gone
  <2>1. gone \in 0..Len(s) /\ Len(s) \in Nat
    BY StacksAre
  <2> QED BY <2>1
<1>7. ASSUME NEW i \in 1..N
      PROVE  /\ t[i] \in 1..MaxStack
             /\ t[i] = IF i = 1 THEN used[gone + 1] - n ELSE s[gone + i]
             /\ gone + i \in 1..Len(s)
  <2>1. gone + i \in 1..Len(s) /\ gone + 1 \in 1..Len(s) /\ gone < Len(s) /\ (gone + 1) - 1 = gone
    BY <1>6, StacksAre
  <2>2. t[i] = IF i = 1 THEN used[gone + 1] - n ELSE s[gone + i]
    BY <1>4, <1>5, <1>6
  <2>3. used[gone + 1] = used[gone] + s[gone + 1] /\ used[gone] \in Nat
    BY <1>2, <2>1
  <2>4. s[gone + 1] \in 1..MaxStack /\ s[gone + i] \in 1..MaxStack
    BY <2>1, StacksAre
  <2> QED BY <1>4, <2>1, <2>2, <2>3, <2>4, StacksAre
<1>8. t \in Stacks /\ t \in Seq(Int) /\ Len(t) = N
  <2>1. t \in [1..N -> 1..MaxStack]
    BY <1>4, <1>5, <1>6, <1>7
  <2>2. t \in Seq(1..MaxStack) /\ Len(t) = N
    BY <2>1, AsSeq
  <2> QED BY <2>2, StacksAre DEF Stacks
<1>9. PICK g : g = [i \in 0..N |-> IF i = 0 THEN 0 ELSE used[gone + i] - n]
  OBVIOUS
<1>10. ASSUME NEW i \in 1..Len(t) PROVE g[i] = g[i - 1] + t[i]
  <2>1. i \in 1..N /\ g[i] = used[gone + i] - n
    BY <1>8, <1>9
  <2>2. CASE i = 1
    <3>1. g[i - 1] = 0 /\ t[i] = used[gone + 1] - n /\ g[i] = used[gone + 1] - n
      BY <1>7, <1>9, <2>1, <2>2
    <3>2. gone + 1 \in 0..Len(s)
      BY <1>7, <2>1, <2>2, StacksAre
    <3> QED BY <1>2, <3>1, <3>2
  <2>3. CASE i # 1
    <3>1. g[i - 1] = used[gone + (i - 1)] - n /\ t[i] = s[gone + i]
      BY <1>7, <1>9, <2>1, <2>3
    <3>2. gone + i \in 1..Len(s) /\ (gone + i) - 1 = gone + (i - 1) /\ gone + (i - 1) \in 0..Len(s)
      BY <1>6, <1>7, <2>1, <2>3, StacksAre
    <3>3. used[gone + i] = used[gone + (i - 1)] + s[gone + i] /\ used[gone + (i - 1)] \in Nat
      BY <1>2, <3>2
    <3>4. s[gone + i] \in Int
      BY <3>2, StacksAre
    <3> QED BY <2>1, <3>1, <3>3, <3>4
  <2> QED BY <2>2, <2>3
<1>11. Game!Sum(t) = g[N]
  <2>1. g[0] = 0
    BY <1>9
  <2> QED BY <1>8, <1>10, <2>1, SumOf
<1>12. g[N] = Game!Sum(s) - n
  <2>1. CASE N = 0
    BY <1>2, <1>4, <1>6, <1>9, <2>1, StacksAre
  <2>2. CASE N # 0
    BY <1>2, <1>6, <1>9, <2>2, StacksAre
  <2> QED BY <2>1, <2>2
<1> QED BY <1>5, <1>8, <1>11, <1>12


-----------------------------------------------------------------------------
(* What is held and what lies around, in all.                                  *)

\* The items of all players, in a fixed order; and of the drops ds, where f has the drops.
Counted(inv) == [i \in 1..Cardinality(Players) |-> Game!Sum(inv[Game!SetToSeq(Players)[i]])]
Held(inv) == Game!Sum(Counted(inv))
Values(ds, f) == [d \in 1..MaxDrops |-> IF d \in ds THEN f[d].count ELSE 0]

ItemsInv ==
  /\ next_id \in 1..(MaxDrops + 1) /\ DOMAIN drops \subseteq 1..(next_id - 1)
  /\ \A d \in DOMAIN drops : drops[d].at \in Game!Spots /\ drops[d].count \in 1..MaxStack
  /\ inventories \in [Players -> Stacks]
  /\ minted = Game!Worth(DOMAIN drops) + Held(inventories)

LEMMA SameCounts ==
  /\ Game!IsFiniteSet(Players) <=> IsFiniteSet(Players)
  /\ Game!Cardinality(Players) = Cardinality(Players)
<1>1. Game!IsFiniteSet(Players) <=> IsFiniteSet(Players)
  BY DEF IsFiniteSet, Game!IsFiniteSet
<1>2. Game!Cardinality(Players) = Cardinality(Players)
  BY DEF Cardinality, Game!Cardinality
<1> QED BY <1>1, <1>2

LEMMA GameBoundsHold ==
  /\ IsFiniteSet(Players) /\ Heals \subseteq 0..MaxHealth
  /\ MaxHealth \in Nat /\ MaxHunger \in Nat /\ MaxDamage \in Nat \ {0} /\ MaxStack \in Nat \ {0}
  /\ MaxActs \in Nat /\ MaxDrops \in Nat
  BY PlayConstants, SameCounts DEF Game!GameBounds

\* Every player has a place in the order, and but one.
LEMMA InOrder ==
  /\ Cardinality(Players) \in Nat
  /\ \A i \in 1..Cardinality(Players) : Game!SetToSeq(Players)[i] \in Players
  /\ \A p \in Players : \E i \in 1..Cardinality(Players) :
       /\ Game!SetToSeq(Players)[i] = p
       /\ \A j \in 1..Cardinality(Players) : Game!SetToSeq(Players)[j] = p => j = i
<1> DEFINE N == Cardinality(Players)
           f == Game!SetToSeq(Players)
<1>1. N \in Nat /\ ExistsBijection(1..N, Players)
  BY GameBoundsHold, FS_CardinalityType
<1>2. \E g \in [1..N -> Players] : Game!IsInjective(g)
  BY <1>1 DEF ExistsBijection, Bijection, Injection, IsInjective, Game!IsInjective
<1>3. f \in [1..N -> Players] /\ Game!IsInjective(f)
  BY <1>2, SameCounts DEF Game!SetToSeq
<1>4. f \in Surjection(1..N, Players)
  <2>1. f \in Injection(1..N, Players)
    BY <1>3 DEF Injection, IsInjective, Game!IsInjective
  <2>2. IsFiniteSet(1..N) /\ Cardinality(1..N) = N
    BY <1>1, FS_Interval
  <2> HIDE DEF f, N
  <2> QED BY <2>1, <2>2, GameBoundsHold, FS_Injection DEF N
<1>5. \A p \in Players : \E i \in 1..N : f[i] = p
  BY <1>4 DEF Surjection
<1> HIDE DEF f, N
<1>6. \A p \in Players : \E i \in 1..N : f[i] = p /\ \A j \in 1..N : f[j] = p => j = i
  BY <1>3, <1>5 DEF Game!IsInjective
<1>7. \A i \in 1..N : f[i] \in Players
  BY <1>3
<1> QED BY <1>1, <1>6, <1>7 DEF f, N

LEMMA CountedIs ==
  ASSUME NEW inv \in [Players -> Stacks]
  PROVE  /\ Counted(inv) \in Seq(Nat) /\ Counted(inv) \in Seq(Int)
         /\ Len(Counted(inv)) = Cardinality(Players) /\ Held(inv) \in Nat
<1>1. \A i \in 1..Cardinality(Players) : Game!Sum(inv[Game!SetToSeq(Players)[i]]) \in Nat
  <2> SUFFICES ASSUME NEW i \in 1..Cardinality(Players)
               PROVE  Game!Sum(inv[Game!SetToSeq(Players)[i]]) \in Nat
    OBVIOUS
  <2>1. inv[Game!SetToSeq(Players)[i]] \in Stacks
    BY InOrder
  <2> QED BY <2>1, StacksAre, SumsNat
<1>2. Counted(inv) \in [1..Cardinality(Players) -> Nat]
  BY <1>1 DEF Counted
<1>3. Counted(inv) \in Seq(Nat) /\ Len(Counted(inv)) = Cardinality(Players)
  BY <1>2, InOrder, AsSeq
<1> QED BY <1>3, SumsNat DEF Held

\* One player has other stacks.
LEMMA HeldChanged ==
  ASSUME NEW inv \in [Players -> Stacks], NEW p \in Players, NEW s \in Stacks
  PROVE  /\ [inv EXCEPT ![p] = s] \in [Players -> Stacks]
         /\ Held([inv EXCEPT ![p] = s]) = Held(inv) - Game!Sum(inv[p]) + Game!Sum(s)
<1>1. PICK now : now = [inv EXCEPT ![p] = s]
  OBVIOUS
<1>2. now \in [Players -> Stacks] /\ now[p] = s /\ \A q \in Players : q # p => now[q] = inv[q]
  BY <1>1
<1>3. PICK i \in 1..Cardinality(Players) :
        /\ Game!SetToSeq(Players)[i] = p
        /\ \A j \in 1..Cardinality(Players) : Game!SetToSeq(Players)[j] = p => j = i
  BY InOrder
<1>4. Counted(now)[i] = Game!Sum(s) /\ Counted(inv)[i] = Game!Sum(inv[p])
  BY <1>2, <1>3 DEF Counted
<1>5. \A j \in 1..Cardinality(Players) : j # i => Counted(now)[j] = Counted(inv)[j]
  BY <1>2, <1>3, InOrder DEF Counted
<1>6. /\ Counted(inv) \in Seq(Int) /\ Len(Counted(inv)) = Cardinality(Players)
      /\ Counted(now) \in Seq(Int) /\ Len(Counted(now)) = Cardinality(Players)
  BY <1>2, CountedIs
<1>7. Held(now) = Held(inv) - Counted(inv)[i] + Counted(now)[i]
  BY <1>5, <1>6, SumChanged, SMTT(30) DEF Held
<1> QED BY <1>1, <1>2, <1>4, <1>7

LEMMA ValuesAre ==
  ASSUME NEW ds, NEW f, \A d \in ds : f[d].count \in 1..MaxStack
  PROVE  /\ Values(ds, f) \in Seq(Nat) /\ Values(ds, f) \in Seq(Int)
         /\ Len(Values(ds, f)) = MaxDrops /\ Game!Sum(Values(ds, f)) \in Nat
         /\ \A d \in 1..MaxDrops : Values(ds, f)[d] = IF d \in ds THEN f[d].count ELSE 0
<1>1. Values(ds, f) \in [1..MaxDrops -> Nat]
  BY GameBoundsHold DEF Values
<1>2. Values(ds, f) \in Seq(Nat) /\ Len(Values(ds, f)) = MaxDrops
  BY <1>1, GameBoundsHold, AsSeq
<1> QED BY <1>2, SumsNat DEF Values

\* What these and those drops are worth, of which none is in both.
LEMMA WorthOfBoth ==
  ASSUME NEW as, NEW bs, NEW f, NEW g, as \cap bs = {},
         \A d \in as \union bs : f[d].count \in 1..MaxStack,
         \A d \in bs : g[d] = f[d]
  PROVE  Game!Sum(Values(as \union bs, f)) = Game!Sum(Values(as, f)) + Game!Sum(Values(bs, g))
<1>1. /\ Values(as \union bs, f) \in Seq(Int) /\ Len(Values(as \union bs, f)) = MaxDrops
      /\ Values(as, f) \in Seq(Int) /\ Len(Values(as, f)) = MaxDrops
      /\ Values(bs, g) \in Seq(Int) /\ Len(Values(bs, g)) = MaxDrops
  BY ValuesAre
<1>2. ASSUME NEW d \in 1..MaxDrops
      PROVE  Values(as \union bs, f)[d] = Values(as, f)[d] + Values(bs, g)[d]
  <2>1. /\ Values(as \union bs, f)[d] = IF d \in as \union bs THEN f[d].count ELSE 0
        /\ Values(as, f)[d] = IF d \in as THEN f[d].count ELSE 0
        /\ Values(bs, g)[d] = IF d \in bs THEN g[d].count ELSE 0
    BY DEF Values
  <2>2. CASE d \in as
    <3>1. d \notin bs /\ f[d].count \in 1..MaxStack
      BY <2>2
    <3>2. Values(as \union bs, f)[d] = f[d].count /\ Values(as, f)[d] = f[d].count /\ Values(bs, g)[d] = 0
      BY <2>1, <2>2, <3>1
    <3> QED BY <3>1, <3>2, GameBoundsHold
  <2>3. CASE d \in bs
    <3>1. d \notin as /\ f[d].count \in 1..MaxStack /\ g[d] = f[d]
      BY <2>3
    <3>2. Values(as \union bs, f)[d] = f[d].count /\ Values(as, f)[d] = 0 /\ Values(bs, g)[d] = f[d].count
      BY <2>1, <2>3, <3>1
    <3> QED BY <3>1, <3>2, GameBoundsHold
  <2>4. CASE d \notin as \union bs
    <3>1. d \notin as /\ d \notin bs
      BY <2>4
    <3>2. Values(as \union bs, f)[d] = 0 /\ Values(as, f)[d] = 0 /\ Values(bs, g)[d] = 0
      BY <2>1, <2>4, <3>1, Zenon
    <3> QED BY <3>2
  <2> QED BY <2>2, <2>3, <2>4
<1>3. \A d \in 1..Len(Values(as \union bs, f)) :
        Values(as \union bs, f)[d] = Values(as, f)[d] + Values(bs, g)[d]
  BY <1>1, <1>2
<1>4. PICK r \in Seq(Int), s \in Seq(Int), t \in Seq(Int) :
        r = Values(as \union bs, f) /\ s = Values(as, f) /\ t = Values(bs, g)
  BY <1>1
<1>5. Len(r) = Len(s) /\ Len(r) = Len(t)
  BY <1>1, <1>4, Zenon
<1>6. \A d \in 1..Len(r) : r[d] = s[d] + t[d]
  BY <1>3, <1>4, Zenon
<1>7. Game!Sum(r) = Game!Sum(s) + Game!Sum(t)
  BY <1>5, <1>6, SumsAdd
<1> QED BY <1>4, <1>7, Zenon

LEMMA ItemsAre ==
  ASSUME ItemsInv
  PROVE  /\ Game!Worth(DOMAIN drops) \in Nat /\ Held(inventories) \in Nat /\ minted \in Nat
         /\ Game!Worth(DOMAIN drops) = Game!Sum(Values(DOMAIN drops, drops))
         /\ Game!ItemsConserved
<1>1. Game!Worth(DOMAIN drops) = Game!Sum(Values(DOMAIN drops, drops))
  BY DEF Game!Worth, Values
<1>2. Game!Worth(DOMAIN drops) \in Nat /\ Held(inventories) \in Nat
  BY <1>1, ValuesAre, CountedIs DEF ItemsInv
<1> QED BY <1>1, <1>2, SameCounts DEF ItemsInv, Game!ItemsConserved, Held, Counted

LEMMA WorthIs ==
  /\ \A ds : Game!Worth(ds) = Game!Sum(Values(ds, drops))
  /\ Game!Worth(DOMAIN drops)' = Game!Sum(Values(DOMAIN drops', drops'))
  BY DEF Game!Worth, Values

\* What is dropped, and what lies around then.
LEMMA DroppedLie ==
  ASSUME ItemsInv, NEW at0 \in Game!Spots, NEW ns \in Stacks, next_id + Len(ns) <= MaxDrops + 1,
         NEW ds, ds = Game!Dropped(at0, ns)
  PROVE  /\ next_id + Len(ns) \in 1..(MaxDrops + 1)
         /\ DOMAIN ds \subseteq 1..(next_id + Len(ns) - 1)
         /\ \A d \in DOMAIN ds : ds[d].at \in Game!Spots /\ ds[d].count \in 1..MaxStack
         /\ Game!Sum(Values(DOMAIN ds, ds)) = Game!Worth(DOMAIN drops) + Game!Sum(ns)
<1>1. PICK new : new = next_id..(next_id + Len(ns) - 1)
  OBVIOUS
<1>2. /\ next_id \in Nat \ {0} /\ Len(ns) \in Nat /\ MaxDrops \in Nat /\ MaxStack \in Nat
      /\ next_id + Len(ns) \in 1..(MaxDrops + 1)
  BY GameBoundsHold, StacksAre DEF ItemsInv
<1>3. /\ DOMAIN ds = new \union DOMAIN drops /\ new \cap DOMAIN drops = {}
      /\ DOMAIN ds \subseteq 1..(next_id + Len(ns) - 1)
  BY <1>1, <1>2 DEF ItemsInv, Game!Dropped
<1>4. ASSUME NEW d \in DOMAIN drops
      PROVE  ds[d] = drops[d] /\ ds[d].at \in Game!Spots /\ ds[d].count \in 1..MaxStack
  <2>1. d < next_id /\ d \in DOMAIN ds
    BY <1>2, <1>3 DEF ItemsInv
  <2>2. ds[d] = drops[d]
    BY <2>1 DEF Game!Dropped
  <2> QED BY <2>2 DEF ItemsInv
<1>5. ASSUME NEW d \in new
      PROVE  /\ ds[d] = [at |-> at0, count |-> ns[d - next_id + 1]]
             /\ d - next_id + 1 \in 1..Len(ns)
             /\ ds[d].at \in Game!Spots /\ ds[d].count = ns[d - next_id + 1]
             /\ ds[d].count \in 1..MaxStack
  <2>1. d \in DOMAIN ds /\ ~(d < next_id) /\ d - next_id + 1 \in 1..Len(ns)
    BY <1>1, <1>2, <1>3
  <2>2. ds[d] = [at |-> at0, count |-> ns[d - next_id + 1]]
    BY <2>1 DEF Game!Dropped
  <2>3. ns[d - next_id + 1] \in 1..MaxStack
    BY <2>1, StacksAre
  <2> QED BY <2>1, <2>2, <2>3
<1>6. \A d \in DOMAIN ds : ds[d].at \in Game!Spots /\ ds[d].count \in 1..MaxStack
  BY <1>3, <1>4, <1>5
<1>7. Game!Sum(Values(new \union DOMAIN drops, ds)) =
        Game!Sum(Values(new, ds)) + Game!Sum(Values(DOMAIN drops, drops))
  <2>1. \A d \in new \union DOMAIN drops : ds[d].count \in 1..MaxStack
    BY <1>4, <1>5
  <2>2. \A d \in DOMAIN drops : drops[d] = ds[d]
    BY <1>4
  <2> QED BY <1>3, <2>1, <2>2, WorthOfBoth
<1>8. Game!Sum(Values(new, ds)) = Game!Sum(ns)
  <2>1. /\ Values(new, ds) \in Seq(Int) /\ Len(Values(new, ds)) = MaxDrops
        /\ \A d \in 1..MaxDrops : Values(new, ds)[d] = IF d \in new THEN ds[d].count ELSE 0
    <3>1. \A d \in new : ds[d].count \in 1..MaxStack
      BY <1>5
    <3>2. Values(new, ds) \in Seq(Int) /\ Len(Values(new, ds)) = MaxDrops
      BY <3>1, ValuesAre
    <3> QED BY <3>2 DEF Values
  <2>2. /\ ns \in Seq(Int) /\ Game!Sums(ns)[0] = 0 /\ Game!Sum(ns) = Game!Sums(ns)[Len(ns)]
        /\ \A n \in 1..Len(ns) : Game!Sums(ns)[n] = Game!Sums(ns)[n - 1] + ns[n]
        /\ \A n \in 0..Len(ns) : Game!Sums(ns)[n] \in Int
    BY StacksAre, SumsInt
  <2>3. PICK g : g = [d \in 0..MaxDrops |->
                        IF d < next_id THEN 0
                        ELSE IF d < next_id + Len(ns) THEN Game!Sums(ns)[d - next_id + 1]
                        ELSE Game!Sum(ns)]
    OBVIOUS
  <2>4. g[0] = 0
    BY <1>2, <2>3
  <2>5. ASSUME NEW d \in 1..MaxDrops PROVE g[d] = g[d - 1] + Values(new, ds)[d]
    <3>1. CASE d < next_id
      <4>1. g[d] = 0 /\ g[d - 1] = 0
        BY <1>2, <2>3, <3>1
      <4>2. d \notin new
        BY <1>1, <1>2, <3>1
      <4> QED BY <2>1, <4>1, <4>2
    <3>2. CASE d = next_id /\ d < next_id + Len(ns)
      <4>1. g[d] = Game!Sums(ns)[1] /\ g[d - 1] = 0
        BY <1>2, <2>3, <3>2
      <4>2. d \in new /\ d - next_id + 1 = 1 /\ 1 \in 1..Len(ns) /\ 1 - 1 = 0
        BY <1>1, <1>2, <3>2
      <4>3. Values(new, ds)[d] = ns[1] /\ ns[1] \in Int
        BY <1>5, <2>1, <2>2, <4>2, ElementOfSeq, ZenonT(60)
      <4> QED BY <2>2, <4>1, <4>2, <4>3
    <3>3. CASE d > next_id /\ d < next_id + Len(ns)
      <4>1. PICK n \in 2..Len(ns) : n = d - next_id + 1
        BY <1>2, <3>3
      <4>2. g[d] = Game!Sums(ns)[n] /\ g[d - 1] = Game!Sums(ns)[n - 1]
        <5>1. g[d] = Game!Sums(ns)[d - next_id + 1]
          BY <1>2, <2>3, <3>3
        <5>2. g[d - 1] = Game!Sums(ns)[(d - 1) - next_id + 1]
          BY <1>2, <2>3, <3>3
        <5>3. (d - 1) - next_id + 1 = n - 1
          BY <1>2, <4>1
        <5> QED BY <4>1, <5>1, <5>2, <5>3
      <4>3. d \in new /\ n \in 1..Len(ns)
        BY <1>1, <1>2, <3>3, <4>1
      <4>4. Values(new, ds)[d] = ns[n]
        BY <1>5, <2>1, <4>1, <4>3
      <4> QED BY <2>2, <4>2, <4>3, <4>4
    <3>4. CASE d >= next_id + Len(ns)
      <4>1. d \notin new
        BY <1>1, <1>2, <3>4
      <4>2. g[d] = Game!Sum(ns)
        BY <1>2, <2>3, <3>4
      <4>3. g[d - 1] = Game!Sum(ns)
        <5>1. CASE d > next_id + Len(ns)
          BY <1>2, <2>3, <5>1
        <5>2. CASE d = next_id + Len(ns) /\ Len(ns) = 0
          BY <1>2, <2>2, <2>3, <5>2
        <5>3. CASE d = next_id + Len(ns) /\ Len(ns) # 0
          <6>1. g[d - 1] = Game!Sums(ns)[(d - 1) - next_id + 1]
            BY <1>2, <2>3, <5>3
          <6>2. (d - 1) - next_id + 1 = Len(ns)
            BY <1>2, <5>3
          <6> QED BY <2>2, <6>1, <6>2
        <5> QED BY <1>2, <3>4, <5>1, <5>2, <5>3
      <4>4. Game!Sum(ns) \in Int
        BY <2>2, SumsInt
      <4> QED BY <2>1, <4>1, <4>2, <4>3, <4>4
    <3> QED BY <1>2, <3>1, <3>2, <3>3, <3>4
  <2>6. g[MaxDrops] = Game!Sum(ns)
    <3>1. CASE MaxDrops >= next_id + Len(ns)
      BY <1>2, <2>3, <3>1
    <3>2. CASE MaxDrops < next_id + Len(ns) /\ Len(ns) = 0
      <4>1. MaxDrops < next_id
        BY <1>2, <3>2
      <4> QED BY <1>2, <2>2, <2>3, <3>2, <4>1
    <3>3. CASE MaxDrops < next_id + Len(ns) /\ Len(ns) # 0
      <4>1. g[MaxDrops] = Game!Sums(ns)[MaxDrops - next_id + 1]
        BY <1>2, <2>3, <3>3
      <4>2. MaxDrops - next_id + 1 = Len(ns)
        BY <1>2, <3>3
      <4> QED BY <2>2, <4>1, <4>2
    <3> QED BY <1>2, <3>1, <3>2, <3>3
  <2>7. Game!Sum(Values(new, ds)) = g[Len(Values(new, ds))]
    <3>1. PICK t \in Seq(Int) : t = Values(new, ds)
      BY <2>1
    <3>2. \A d \in 1..Len(t) : g[d - 1] \in Int => g[d] = g[d - 1] + t[d]
      BY <2>1, <2>5, <3>1
    <3>3. Game!Sum(t) = g[Len(t)]
      BY <2>4, <3>2, SumOf
    <3> QED BY <3>1, <3>3, Zenon
  <2> QED BY <2>1, <2>6, <2>7
<1>9. Game!Worth(DOMAIN drops) = Game!Sum(Values(DOMAIN drops, drops)) /\ Game!Worth(DOMAIN drops) \in Nat
  BY ItemsAre
<1>10. Game!Sum(ns) \in Int
  BY StacksAre, SumsInt
<1>11. Game!Sum(Values(DOMAIN ds, ds)) = Game!Worth(DOMAIN drops) + Game!Sum(ns)
  <2>1. Game!Sum(Values(DOMAIN ds, ds)) = Game!Sum(ns) + Game!Worth(DOMAIN drops)
    BY <1>3, <1>7, <1>8, <1>9, Zenon
  <2> QED BY <1>9, <1>10, <2>1
<1> QED BY <1>2, <1>3, <1>6, <1>11

\* The stacks of all after the first d drops were credited, for each d up to m (Collect).
CreditsTo(c, who, m) ==
  c = [d \in 0..m |->
         IF d = 0 THEN inventories
         ELSE [p \in Players |-> IF d \in DOMAIN who /\ p \in who[d]
                                 THEN Game!Stacked(c[d - 1][p], drops[d].count)
                                 ELSE c[d - 1][p]]]

LEMMA CreditsAre ==
  ASSUME NEW who
  PROVE  \E c : CreditsTo(c, who, MaxDrops)
<1> DEFINE P == {m \in Nat : \E c : CreditsTo(c, who, m)}
<1>1. 0 \in P
  <2>1. CreditsTo([d \in 0..0 |-> inventories], who, 0)
    BY DEF CreditsTo
  <2> QED BY <2>1
<1>2. ASSUME NEW m \in 0..(MaxDrops - 1), m \in P PROVE m + 1 \in P
  <2>1. PICK c : CreditsTo(c, who, m)
    BY <1>2
  <2>2. m \in Nat
    BY <1>2
  <2> DEFINE more == [p \in Players |-> IF m + 1 \in DOMAIN who /\ p \in who[m + 1]
                                        THEN Game!Stacked(c[m][p], drops[m + 1].count)
                                        ELSE c[m][p]]
             e == [d \in 0..(m + 1) |-> IF d = m + 1 THEN more ELSE c[d]]
  <2>3. \A d \in 0..(m + 1) :
          e[d] = IF d = 0 THEN inventories
                 ELSE [p \in Players |-> IF d \in DOMAIN who /\ p \in who[d]
                                         THEN Game!Stacked(e[d - 1][p], drops[d].count)
                                         ELSE e[d - 1][p]]
    <3> SUFFICES ASSUME NEW d \in 0..(m + 1)
                 PROVE  e[d] = IF d = 0 THEN inventories
                               ELSE [p \in Players |-> IF d \in DOMAIN who /\ p \in who[d]
                                                       THEN Game!Stacked(e[d - 1][p], drops[d].count)
                                                       ELSE e[d - 1][p]]
      OBVIOUS
    <3>1. CASE d = m + 1
      <4>1. d # 0 /\ d - 1 = m /\ m \in 0..(m + 1) /\ m # m + 1 /\ e[d] = more
        BY <2>2, <3>1
      <4>2. e[m] = c[m]
        BY <4>1
      <4> QED BY <3>1, <4>1, <4>2
    <3>2. CASE d # m + 1
      <4>1. d \in 0..m /\ e[d] = c[d]
        BY <2>2, <3>2
      <4>2. d # 0 => d - 1 \in 0..(m + 1) /\ d - 1 # m + 1
        BY <2>2, <3>2
      <4>3. d # 0 => e[d - 1] = c[d - 1]
        BY <4>2
      <4>4. c[d] = IF d = 0 THEN inventories
                   ELSE [p \in Players |-> IF d \in DOMAIN who /\ p \in who[d]
                                           THEN Game!Stacked(c[d - 1][p], drops[d].count)
                                           ELSE c[d - 1][p]]
        BY <2>1, <4>1 DEF CreditsTo
      <4> HIDE DEF e
      <4> QED BY <4>1, <4>3, <4>4
    <3> QED BY <3>1, <3>2
  <2>4. \E h : CreditsTo(h, who, m + 1)
    <3>1. CreditsTo(e, who, m + 1)
      BY <2>3 DEF CreditsTo
    <3> HIDE DEF e
    <3> QED BY <3>1
  <2> QED BY <2>2, <2>4
<1>3. \A m \in 0..(MaxDrops - 1) : m \in P => m + 1 \in P
  BY <1>2
<1> HIDE DEF P
<1>4. \A m \in 0..MaxDrops : m \in P
  BY <1>1, <1>3, GameBoundsHold, Inductive
<1>5. MaxDrops \in P
  BY <1>4, GameBoundsHold
<1> QED BY <1>5 DEF P

\* Each drop goes to one player, and is worth the same there.
LEMMA CreditsCount ==
  ASSUME ItemsInv, NEW who, DOMAIN who \subseteq DOMAIN drops,
         \A d \in DOMAIN who : \E p \in Players : who[d] = {p},
         NEW c, CreditsTo(c, who, MaxDrops)
  PROVE  /\ c[MaxDrops] \in [Players -> Stacks]
         /\ Held(c[MaxDrops]) = Held(inventories) + Game!Sum(Values(DOMAIN who, drops))
<1>1. /\ inventories \in [Players -> Stacks] /\ MaxDrops \in Nat /\ MaxStack \in Nat
      /\ \A d \in DOMAIN who : drops[d].count \in 1..MaxStack
  BY GameBoundsHold DEF ItemsInv
<1>2. PICK v : v = Values(DOMAIN who, drops)
  OBVIOUS
<1>3. v \in Seq(Int) /\ Len(v) = MaxDrops
  BY <1>1, <1>2, ValuesAre
<1>4. \A d \in 1..MaxDrops : v[d] = IF d \in DOMAIN who THEN drops[d].count ELSE 0
  BY <1>2 DEF Values
<1>5. /\ Game!Sums(v)[0] = 0 /\ Game!Sum(v) = Game!Sums(v)[MaxDrops]
      /\ \A d \in 1..MaxDrops : Game!Sums(v)[d] = Game!Sums(v)[d - 1] + v[d]
      /\ \A d \in 0..MaxDrops : Game!Sums(v)[d] \in Int
  BY <1>3, SumsInt
<1>6. Held(inventories) \in Nat
  BY <1>1, CountedIs
<1> DEFINE P == {d \in Nat : c[d] \in [Players -> Stacks]
                             /\ Held(c[d]) = Held(inventories) + Game!Sums(v)[d]}
<1>7. 0 \in P
  <2>1. c[0] = inventories
    BY <1>1 DEF CreditsTo
  <2> QED BY <1>1, <1>5, <1>6, <2>1
<1>8. ASSUME NEW m \in 0..(MaxDrops - 1), m \in P PROVE m + 1 \in P
  <2>1. PICK d \in 1..MaxDrops : d = m + 1
    BY <1>1, <1>8
  <2>2. PICK inv : inv = c[m]
    OBVIOUS
  <2>3. inv \in [Players -> Stacks] /\ Held(inv) = Held(inventories) + Game!Sums(v)[m]
    BY <1>8, <2>2
  <2>4. d - 1 = m /\ d # 0 /\ d \in 0..MaxDrops /\ m \in 0..MaxDrops
    BY <1>1, <1>8, <2>1
  <2>5. c[d] = [p \in Players |-> IF d \in DOMAIN who /\ p \in who[d]
                                  THEN Game!Stacked(inv[p], drops[d].count) ELSE inv[p]]
    BY <2>2, <2>4 DEF CreditsTo
  <2>6. Game!Sums(v)[d] = Game!Sums(v)[m] + v[d] /\ Game!Sums(v)[m] \in Int
    BY <1>5, <2>4
  <2>7. CASE d \in DOMAIN who
    <3>1. PICK p \in Players : who[d] = {p}
      BY <2>7
    <3>2. PICK n \in 1..MaxStack : n = drops[d].count
      BY <1>1, <2>7
    <3>3. inv[p] \in Stacks
      BY <2>3
    <3>4. /\ Game!Stacked(inv[p], n) \in Stacks
          /\ Game!Sum(Game!Stacked(inv[p], n)) = Game!Sum(inv[p]) + n
      BY <3>3, StackedAdds
    <3>5. c[d] = [inv EXCEPT ![p] = Game!Stacked(inv[p], n)]
      BY <2>3, <2>5, <2>7, <3>1, <3>2
    <3>6. /\ c[d] \in [Players -> Stacks]
          /\ Held(c[d]) = Held(inv) - Game!Sum(inv[p]) + Game!Sum(Game!Stacked(inv[p], n))
      <4>1. PICK t \in Stacks : t = Game!Stacked(inv[p], n)
        BY <3>4
      <4>2. /\ [inv EXCEPT ![p] = t] \in [Players -> Stacks]
            /\ Held([inv EXCEPT ![p] = t]) = Held(inv) - Game!Sum(inv[p]) + Game!Sum(t)
        BY <2>3, HeldChanged
      <4> QED BY <3>5, <4>1, <4>2, Zenon
    <3>7. Game!Sum(inv[p]) \in Nat /\ Held(inv) \in Nat
      BY <2>3, <3>3, StacksAre, SumsNat, CountedIs
    <3>8. v[d] = n
      BY <1>4, <2>7, <3>2
    <3>9. Held(c[d]) = Held(inv) + n
      BY <3>4, <3>6, <3>7
    <3> QED BY <1>6, <2>1, <2>3, <2>4, <2>6, <3>6, <3>8, <3>9
  <2>8. CASE d \notin DOMAIN who
    <3>1. c[d] = inv
      BY <2>3, <2>5, <2>8
    <3>2. v[d] = 0
      BY <1>4, <2>8
    <3>3. Game!Sums(v)[d] = Game!Sums(v)[m]
      BY <2>6, <3>2
    <3> QED BY <2>1, <2>3, <2>4, <3>1, <3>3
  <2> QED BY <2>7, <2>8
<1>9. \A m \in 0..(MaxDrops - 1) : m \in P => m + 1 \in P
  BY <1>8
<1> HIDE DEF P
<1>10. \A m \in 0..MaxDrops : m \in P
  BY <1>1, <1>7, <1>9, Inductive
<1>11. MaxDrops \in P
  BY <1>1, <1>10
<1> QED BY <1>2, <1>5, <1>11 DEF P

\* What is picked up goes to the stacks, and what has vanished is gone.
LEMMA CollectKeeps ==
  ASSUME ItemsInv, Game!UpdateDrops
  PROVE  ItemsInv'
<1>1. PICK near : near = {d \in DOMAIN drops : Game!Reach(d) # {}}
  OBVIOUS
<1>2. PICK who \in [near -> SUBSET Players], old \in SUBSET (DOMAIN drops \ near) :
        (\A d \in near : who[d] \in Game!Takers(d)) /\ Game!Collect(who, old)
  BY <1>1 DEF Game!UpdateDrops
<1>3. next_id' = next_id
  BY DEF Game!UpdateDrops
<1>4. \A d \in DOMAIN who : \E p \in Players : who[d] = {p}
  BY <1>2 DEF Game!Takers, Game!Reach, Game!Playing
<1>5. PICK rest : rest = DOMAIN drops \ (near \union old)
  OBVIOUS
<1>6. drops' = [d \in rest |-> drops[d]] /\ minted' = minted - Game!Worth(old)
  BY <1>2, <1>5 DEF Game!Collect
<1>7. \E c : CreditsTo(c, who, MaxDrops)
  BY CreditsAre
<1>8. \E c : CreditsTo(c, who, MaxDrops) /\ inventories' = c[MaxDrops]
  BY <1>2, <1>7 DEF Game!Collect, CreditsTo
<1>9. /\ inventories' \in [Players -> Stacks]
      /\ Held(inventories') = Held(inventories) + Game!Sum(Values(near, drops))
  <2>1. PICK c : CreditsTo(c, who, MaxDrops) /\ inventories' = c[MaxDrops]
    BY <1>8
  <2>2. DOMAIN who = near /\ near \subseteq DOMAIN drops
    BY <1>1, <1>2
  <2> QED BY <1>4, <2>1, <2>2, CreditsCount
<1>10. /\ DOMAIN drops' = rest /\ rest \subseteq DOMAIN drops
       /\ \A d \in rest : drops'[d] = drops[d]
  BY <1>5, <1>6
<1>11. \A d \in DOMAIN drops : drops[d].count \in 1..MaxStack
  BY DEF ItemsInv
<1>12. DOMAIN drops = near \union (old \union rest)
  BY <1>1, <1>5
<1>13. Game!Sum(Values(near \union (old \union rest), drops)) =
         Game!Sum(Values(near, drops)) + Game!Sum(Values(old \union rest, drops))
  <2>1. near \cap (old \union rest) = {}
    BY <1>5
  <2>2. \A d \in near \union (old \union rest) : drops[d].count \in 1..MaxStack
    BY <1>11, <1>12
  <2> QED BY <2>1, <2>2, WorthOfBoth
<1>14. Game!Sum(Values(old \union rest, drops)) =
         Game!Sum(Values(old, drops)) + Game!Sum(Values(rest, drops'))
  <2>1. old \cap rest = {}
    BY <1>5
  <2>2. \A d \in old \union rest : drops[d].count \in 1..MaxStack
    BY <1>11, <1>12
  <2> QED BY <1>10, <2>1, <2>2, WorthOfBoth
<1>15. /\ Game!Sum(Values(near, drops)) \in Nat /\ Game!Sum(Values(old, drops)) \in Nat
       /\ Game!Sum(Values(rest, drops')) \in Nat
  <2>1. /\ \A d \in near : drops[d].count \in 1..MaxStack
        /\ \A d \in old : drops[d].count \in 1..MaxStack
        /\ \A d \in rest : drops'[d].count \in 1..MaxStack
    BY <1>1, <1>10, <1>11
  <2> QED BY <2>1, ValuesAre
<1>16. minted' = Game!Worth(DOMAIN drops)' + Held(inventories')
  <2>1. minted = Game!Worth(DOMAIN drops) + Held(inventories) /\ Held(inventories) \in Nat
    BY ItemsAre DEF ItemsInv
  <2>2. Game!Worth(DOMAIN drops) = Game!Sum(Values(near \union (old \union rest), drops))
    BY <1>12, WorthIs
  <2>3. Game!Worth(old) = Game!Sum(Values(old, drops))
    BY WorthIs
  <2>4. Game!Worth(DOMAIN drops)' = Game!Sum(Values(rest, drops'))
    BY <1>10, WorthIs
  <2> QED BY <1>6, <1>9, <1>13, <1>14, <1>15, <2>1, <2>2, <2>3, <2>4
<1>17. /\ next_id' \in 1..(MaxDrops + 1) /\ DOMAIN drops' \subseteq 1..(next_id' - 1)
       /\ \A d \in DOMAIN drops' : drops'[d].at \in Game!Spots /\ drops'[d].count \in 1..MaxStack
  BY <1>3, <1>10 DEF ItemsInv
<1> QED BY <1>9, <1>16, <1>17 DEF ItemsInv

LEMMA SumOfZeros ==
  ASSUME NEW s \in Seq(Int), \A i \in 1..Len(s) : s[i] = 0
  PROVE  Game!Sum(s) = 0
<1>1. PICK g : g = [i \in 0..Len(s) |-> 0]
  OBVIOUS
<1>2. Len(s) \in Nat /\ g[0] = 0 /\ \A i \in 1..Len(s) : g[i - 1] \in Int => g[i] = g[i - 1] + s[i]
  BY <1>1, LenProperties
<1>3. Game!Sum(s) = g[Len(s)]
  BY <1>2, SumOf
<1> QED BY <1>1, <1>2, <1>3

LEMMA NoStacks == <<>> \in Stacks /\ Game!Sum(<<>>) = 0
<1>1. <<>> \in Stacks
  BY DEF Stacks
<1>2. PICK s : s = <<>>
  OBVIOUS
<1>3. s \in Seq(Int) /\ Len(s) = 0 /\ \A i \in 1..Len(s) : s[i] = 0
  BY <1>2
<1>4. Game!Sum(s) = 0
  BY <1>3, SumOfZeros
<1> QED BY <1>1, <1>2, <1>4

-----------------------------------------------------------------------------
(* What happens to items                                                       *)

LEMMA ItemsStart == ASSUME Game!Init PROVE ItemsInv
<1>1. /\ next_id = 1 /\ DOMAIN drops = {} /\ minted = 0
      /\ inventories = [p \in Players |-> <<>>]
  BY DEF Game!Init
<1>2. <<>> \in Stacks /\ Game!Sum(<<>>) = 0
  BY NoStacks
<1>3. inventories \in [Players -> Stacks]
  BY <1>1, <1>2
<1>4. Game!Worth(DOMAIN drops) = 0
  <2>1. PICK v : v = Values(DOMAIN drops, drops)
    OBVIOUS
  <2>2. v \in Seq(Int) /\ Len(v) = MaxDrops /\ \A d \in 1..MaxDrops : v[d] = 0
    <3>1. Values(DOMAIN drops, drops) \in Seq(Int) /\ Len(Values(DOMAIN drops, drops)) = MaxDrops
      BY <1>1, ValuesAre
    <3>2. \A d \in 1..MaxDrops : Values(DOMAIN drops, drops)[d] = 0
      BY <1>1 DEF Values
    <3> QED BY <2>1, <3>1, <3>2, Zenon
  <2>3. Game!Sum(v) = 0
    BY <2>2, SumOfZeros
  <2> QED BY <2>1, <2>3, WorthIs
<1>5. Held(inventories) = 0
  <2>1. PICK v : v = Counted(inventories)
    OBVIOUS
  <2>2. v \in Seq(Int) /\ Len(v) = Cardinality(Players) /\ Game!Sum(v) = Held(inventories)
    BY <1>3, <2>1, CountedIs DEF Held
  <2>3. \A i \in 1..Len(v) : v[i] = 0
    <3> SUFFICES ASSUME NEW i \in 1..Cardinality(Players) PROVE v[i] = 0
      BY <2>2
    <3>1. v[i] = Game!Sum(inventories[Game!SetToSeq(Players)[i]])
      BY <2>1 DEF Counted
    <3>2. inventories[Game!SetToSeq(Players)[i]] = <<>>
      BY <1>1, InOrder
    <3> QED BY <1>2, <3>1, <3>2
  <2> QED BY <2>2, <2>3, SumOfZeros
<1> QED BY <1>1, <1>3, <1>4, <1>5, GameBoundsHold DEF ItemsInv

LEMMA ItemsUntouched ==
  ASSUME ItemsInv, UNCHANGED <<drops, next_id, inventories, minted>>
  PROVE  ItemsInv'
<1>1. Game!Worth(DOMAIN drops)' = Game!Worth(DOMAIN drops)
  BY WorthIs
<1> QED BY <1>1 DEF ItemsInv

\* The stacks of a player change by as many items as are made or destroyed.
LEMMA StacksChange ==
  ASSUME ItemsInv, NEW p \in Players, NEW s \in Stacks,
         inventories' = [inventories EXCEPT ![p] = s], UNCHANGED <<drops, next_id>>,
         minted' = minted - Game!Sum(inventories[p]) + Game!Sum(s)
  PROVE  ItemsInv'
<1>1. inventories[p] \in Stacks
  BY DEF ItemsInv
<1>2. Game!Sum(inventories[p]) \in Int /\ Game!Sum(s) \in Int
  BY <1>1, StacksAre, SumsInt
<1>3. /\ inventories' \in [Players -> Stacks]
      /\ Held(inventories') = Held(inventories) - Game!Sum(inventories[p]) + Game!Sum(s)
  BY HeldChanged DEF ItemsInv
<1>4. Game!Worth(DOMAIN drops)' = Game!Worth(DOMAIN drops)
  BY WorthIs
<1>5. /\ minted = Game!Worth(DOMAIN drops) + Held(inventories)
      /\ Game!Worth(DOMAIN drops) \in Nat /\ Held(inventories) \in Nat
  BY ItemsAre DEF ItemsInv
<1>6. minted' = Game!Worth(DOMAIN drops)' + Held(inventories')
  BY <1>2, <1>3, <1>4, <1>5
<1> QED BY <1>3, <1>6 DEF ItemsInv

LEMMA GiveItems ==
  ASSUME ItemsInv, NEW p \in Players, NEW n \in 1..MaxStack, Game!Give(p, n)
  PROVE  ItemsInv'
<1>1. PICK s : s = Game!Stacked(inventories[p], n)
  OBVIOUS
<1>2. inventories[p] \in Stacks
  BY DEF ItemsInv
<1>3. s \in Stacks /\ Game!Sum(s) = Game!Sum(inventories[p]) + n
  BY <1>1, <1>2, StackedAdds
<1>4. /\ inventories' = [inventories EXCEPT ![p] = s] /\ minted' = minted + n
      /\ UNCHANGED <<drops, next_id>>
  BY <1>1 DEF Game!Give
<1>5. minted' = minted - Game!Sum(inventories[p]) + Game!Sum(s)
  <2>1. Game!Sum(inventories[p]) \in Int /\ minted \in Int /\ n \in Int
    BY <1>2, StacksAre, SumsInt, ItemsAre
  <2> QED BY <1>3, <1>4, <2>1
<1> QED BY <1>3, <1>4, <1>5, StacksChange

LEMMA TakeItems ==
  ASSUME ItemsInv, NEW p \in Players, NEW n \in 1..MaxStack, Game!Take(p, n)
  PROVE  ItemsInv'
<1>1. PICK s : s = Game!Taken(inventories[p], n)
  OBVIOUS
<1>2. inventories[p] \in Stacks /\ Game!Sum(inventories[p]) >= n
  BY DEF ItemsInv, Game!Take
<1>3. s \in Stacks /\ Game!Sum(s) = Game!Sum(inventories[p]) - n
  BY <1>1, <1>2, TakenTakes
<1>4. /\ inventories' = [inventories EXCEPT ![p] = s] /\ minted' = minted - n
      /\ UNCHANGED <<drops, next_id>>
  BY <1>1 DEF Game!Take
<1>5. minted' = minted - Game!Sum(inventories[p]) + Game!Sum(s)
  <2>1. Game!Sum(inventories[p]) \in Int /\ minted \in Int /\ n \in Int
    BY <1>2, StacksAre, SumsInt, ItemsAre
  <2> QED BY <1>3, <1>4, <2>1
<1> QED BY <1>3, <1>4, <1>5, StacksChange

LEMMA LeaverItems == ASSUME ItemsInv, LoginInv, Game!HostLeave PROVE ItemsInv'
<1>1. PICK p : p = Head(leaves)
  OBVIOUS
<1>2. p \in Players
  <2>1. leaves \in Seq(Players) /\ leaves # <<>>
    BY DEF LoginInv, Game!HostLeave
  <2> QED BY <1>1, <2>1, ToldFirst
<1>3. <<>> \in Stacks /\ Game!Sum(<<>>) = 0
  BY NoStacks
<1>4. /\ inventories' = [inventories EXCEPT ![p] = <<>>] /\ minted' = minted - Game!Sum(inventories[p])
      /\ UNCHANGED <<drops, next_id>>
  BY <1>1 DEF Game!HostLeave
<1>5. Game!Sum(inventories[p]) \in Int /\ minted \in Int
  <2>1. inventories[p] \in Stacks
    BY <1>2 DEF ItemsInv
  <2> QED BY <2>1, StacksAre, SumsInt, ItemsAre
<1>6. minted' = minted - Game!Sum(inventories[p]) + Game!Sum(<<>>)
  BY <1>3, <1>4, <1>5
<1> QED BY <1>2, <1>3, <1>4, <1>6, StacksChange

LEMMA SpawnItems ==
  ASSUME ItemsInv, NEW s \in Game!Spots, NEW n \in 1..MaxStack, Game!SpawnDrop(s, n)
  PROVE  ItemsInv'
<1>1. PICK ns : ns = <<n>>
  OBVIOUS
<1>2. ns \in Stacks /\ Len(ns) = 1
  BY <1>1 DEF Stacks
<1>3. Game!Sum(ns) = n
  <2>1. PICK none : none = <<>>
    OBVIOUS
  <2>2. none \in Seq(Int) /\ n \in Int /\ Game!Sum(none) = 0
    BY <2>1, NoStacks, GameBoundsHold
  <2>3. ns = Append(none, n)
    BY <1>1, <2>1
  <2>4. Game!Sum(Append(none, n)) = Game!Sum(none) + n
    BY <2>2, SumAppend
  <2> QED BY <2>2, <2>3, <2>4
<1>4. /\ next_id <= MaxDrops /\ drops' = Game!Dropped(s, ns) /\ next_id' = next_id + Len(ns)
      /\ minted' = minted + n /\ inventories' = inventories
  BY <1>1, <1>2 DEF Game!SpawnDrop
<1>5. next_id + Len(ns) <= MaxDrops + 1
  BY <1>2, <1>4, GameBoundsHold DEF ItemsInv
<1>6. /\ next_id' \in 1..(MaxDrops + 1) /\ DOMAIN drops' \subseteq 1..(next_id' - 1)
      /\ \A d \in DOMAIN drops' : drops'[d].at \in Game!Spots /\ drops'[d].count \in 1..MaxStack
      /\ Game!Sum(Values(DOMAIN drops', drops')) = Game!Worth(DOMAIN drops) + Game!Sum(ns)
  <2>1. PICK ds : ds = Game!Dropped(s, ns)
    OBVIOUS
  <2>2. /\ next_id + Len(ns) \in 1..(MaxDrops + 1)
        /\ DOMAIN ds \subseteq 1..(next_id + Len(ns) - 1)
        /\ \A d \in DOMAIN ds : ds[d].at \in Game!Spots /\ ds[d].count \in 1..MaxStack
        /\ Game!Sum(Values(DOMAIN ds, ds)) = Game!Worth(DOMAIN drops) + Game!Sum(ns)
    BY <1>2, <1>4, <1>5, <2>1, DroppedLie
  <2>3. drops' = ds /\ next_id' = next_id + Len(ns)
    BY <1>4, <2>1
  <2>4. next_id' \in 1..(MaxDrops + 1) /\ DOMAIN drops' \subseteq 1..(next_id' - 1)
    <3>1. next_id' - 1 = next_id + Len(ns) - 1
      <4>1. next_id \in Int /\ Len(ns) \in Int
        BY <1>2, StacksAre, GameBoundsHold DEF ItemsInv
      <4> QED BY <2>3, <4>1
    <3>2. DOMAIN drops' \subseteq 1..(next_id + Len(ns) - 1)
      BY <2>2, <2>3, Zenon
    <3>3. next_id' \in 1..(MaxDrops + 1)
      BY <2>2, <2>3, Zenon
    <3> QED BY <3>1, <3>2, <3>3, Zenon
  <2>5. \A d \in DOMAIN drops' : drops'[d].at \in Game!Spots /\ drops'[d].count \in 1..MaxStack
    BY <2>2, <2>3
  <2>6. Game!Sum(Values(DOMAIN drops', drops')) = Game!Worth(DOMAIN drops) + Game!Sum(ns)
    BY <2>2, <2>3, Zenon
  <2> QED BY <2>4, <2>5, <2>6
<1>7. /\ minted = Game!Worth(DOMAIN drops) + Held(inventories)
      /\ Game!Worth(DOMAIN drops) \in Nat /\ Held(inventories) \in Nat /\ n \in Int
  BY ItemsAre, GameBoundsHold DEF ItemsInv
<1>8. minted' = Game!Worth(DOMAIN drops)' + Held(inventories')
  <2>1. Game!Worth(DOMAIN drops)' = Game!Worth(DOMAIN drops) + n
    BY <1>3, <1>6, WorthIs
  <2> QED BY <1>4, <1>7, <2>1
<1> QED BY <1>4, <1>6, <1>8 DEF ItemsInv

LEMMA DropAllItems ==
  ASSUME ItemsInv, NEW p \in Players, at[p] \in Game!Spots, Game!DropAll(p)
  PROVE  ItemsInv'
<1>1. PICK ns : ns = inventories[p]
  OBVIOUS
<1>2. ns \in Stacks
  BY <1>1 DEF ItemsInv
<1>3. <<>> \in Stacks /\ Game!Sum(<<>>) = 0
  BY NoStacks
<1>4. /\ next_id + Len(ns) <= MaxDrops + 1
      /\ drops' = Game!Dropped(at[p], ns) /\ next_id' = next_id + Len(ns)
      /\ inventories' = [inventories EXCEPT ![p] = <<>>] /\ minted' = minted
  BY <1>1 DEF Game!DropAll
<1>5. /\ next_id' \in 1..(MaxDrops + 1) /\ DOMAIN drops' \subseteq 1..(next_id' - 1)
      /\ \A d \in DOMAIN drops' : drops'[d].at \in Game!Spots /\ drops'[d].count \in 1..MaxStack
      /\ Game!Sum(Values(DOMAIN drops', drops')) = Game!Worth(DOMAIN drops) + Game!Sum(ns)
  <2>1. PICK ds : ds = Game!Dropped(at[p], ns)
    OBVIOUS
  <2>2. /\ next_id + Len(ns) \in 1..(MaxDrops + 1)
        /\ DOMAIN ds \subseteq 1..(next_id + Len(ns) - 1)
        /\ \A d \in DOMAIN ds : ds[d].at \in Game!Spots /\ ds[d].count \in 1..MaxStack
        /\ Game!Sum(Values(DOMAIN ds, ds)) = Game!Worth(DOMAIN drops) + Game!Sum(ns)
    BY <1>2, <1>4, <2>1, DroppedLie
  <2>3. drops' = ds /\ next_id' = next_id + Len(ns)
    BY <1>4, <2>1
  <2>4. next_id' \in 1..(MaxDrops + 1) /\ DOMAIN drops' \subseteq 1..(next_id' - 1)
    <3>1. next_id' - 1 = next_id + Len(ns) - 1
      <4>1. next_id \in Int /\ Len(ns) \in Int
        BY <1>2, StacksAre, GameBoundsHold DEF ItemsInv
      <4> QED BY <2>3, <4>1
    <3>2. DOMAIN drops' \subseteq 1..(next_id + Len(ns) - 1)
      BY <2>2, <2>3, Zenon
    <3>3. next_id' \in 1..(MaxDrops + 1)
      BY <2>2, <2>3, Zenon
    <3> QED BY <3>1, <3>2, <3>3, Zenon
  <2>5. \A d \in DOMAIN drops' : drops'[d].at \in Game!Spots /\ drops'[d].count \in 1..MaxStack
    BY <2>2, <2>3
  <2>6. Game!Sum(Values(DOMAIN drops', drops')) = Game!Worth(DOMAIN drops) + Game!Sum(ns)
    BY <2>2, <2>3, Zenon
  <2> QED BY <2>4, <2>5, <2>6
<1>6. /\ inventories' \in [Players -> Stacks]
      /\ Held(inventories') = Held(inventories) - Game!Sum(inventories[p]) + Game!Sum(<<>>)
  BY <1>3, <1>4, HeldChanged DEF ItemsInv
<1>7. /\ minted = Game!Worth(DOMAIN drops) + Held(inventories)
      /\ Game!Worth(DOMAIN drops) \in Nat /\ Held(inventories) \in Nat /\ Game!Sum(ns) \in Int
  BY <1>2, ItemsAre, StacksAre, SumsInt DEF ItemsInv
<1>8. minted' = Game!Worth(DOMAIN drops)' + Held(inventories')
  <2>1. Game!Worth(DOMAIN drops)' = Game!Worth(DOMAIN drops) + Game!Sum(ns)
    BY <1>5, WorthIs
  <2> QED BY <1>1, <1>3, <1>4, <1>6, <1>7, <2>1
<1> QED BY <1>5, <1>6, <1>8 DEF ItemsInv

-----------------------------------------------------------------------------
(* The block that players hold a tool to                                       *)

LEMMA WithoutIs ==
  ASSUME NEW s \in Seq(Players), NEW p, NEW t, t = Game!Holders(s, p)
  PROVE  /\ t \in Seq(Players) /\ In(t) \subseteq In(s)
         /\ Once(s) => Once(t) /\ p \notin In(t)
<1>1. Len(s) \in Nat /\ DOMAIN s = 1..Len(s) /\ \A i \in 1..Len(s) : s[i] \in Players
  BY LenProperties, ElementOfSeq
<1>2. PICK I : I = {i \in 1..Len(s) : s[i] = p}
  OBVIOUS
<1>3. CASE I = {}
  <2>1. t = s
    BY <1>2, <1>3 DEF Game!Holders, Game!RemoveFirst
  <2> QED BY <1>1, <1>2, <1>3, <2>1 DEF In
<1>4. CASE I # {}
  <2>1. PICK k : k = Game!Min(I)
    OBVIOUS
  <2>2. k \in I
    <3>1. I \in SUBSET Nat
      BY <1>1, <1>2
    <3>2. \E x \in I : \A y \in I : x <= y
      BY <1>4, <3>1, LeastOf
    <3> QED BY <2>1, <3>2 DEF Game!Min
  <2>3. k \in 1..Len(s) /\ s[k] = p
    BY <1>2, <2>2
  <2>4. t = SubSeq(s, 1, k - 1) \o SubSeq(s, k + 1, Len(s))
    BY <1>2, <1>4, <2>1 DEF Game!Holders, Game!RemoveFirst, Game!RemoveAt, Game!SelectInSeq
  <2>5. PICK a : a = SubSeq(s, 1, k - 1)
    OBVIOUS
  <2>6. PICK b : b = SubSeq(s, k + 1, Len(s))
    OBVIOUS
  <2>7. /\ a \in Seq(Players) /\ Len(a) = k - 1 /\ \A i \in 1..(k - 1) : a[i] = s[i]
    BY <1>1, <2>3, <2>5, SubSeqProperties
  <2>8. /\ b \in Seq(Players) /\ Len(b) = Len(s) - k /\ \A i \in 1..(Len(s) - k) : b[i] = s[k + i]
    <3>1. PICK m \in 1..(Len(s) + 1) : m = k + 1
      BY <1>1, <2>3
    <3>2. /\ m \in Int /\ Len(s) \in Int /\ b = SubSeq(s, m, Len(s))
          /\ \A i \in m..Len(s) : s[i] \in Players
      BY <1>1, <2>3, <2>6, <3>1
    <3>3. /\ b \in Seq(Players) /\ Len(b) = Len(s) - m + 1
          /\ \A i \in 1..(Len(s) - m + 1) : b[i] = s[m + i - 1]
      BY <1>1, <3>1, <3>2, SubSeqProperties
    <3>4. Len(s) - m + 1 = Len(s) - k /\ \A i \in 1..(Len(s) - k) : m + i - 1 = k + i
      BY <1>1, <2>3, <3>1
    <3> QED BY <3>3, <3>4
  <2>9. /\ t \in Seq(Players) /\ Len(t) = Len(s) - 1 /\ DOMAIN t = 1..(Len(s) - 1)
        /\ \A i \in 1..(Len(s) - 1) : t[i] = IF i < k THEN s[i] ELSE s[i + 1]
    <3>1. t = a \o b
      BY <2>4, <2>5, <2>6
    <3>2. /\ a \o b \in Seq(Players) /\ Len(a \o b) = Len(a) + Len(b)
          /\ \A i \in 1..(Len(a) + Len(b)) : (a \o b)[i] = IF i <= Len(a) THEN a[i] ELSE b[i - Len(a)]
      BY <2>7, <2>8, ConcatProperties
    <3>3. t \in Seq(Players) /\ Len(t) = Len(s) - 1
      BY <1>1, <2>3, <2>7, <2>8, <3>1, <3>2
    <3>4. ASSUME NEW i \in 1..(Len(s) - 1) PROVE t[i] = IF i < k THEN s[i] ELSE s[i + 1]
      <4>1. t[i] = IF i <= Len(a) THEN a[i] ELSE b[i - Len(a)]
        BY <1>1, <2>3, <2>7, <2>8, <3>1, <3>2
      <4>2. CASE i < k
        BY <1>1, <2>3, <2>7, <4>1, <4>2
      <4>3. CASE ~(i < k)
        <5>1. t[i] = b[i - (k - 1)] /\ i - (k - 1) \in 1..(Len(s) - k) /\ k + (i - (k - 1)) = i + 1
          BY <1>1, <2>3, <2>7, <4>1, <4>3
        <5> QED BY <2>8, <4>3, <5>1
      <4> QED BY <4>2, <4>3
    <3> QED BY <3>3, <3>4
  <2>10. PICK from : from = [i \in 1..(Len(s) - 1) |-> IF i < k THEN i ELSE i + 1]
    OBVIOUS
  <2>11. \A i \in 1..(Len(s) - 1) : from[i] \in 1..Len(s) /\ from[i] # k /\ t[i] = s[from[i]]
    BY <1>1, <2>3, <2>9, <2>10
  <2>12. \A i \in 1..(Len(s) - 1), j \in 1..(Len(s) - 1) : from[i] = from[j] => i = j
    BY <1>1, <2>3, <2>10
  <2>13. In(t) \subseteq In(s)
    BY <1>1, <2>9, <2>11 DEF In
  <2>14. ASSUME Once(s) PROVE Once(t) /\ p \notin In(t)
    <3>1. ASSUME NEW i \in 1..(Len(s) - 1) PROVE t[i] # p
      BY <1>1, <2>3, <2>11, <2>14 DEF Once
    <3>2. ASSUME NEW i \in 1..(Len(s) - 1), NEW j \in 1..(Len(s) - 1), t[i] = t[j] PROVE i = j
      BY <1>1, <2>11, <2>12, <2>14, <3>2 DEF Once
    <3> QED BY <2>9, <3>1, <3>2 DEF Once, In
  <2> QED BY <2>9, <2>13, <2>14
<1> QED BY <1>3, <1>4

(* Who holds a tool is in the game, and there once; and a damage that is full is not left.         *)
HoldInv ==
  /\ hold \in 0..(MaxDamage - 1)
  /\ contributors \in Seq(Players) /\ Once(contributors)
  /\ \A p \in In(contributors) : stage[p] = "playing"
  /\ credited \in Players \union {None}

LEMMA HoldsStart == ASSUME Game!Init PROVE HoldInv
  BY GameBoundsHold DEF Game!Init, HoldInv, Once, In

LEMMA HoldsUntouched ==
  ASSUME HoldInv, UNCHANGED <<hold, contributors, credited, stage>>
  PROVE  HoldInv'
  BY DEF HoldInv, Once, In

LEMMA HolderGoes ==
  ASSUME HoldInv, NEW p \in Players, contributors' = Game!Holders(contributors, p),
         UNCHANGED <<hold, credited>>, stage' = stage \/ stage' = [stage EXCEPT ![p] = "gone"],
         stage \in [Players -> {"out", "playing", "gone"}]
  PROVE  HoldInv'
<1>1. PICK t : t = Game!Holders(contributors, p)
  OBVIOUS
<1>2. /\ t \in Seq(Players) /\ In(t) \subseteq In(contributors) /\ Once(t) /\ p \notin In(t)
  BY <1>1, WithoutIs DEF HoldInv
<1>3. In(contributors)' = In(t) /\ (Once(contributors)' <=> Once(t)) /\ contributors' = t
  BY <1>1 DEF In, Once
<1>4. ASSUME NEW q \in In(t) PROVE stage'[q] = "playing"
  <2>1. q \in In(contributors) /\ q # p /\ stage[q] = "playing" /\ q \in Players
    <3>1. q \in In(contributors) /\ q # p
      BY <1>2, <1>4
    <3> QED BY <3>1, ElementOfSeq DEF HoldInv, In
  <2> QED BY <2>1
<1> QED BY <1>2, <1>3, <1>4 DEF HoldInv

LEMMA HolderComes ==
  ASSUME HoldInv, NEW p \in Players, Game!BreakBegin(p)
  PROVE  HoldInv'
<1>1. /\ stage[p] = "playing" /\ p \notin In(contributors)
      /\ contributors' = Append(contributors, p) /\ UNCHANGED <<hold, credited, stage>>
  BY DEF Game!BreakBegin, Game!ToSet, Game!session, In
<1>2. PICK t : t = Append(contributors, p)
  OBVIOUS
<1>3. t \in Seq(Players) /\ In(t) = In(contributors) \union {p} /\ Once(t)
  BY <1>1, <1>2, QueuedLast DEF HoldInv
<1>4. In(contributors)' = In(t) /\ (Once(contributors)' <=> Once(t)) /\ contributors' = t
  BY <1>1, <1>2 DEF In, Once
<1> QED BY <1>1, <1>3, <1>4 DEF HoldInv

\* A hold that is finished was somebody's.
LEMMA HoldGoesOn ==
  ASSUME HoldInv, Game!UpdateHold
  PROVE  HoldInv' /\ (credited' # credited => stage[credited'] = "playing")
<1>1. PICK delta \in 0..Len(contributors), heal \in 0..1 :
        LET left == IF contributors = <<>> THEN Game!Max({0, hold - heal})
                    ELSE Game!Min({MaxDamage, hold + delta})
        IN IF left = MaxDamage
           THEN /\ hold' = 0 /\ contributors' = <<>>
                /\ credited' = IF contributors = <<>> THEN None ELSE Head(contributors)
           ELSE hold' = left /\ UNCHANGED <<contributors, credited>>
  BY DEF Game!UpdateHold
<1>2. PICK left : left = IF contributors = <<>> THEN Game!Max({0, hold - heal})
                         ELSE Game!Min({MaxDamage, hold + delta})
  OBVIOUS
<1>3. stage' = stage
  BY DEF Game!UpdateHold, Game!session
<1>4. hold \in 0..(MaxDamage - 1) /\ MaxDamage \in Nat \ {0} /\ Len(contributors) \in Nat
  BY GameBoundsHold, LenProperties DEF HoldInv
<1>5. left \in 0..MaxDamage /\ (contributors = <<>> => left # MaxDamage)
  <2>1. CASE contributors = <<>>
    <3>1. hold - heal \in Int
      BY <1>4
    <3>2. left = IF 0 >= hold - heal THEN 0 ELSE hold - heal
      BY <1>2, <2>1, <3>1, MaxMinOfTwo
    <3> QED BY <1>4, <3>2
  <2>2. CASE contributors # <<>>
    <3>1. hold + delta \in Nat /\ MaxDamage \in Int /\ hold + delta \in Int
      BY <1>4
    <3>2. left = IF MaxDamage <= hold + delta THEN MaxDamage ELSE hold + delta
      <4>1. left = Game!Min({MaxDamage, hold + delta})
        BY <1>2, <2>2
      <4>2. Game!Min({MaxDamage, hold + delta}) = IF MaxDamage <= hold + delta THEN MaxDamage ELSE hold + delta
        BY <3>1, MaxMinOfTwo
      <4> QED BY <4>1, <4>2, Zenon
    <3> QED BY <1>4, <2>2, <3>1, <3>2
  <2> QED BY <2>1, <2>2
<1>6. CASE left = MaxDamage
  <2>1. /\ hold' = 0 /\ contributors' = <<>> /\ contributors # <<>>
        /\ credited' = Head(contributors)
    BY <1>1, <1>2, <1>5, <1>6
  <2>2. Head(contributors) \in In(contributors) /\ Head(contributors) \in Players
    BY <2>1, ToldFirst DEF HoldInv
  <2>3. stage[Head(contributors)] = "playing"
    BY <2>2 DEF HoldInv
  <2>4. contributors' \in Seq(Players) /\ In(contributors)' = {} /\ Once(contributors)'
    BY <2>1 DEF In, Once
  <2> QED BY <1>3, <1>4, <2>1, <2>2, <2>3, <2>4 DEF HoldInv
<1>7. CASE left # MaxDamage
  <2>1. hold' = left /\ UNCHANGED <<contributors, credited>>
    BY <1>1, <1>2, <1>7
  <2>2. hold' \in 0..(MaxDamage - 1)
    BY <1>4, <1>5, <1>7, <2>1
  <2>3. In(contributors)' = In(contributors) /\ (Once(contributors)' <=> Once(contributors))
    BY <2>1 DEF In, Once
  <2> QED BY <1>3, <2>1, <2>2, <2>3 DEF HoldInv
<1> QED BY <1>6, <1>7

LEMMA HoldsKeep ==
  ASSUME HoldInv, LoginInv, [Game!Next]_gameVars
  PROVE  HoldInv' /\ (credited' # credited => stage[credited'] = "playing")
<1> USE DEF Game!session, Game!block
<1>1. CASE UNCHANGED gameVars
  BY <1>1, HoldsUntouched DEF gameVars
<1>2. CASE Game!NextPhase \/ Game!UpdateDrops
  BY <1>2, HoldsUntouched DEF Game!NextPhase, Game!UpdateDrops
<1>3. CASE Game!Script
  BY <1>3, HoldsUntouched DEF Game!Script, Game!Give, Game!Take, Game!SpawnDrop, Game!Damage,
       Game!Teleport
<1>4. CASE Game!UpdateHold
  BY <1>4, HoldGoesOn
<1>5. CASE Game!HostJoin \/ Game!HostLoginChanged \/ Game!HostLeave
  BY <1>5, HoldsUntouched DEF Game!HostJoin, Game!HostLoginChanged, Game!HostLeave
<1>6. ASSUME NEW p \in Players, Game!Network(p)
      PROVE  HoldInv' /\ (credited' # credited => stage[credited'] = "playing")
  <2>1. CASE Game!Join(p)
    <3>1. /\ UNCHANGED <<hold, contributors, credited>> /\ stage' = [stage EXCEPT ![p] = "playing"]
          /\ stage[p] = "out"
      BY <2>1 DEF Game!Join
    <3>2. In(contributors)' = In(contributors) /\ (Once(contributors)' <=> Once(contributors))
      BY <3>1 DEF In, Once
    <3>3. ASSUME NEW q \in In(contributors) PROVE stage'[q] = "playing"
      <4>1. q \in Players /\ stage[q] = "playing"
        BY <3>3, ElementOfSeq DEF HoldInv, In
      <4> QED BY <3>1, <4>1 DEF LoginInv
    <3> QED BY <3>1, <3>2, <3>3 DEF HoldInv
  <2>2. CASE Game!Leave(p)
    <3>1. /\ contributors' = Game!Holders(contributors, p) /\ UNCHANGED <<hold, credited>>
          /\ stage' = [stage EXCEPT ![p] = "gone"]
      BY <2>2 DEF Game!Leave
    <3>2. HoldInv'
      BY <3>1, HolderGoes DEF LoginInv
    <3> QED BY <3>1, <3>2
  <2>3. CASE Game!BreakStop(p)
    <3>1. contributors' = Game!Holders(contributors, p) /\ UNCHANGED <<hold, credited, stage>>
      BY <2>3 DEF Game!BreakStop
    <3>2. HoldInv'
      BY <3>1, HolderGoes DEF LoginInv
    <3> QED BY <3>1, <3>2
  <2>4. CASE Game!BreakBegin(p)
    <3>1. credited' = credited
      BY <2>4 DEF Game!BreakBegin
    <3> QED BY <2>4, <3>1, HolderComes
  <2>5. CASE Game!Move(p) \/ Game!LoginChanges(p)
    BY <2>5, HoldsUntouched DEF Game!Move, Game!LoginChanges
  <2> QED BY <1>6, <2>1, <2>2, <2>3, <2>4, <2>5 DEF Game!Network
<1>7. ASSUME NEW p \in Players,
             Game!Hunger(p) \/ Game!Alive(p) \/ Game!Respawn(p) \/ Game!Occupancy(p)
      PROVE  HoldInv' /\ (credited' # credited => stage[credited'] = "playing")
  BY <1>7, HoldsUntouched DEF Game!Hunger, Game!Alive, Game!Respawn, Game!Occupancy
<1> QED BY <1>1, <1>2, <1>3, <1>4, <1>5, <1>6, <1>7 DEF Game!Next

-----------------------------------------------------------------------------
(* The rest of the types                                                       *)

WhereInv ==
  /\ phase \in Game!ToSet(Game!Phases) /\ todo \subseteq Players
  /\ at \in [Players -> Game!Spots] /\ falling \subseteq Players
  /\ region_occupancy \subseteq Players /\ acts \in 0..MaxActs

HealthInv ==
  /\ health \in [Players -> 0..MaxHealth] /\ hunger \in [Players -> 0..MaxHunger]
  /\ death_cause \in [Players -> Game!Causes \union {None}]

LEMMA RestStarts == ASSUME Game!Init PROVE WhereInv /\ HealthInv
<1>1. "network" \in Game!ToSet(Game!Phases)
  BY DEF Game!ToSet, Game!Phases
<1> QED BY <1>1, GameBoundsHold DEF Game!Init, WhereInv, HealthInv, Game!Spots

LEMMA PhasesAre ==
  /\ \A k \in 1..8 : Game!Phases[(k % Len(Game!Phases)) + 1] \in Game!ToSet(Game!Phases)
  /\ \A ph \in Game!ToSet(Game!Phases) : \E k \in DOMAIN Game!Phases : Game!Phases[k] = ph
  /\ DOMAIN Game!Phases = 1..8
  /\ {"hold", "regions"} \subseteq Game!ToSet(Game!Phases)
<1>1. Len(Game!Phases) = 8 /\ DOMAIN Game!Phases = 1..8
  BY DEF Game!Phases
<1>2. \A ph \in Game!ToSet(Game!Phases) : \E k \in DOMAIN Game!Phases : Game!Phases[k] = ph
  BY DEF Game!ToSet
<1>3. \A k \in 1..8 : (k % 8) + 1 \in 1..8
  OBVIOUS
<1>4. Game!Phases[6] = "hold" /\ Game!Phases[7] = "regions"
  BY DEF Game!Phases
<1>5. \A k \in 1..8 : Game!Phases[(k % Len(Game!Phases)) + 1] \in Game!ToSet(Game!Phases)
  BY <1>1, <1>3 DEF Game!ToSet
<1>6. {"hold", "regions"} \subseteq Game!ToSet(Game!Phases)
  BY <1>1, <1>4 DEF Game!ToSet
<1> QED BY <1>1, <1>2, <1>5, <1>6

LEMMA WhereKeeps == ASSUME WhereInv, [Game!Next]_gameVars PROVE WhereInv'
<1> USE DEF Game!session
<1>1. CASE UNCHANGED gameVars
  BY <1>1 DEF gameVars, WhereInv
<1>2. CASE Game!NextPhase
  <2>1. PICK k : k = CHOOSE j \in DOMAIN Game!Phases : Game!Phases[j] = phase
    OBVIOUS
  <2>2. k \in 1..8
    <3>1. \E j \in DOMAIN Game!Phases : Game!Phases[j] = phase
      BY PhasesAre DEF WhereInv
    <3>2. k \in DOMAIN Game!Phases
      BY <2>1, <3>1
    <3> QED BY <3>2, PhasesAre
  <2>3. phase' \in Game!ToSet(Game!Phases)
    <3>1. phase' = Game!Phases[(k % Len(Game!Phases)) + 1]
      BY <1>2, <2>1 DEF Game!NextPhase
    <3> QED BY <2>2, <3>1, PhasesAre
  <2>4. todo' \subseteq Players /\ UNCHANGED <<at, falling, region_occupancy, acts>>
    BY <1>2 DEF Game!NextPhase, Game!Playing
  <2> QED BY <2>3, <2>4 DEF WhereInv
<1>3. CASE Game!Script
  <2>1. UNCHANGED <<phase, todo, region_occupancy>> /\ acts' \in 0..MaxActs
    BY <1>3, GameBoundsHold DEF Game!Script, Game!Act, WhereInv
  <2>2. PICK p \in Game!Playing, n \in 1..MaxStack, s \in Game!Spots :
          Game!Give(p, n) \/ Game!Take(p, n) \/ Game!SpawnDrop(s, n) \/ Game!Damage(p, n)
          \/ Game!Teleport(p, s)
    BY <1>3 DEF Game!Script
  <2>3. at' \in [Players -> Game!Spots] /\ falling' \subseteq Players
    <3>1. CASE Game!Teleport(p, s)
      BY <3>1 DEF Game!Teleport, WhereInv
    <3>2. CASE Game!Give(p, n) \/ Game!Take(p, n) \/ Game!SpawnDrop(s, n) \/ Game!Damage(p, n)
      BY <3>2 DEF Game!Give, Game!Take, Game!SpawnDrop, Game!Damage, WhereInv
    <3> QED BY <2>2, <3>1, <3>2
  <2> QED BY <2>1, <2>3 DEF WhereInv
<1>4. CASE Game!UpdateDrops
  <2>1. phase' = "hold" /\ UNCHANGED <<todo, at, falling, region_occupancy, acts>>
    BY <1>4 DEF Game!UpdateDrops
  <2> QED BY <2>1, PhasesAre DEF WhereInv
<1>5. CASE Game!UpdateHold
  <2>1. /\ phase' = "regions" /\ todo' \subseteq Players
        /\ UNCHANGED <<at, falling, region_occupancy, acts>>
    BY <1>5 DEF Game!UpdateHold, Game!Playing
  <2> QED BY <2>1, PhasesAre DEF WhereInv
<1>6. CASE Game!HostJoin \/ Game!HostLoginChanged \/ Game!HostLeave
  BY <1>6 DEF Game!HostJoin, Game!HostLoginChanged, Game!HostLeave, WhereInv
<1>7. ASSUME NEW p \in Players, Game!Network(p) PROVE WhereInv'
  <2>1. CASE Game!Join(p) \/ Game!Leave(p)
    BY <2>1 DEF Game!Join, Game!Leave, WhereInv
  <2>2. CASE Game!Move(p)
    <3>1. acts' \in 0..MaxActs /\ UNCHANGED <<phase, todo, region_occupancy>>
      BY <2>2, GameBoundsHold DEF Game!Move, Game!Act, WhereInv
    <3>2. at' \in [Players -> Game!Spots] /\ falling' \subseteq Players
      BY <2>2 DEF Game!Move, WhereInv
    <3> QED BY <3>1, <3>2 DEF WhereInv
  <2>3. CASE Game!BreakBegin(p) \/ Game!BreakStop(p) \/ Game!LoginChanges(p)
    <3>1. acts' \in 0..MaxActs /\ UNCHANGED <<phase, todo, at, falling, region_occupancy>>
      BY <2>3, GameBoundsHold DEF Game!BreakBegin, Game!BreakStop, Game!LoginChanges, Game!Act, WhereInv
    <3> QED BY <3>1 DEF WhereInv
  <2> QED BY <1>7, <2>1, <2>2, <2>3 DEF Game!Network
<1>8. ASSUME NEW p \in Players, Game!Hunger(p) PROVE WhereInv'
  <2>1. /\ acts' \in 0..MaxActs /\ UNCHANGED <<phase, at, falling, region_occupancy>>
        /\ todo' = todo \ {p}
    BY <1>8, GameBoundsHold DEF Game!Hunger, Game!Act, WhereInv
  <2> QED BY <2>1 DEF WhereInv
<1>9. ASSUME NEW p \in Players, Game!Alive(p) \/ Game!Occupancy(p) PROVE WhereInv'
  BY <1>9 DEF Game!Alive, Game!Occupancy, WhereInv
<1>10. ASSUME NEW p \in Players, Game!Respawn(p) PROVE WhereInv'
  <2>1. PICK s \in {"spawn", "field"} : at' = [at EXCEPT ![p] = s]
    BY <1>10 DEF Game!Respawn
  <2>2. at' \in [Players -> Game!Spots]
    BY <2>1 DEF WhereInv, Game!Spots
  <2>3. /\ todo' = todo \ {p} /\ falling' = falling \ {p}
        /\ UNCHANGED <<phase, region_occupancy, acts>>
    BY <1>10 DEF Game!Respawn
  <2> QED BY <2>2, <2>3 DEF WhereInv
<1> QED BY <1>1, <1>2, <1>3, <1>4, <1>5, <1>6, <1>7, <1>8, <1>9, <1>10 DEF Game!Next

LEMMA HurtKeeps ==
  ASSUME HealthInv, NEW p \in Players, NEW amount \in Nat, NEW cause \in Game!Causes,
         Game!Hurt(p, amount, cause)
  PROVE  /\ health' \in [Players -> 0..MaxHealth]
         /\ death_cause' \in [Players -> Game!Causes \union {None}]
<1>1. CASE health[p] = 0
  BY <1>1 DEF Game!Hurt, HealthInv
<1>2. CASE health[p] # 0
  <2>1. PICK h : h = Game!Max({0, health[p] - amount})
    OBVIOUS
  <2>2. h \in 0..MaxHealth
    <3>1. health[p] \in 0..MaxHealth /\ MaxHealth \in Nat
      BY GameBoundsHold DEF HealthInv
    <3>2. 0 \in Int /\ health[p] - amount \in Int
      BY <3>1
    <3>3. h = IF 0 >= health[p] - amount THEN 0 ELSE health[p] - amount
      BY <2>1, <3>2, MaxMinOfTwo
    <3> QED BY <3>1, <3>3
  <2>3. /\ health' = [health EXCEPT ![p] = h]
        /\ death_cause' = [death_cause EXCEPT ![p] = IF health'[p] = 0 THEN cause ELSE @]
    BY <1>2, <2>1 DEF Game!Hurt
  <2> QED BY <2>2, <2>3 DEF HealthInv
<1> QED BY <1>1, <1>2

LEMMA HealthUntouched ==
  ASSUME HealthInv, UNCHANGED <<health, hunger, death_cause>>
  PROVE  HealthInv'
  BY DEF HealthInv

LEMMA HealthKeeps == ASSUME HealthInv, [Game!Next]_gameVars PROVE HealthInv'
<1> USE DEF Game!session
<1>1. CASE UNCHANGED gameVars
  BY <1>1, HealthUntouched DEF gameVars
<1>2. CASE Game!NextPhase \/ Game!UpdateDrops \/ Game!UpdateHold
  BY <1>2, HealthUntouched DEF Game!NextPhase, Game!UpdateDrops, Game!UpdateHold
<1>3. CASE Game!Script
  <2>1. PICK p \in Game!Playing, n \in 1..MaxStack, s \in Game!Spots :
          Game!Give(p, n) \/ Game!Take(p, n) \/ Game!SpawnDrop(s, n) \/ Game!Damage(p, n)
          \/ Game!Teleport(p, s)
    BY <1>3 DEF Game!Script
  <2>2. CASE Game!Damage(p, n)
    <3>1. p \in Players /\ n \in Nat /\ "script" \in Game!Causes
      BY GameBoundsHold DEF Game!Playing, Game!Causes
    <3>2. Game!Hurt(p, n, "script") /\ hunger' = hunger
      BY <2>2 DEF Game!Damage
    <3>3. PICK cause \in Game!Causes : cause = "script"
      BY <3>1
    <3>4. Game!Hurt(p, n, cause)
      BY <3>2, <3>3, Zenon
    <3> QED BY <3>1, <3>2, <3>4, HurtKeeps DEF HealthInv
  <2>3. CASE Game!Give(p, n) \/ Game!Take(p, n) \/ Game!SpawnDrop(s, n) \/ Game!Teleport(p, s)
    BY <2>3, HealthUntouched DEF Game!Give, Game!Take, Game!SpawnDrop, Game!Teleport
  <2> QED BY <2>1, <2>2, <2>3
<1>4. CASE Game!HostJoin \/ Game!HostLoginChanged \/ Game!HostLeave
  BY <1>4, HealthUntouched DEF Game!HostJoin, Game!HostLoginChanged, Game!HostLeave
<1>5. ASSUME NEW p \in Players, Game!Network(p) PROVE HealthInv'
  BY <1>5, HealthUntouched DEF Game!Network, Game!Join, Game!Leave, Game!Move, Game!BreakBegin,
     Game!BreakStop, Game!LoginChanges
<1>6. ASSUME NEW p \in Players, Game!Hunger(p) PROVE HealthInv'
  <2>1. hunger' \in [Players -> 0..MaxHunger]
    <3>1. CASE hunger' = hunger
      BY <3>1 DEF HealthInv
    <3>2. CASE hunger' = [hunger EXCEPT ![p] = Game!Max({0, @ - 1})]
      <4>1. PICK h : h = Game!Max({0, hunger[p] - 1})
        OBVIOUS
      <4>2. hunger[p] \in 0..MaxHunger /\ MaxHunger \in Nat
        BY GameBoundsHold DEF HealthInv
      <4>3. 0 \in Int /\ hunger[p] - 1 \in Int
        BY <4>2
      <4>4. h = IF 0 >= hunger[p] - 1 THEN 0 ELSE hunger[p] - 1
        BY <4>1, <4>3, MaxMinOfTwo
      <4>5. h \in 0..MaxHunger
        BY <4>2, <4>4
      <4>6. hunger' = [hunger EXCEPT ![p] = h]
        BY <3>2, <4>1
      <4> QED BY <4>5, <4>6 DEF HealthInv
    <3> QED BY <1>6, <3>1, <3>2 DEF Game!Hunger
  <2>2. CASE UNCHANGED <<health, death_cause>>
    BY <2>1, <2>2 DEF HealthInv
  <2>3. CASE Game!Hurt(p, 1, "hunger")
    <3>1. PICK cause \in Game!Causes, amount \in Nat : cause = "hunger" /\ amount = 1
      BY DEF Game!Causes
    <3>2. Game!Hurt(p, amount, cause)
      BY <2>3, <3>1, Zenon
    <3> QED BY <2>1, <3>2, HurtKeeps DEF HealthInv
  <2> QED BY <1>6, <2>2, <2>3 DEF Game!Hunger
<1>7. ASSUME NEW p \in Players, Game!Alive(p) \/ Game!Occupancy(p) PROVE HealthInv'
  BY <1>7, HealthUntouched DEF Game!Alive, Game!Occupancy
<1>8. ASSUME NEW p \in Players, Game!Respawn(p) PROVE HealthInv'
  <2>1. PICK h \in Heals : health' = [health EXCEPT ![p] = h]
    BY <1>8 DEF Game!Respawn
  <2>2. /\ hunger' = [hunger EXCEPT ![p] = MaxHunger]
        /\ death_cause' = [death_cause EXCEPT ![p] = None]
    BY <1>8 DEF Game!Respawn
  <2> QED BY <2>1, <2>2, GameBoundsHold DEF HealthInv
<1> QED BY <1>1, <1>2, <1>3, <1>4, <1>5, <1>6, <1>7, <1>8 DEF Game!Next
-----------------------------------------------------------------------------
(* All of Gameplay                                                             *)

GameInv == ItemsInv /\ LoginInv /\ HoldInv /\ WhereInv /\ HealthInv

LEMMA GameStarts == ASSUME Game!Init PROVE GameInv
  BY ItemsStart, LoginsStart, HoldsStart, RestStarts DEF GameInv

LEMMA ItemsKeep == ASSUME GameInv, [Game!Next]_gameVars PROVE ItemsInv'
<1>1. ItemsInv /\ LoginInv /\ at \in [Players -> Game!Spots]
  BY DEF GameInv, WhereInv
<1>2. CASE UNCHANGED <<drops, next_id, inventories, minted>>
  BY <1>1, <1>2, ItemsUntouched
<1>3. CASE Game!Script
  <2>1. PICK p \in Game!Playing, n \in 1..MaxStack, s \in Game!Spots :
          Game!Give(p, n) \/ Game!Take(p, n) \/ Game!SpawnDrop(s, n) \/ Game!Damage(p, n)
          \/ Game!Teleport(p, s)
    BY <1>3 DEF Game!Script
  <2>2. p \in Players
    BY DEF Game!Playing
  <2>3. CASE Game!Damage(p, n) \/ Game!Teleport(p, s)
    BY <1>2, <2>3 DEF Game!Damage, Game!Teleport, Game!items
  <2> QED BY <1>1, <2>1, <2>2, <2>3, GiveItems, TakeItems, SpawnItems
<1>4. CASE Game!UpdateDrops
  BY <1>1, <1>4, CollectKeeps
<1>5. CASE Game!HostLeave
  BY <1>1, <1>5, LeaverItems
<1>6. ASSUME NEW p \in Players, Game!Respawn(p) PROVE ItemsInv'
  <2>1. CASE Game!DropAll(p)
    BY <1>1, <2>1, DropAllItems
  <2>2. CASE UNCHANGED Game!items
    BY <1>2, <2>2 DEF Game!items
  <2> QED BY <1>6, <2>1, <2>2 DEF Game!Respawn
<1>7. CASE UNCHANGED gameVars
  BY <1>2, <1>7 DEF gameVars
<1>8. CASE Game!NextPhase \/ Game!UpdateHold \/ Game!HostJoin \/ Game!HostLoginChanged
  BY <1>2, <1>8 DEF Game!NextPhase, Game!UpdateHold, Game!HostJoin, Game!HostLoginChanged, Game!items
<1>9. ASSUME NEW p \in Players, Game!Network(p) PROVE ItemsInv'
  BY <1>2, <1>9 DEF Game!Network, Game!Join, Game!Leave, Game!Move, Game!BreakBegin,
     Game!BreakStop, Game!LoginChanges, Game!items
<1>10. ASSUME NEW p \in Players, Game!Hunger(p) \/ Game!Alive(p) \/ Game!Occupancy(p) PROVE ItemsInv'
  BY <1>2, <1>10 DEF Game!Hunger, Game!Alive, Game!Occupancy, Game!items
<1> QED BY <1>3, <1>4, <1>5, <1>6, <1>7, <1>8, <1>9, <1>10 DEF Game!Next

LEMMA GameKeeps ==
  ASSUME GameInv, [Game!Next]_gameVars
  PROVE  GameInv' /\ (credited' # credited => stage[credited'] = "playing")
  BY ItemsKeep, LoginsKeep, HoldsKeep, WhereKeeps, HealthKeeps DEF GameInv

LEMMA GameSays == ASSUME GameInv PROVE Game!TypeOK /\ Game!ItemsConserved
<1>1. ItemsInv /\ LoginInv /\ HoldInv /\ WhereInv /\ HealthInv
  BY DEF GameInv
<1>2. next_id \in 1..(MaxDrops + 1) /\ DOMAIN drops \subseteq 1..MaxDrops
  BY <1>1, GameBoundsHold DEF ItemsInv
<1>3. \A d \in DOMAIN drops : drops[d].at \in Game!Spots /\ drops[d].count \in 1..MaxStack
  BY <1>1 DEF ItemsInv
<1>4. \A p \in Players : \A i \in DOMAIN inventories[p] : inventories[p][i] \in 1..MaxStack
  <2> SUFFICES ASSUME NEW p \in Players PROVE \A i \in DOMAIN inventories[p] : inventories[p][i] \in 1..MaxStack
    OBVIOUS
  <2>1. inventories[p] \in Stacks
    BY <1>1 DEF ItemsInv
  <2> QED BY <2>1, StacksAre
<1>5. minted \in Nat /\ Game!ItemsConserved
  BY <1>1, ItemsAre
<1>6. Game!ToSet(joins) \union Game!ToSet(login_changes) \union Game!ToSet(leaves) \union logins \subseteq Players
  BY <1>1, ElementOfSeq DEF LoginInv, Game!ToSet
<1>7. hold \in 0..MaxDamage /\ \A i \in DOMAIN contributors : contributors[i] \in Players
  BY <1>1, GameBoundsHold, ElementOfSeq DEF HoldInv
<1> QED BY <1>1, <1>2, <1>3, <1>4, <1>5, <1>6, <1>7 DEF LoginInv, HoldInv, WhereInv, HealthInv, Game!TypeOK

\* A game that another part's run leaves as it is is one that stutters.
LEMMA GameAlways ==
  RunSpec => []GameInv /\ [][credited' # credited => stage[credited'] = "playing"]_gameVars
  <1>1. RunInit => GameInv
    BY GameStarts DEF RunInit
  <1>2. GameInv /\ [RunNext]_allVars => [Game!Next]_gameVars
    BY DEF RunNext, Only, allVars
  <1>3. ASSUME GameInv, [RunNext]_allVars
        PROVE  GameInv' /\ (credited' # credited => stage[credited'] = "playing")
    <2>1. [Game!Next]_gameVars
      BY <1>2, <1>3
    <2> QED BY <1>3, <2>1, GameKeeps
  <1> QED BY <1>1, <1>3, PTL DEF RunSpec

\* Items are neither doubled nor lost between the stacks of the players and the drops, however many
\* players, stacks and drops there are: not by two players in reach of one drop, a drop that expires
\* as it is picked up, or a death (update_item_drops, give_item, take).
THEOREM ItemsStayConserved == RunSpec => []ItemsConserved
  <1>1. GameInv => ItemsConserved
    BY GameSays DEF ItemsConserved
  <1> QED BY <1>1, GameAlways, PTL

\* A block held to the end is broken in the name of a player who is in the game, for a player that
\* leaves is taken from the holders of every block (BlockDamageSystem::remove_player and tick).
THEOREM HoldersAreCredited == RunSpec => Game!CreditedToHolder
  <1>1. [credited' # credited => stage[credited'] = "playing"]_gameVars
          => [credited' # credited => stage[credited'] = "playing"]_(Game!vars)
    BY DEF gameVars, Game!vars, Game!session, Game!items, Game!block, Game!queues
  <1> QED BY <1>1, GameAlways, PTL DEF Game!CreditedToHolder

\* Documents, views, players, drops and stacks have their types, in whichever of the parts runs.
THEOREM PlayTypesAreRight == RunSpec => []TypesOK
  <1>1. RunInit => (which = "editor" => IInv) /\ which \in {"editor", "view", "game"}
    BY InitInv DEF RunInit
  <1>2. /\ (which = "editor" => IInv) /\ which \in {"editor", "view", "game"}
        /\ [RunNext]_allVars
        => ((which = "editor" => IInv) /\ which \in {"editor", "view", "game"})'
    <2> SUFFICES ASSUME which = "editor" => IInv, which \in {"editor", "view", "game"},
                        [RunNext]_allVars
                 PROVE  (which' = "editor" => IInv') /\ which' \in {"editor", "view", "game"}
      OBVIOUS
    <2>1. which' = which
      BY DEF RunNext, allVars
    <2>2. ASSUME which = "editor" PROVE IInv'
      <3>1. [Next]_vars
        BY <2>2 DEF RunNext, Only, allVars
      <3> QED BY <2>2, <3>1, StepInv
    <2> QED BY <2>1, <2>2
  <1>3. /\ (which = "editor" => IInv) /\ which \in {"editor", "view", "game"}
        /\ (which = "view" => ViewInv) /\ GameInv
        => TypesOK
    BY EditorTypes, ViewSays, GameSays DEF TypesOK
  <1> QED BY <1>1, <1>2, <1>3, ViewAlways, GameAlways, PTL DEF RunSpec
=============================================================================
