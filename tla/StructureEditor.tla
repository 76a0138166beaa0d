--------------------------- MODULE StructureEditor ---------------------------
(* The structure editor: a document of variants, the tools that change it,   *)
(* its undo stack, and saving, opening and quitting (src/src/editor/model,   *)
(* src/src/editor/app/editor_app.cpp).  A volume is a row of cells, one axis *)
(* of the three: symmetry, resizing, selections and moves act on each axis   *)
(* in the same way.                                                          *)
EXTENDS Integers, Sequences, FiniteSets

CONSTANTS
  Blocks,       \* names a brush can have
  Keep,         \* the empty cell, and the empty brush
  None, Torn,   \* no file, a file cut short
  MaxSize,      \* kMaxStructureDim
  MaxVariants,  \* bound: variants of a document
  MaxPushes     \* bound: edits in a behaviour

\* Sizes and bounds, with room for one cell.
ASSUME EditorAssumption ==
  MaxSize \in Nat \ {0} /\ MaxVariants \in Nat \ {0} /\ MaxPushes \in Nat

VARIABLES
  doc,        \* the document: variants, anchor, placement
  variant,    \* the variant shown
  selection,  \* a box, or None
  clipboard,  \* cells, <<>> if empty
  commands,   \* UndoStack::commands_
  next,       \* commands_[0..next_) are applied
  saved,      \* UndoStack::saved_, and its validity
  savedValid,
  file,       \* the structure's file
  dialog,     \* what the unsaved-changes dialog would go on with, or None
  kept,       \* history: the document when it was last marked as saved
  trail,      \* history: the documents along the applied and undone commands
  pushes,     \* edits so far
  quit

vars == <<doc, variant, selection, clipboard, commands, next, saved, savedValid, kept, file,
          dialog, trail, pushes, quit>>

Cells == Blocks \union {Keep}
Volumes == UNION {[0..(n - 1) -> Cells] : n \in 1..MaxSize}
Size(vol) == Cardinality(DOMAIN vol)
DocSize(d) == Size(d.variants[1])
Volume == doc.variants[variant]
Boxes == {box \in (0..(MaxSize - 1)) \X (0..(MaxSize - 1)) : box[1] <= box[2]}

\* Values have their types, and what is shown or selected is there.
TypeOK ==
  /\ doc.variants \in UNION {[1..n -> Volumes] : n \in 1..MaxVariants}
  /\ \A v \in DOMAIN doc.variants : Size(doc.variants[v]) = DocSize(doc)
  /\ doc.anchor \in 0..(DocSize(doc) - 1) /\ doc.placement \in BOOLEAN
  /\ variant \in DOMAIN doc.variants
  /\ selection = None \/ (selection \in Boxes /\ selection[2] < DocSize(doc))
  /\ \A i \in DOMAIN clipboard : clipboard[i] \in Cells
  /\ Len(commands) <= MaxPushes /\ next \in 0..Len(commands)
  /\ saved \in 0..MaxPushes /\ savedValid \in BOOLEAN
  /\ dialog \in {None, "open", "new", "quit"}
  /\ pushes \in 0..MaxPushes /\ quit \in BOOLEAN

-----------------------------------------------------------------------------
\* Geometry of shapes.hpp and volume.hpp.
Mirrored(S, sym) == S \union IF sym THEN {Size(Volume) - 1 - p : p \in S} ELSE {}
InBounds(S) == S \cap DOMAIN Volume
Between(a, b) == IF a <= b THEN a..b ELSE b..a
Clip(box, size) ==
  LET lo == IF box[1] < 0 THEN 0 ELSE box[1]
      hi == IF box[2] > size - 1 THEN size - 1 ELSE box[2]
  IN IF lo <= hi THEN <<lo, hi>> ELSE None
Region(p) ==
  {q \in DOMAIN Volume : \A r \in Between(p, q) : Volume[r] = Volume[p]}
Resized(vol, size, shift) ==
  [p \in 0..(size - 1) |-> IF p - shift \in DOMAIN vol THEN vol[p - shift] ELSE Keep]

\* The commands: each holds what it changes and how to change it back.
CellEdits(vol) ==
  LET changed == {p \in DOMAIN Volume : vol[p] # Volume[p]}
  IN [kind |-> "cells", v |-> variant, before |-> [p \in changed |-> Volume[p]],
      after |-> [p \in changed |-> vol[p]]]
VolumeReplace(vols, anchor) ==
  [kind |-> "volumes", v |-> 0, before |-> <<doc.variants, doc.anchor>>,
   after |-> <<vols, anchor>>]
VariantsReplace(vols) ==
  [kind |-> "variants", v |-> 0, before |-> doc.variants, after |-> vols]
PlacementReplace(p) ==
  [kind |-> "placement", v |-> 0, before |-> doc.placement, after |-> p]

\* Command::apply and Command::revert, by what they put into the document.
Put(d, c, what) ==
  CASE c.kind = "cells" ->
         [d EXCEPT !.variants[c.v] = [p \in DOMAIN @ |-> IF p \in DOMAIN what THEN what[p]
                                                         ELSE @[p]]]
    [] c.kind = "volumes" -> [d EXCEPT !.variants = what[1], !.anchor = what[2]]
    [] c.kind = "variants" -> [d EXCEPT !.variants = what]
    [] c.kind = "placement" -> [d EXCEPT !.placement = what]
Apply(d, c) == Put(d, c, c.after)
Revert_partly(d, c) == IF c.kind = "volumes" THEN [d EXCEPT !.variants = c.before[1]]
                       ELSE Put(d, c, c.before)

Revert(d, c) == Put(d, c, c.before)

\* UndoStack::dirty.
Dirty == IF savedValid THEN next # saved ELSE next # 0

\* UndoStack::push: the command is applied, the redo history is dropped, and with it a
\* saved point inside it.
Push(c) ==
  /\ pushes < MaxPushes
  /\ pushes' = pushes + 1
  /\ doc' = Apply(doc, c)
  /\ commands' = Append(SubSeq(commands, 1, next), c)
  /\ next' = next + 1
  /\ savedValid' = (savedValid /\ saved <= next)
  /\ trail' = Append(SubSeq(trail, 1, next + 1), doc')
  /\ UNCHANGED <<saved, kept, file, dialog, quit>>

PushCells(vol) == vol # Volume /\ Push(CellEdits(vol))

Fresh(d) ==
  /\ doc' = d /\ variant' = 1 /\ selection' = None /\ clipboard' = <<>>
  /\ commands' = <<>> /\ next' = 0 /\ saved' = 0 /\ savedValid' = TRUE
  /\ kept' = d /\ trail' = <<d>>

Blank(n) == [variants |-> <<[p \in 0..(n - 1) |-> Keep]>>, anchor |-> 0, placement |-> FALSE]

Init ==
  /\ doc = Blank(MaxSize) /\ variant = 1 /\ selection = None /\ clipboard = <<>>
  /\ commands = <<>> /\ next = 0 /\ saved = 0 /\ savedValid = TRUE
  /\ kept = doc /\ trail = <<doc>>
  /\ file = None /\ dialog = None /\ pushes = 0 /\ quit = FALSE

Editing == dialog = None /\ ~quit
-----------------------------------------------------------------------------
\* place, remove, box_fill, line: cells and their mirror images get the brush or Keep.
Fill ==
  /\ Editing
  /\ \E box \in Boxes, value \in Cells, sym \in BOOLEAN :
       LET cells == InBounds(Mirrored(box[1]..box[2], sym))
       IN PushCells([p \in DOMAIN Volume |-> IF p \in cells THEN value ELSE Volume[p]])
  /\ UNCHANGED <<variant, selection, clipboard>>

\* paint: cells that are kept stay so.
Paint ==
  /\ Editing
  /\ \E c \in DOMAIN Volume, value \in Cells, sym \in BOOLEAN :
       PushCells([p \in DOMAIN Volume |->
                    IF p \in Mirrored({c}, sym) /\ Volume[p] # Keep THEN value ELSE Volume[p]])
  /\ UNCHANGED <<variant, selection, clipboard>>

\* flood_replace: the regions of the cell and of its mirror images.
Flood ==
  /\ Editing
  /\ \E c \in DOMAIN Volume, value \in Cells, sym \in BOOLEAN :
       LET cells == Mirrored(UNION {Region(s) : s \in Mirrored({c}, sym)}, sym)
       IN PushCells([p \in DOMAIN Volume |-> IF p \in cells THEN value ELSE Volume[p]])
  /\ UNCHANGED <<variant, selection, clipboard>>

\* generate: a generator computes the volume.
Generate ==
  /\ Editing
  /\ \E vol \in [DOMAIN Volume -> Cells] : PushCells(vol)
  /\ UNCHANGED <<variant, selection, clipboard>>

\* select.
Select ==
  /\ Editing
  /\ \E box \in Boxes : selection' = Clip(box, DocSize(doc)) /\ selection' # selection
  /\ UNCHANGED <<doc, variant, clipboard, commands, next, saved, savedValid, kept, file, dialog,
                 trail, pushes, quit>>

Selected == IF selection = None THEN {} ELSE selection[1]..selection[2]
Copied == [i \in 1..Cardinality(Selected) |-> Volume[selection[1] + i - 1]]

\* copy_selection.
Copy ==
  /\ Editing /\ selection # None
  /\ clipboard' = Copied
  /\ UNCHANGED <<doc, variant, selection, commands, next, saved, savedValid, kept, file, dialog,
                 trail, pushes, quit>>

\* cut_selection; one that holds nothing cuts nothing.
Cut ==
  /\ Editing /\ selection # None
  /\ clipboard' = Copied
  /\ PushCells([p \in DOMAIN Volume |-> IF p \in Selected THEN Keep ELSE Volume[p]])
  /\ UNCHANGED <<variant, selection>>

\* paste: what was kept does not overwrite, what falls outside is dropped.
Paste ==
  /\ Editing /\ clipboard # <<>>
  /\ \E at \in DOMAIN Volume :
       PushCells([p \in DOMAIN Volume |->
                    IF p - at + 1 \in DOMAIN clipboard /\ clipboard[p - at + 1] # Keep
                    THEN clipboard[p - at + 1] ELSE Volume[p]])
  /\ UNCHANGED <<variant, selection, clipboard>>

\* move_selection: all sources are cleared before any copy is written.
Move ==
  /\ Editing /\ selection # None
  /\ \E delta \in {-1, 1} :
       LET moved == {p \in Selected : Volume[p] # Keep}
       IN /\ PushCells([p \in DOMAIN Volume |->
                          IF p - delta \in moved THEN Volume[p - delta]
                          ELSE IF p \in moved THEN Keep ELSE Volume[p]])
          /\ selection' = Clip(<<selection[1] + delta, selection[2] + delta>>, DocSize(doc))
  /\ UNCHANGED <<variant, clipboard>>

\* resize: every variant, with the content kept on a side and the anchor moved with it.
Resize ==
  /\ Editing
  /\ \E size \in 1..MaxSize, side \in {"min", "max"} :
       LET shift == IF side = "min" THEN 0 ELSE size - DocSize(doc)
           anchor == doc.anchor + shift
       IN /\ size # DocSize(doc)
          /\ Push(VolumeReplace([v \in DOMAIN doc.variants |->
                                   Resized(doc.variants[v], size, shift)],
                                IF anchor < 0 THEN 0
                                ELSE IF anchor > size - 1 THEN size - 1 ELSE anchor))
  /\ selection' = None
  /\ UNCHANGED <<variant, clipboard>>

\* set_anchor.
SetAnchor ==
  /\ Editing
  /\ \E a \in DOMAIN Volume : a # doc.anchor /\ Push(VolumeReplace(doc.variants, a))
  /\ UNCHANGED <<variant, selection, clipboard>>

\* add_variant, duplicate_variant, bake, delete_variant, move_variant.  Weights are left out.
PushVariants(vols, shown) ==
  /\ Push(VariantsReplace(vols))
  /\ variant' = shown /\ selection' = None /\ UNCHANGED clipboard

Inserted(i, vol) == SubSeq(doc.variants, 1, i) \o <<vol>> \o
                    SubSeq(doc.variants, i + 1, Len(doc.variants))
AddVariant ==
  /\ Editing /\ Len(doc.variants) < MaxVariants
  /\ PushVariants(Inserted(variant, [p \in DOMAIN Volume |-> Keep]), variant + 1)
DuplicateVariant ==
  /\ Editing /\ Len(doc.variants) < MaxVariants
  /\ \E i \in DOMAIN doc.variants : PushVariants(Inserted(i, doc.variants[i]), i + 1)
Bake ==
  /\ Editing /\ Len(doc.variants) < MaxVariants
  /\ \E vol \in [DOMAIN Volume -> Cells] :
       PushVariants(Append(doc.variants, vol), Len(doc.variants) + 1)
DeleteVariant ==
  /\ Editing /\ Len(doc.variants) >= 2
  /\ \E i \in DOMAIN doc.variants :
       PushVariants(SubSeq(doc.variants, 1, i - 1) \o
                    SubSeq(doc.variants, i + 1, Len(doc.variants)), IF i = 1 THEN 1 ELSE i - 1)
MoveVariant ==
  /\ Editing
  /\ \E i \in 1..(Len(doc.variants) - 1), target \in 1..Len(doc.variants) :
       /\ target \in {i, i + 1}
       /\ PushVariants([doc.variants EXCEPT ![i] = doc.variants[i + 1],
                                            ![i + 1] = doc.variants[i]], target)

\* set_variant.
SetVariant ==
  /\ Editing /\ variant' \in (DOMAIN doc.variants) \ {variant}
  /\ UNCHANGED <<doc, selection, clipboard, commands, next, saved, savedValid, kept, file, dialog,
                 trail, pushes, quit>>

\* set_placement.
SetPlacement ==
  /\ Editing /\ Push(PlacementReplace(~doc.placement))
  /\ UNCHANGED <<variant, selection, clipboard>>

\* EditSession::undo and redo: the variant and the selection are brought back into range.
Clamped_not(d) ==
  UNCHANGED <<variant, selection, clipboard, commands, saved, savedValid, kept, file, dialog, trail,
              pushes, quit>>

Clamped(d) ==
  /\ variant' = IF variant > Len(d.variants) THEN Len(d.variants) ELSE variant
  /\ selection' = IF selection = None THEN None ELSE Clip(selection, DocSize(d))
  /\ UNCHANGED <<clipboard, commands, saved, savedValid, kept, file, dialog, trail, pushes, quit>>
Undo ==
  /\ Editing /\ next > 0
  /\ doc' = Revert(doc, commands[next]) /\ next' = next - 1
  /\ Clamped(doc')
Redo ==
  /\ Editing /\ next < Len(commands)
  /\ doc' = Apply(doc, commands[next + 1]) /\ next' = next + 1
  /\ Clamped(doc')

-----------------------------------------------------------------------------
\* Workspace::save: the file is truncated and written; what goes wrong may leave it torn.
Mark(s, v, k) == saved' = s /\ savedValid' = v /\ kept' = k
MarkSaved == Mark(next, TRUE, doc)
Written == file' = doc /\ MarkSaved
NotWritten == (file' = file \/ file' = Torn \/ file' = doc) /\ UNCHANGED <<saved, savedValid, kept>>

\* EditorApp::save.
Save ==
  /\ Editing /\ (Written \/ NotWritten)
  /\ UNCHANGED <<doc, variant, selection, clipboard, commands, next, dialog, trail, pushes, quit>>

\* What guard_unsaved goes on with: the structure in its file, a new one, the end.  A file
\* that cannot be read leaves the session as it is, with f on disk and s, v, k for its
\* saved point.
GoOn(action, f, s, v, k) ==
  LET stays == UNCHANGED <<doc, variant, selection, clipboard, commands, next, trail>> /\
               file' = f /\ Mark(s, v, k)
      cannot == f = None \/ f = Torn
  IN \/ action = "open" /\ cannot /\ stays /\ UNCHANGED quit
     \/ action = "open" /\ ~cannot /\ Fresh(f) /\ file' = f /\ UNCHANGED quit
     \/ action = "new" /\ Fresh(Blank(1)) /\ file' = None /\ UNCHANGED quit
     \/ action = "quit" /\ stays /\ quit' = TRUE

\* guard_unsaved: asks when there are unsaved changes.
Leave ==
  /\ Editing
  /\ \E action \in {"open", "new", "quit"} :
       \/ /\ Dirty /\ dialog' = action
          /\ UNCHANGED <<doc, variant, selection, clipboard, commands, next, saved,
                         savedValid, kept, file, trail, quit>>
       \/ ~Dirty /\ GoOn(action, file, saved, savedValid, kept) /\ UNCHANGED dialog
  /\ UNCHANGED pushes

\* The dialog: Save goes on if that went well; Discard marks the document saved and goes on.
Answered == dialog # None /\ dialog' = None /\ UNCHANGED pushes
AnswerSave ==
  /\ Answered
  /\ \/ GoOn(dialog, doc, next, TRUE, doc)
     \/ NotWritten /\ UNCHANGED <<doc, variant, selection, clipboard, commands, next, trail, quit>>
Discard == Answered /\ GoOn(dialog, file, next, TRUE, doc)
Cancel ==
  /\ Answered
  /\ UNCHANGED <<doc, variant, selection, clipboard, commands, next, saved, savedValid, kept, file,
                 trail, quit>>

Next ==
  \/ Fill \/ Paint \/ Flood \/ Generate \/ Select \/ Copy \/ Cut \/ Paste \/ Move
  \/ Resize \/ SetAnchor \/ AddVariant \/ DuplicateVariant \/ Bake \/ DeleteVariant \/ MoveVariant \/ SetVariant
  \/ SetPlacement \/ Undo \/ Redo \/ Save \/ Leave \/ AnswerSave \/ Discard \/ Cancel

Spec == Init /\ [][Next]_vars

-----------------------------------------------------------------------------
\* Undo and redo walk along the documents that were: each command takes back exactly what
\* it did, also after variants and sizes changed under later commands (UndoStack, Command).
UndoIsExact ==
  /\ doc = trail[next + 1] /\ Len(trail) = Len(commands) + 1
  /\ \A i \in DOMAIN commands : /\ Apply(trail[i], commands[i]) = trail[i + 1]
                                /\ Revert(trail[i + 1], commands[i]) = trail[i]

\* A document that is not dirty is the one that was marked as saved (commands.hpp:114: "the
\* document is clean when the stack is at the point mark_saved() was called").  False: once
\* the saved point is in the dropped history, dirty() takes the first document for saved.
CleanIsSaved == ~Dirty => doc = kept
=============================================================================
