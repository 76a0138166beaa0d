---------------------------- MODULE Client_proofs ----------------------------
(***************************************************************************)
(* What holds in the client's process for all constants.  PalettedStore:   *)
(* for every set of cells and every set of at most 65536 blocks the        *)
(* palette and the width of the indices fit each other at all times, and   *)
(* the packed store implements an array of blocks.  ClientShell: that      *)
(* sessions are live.  PlayingFrame: that the screen holds what it should  *)
(* and a capture is kept.  ChunkMeshing: that a mesh is current when       *)
(* nothing is left to do.  PlayerSync: that an input counts once.  SignIn: *)
(* that no request is stuck, and that an answer fits its request.  The     *)
(* parts share no state, so a step of the client is a step of one of them  *)
(* (PartsStep).                                                            *)
(***************************************************************************)
EXTENDS MCClient, TLAPS, SequenceTheorems, FiniteSetTheorems, NaturalsInduction

-----------------------------------------------------------------------------
(* Widths *)

\* Each width has room for some index, and a wider one for all that a narrower one has.
LEMMA SlotsGrow ==
  ASSUME NEW v \in Widths, NEW w \in Widths
  PROVE  /\ Slots(w) \in Nat \ {0}
         /\ v <= w => Slots(v) <= Slots(w)
BY DEF Widths, Slots

\* The width chosen for a palette has room for its indices.
LEMMA WidthFits ==
  ASSUME NEW n \in Nat, n <= 65536
  PROVE  WidthFor(n) \in Widths /\ n <= Slots(WidthFor(n))
<1>1. CASE n <= 1
  BY <1>1 DEF WidthFor, Widths, Slots
<1>2. CASE n > 1 /\ n <= 2
  BY <1>2 DEF WidthFor, Widths, Slots
<1>3. CASE n > 2 /\ n <= 4
  BY <1>3 DEF WidthFor, Widths, Slots
<1>4. CASE n > 4 /\ n <= 16
  BY <1>4 DEF WidthFor, Widths, Slots
<1>5. CASE n > 16 /\ n <= 256
  BY <1>5 DEF WidthFor, Widths, Slots
<1>6. CASE n > 256
  BY <1>6 DEF WidthFor, Widths, Slots
<1> QED BY <1>1, <1>2, <1>3, <1>4, <1>5, <1>6

\* An index that fits is not cut.
LEMMA NotCut ==
  ASSUME NEW w \in Widths, NEW n \in Nat, n < Slots(w)
  PROVE  n % Slots(w) = n
<1>1. CASE w = 0
  BY <1>1 DEF Slots
<1>2. CASE w = 1
  BY <1>2 DEF Slots
<1>3. CASE w = 2
  BY <1>3 DEF Slots
<1>4. CASE w = 4
  BY <1>4 DEF Slots
<1>5. CASE w = 8
  BY <1>5 DEF Slots
<1>6. CASE w = 16
  BY <1>6 DEF Slots
<1> QED BY <1>1, <1>2, <1>3, <1>4, <1>5, <1>6 DEF Widths

\* A palette without repetition is no longer than there are blocks.
LEMMA PaletteIsShort ==
  ASSUME NEW q \in Seq(Blocks), IsInjective(q)
  PROVE  Len(q) \in Nat /\ Len(q) <= 65536
<1>1. Len(q) \in Nat /\ q \in [1 .. Len(q) -> Blocks]
  BY LenProperties
<1>2. q \in Injection(1 .. Len(q), Blocks)
  BY <1>1 DEF Injection
<1>3. IsFiniteSet(Blocks) /\ Cardinality(Blocks) <= 65536
  BY PalettedStoreAssumption
<1>4. Cardinality(1 .. Len(q)) <= Cardinality(Blocks)
  BY <1>2, <1>3, FS_Injection
<1>5. Cardinality(1 .. Len(q)) = Len(q)
  <2>1. Cardinality(1 .. Len(q)) = IF 1 > Len(q) THEN 0 ELSE Len(q) - 1 + 1
    BY <1>1, FS_Interval
  <2> QED BY <1>1, <2>1
<1>6. Cardinality(Blocks) \in Nat
  BY <1>3, FS_CardinalityType
<1> QED BY <1>1, <1>3, <1>4, <1>5, <1>6

-----------------------------------------------------------------------------
(* The store *)

\* The indices of the blocks that are there, in a palette without others or repetitions, give
\* every cell the block that it had.
LEMMA RebuiltIsSame ==
  ASSUME TypeOK, NEW S, S \subseteq Blocks, \A i \in Cells : Get(i) \in S,
         NEW q \in Palettes(S), Rebuilt(q)
  PROVE  TypeOK' /\ \A i \in Cells : Get(i)' = Get(i)
<1> DEFINE n == Cardinality(S)
<1>1. IsFiniteSet(S) /\ n \in Nat
  <2>1. IsFiniteSet(S)
    BY PalettedStoreAssumption, FS_Subset
  <2> QED BY <2>1, FS_CardinalityType
<1>2. /\ q \in Seq(Blocks) /\ Len(q) = n /\ DOMAIN q = 1 .. n
      /\ IsInjective(q) /\ ToSet(q) = S
  BY <1>1 DEF Palettes
<1>3. \A i \in Cells : \E k \in 0 .. n - 1 : q[k + 1] = Get(i)
  <2> TAKE i \in Cells
  <2>1. PICK j \in 1 .. n : q[j] = Get(i)
    BY <1>2 DEF ToSet
  <2>2. j - 1 \in 0 .. n - 1 /\ (j - 1) + 1 = j
    BY <1>1
  <2> QED BY <2>1, <2>2
<1>4. \A i \in Cells : data'[i] \in 0 .. n - 1 /\ q[data'[i] + 1] = Get(i)
  BY <1>2, <1>3 DEF Rebuilt
<1>5. q # <<>>
  <2>1. PICK i \in Cells : TRUE
    BY PalettedStoreAssumption
  <2>2. n # 0
    BY <1>1, <1>4, <2>1
  <2> QED BY <1>2, <2>2
<1>6. n <= 65536
  BY <1>2, PaletteIsShort
<1>7. bits' \in Widths /\ n <= Slots(bits')
  BY <1>1, <1>2, <1>6, WidthFits DEF Rebuilt
<1>8. data' \in [Cells -> Nat]
  BY <1>1, <1>4 DEF Rebuilt
<1>9. \A i \in Cells : data'[i] < n
  BY <1>1, <1>4
<1>10. palette' = q
  BY DEF Rebuilt
<1>11. TypeOK'
  BY <1>2, <1>5, <1>7, <1>8, <1>9, <1>10 DEF TypeOK
<1>12. \A i \in Cells : Get(i)' = Get(i)
  BY <1>2, <1>4, <1>9, <1>10 DEF Get
<1> QED BY <1>11, <1>12

\* set() of a block that the palette has or gets: one cell changes, to that block.
LEMMA SetIsOne ==
  ASSUME TypeOK, NEW i \in Cells, NEW b \in Blocks, Set(i, b)
  PROVE  TypeOK' /\ \A j \in Cells : Get(j)' = IF j = i THEN b ELSE Get(j)
<1>1. /\ palette' \in Seq(Blocks) /\ IsInjective(palette')
      /\ Len(palette) <= Len(palette')
      /\ \A n \in 1 .. Len(palette) : palette'[n] = palette[n]
      /\ Len(palette) \in Nat \ {0} /\ Len(palette') \in Nat \ {0}
  <2>1. Len(palette) \in Nat \ {0} /\ DOMAIN palette = 1 .. Len(palette)
    BY EmptySeq, LenProperties DEF TypeOK
  <2>2. CASE b \in ToSet(palette)
    BY <2>1, <2>2 DEF Set, TypeOK
  <2>3. CASE b \notin ToSet(palette)
    <3>1. palette' = Append(palette, b)
      BY <2>3 DEF Set
    <3>2. /\ palette' \in Seq(Blocks) /\ Len(palette') = Len(palette) + 1
          /\ \A n \in 1 .. Len(palette) : palette'[n] = palette[n]
          /\ palette'[Len(palette) + 1] = b
          /\ DOMAIN palette' = 1 .. Len(palette) + 1
      BY <3>1, AppendProperties, LenProperties DEF TypeOK
    <3>3. \A n \in 1 .. Len(palette) : palette[n] # b
      BY <2>1, <2>3 DEF ToSet
    <3>4. IsInjective(palette')
      <4> SUFFICES ASSUME NEW m \in 1 .. Len(palette) + 1, NEW n \in 1 .. Len(palette) + 1,
                          palette'[m] = palette'[n]
                   PROVE  m = n
        BY <3>2 DEF IsInjective
      <4>1. CASE m = Len(palette) + 1 \/ n = Len(palette) + 1
        BY <2>1, <3>2, <3>3, <4>1
      <4>2. CASE m \in 1 .. Len(palette) /\ n \in 1 .. Len(palette)
        BY <2>1, <3>2, <4>2 DEF TypeOK, IsInjective
      <4> QED BY <2>1, <4>1, <4>2
    <3> QED BY <2>1, <3>2, <3>4
  <2> QED BY <2>2, <2>3
<1>2. /\ bits' \in Widths /\ Len(palette') <= Slots(bits')
  <2>1. Len(palette') <= 65536
    BY <1>1, PaletteIsShort
  <2>2. WidthFor(Len(palette')) \in Widths /\ Len(palette') <= Slots(WidthFor(Len(palette')))
    BY <1>1, <2>1, WidthFits
  <2>3. CASE WidthFor(Len(palette')) > bits
    BY <2>2, <2>3 DEF Set
  <2>4. CASE ~(WidthFor(Len(palette')) > bits)
    <3>1. bits' = bits /\ WidthFor(Len(palette')) <= bits /\ bits \in Widths
      BY <2>2, <2>4 DEF Set, TypeOK, Widths
    <3>2. Slots(WidthFor(Len(palette'))) <= Slots(bits)
      BY <2>2, <3>1, SlotsGrow
    <3>3. Slots(bits) \in Nat /\ Slots(WidthFor(Len(palette'))) \in Nat
      BY <2>2, <3>1, SlotsGrow
    <3> QED BY <1>1, <2>2, <3>1, <3>2, <3>3
  <2> QED BY <2>3, <2>4
<1>3. PICK n \in DOMAIN palette' :
        /\ palette'[n] = b
        /\ data' = [Repacked(bits') EXCEPT ![i] = (n - 1) % Slots(bits')]
  BY DEF Set
<1>4. n \in 1 .. Len(palette') /\ n - 1 \in Nat /\ n - 1 < Len(palette') /\ (n - 1) + 1 = n
  BY <1>1, <1>3, LenProperties
<1>5. Slots(bits') \in Nat
  BY <1>2, SlotsGrow
<1>6. (n - 1) % Slots(bits') = n - 1
  <2>1. n - 1 < Slots(bits')
    BY <1>1, <1>2, <1>4, <1>5
  <2> QED BY <1>2, <1>4, <2>1, NotCut
<1>7. \A j \in Cells : data[j] % Slots(bits') = data[j] /\ data[j] < Len(palette)
                        /\ data[j] \in Nat
  <2> TAKE j \in Cells
  <2>1. data[j] \in Nat /\ data[j] < Len(palette)
    BY DEF TypeOK
  <2>2. data[j] < Slots(bits')
    BY <1>1, <1>2, <1>5, <2>1
  <2> QED BY <1>2, <2>1, <2>2, NotCut
<1>8. data' = [data EXCEPT ![i] = n - 1]
  BY <1>3, <1>6, <1>7 DEF Repacked, TypeOK
<1>9. data' \in [Cells -> Nat] /\ \A j \in Cells : data'[j] < Len(palette')
  BY <1>1, <1>4, <1>7, <1>8 DEF TypeOK
<1>10. TypeOK'
  BY <1>1, <1>2, <1>9, EmptySeq DEF TypeOK
<1>11. ASSUME NEW j \in Cells PROVE Get(j)' = IF j = i THEN b ELSE Get(j)
  <2>1. Get(j)' = palette'[data'[j] + 1]
    BY <1>9, <1>11 DEF Get
  <2>2. CASE j = i
    BY <1>3, <1>4, <1>8, <2>1, <2>2 DEF TypeOK
  <2>3. CASE j # i
    <3>1. data'[j] = data[j]
      BY <1>8, <1>11, <2>3 DEF TypeOK
    <3>2. data[j] + 1 \in 1 .. Len(palette)
      BY <1>1, <1>7, <1>11
    <3> QED BY <1>1, <1>7, <1>11, <2>1, <2>3, <3>1, <3>2 DEF Get
  <2> QED BY <2>2, <2>3
<1> QED BY <1>10, <1>11

\* fill() leaves one block and no index.
LEMMA FillIsAll ==
  ASSUME NEW b \in Blocks, Fill(b)
  PROVE  TypeOK' /\ \A i \in Cells : Get(i)' = b
<1>1. palette' = <<b>> /\ bits' = 0 /\ data' = [i \in Cells |-> 0]
  BY DEF Fill
<1>2. <<b>> \in Seq(Blocks) /\ Len(<<b>>) = 1 /\ <<b>>[1] = b /\ <<b>> # <<>>
  OBVIOUS
<1>3. IsInjective(<<b>>)
  BY DEF IsInjective
<1>4. bits' \in Widths /\ Slots(bits') = 1
  BY <1>1 DEF Widths, Slots
<1>5. TypeOK'
  BY <1>1, <1>2, <1>3, <1>4 DEF TypeOK
<1>6. \A i \in Cells : Get(i)' = b
  BY <1>1, <1>2 DEF Get
<1> QED BY <1>5, <1>6

\* Every cell has a block of the palette.
LEMMA GetIsABlock ==
  ASSUME TypeOK
  PROVE  palette[1] \in Blocks /\ \A i \in Cells : Get(i) \in Blocks
<1>1. Len(palette) \in Nat \ {0}
  BY EmptySeq DEF TypeOK
<1>2. palette[1] \in Blocks
  BY <1>1, ElementOfSeq DEF TypeOK
<1>3. ASSUME NEW i \in Cells PROVE Get(i) \in Blocks
  <2>1. data[i] \in Nat /\ data[i] < Len(palette)
    BY <1>3 DEF TypeOK
  <2>2. data[i] + 1 \in 1 .. Len(palette)
    BY <1>1, <2>1
  <2> QED BY <2>1, <2>2, ElementOfSeq DEF Get, TypeOK
<1> QED BY <1>2, <1>3

-----------------------------------------------------------------------------
(* Theorems *)

\* The array that a state stands for.
Stored == [i \in Cells |-> Get(i)]

\* Every step keeps the types, and is a step of an array of blocks or none.
LEMMA StepIsArrayStep ==
  ASSUME TypeOK, Next
  PROVE  TypeOK' /\ (Array!NextArray \/ Stored' = Stored)
<1>1. CASE \E i \in Cells, b \in Blocks : Set(i, b)
  <2>1. PICK i \in Cells, b \in Blocks : Set(i, b)
    BY <1>1
  <2>2. TypeOK' /\ \A j \in Cells : Get(j)' = IF j = i THEN b ELSE Get(j)
    BY <2>1, SetIsOne
  <2>3. Array!SetCell(i, b)
    BY <2>2 DEF Array!SetCell
  <2> QED BY <2>1, <2>2, <2>3 DEF Array!NextArray
<1>2. CASE \E b \in Blocks : Fill(b)
  <2>1. PICK b \in Blocks : Fill(b)
    BY <1>2
  <2>2. TypeOK' /\ \A i \in Cells : Get(i)' = b
    BY <2>1, FillIsAll
  <2>3. Array!FillCells(b)
    BY <2>2 DEF Array!FillCells
  <2> QED BY <2>1, <2>2, <2>3 DEF Array!NextArray
<1>3. CASE Compact
  <2> DEFINE S == {Get(i) : i \in Cells}
  <2>1. PICK q \in Palettes(S) : Rebuilt(q)
    BY <1>3 DEF Compact
  <2>2. S \subseteq Blocks /\ \A i \in Cells : Get(i) \in S
    BY GetIsABlock
  <2>3. TypeOK' /\ \A i \in Cells : Get(i)' = Get(i)
    BY <2>1, <2>2, RebuiltIsSame
  <2> QED BY <2>3 DEF Stored
<1>4. CASE Transfer
  <2> DEFINE S == {Get(i) : i \in Cells} \cup {palette[1]}
  <2>1. PICK q \in Palettes(S) : Rebuilt(q)
    BY <1>4 DEF Transfer
  <2>2. S \subseteq Blocks /\ \A i \in Cells : Get(i) \in S
    BY GetIsABlock
  <2>3. TypeOK' /\ \A i \in Cells : Get(i)' = Get(i)
    BY <2>1, <2>2, RebuiltIsSame
  <2> QED BY <2>3 DEF Stored
<1> QED BY <1>1, <1>2, <1>3, <1>4 DEF Next

\* A store starts as an array of one block.
LEMMA StartsAsArray ==
  ASSUME Init
  PROVE  TypeOK /\ Array!InitArray
<1>1. PICK b \in Blocks : palette = <<b>>
  BY DEF Init
<1>2. bits = 0 /\ data = [i \in Cells |-> 0]
  BY DEF Init
<1>3. <<b>> \in Seq(Blocks) /\ Len(<<b>>) = 1 /\ <<b>>[1] = b /\ <<b>> # <<>>
  OBVIOUS
<1>4. IsInjective(<<b>>)
  BY DEF IsInjective
<1>5. bits \in Widths /\ Slots(bits) = 1
  BY <1>2 DEF Widths, Slots
<1>6. TypeOK
  BY <1>1, <1>2, <1>3, <1>4, <1>5 DEF TypeOK
<1>7. \A i \in Cells : Get(i) = b
  BY <1>1, <1>2, <1>3 DEF Get
<1> QED BY <1>6, <1>7 DEF Array!InitArray

\* The palette names each block once, every index is in it, and the width has room for them
\* (PalettedChunkStore::set, set_width, compact).
THEOREM StoreFits == Spec => []TypeOK
<1>1. Init => TypeOK
  BY StartsAsArray
<1>2. TypeOK /\ [Next]_vars => TypeOK'
  <2>1. TypeOK /\ UNCHANGED vars => TypeOK'
    BY DEF TypeOK, vars
  <2> QED BY <2>1, StepIsArrayStep
<1> QED BY <1>1, <1>2, PTL DEF Spec

\* For a player or a generator the store is an array of blocks, however its indices are packed,
\* widened, cut down, saved and sent.
THEOREM StoreImplementsArray == Spec => StoreIsAnArray
<1>1. Init => Array!InitArray
  BY StartsAsArray
<1>2. TypeOK /\ [Next]_vars => [Array!NextArray]_Stored
  <2>1. UNCHANGED vars => Stored' = Stored
    BY DEF vars, Stored, Get
  <2> QED BY <2>1, StepIsArrayStep
<1> QED BY <1>1, <1>2, StoreFits, PTL DEF Spec, StoreIsAnArray, Array!ArraySpec, Stored

-----------------------------------------------------------------------------
(* ClientShell: the sessions *)

\* One session at most, of the kind of this attempt.
OneKind ==
  /\ single \in BOOLEAN
  /\ single => remote = "none"
  /\ ~single => sp = "none"

\* The pointer is to the session of this attempt, or null.
PointsHere ==
  client # "null" => /\ client = (IF single THEN "sp" ELSE "remote")
                     /\ Shell!Here(Shell!Current)

\* While there is a session, the ticket is its own.
TicketFits == Shell!Here(Shell!Current) => signIn = (IF single THEN "sp" ELSE "remote")

\* What the states of the application need of it.
StateFits ==
  /\ state = "connecting" => Shell!Here(Shell!Current) /\ ticks < TickBudget
  /\ state \in {"loading", "playing"} => client # "null" /\ client = played

ShellInv == Shell!TypeOK /\ OneKind /\ PointsHere /\ TicketFits /\ StateFits

\* A session that is there stays there, whatever a tick makes of it.
LEMMA SessionStays ==
  ASSUME NEW status, Shell!Here(status), status \in Shell!Statuses, NEW after \in Shell!After(status)
  PROVE  after \in Shell!Statuses /\ Shell!Here(after)
BY DEF Shell!After, Shell!Statuses, Shell!Here

\* A session that is there has one of the statuses.
LEMMA CurrentStatus ==
  ASSUME ShellInv, Shell!Here(Shell!Current)
  PROVE  Shell!Current \in Shell!Statuses
BY DEF ShellInv, Shell!TypeOK, OneKind, Shell!Here, Shell!Current

\* A frame that ticks the session it has and leaves the pointer and the ticket.
LEMMA TickKeeps ==
  ASSUME ShellInv, Shell!Here(Shell!Current), NEW status \in Shell!After(Shell!Current),
         Shell!Tick(status), UNCHANGED single
  PROVE  /\ OneKind' /\ Shell!Here(Shell!Current)'
         /\ sp' \in Shell!Statuses \cup {"none"} /\ remote' \in Shell!Statuses \cup {"none"}
<1>1. status \in Shell!Statuses /\ Shell!Here(status)
  BY CurrentStatus, SessionStays
<1> QED
  BY <1>1 DEF ShellInv, OneKind, Shell!Tick, Shell!Current, Shell!Here

LEMMA ShellStarts == Shell!Init => ShellInv
<1> SUFFICES ASSUME Shell!Init PROVE ShellInv
  OBVIOUS
<1>1. Shell!TypeOK
  BY ClientConstants DEF Shell!Init, Shell!TypeOK
<1>2. OneKind /\ PointsHere /\ TicketFits /\ StateFits
  BY DEF Shell!Init, OneKind, PointsHere, TicketFits, StateFits, Shell!Here, Shell!Current
<1> QED BY <1>1, <1>2 DEF ShellInv

LEMMA ShellGoes ==
  ASSUME ShellInv, NEW to \in {"menu", "settings", "keybindings", "ended"}, Shell!Goes(to)
  PROVE  ShellInv'
BY DEF ShellInv, Shell!Goes, Shell!sessionVars, Shell!clockVars, Shell!TypeOK, OneKind, PointsHere,
   TicketFits, StateFits, Shell!Here, Shell!Current

LEMMA ShellBegins ==
  ASSUME ShellInv, NEW own \in BOOLEAN, Shell!BeginConnect(own)
  PROVE  ShellInv'
<1>1. PICK can \in BOOLEAN :
        /\ IF own THEN Shell!OwnWorld(can) ELSE Shell!Dial(can)
        /\ Shell!InstallSignIn(own, can)
        /\ state' = IF can THEN "connecting" ELSE "error"
  BY DEF Shell!BeginConnect
<1>2. /\ single' = own /\ client' = "null" /\ ticks' = 0 /\ uploaded' = uploaded
  BY DEF Shell!BeginConnect, Shell!Forgotten
<1>3. CASE own
  BY <1>1, <1>2, <1>3, ClientConstants
  DEF ShellInv, Shell!TypeOK, OneKind, PointsHere, TicketFits, StateFits, Shell!Here,
      Shell!Current, Shell!Statuses, Shell!OwnWorld, Shell!InstallSignIn
<1>4. CASE ~own
  BY <1>1, <1>2, <1>4, ClientConstants
  DEF ShellInv, Shell!TypeOK, OneKind, PointsHere, TicketFits, StateFits, Shell!Here,
      Shell!Current, Shell!Statuses, Shell!Dial, Shell!InstallSignIn
<1> QED BY <1>3, <1>4

LEMMA ShellCallsOff ==
  ASSUME ShellInv, Shell!CallOff
  PROVE  ShellInv'
BY DEF ShellInv, Shell!CallOff, Shell!Cancel, Shell!Forgotten, Shell!clockVars, Shell!TypeOK,
   OneKind, PointsHere, TicketFits, StateFits, Shell!Here, Shell!Current, Shell!Statuses

LEMMA ShellSigns ==
  ASSUME ShellInv, NEW status \in Shell!After(Shell!Current), Shell!SigningIn(status)
  PROVE  ShellInv'
<1>1. Shell!Here(Shell!Current)
  BY DEF ShellInv, StateFits, Shell!SigningIn
<1>2. /\ OneKind' /\ Shell!Here(Shell!Current)'
      /\ sp' \in Shell!Statuses \cup {"none"} /\ remote' \in Shell!Statuses \cup {"none"}
  BY <1>1, TickKeeps DEF Shell!SigningIn
<1> QED
  BY <1>1, <1>2, ClientConstants
  DEF ShellInv, Shell!SigningIn, Shell!TypeOK, PointsHere, TicketFits, StateFits

LEMMA ShellConnects ==
  ASSUME ShellInv, NEW status \in Shell!After(Shell!Current), Shell!Connecting(status)
  PROVE  ShellInv'
<1>1. Shell!Here(Shell!Current) /\ ticks < TickBudget
  BY DEF ShellInv, StateFits, Shell!Connecting
<1>2. /\ OneKind' /\ Shell!Here(Shell!Current)'
      /\ sp' \in Shell!Statuses \cup {"none"} /\ remote' \in Shell!Statuses \cup {"none"}
  BY <1>1, TickKeeps DEF Shell!Connecting
<1>3. /\ ticks' = (IF single THEN ticks + 1 ELSE ticks) /\ UNCHANGED <<single, signIn>>
      /\ client' = (IF single THEN "sp" ELSE "remote") /\ state = "connecting"
      /\ UNCHANGED uploaded \/ uploaded' = 0
  BY DEF Shell!Connecting, Shell!EnterPlaying
<1>4. /\ ticks \in 0 .. TickBudget /\ ticks' \in 0 .. TickBudget
      /\ uploaded' \in 0 .. Expected
  BY <1>1, <1>3, ClientConstants DEF ShellInv, Shell!TypeOK
<1>5. Shell!TypeOK'
  BY <1>2, <1>3, <1>4 DEF ShellInv, Shell!TypeOK
<1>6. PointsHere' /\ TicketFits'
  BY <1>1, <1>2, <1>3 DEF ShellInv, PointsHere, TicketFits
<1>7. StateFits'
  <2>1. CASE status = "joined"
    BY <1>2, <1>3, <2>1 DEF Shell!Connecting, Shell!EnterPlaying, StateFits
  <2>2. CASE status # "joined" /\ (status = "failed" \/ Shell!Over(ticks'))
    BY <1>2, <1>3, <2>2 DEF Shell!Connecting, StateFits
  <2>3. CASE status # "joined" /\ ~(status = "failed" \/ Shell!Over(ticks'))
    <3>1. state' = "connecting"
      BY <1>3, <2>3 DEF Shell!Connecting
    <3>2. ticks' < TickBudget
      BY <1>1, <1>3, <1>4, <2>3, ClientConstants DEF Shell!Over
    <3> QED BY <1>2, <3>1, <3>2 DEF StateFits
  <2> QED BY <2>1, <2>2, <2>3
<1> QED BY <1>2, <1>5, <1>6, <1>7 DEF ShellInv

LEMMA ShellLoads ==
  ASSUME ShellInv, Shell!Loading
  PROVE  ShellInv'
<1>1. PICK status \in Shell!After(Shell!Current) : Shell!Tick(status)
  BY DEF Shell!Loading
<1>2. Shell!Here(Shell!Current)
  BY DEF ShellInv, StateFits, PointsHere, Shell!Loading
<1>3. /\ OneKind' /\ Shell!Here(Shell!Current)'
      /\ sp' \in Shell!Statuses \cup {"none"} /\ remote' \in Shell!Statuses \cup {"none"}
  BY <1>1, <1>2, TickKeeps DEF Shell!Loading
<1>4. /\ UNCHANGED <<single, client, signIn, ticks, played>>
      /\ state = "loading" /\ state' \in {"loading", "playing"}
      /\ uploaded' \in uploaded .. Expected
  BY DEF Shell!Loading
<1>5. uploaded' \in 0 .. Expected
  BY <1>4, ClientConstants DEF ShellInv, Shell!TypeOK
<1> QED
  BY <1>2, <1>3, <1>4, <1>5
  DEF ShellInv, Shell!TypeOK, PointsHere, TicketFits, StateFits

LEMMA ShellPlays ==
  ASSUME ShellInv, Shell!Playing
  PROVE  ShellInv'
<1>1. PICK status \in Shell!After(Shell!Current) : Shell!Tick(status)
  BY DEF Shell!Playing
<1>2. Shell!Here(Shell!Current)
  BY DEF ShellInv, StateFits, PointsHere, Shell!Playing
<1>3. /\ OneKind' /\ Shell!Here(Shell!Current)'
      /\ sp' \in Shell!Statuses \cup {"none"} /\ remote' \in Shell!Statuses \cup {"none"}
  BY <1>1, <1>2, TickKeeps DEF Shell!Playing
<1> QED
  BY <1>2, <1>3
  DEF Shell!Playing, Shell!clockVars, ShellInv, Shell!TypeOK, PointsHere, TicketFits, StateFits

LEMMA ShellKeeps ==
  ASSUME ShellInv, [Shell!Next]_shellVars
  PROVE  ShellInv'
<1>1. CASE UNCHANGED shellVars
  BY <1>1 DEF shellVars, ShellInv, Shell!TypeOK, OneKind, PointsHere, TicketFits, StateFits,
     Shell!Here, Shell!Current
<1>2. CASE Shell!Clock
  BY <1>2 DEF Shell!Clock, Shell!sessionVars, ShellInv, Shell!TypeOK, OneKind, PointsHere,
     TicketFits, StateFits, Shell!Here, Shell!Current
<1>3. CASE \/ Shell!Menu \/ Shell!Settings \/ Shell!Keybindings \/ Shell!Error
           \/ Shell!CloseWindow
  BY <1>3, ShellGoes, ShellBegins
  DEF Shell!Menu, Shell!Settings, Shell!Keybindings, Shell!Error, Shell!CloseWindow
<1>4. CASE Shell!Frame
  BY <1>4, ShellSigns, ShellConnects, ShellLoads DEF Shell!Frame, Shell!Attempt
<1>5. CASE Shell!CallOff
  BY <1>5, ShellCallsOff
<1>6. CASE Shell!Playing
  BY <1>6, ShellPlays
<1> QED BY <1>1, <1>2, <1>3, <1>4, <1>5, <1>6 DEF Shell!Next

\* What the parts say of themselves.
LEMMA ShellSays == ShellInv => Shell!TypeOK /\ Shell!SessionsLive
BY DEF ShellInv, OneKind, PointsHere, TicketFits, StateFits, Shell!SessionsLive, Shell!Here,
   Shell!Current

-----------------------------------------------------------------------------
(* PlayingFrame: the screens and the mouse *)

\* A screen that was opened.
Ends == {"open", "closed", "amiss", "replaced"}
Shown == [screen : Defined, end : Ends]

ScreenTypes ==
  /\ pc \in {"input", "hud", "layout", "screen"} /\ hud \in BOOLEAN
  /\ screenName \in Defined \cup {None} /\ asked \in Screens \cup {None}
  /\ layout \in [widgets : BOOLEAN, handler : BOOLEAN, capture : BOOLEAN]
  /\ request \in Screen!Requests /\ pressedOn \in {"nothing", "game", "screen"}
  /\ chat \in BOOLEAN /\ captured \in BOOLEAN /\ captureWaits \in BOOLEAN /\ suppress \in BOOLEAN
  /\ down \in BOOLEAN /\ cmd \in [button : BOOLEAN, keybind : BOOLEAN] /\ wished \in BOOLEAN

\* There are widgets of a screen only, and a screen's function runs for a screen only.
WidgetsFit ==
  /\ screenName = None => ~layout.widgets
  /\ pc = "layout" => screenName # None

\* The screen that is open is the last that was opened, and the others have ended.
LastIsOpen ==
  /\ opened \in Seq(Shown)
  /\ \A i \in DOMAIN opened : opened[i].end = "open" => i = Len(opened) /\ screenName = opened[i].screen
  /\ screenName # None => Len(opened) > 0 /\ opened[Len(opened)].end = "open"

\* What the server may hear a screen called.
Senders == Defined \cup {"hud"}

\* The server has been told as often as screens were opened.
ToldOfEach ==
  /\ events \in Seq(Seq(Senders)) /\ Len(events) = Len(opened)
  /\ Screen!EndsAreTold

\* A wish that nothing came between waits as a capture.
WishWaits == (wished => captureWaits) /\ (captureWaits => ~captured)

\* A button that was pressed on a screen is down, and held back if the mouse is captured.
PressIsHeld == pressedOn = "screen" => down /\ (captured => suppress) /\ ~cmd.button

ScreenInv == ScreenTypes /\ WidgetsFit /\ LastIsOpen /\ ToldOfEach /\ WishWaits /\ PressIsHeld

\* Two screens of whose ends the server has to be told alike.
SameWord(o, p) ==
  /\ o.end = "closed" <=> p.end = "closed"
  /\ o.end \in {"open", "replaced"} <=> p.end \in {"open", "replaced"}

\* A record of a screen with another end.
LEMMA EndSet ==
  ASSUME NEW o \in Shown, NEW e \in Ends
  PROVE  /\ [o EXCEPT !.end = e] \in Shown
         /\ [o EXCEPT !.end = e].end = e /\ [o EXCEPT !.end = e].screen = o.screen
BY DEF Shown

LEMMA ScreenStarts == Screen!Init => ScreenInv
<1> SUFFICES ASSUME Screen!Init PROVE ScreenInv
  OBVIOUS
<1>1. ScreenTypes
  BY DEF Screen!Init, ScreenTypes, Screen!Empty, Screen!Requests
<1>2. WidgetsFit /\ WishWaits /\ PressIsHeld
  BY DEF Screen!Init, WidgetsFit, WishWaits, PressIsHeld, Screen!Empty
<1>3. LastIsOpen /\ ToldOfEach
  BY DEF Screen!Init, LastIsOpen, ToldOfEach, Screen!EndsAreTold
<1> QED BY <1>1, <1>2, <1>3 DEF ScreenInv

\* What is said of the screens depends on their variables only.
LEMMA ScreensUntouched ==
  ASSUME LastIsOpen, ToldOfEach, UNCHANGED <<screenName, opened, events>>
  PROVE  LastIsOpen' /\ ToldOfEach'
BY DEF LastIsOpen, ToldOfEach, Screen!EndsAreTold

LEMMA MouseUntouched ==
  ASSUME WishWaits, PressIsHeld, UNCHANGED Screen!mouseVars
  PROVE  WishWaits' /\ PressIsHeld'
BY DEF WishWaits, PressIsHeld, Screen!mouseVars

\* Opening a screen ends the one that was open without a word.
LEMMA OpenKeeps ==
  ASSUME ScreenInv, NEW screen, Screen!Open(screen)
  PROVE  /\ screenName' \in Defined \cup {None}
         /\ screenName # None => screenName' # None
         /\ layout' \in [widgets : BOOLEAN, handler : BOOLEAN, capture : BOOLEAN]
         /\ screenName' = None => ~layout'.widgets
         /\ LastIsOpen' /\ ToldOfEach'
<1>1. CASE screen \notin Defined
  <2>1. UNCHANGED <<screenName, layout, opened, events>>
    BY <1>1 DEF Screen!Open
  <2> QED BY <2>1, ScreensUntouched DEF ScreenInv, ScreenTypes, WidgetsFit
<1>2. CASE screen \in Defined
  <2> DEFINE dropped == [i \in DOMAIN opened |->
                           IF opened[i].end = "open" THEN [opened[i] EXCEPT !.end = "replaced"]
                           ELSE opened[i]]
             new == [screen |-> screen, end |-> "open"]
  <2>1. /\ screenName' = screen /\ layout' = [Screen!Empty EXCEPT !.capture = layout.capture]
        /\ opened' = Append(dropped, new) /\ events' = Append(events, <<>>)
    BY <1>2 DEF Screen!Open
  <2>0. opened \in Seq(Shown)
    BY DEF ScreenInv, LastIsOpen
  <2>2. /\ opened \in Seq(Shown) /\ Len(opened) \in Nat
        /\ events \in Seq(Seq(Senders)) /\ Len(events) = Len(opened)
    BY DEF ScreenInv, LastIsOpen, ToldOfEach
  <2>3. /\ dropped \in Seq(Shown) /\ Len(dropped) = Len(opened)
        /\ \A i \in DOMAIN opened : dropped[i].screen = opened[i].screen /\ dropped[i].end # "open"
        /\ \A i \in DOMAIN opened : SameWord(dropped[i], opened[i])
    <3>1. \A i \in DOMAIN opened : /\ dropped[i] \in Shown
                                   /\ dropped[i].screen = opened[i].screen
                                   /\ dropped[i].end # "open"
                                   /\ SameWord(dropped[i], opened[i])
      <4> SUFFICES ASSUME NEW i \in DOMAIN opened
                   PROVE  /\ dropped[i] \in Shown
                          /\ dropped[i].screen = opened[i].screen
                          /\ dropped[i].end # "open"
                          /\ SameWord(dropped[i], opened[i])
        OBVIOUS
      <4>1. opened[i] \in Shown
        BY <2>0
      <4>2. dropped[i] = IF opened[i].end = "open" THEN [opened[i] EXCEPT !.end = "replaced"]
                         ELSE opened[i]
        OBVIOUS
      <4> HIDE DEF dropped
      <4>3. CASE opened[i].end = "open"
        <5>1. dropped[i] = [opened[i] EXCEPT !.end = "replaced"] /\ "replaced" \in Ends
          BY <4>2, <4>3 DEF Ends
        <5>2. /\ dropped[i] \in Shown /\ dropped[i].end = "replaced"
              /\ dropped[i].screen = opened[i].screen
          BY <4>1, <5>1, EndSet
        <5> QED BY <4>3, <5>2 DEF SameWord
      <4>4. CASE opened[i].end # "open"
        BY <4>1, <4>2, <4>4 DEF SameWord
      <4> QED BY <4>3, <4>4
    <3>2. dropped \in Seq(Shown) /\ Len(dropped) = Len(opened)
      <4>1. DOMAIN dropped = 1 .. Len(opened)
        BY <2>2
      <4> QED BY <2>2, <3>1, <4>1
    <3> QED BY <3>1, <3>2
  <2>4. new \in Shown
    BY <1>2 DEF Shown, Ends
  <2> HIDE DEF dropped, new
  <2>5. /\ opened' \in Seq(Shown) /\ Len(opened') = Len(opened) + 1
        /\ \A i \in DOMAIN opened : opened'[i] = dropped[i]
        /\ opened'[Len(opened) + 1] = new
    BY <2>1, <2>2, <2>3, <2>4
  <2>6. /\ events' \in Seq(Seq(Senders)) /\ Len(events') = Len(opened')
        /\ \A i \in DOMAIN opened : events'[i] = events[i]
        /\ events'[Len(opened) + 1] = <<>>
    BY <2>1, <2>2, <2>5
  <2>7. DOMAIN opened' = DOMAIN opened \cup {Len(opened) + 1}
    BY <2>2, <2>5
  <2>8. new.screen = screen /\ new.end = "open"
    BY DEF new
  <2>9. LastIsOpen'
    BY <2>1, <2>3, <2>5, <2>7, <2>8, <2>2 DEF LastIsOpen
  <2>10. Screen!EndsAreTold'
    <3>1. \A i \in DOMAIN opened : /\ SameWord(opened'[i], opened[i])
                                   /\ opened'[i].screen = opened[i].screen
                                   /\ events'[i] = events[i]
      BY <2>3, <2>5, <2>6
    <3>2. Screen!EndsAreTold
      BY DEF ScreenInv, ToldOfEach
    <3> QED BY <2>5, <2>6, <2>7, <2>8, <3>1, <3>2 DEF Screen!EndsAreTold, SameWord
  <2>11. /\ layout' \in [widgets : BOOLEAN, handler : BOOLEAN, capture : BOOLEAN]
         /\ ~layout'.widgets
    BY <2>1 DEF ScreenInv, ScreenTypes, Screen!Empty
  <2> QED BY <1>2, <2>1, <2>6, <2>9, <2>10, <2>11, ClientConstants DEF ToldOfEach
<1> QED BY <1>1, <1>2

\* Closing tells the server, and unless it is amiss once, under the screen's name.
LEMMA CloseKeeps ==
  ASSUME ScreenInv, NEW left, NEW wish \in Screen!Requests, NEW handler \in Screen!Handlers,
         left \in [widgets : BOOLEAN, handler : BOOLEAN, capture : BOOLEAN],
         NEW ofHud \in BOOLEAN, NEW end \in {"closed", "amiss"}, end = "closed" => ~ofHud,
         Screen!Close(left, wish, handler, ofHud, end)
  PROVE  /\ screenName' = None /\ layout' = Screen!Empty
         /\ request' \in Screen!Requests
         /\ LastIsOpen' /\ ToldOfEach'
<1> DEFINE last == Len(opened)
           sender == Screen!Sender(ofHud)
           twice == left.handler /\ handler = "again"
           told == IF twice THEN <<sender, sender>> ELSE <<sender>>
           how == IF twice THEN "amiss" ELSE end
<1>1. /\ screenName # None /\ screenName' = None /\ layout' = Screen!Empty
      /\ events' = [events EXCEPT ![last] = @ \o told]
      /\ opened' = [opened EXCEPT ![last].end = how]
  BY DEF Screen!Close
<1>2. request' \in Screen!Requests
  BY DEF ScreenInv, ScreenTypes, Screen!Close, Screen!Requests, Screen!Handlers
<1>0. opened \in Seq(Shown)
  BY DEF ScreenInv, LastIsOpen
<1>3. /\ opened \in Seq(Shown) /\ Len(opened) \in Nat
      /\ events \in Seq(Seq(Senders)) /\ Len(events) = Len(opened)
      /\ screenName \in Defined
  BY <1>1 DEF ScreenInv, ScreenTypes, LastIsOpen, ToldOfEach
<1>4. /\ last \in DOMAIN opened /\ last \in DOMAIN events
      /\ opened[last].end = "open" /\ opened[last].screen = screenName
  BY <1>1, <1>3 DEF ScreenInv, LastIsOpen
<1>5. events[last] = <<>>
  BY <1>4 DEF ScreenInv, ToldOfEach, Screen!EndsAreTold
<1>11. /\ sender \in Senders /\ told \in Seq(Senders) /\ told # <<>> /\ how \in {"closed", "amiss"}
       /\ how = "closed" => told = <<screenName>>
  <2>1. sender \in Senders /\ (how = "closed" => sender = screenName)
    BY <1>3 DEF Screen!Sender, Senders
  <2> HIDE DEF sender
  <2> QED BY <2>1
<1> HIDE DEF sender, told, how
<1>6. /\ opened' \in Seq(Shown) /\ Len(opened') = Len(opened)
      /\ DOMAIN opened' = DOMAIN opened
      /\ \A i \in DOMAIN opened : i # last => opened'[i] = opened[i]
      /\ opened'[last].end = how /\ opened'[last].screen = screenName
  <2>1. opened[last] \in Shown
    BY <1>0, <1>4
  <2>4. how \in Ends /\ opened[last].screen = screenName
    BY <1>4, <1>11 DEF Ends
  <2> DEFINE ended == [opened[last] EXCEPT !.end = how]
  <2>2. /\ ended \in Shown
        /\ ended.end = how /\ ended.screen = screenName
    BY <2>1, <2>4, EndSet
  <2>3. opened' = [opened EXCEPT ![last] = ended]
    BY <1>1
  <2> HIDE DEF ended
  <2> QED BY <1>3, <1>4, <2>2, <2>3
<1>7. /\ events' \in Seq(Seq(Senders)) /\ Len(events') = Len(opened')
      /\ \A i \in DOMAIN opened : i # last => events'[i] = events[i]
      /\ events'[last] = told
  <2>1. events' = [events EXCEPT ![last] = told]
    BY <1>1, <1>4, <1>5, <1>11
  <2> QED BY <1>3, <1>4, <1>6, <1>11, <2>1
<1>8. \A i \in DOMAIN opened : i # last => opened[i].end # "open"
  BY DEF ScreenInv, LastIsOpen
<1>9. LastIsOpen'
  BY <1>1, <1>6, <1>8, <1>11 DEF LastIsOpen
<1>10. Screen!EndsAreTold'
  BY <1>6, <1>7, <1>11 DEF ScreenInv, ToldOfEach, Screen!EndsAreTold
<1> QED BY <1>1, <1>2, <1>7, <1>9, <1>10 DEF ToldOfEach

\* Whether a capture waits and the button is held back, and the rest of what a frame begins with.
LEMMA InputKeepsMouse ==
  ASSUME ScreenInv, NEW key, NEW button \in BOOLEAN, Screen!Input(key, button),
         screenName # None => screenName' # None
  PROVE  /\ WishWaits' /\ PressIsHeld'
         /\ chat' \in BOOLEAN /\ captured' \in BOOLEAN /\ captureWaits' \in BOOLEAN
         /\ suppress' \in BOOLEAN /\ down' \in BOOLEAN /\ wished' \in BOOLEAN
         /\ cmd' \in [button : BOOLEAN, keybind : BOOLEAN]
         /\ pressedOn' \in {"nothing", "game", "screen"}
         /\ wished' => screenName' # None \/ chat'
<1> DEFINE chatting == Screen!Chatting(key, screenName' # None)
           busy == screenName' # None \/ chatting
           waits == Screen!Waits(key, request)
           release == key \in {"tab", "escape"} \/ request = "release"
           landed == ~busy /\ waits /\ ~captured
           clicked == ~busy /\ ~release /\ ~waits /\ button /\ ~down
           has == ~busy /\ ~release /\ (captured \/ landed \/ clicked)
           held == Screen!Held(down, button, landed)
           free == captured \/ (screenName = None /\ ~chatting)
<1>0. screenName # None => screenName' # None
  OBVIOUS
<1>1. /\ chat' = chatting /\ captured' = has /\ captureWaits' = (waits /\ busy)
      /\ suppress' = held /\ down' = button /\ cmd' = Screen!InputCmd(has, button, held)
      /\ pressedOn' = CASE ~button -> "nothing"
                        [] button /\ ~down -> IF free THEN "game" ELSE "screen"
                        [] OTHER -> pressedOn
      /\ wished' = (~release /\ ~has /\ (request = "capture" \/ wished))
  BY DEF Screen!Input
<1>2. /\ chatting \in BOOLEAN /\ waits \in BOOLEAN /\ held \in BOOLEAN
      /\ captured \in BOOLEAN /\ wished \in BOOLEAN /\ down \in BOOLEAN /\ suppress \in BOOLEAN
      /\ request \in Screen!Requests /\ pressedOn \in {"nothing", "game", "screen"}
  BY DEF ScreenInv, ScreenTypes, Screen!Chatting, Screen!Waits, Screen!Held
<1>3. held = (button /\ (landed \/ suppress))
  BY DEF Screen!Held
<1>4. cmd' = [button |-> has /\ button /\ ~held, keybind |-> has /\ button]
  BY <1>1 DEF Screen!InputCmd
<1>5. wished /\ request = "none" => (waits \/ key \in {"tab", "escape"})
  BY DEF Screen!Waits, ScreenInv, WishWaits
<1>6. request = "capture" => (waits \/ key \in {"tab", "escape"})
  BY DEF Screen!Waits
<1>7. ~release /\ (request = "capture" \/ wished) => waits
  BY <1>2, <1>5, <1>6 DEF Screen!Requests
<1> HIDE DEF chatting, waits, held
<1>11. (captured' <=> has) /\ (suppress' <=> held) /\ (down' <=> button)
  BY <1>1
<1>12. (cmd'.button <=> has /\ button /\ ~held) /\ cmd' \in [button : BOOLEAN, keybind : BOOLEAN]
  BY <1>4
<1>8. WishWaits'
  BY <1>1, <1>2, <1>7 DEF WishWaits
<1>9. wished' => busy
  BY <1>1, <1>2, <1>7
<1>10. PressIsHeld'
  <2> SUFFICES ASSUME pressedOn' = "screen" PROVE down' /\ (captured' => suppress') /\ ~cmd'.button
    BY DEF PressIsHeld
  <2>1. button
    BY <1>1
  <2>2. CASE ~down
    <3>1. ~free
      <4> HIDE DEF has, free
      <4>1. pressedOn' = IF free THEN "game" ELSE "screen"
        BY <1>1, <1>2, <2>1, <2>2
      <4> QED BY <4>1
    <3>2. busy
      BY <1>0, <1>2, <3>1
    <3> QED BY <1>11, <1>12, <2>1, <3>2
  <2>3. CASE down
    <3>1. captured => suppress
      <4> HIDE DEF has, free
      <4>1. pressedOn = "screen"
        BY <1>1, <1>2, <2>1, <2>3
      <4> QED BY <4>1 DEF ScreenInv, PressIsHeld
    <3>2. has => held
      BY <1>2, <1>3, <2>1, <2>3, <3>1
    <3> QED BY <1>11, <1>12, <2>1, <3>2
  <2> QED BY <2>2, <2>3
<1>13. /\ chat' \in BOOLEAN /\ captured' \in BOOLEAN /\ captureWaits' \in BOOLEAN
       /\ suppress' \in BOOLEAN /\ down' \in BOOLEAN /\ wished' \in BOOLEAN
  BY <1>1, <1>2
<1>14. pressedOn' \in {"nothing", "game", "screen"}
  <2> HIDE DEF free, has
  <2> QED BY <1>1, <1>2
<1>15. wished' => screenName' # None \/ chat'
  BY <1>1, <1>9
<1> QED BY <1>8, <1>10, <1>12, <1>13, <1>14, <1>15

LEMMA InputKeeps ==
  ASSUME ScreenInv, NEW key, NEW button \in BOOLEAN, Screen!Input(key, button)
  PROVE  ScreenInv' /\ (wished' => screenName' # None \/ chat')
<1>1. /\ screenName' \in Defined \cup {None}
      /\ screenName # None => screenName' # None
      /\ layout' \in [widgets : BOOLEAN, handler : BOOLEAN, capture : BOOLEAN]
      /\ screenName' = None => ~layout'.widgets
      /\ LastIsOpen' /\ ToldOfEach'
  <2>1. CASE asked = None
    <3>1. UNCHANGED <<screenName, layout, opened, events>>
      BY <2>1 DEF Screen!Input
    <3> QED BY <3>1, ScreensUntouched DEF ScreenInv, ScreenTypes, WidgetsFit
  <2>2. CASE asked # None
    <3>1. Screen!Open(asked)
      BY <2>2 DEF Screen!Input
    <3> QED BY <3>1, OpenKeeps
  <2> QED BY <2>1, <2>2
<1>2. /\ WishWaits' /\ PressIsHeld'
      /\ chat' \in BOOLEAN /\ captured' \in BOOLEAN /\ captureWaits' \in BOOLEAN
      /\ suppress' \in BOOLEAN /\ down' \in BOOLEAN /\ wished' \in BOOLEAN
      /\ cmd' \in [button : BOOLEAN, keybind : BOOLEAN]
      /\ pressedOn' \in {"nothing", "game", "screen"}
      /\ wished' => screenName' # None \/ chat'
  BY <1>1, InputKeepsMouse
<1>3. /\ asked' = None /\ request' = "none" /\ pc' = "hud" /\ hud' = hud
  BY DEF Screen!Input
<1>4. ScreenTypes'
  BY <1>1, <1>2, <1>3 DEF ScreenInv, ScreenTypes, Screen!Requests
<1>5. WidgetsFit'
  BY <1>1, <1>3 DEF WidgetsFit
<1> QED BY <1>1, <1>2, <1>4, <1>5 DEF ScreenInv

\* A step that leaves the screens alone.
LEMMA ScreenStays ==
  ASSUME ScreenInv, UNCHANGED <<screenName, layout, opened, events, chat, Screen!mouseVars>>,
         pc' \in {"input", "hud", "layout", "screen"}, hud' \in BOOLEAN,
         asked' \in Screens \cup {None}, request' \in Screen!Requests,
         pc' = "layout" => screenName # None
  PROVE  ScreenInv'
<1>1. WishWaits' /\ PressIsHeld'
  BY MouseUntouched DEF ScreenInv
<1>2. LastIsOpen' /\ ToldOfEach'
  BY ScreensUntouched DEF ScreenInv
<1>3. ScreenTypes' /\ WidgetsFit'
  BY DEF ScreenInv, ScreenTypes, WidgetsFit, Screen!mouseVars
<1> QED BY <1>1, <1>2, <1>3 DEF ScreenInv

\* A step that closes the screen.
LEMMA ScreenCloses ==
  ASSUME ScreenInv, NEW left, NEW wish \in Screen!Requests, NEW handler \in Screen!Handlers,
         left \in [widgets : BOOLEAN, handler : BOOLEAN, capture : BOOLEAN],
         NEW ofHud \in BOOLEAN, NEW end \in {"closed", "amiss"}, end = "closed" => ~ofHud,
         Screen!Close(left, wish, handler, ofHud, end),
         UNCHANGED <<asked, chat, Screen!mouseVars>>, hud' \in BOOLEAN,
         pc' \in {"input", "hud", "screen"}
  PROVE  ScreenInv'
<1>1. /\ screenName' = None /\ layout' = Screen!Empty
      /\ request' \in Screen!Requests
      /\ LastIsOpen' /\ ToldOfEach'
  BY CloseKeeps
<1>2. WishWaits' /\ PressIsHeld'
  BY MouseUntouched DEF ScreenInv
<1>3. ScreenTypes' /\ WidgetsFit'
  BY <1>1 DEF ScreenInv, ScreenTypes, WidgetsFit, Screen!mouseVars, Screen!Empty
<1> QED BY <1>1, <1>2, <1>3 DEF ScreenInv

\* What a layout may leave.
LEMMA LayoutsFit ==
  ASSUME ScreenInv
  PROVE  Screen!Layouts \subseteq [widgets : BOOLEAN, handler : BOOLEAN, capture : BOOLEAN]
BY DEF ScreenInv, ScreenTypes, Screen!Layouts

\* A script that is called beside a layout.
LEMMA CallKeeps ==
  ASSUME ScreenInv, NEW ofHud \in BOOLEAN, NEW end \in {"closed", "amiss"},
         end = "closed" => ~ofHud, Screen!Call(ofHud, end),
         UNCHANGED <<asked, chat, Screen!mouseVars>>, hud' \in BOOLEAN,
         pc' \in {"input", "hud", "screen"}
  PROVE  ScreenInv'
<1>1. layout \in [widgets : BOOLEAN, handler : BOOLEAN, capture : BOOLEAN]
      /\ asked \in Screens \cup {None}
  BY DEF ScreenInv, ScreenTypes
<1>2. CASE \E r \in Screen!Requests \ {"none"} :
             request' = r /\ UNCHANGED <<screenName, layout, opened, events>>
  BY <1>1, <1>2, ScreenStays
<1>3. CASE \E wish \in Screen!Requests, h \in Screen!Handlers :
             Screen!Close(layout, wish, h, ofHud, end)
  BY <1>1, <1>3, ScreenCloses
<1> QED BY <1>2, <1>3 DEF Screen!Call

LEMMA HudKeeps ==
  ASSUME ScreenInv, Screen!HudCallback \/ Screen!HudLayout
  PROVE  ScreenInv'
<1>1. CASE Screen!HudCallback
  BY <1>1, CallKeeps DEF Screen!HudCallback
<1>2. CASE Screen!HudLayout
  <2>1. hud \in BOOLEAN /\ Screen!FromLayout \in {"closed", "amiss"}
        /\ (Screen!FromLayout = "closed" => ~hud)
    BY DEF ScreenInv, ScreenTypes, Screen!FromLayout
  <2> QED BY <1>2, <2>1, CallKeeps DEF Screen!HudLayout
<1> QED BY <1>1, <1>2

LEMMA LayoutKeeps ==
  ASSUME ScreenInv, Screen!Layout
  PROVE  ScreenInv'
<1>1. layout' \in [widgets : BOOLEAN, handler : BOOLEAN, capture : BOOLEAN]
  BY LayoutsFit DEF Screen!Layout
<1>2. /\ UNCHANGED <<asked, screenName, hud, request, opened, events, chat, Screen!mouseVars>>
      /\ pc = "layout" /\ pc' = "screen"
  BY DEF Screen!Layout
<1>3. WishWaits' /\ PressIsHeld' /\ LastIsOpen' /\ ToldOfEach'
  BY <1>2, MouseUntouched, ScreensUntouched DEF ScreenInv
<1>4. ScreenTypes' /\ WidgetsFit'
  BY <1>1, <1>2 DEF ScreenInv, ScreenTypes, WidgetsFit, Screen!mouseVars
<1> QED BY <1>3, <1>4 DEF ScreenInv

LEMMA LayoutClosesKeeps ==
  ASSUME ScreenInv, Screen!LayoutCloses
  PROVE  ScreenInv'
<1>1. hud \in BOOLEAN /\ Screen!FromLayout \in {"closed", "amiss"}
      /\ (Screen!FromLayout = "closed" => ~hud)
  BY DEF ScreenInv, ScreenTypes, Screen!FromLayout
<1>2. PICK left \in Screen!Layouts, wish \in Screen!Requests, h \in Screen!Handlers :
        Screen!Close(left, wish, h, hud, Screen!FromLayout)
  BY DEF Screen!LayoutCloses
<1>3. left \in [widgets : BOOLEAN, handler : BOOLEAN, capture : BOOLEAN]
  BY <1>2, LayoutsFit
<1> QED BY <1>1, <1>2, <1>3, ScreenCloses DEF Screen!LayoutCloses

LEMMA CallbackKeeps ==
  ASSUME ScreenInv, Screen!Callback
  PROVE  ScreenInv'
<1>1. /\ pc' = "screen" /\ hud' = FALSE /\ UNCHANGED <<asked, chat, Screen!mouseVars>>
  BY DEF Screen!Callback, Screen!Origin
<1>2. layout \in [widgets : BOOLEAN, handler : BOOLEAN, capture : BOOLEAN]
      /\ request \in Screen!Requests /\ asked \in Screens \cup {None}
  BY DEF ScreenInv, ScreenTypes
<1>3. CASE UNCHANGED <<screenName, layout, request, opened, events>>
  BY <1>1, <1>2, <1>3, ScreenStays
<1>4. CASE Screen!Call(FALSE, "closed")
  BY <1>1, <1>4, CallKeeps
<1> QED BY <1>3, <1>4 DEF Screen!Callback, Screen!Origin

LEMMA ScreenKeeps ==
  ASSUME ScreenInv, [Screen!Next]_screenVars
  PROVE  ScreenInv'
<1>0. ScreenTypes
  BY DEF ScreenInv
<1>1. CASE UNCHANGED screenVars
  BY <1>0, <1>1, ScreenStays DEF screenVars, Screen!mouseVars, ScreenTypes, ScreenInv, WidgetsFit
<1>2. CASE \E screen \in Screens : Screen!ServerOpens(screen)
  BY <1>0, <1>2, ScreenStays DEF Screen!ServerOpens, Screen!uiVars, ScreenTypes
<1>3. CASE \E key \in {"none", "enter", "escape", "tab"}, button \in BOOLEAN :
             Screen!Input(key, button)
  BY <1>3, InputKeeps
<1>4. CASE \/ Screen!HudCallback \/ Screen!HudLayout
           \/ Screen!Layout \/ Screen!LayoutCloses \/ Screen!Callback
  BY <1>4, HudKeeps, LayoutKeeps, LayoutClosesKeeps, CallbackKeeps
<1>5. CASE Screen!ToLayout \/ Screen!EndFrame
  BY <1>0, <1>5, ScreenStays DEF Screen!ToLayout, Screen!EndFrame, Screen!uiVars, ScreenTypes
<1> QED BY <1>1, <1>2, <1>3, <1>4, <1>5 DEF Screen!Next

\* A frame that begins leaves a wish to capture only where something needs the cursor.
LEMMA CaptureWaits ==
  ASSUME ScreenInv, [Screen!Next]_screenVars
  PROVE  [pc = "input" /\ pc' = "hud" /\ wished' => screenName' # None \/ chat']_(Screen!vars)
<1>1. CASE UNCHANGED screenVars
  BY <1>1 DEF screenVars, Screen!vars, Screen!uiVars, Screen!mouseVars
<1>2. CASE \E key \in {"none", "enter", "escape", "tab"}, button \in BOOLEAN :
             Screen!Input(key, button)
  BY <1>2, InputKeeps
<1>3. CASE \/ \E screen \in Screens : Screen!ServerOpens(screen)
           \/ Screen!HudCallback \/ Screen!HudLayout \/ Screen!ToLayout \/ Screen!Layout
           \/ Screen!LayoutCloses \/ Screen!Callback \/ Screen!EndFrame
  BY <1>3 DEF Screen!ServerOpens, Screen!HudCallback, Screen!HudLayout, Screen!ToLayout, Screen!Layout,
     Screen!LayoutCloses, Screen!Callback, Screen!EndFrame
<1> QED BY <1>1, <1>2, <1>3 DEF Screen!Next

LEMMA ScreenSays ==
  ScreenInv => Screen!TypeOK /\ Screen!EndsAreTold /\ Screen!PunchIsMeant
BY DEF ScreenInv, ScreenTypes, WidgetsFit, ToldOfEach, WishWaits, PressIsHeld, Screen!TypeOK,
   Screen!PunchIsMeant

-----------------------------------------------------------------------------
(* ChunkMeshing: the meshes and what they show *)

\* The sets and sequences of the instance are those of this module.
LEMMA SameCardinality == \A S : Mesh!Cardinality(S) = Cardinality(S)
BY DEF Mesh!Cardinality, Cardinality

LEMMA SameElements == \A s : Mesh!ToSet(s) = ToSet(s)
BY DEF Mesh!ToSet, ToSet

Meshes == UNION {[Mesh!Around(c) -> {0, 1, 2}] : c \in MeshCoords}
MeshJobs == [coord : MeshCoords, revision : Nat, mesh : Meshes]
MeshChunk(c) == [revision : Nat \ {0}, shown : [Mesh!Around(c) -> {0, 1}]]

\* A store of chunks, such as chunks itself or what a change makes of it.
IsStore(store) ==
  /\ DOMAIN store \subseteq MeshCoords /\ IsFiniteSet(DOMAIN store)
  /\ \A c \in DOMAIN store : store[c] \in MeshChunk(c)

\* What a mesh of c would show with such a store.
SeenIn(store, c) ==
  [d \in Mesh!Around(c) |-> IF d \in DOMAIN store THEN store[d].shown[c] ELSE Mesh!Air]

MeshTypes ==
  /\ IsStore(chunks)
  /\ DOMAIN gpu \subseteq MeshCoords
  /\ \A c \in DOMAIN gpu : gpu[c] \in [revision : Nat, mesh : Meshes]
  /\ jobs \in Seq(MeshJobs) /\ meshed \in Seq(MeshJobs) /\ uploads \in Seq(MeshJobs)
  /\ working \subseteq MeshJobs /\ IsFiniteSet(working) /\ Cardinality(working) <= Workers
  /\ waiting \subseteq MeshCoords /\ inSync \in BOOLEAN
  /\ expected \subseteq DOMAIN chunks /\ again \subseteq DOMAIN chunks
  /\ highest \in [MeshCoords -> Nat]
  /\ changes \in 0 .. MaxChanges

\* The revision of a chunk that is loaded is the highest it ever had, unless it came again with
\* one the client had had.
RevisionsGrow ==
  \A c \in DOMAIN chunks : /\ chunks[c].revision <= highest[c]
                           /\ c \notin again => chunks[c].revision = highest[c]

\* A mesh of the revision a chunk has now shows what is there now, unless an edit is near that
\* the server has sent nothing of since, or the chunk came with a revision the client had had.
Fits(c, revision, mesh) ==
  /\ revision <= highest[c]
  /\ c \in DOMAIN chunks \ again /\ chunks[c].revision = revision
       => Mesh!Around(c) \cap expected # {} \/ mesh = Mesh!Seen(c)

JobFits(job) == Fits(job.coord, job.revision, job.mesh)

\* That holds of every mesh, wherever it is on its way to the screen.
MeshesFit ==
  /\ \A i \in DOMAIN jobs : JobFits(jobs[i])
  /\ \A job \in working : JobFits(job)
  /\ \A i \in DOMAIN meshed : JobFits(meshed[i])
  /\ \A i \in DOMAIN uploads : JobFits(uploads[i])
  /\ \A c \in DOMAIN gpu : Fits(c, gpu[c].revision, gpu[c].mesh)

MeshInv == MeshTypes /\ RevisionsGrow /\ MeshesFit

LEMMA MeshStarts == Mesh!Init => MeshInv
<1> SUFFICES ASSUME Mesh!Init PROVE MeshInv
  OBVIOUS
<1>1. /\ DOMAIN chunks = {} /\ DOMAIN gpu = {} /\ jobs = <<>> /\ meshed = <<>> /\ uploads = <<>>
      /\ working = {} /\ waiting = {} /\ inSync = FALSE /\ expected = {} /\ again = {} /\ changes = 0
      /\ highest = [c \in MeshCoords |-> 0]
  BY DEF Mesh!Init
<1>2. IsFiniteSet({}) /\ Cardinality({}) = 0
  BY FS_EmptySet
<1>3. MeshTypes
  <2>1. IsStore(chunks)
    BY <1>1, <1>2 DEF IsStore
  <2>2. IsFiniteSet(working) /\ Cardinality(working) <= Workers
    BY <1>1, <1>2, ClientConstants
  <2>3. highest \in [MeshCoords -> Nat] /\ changes \in 0 .. MaxChanges
    BY <1>1, ClientConstants
  <2>4. /\ jobs \in Seq(MeshJobs) /\ meshed \in Seq(MeshJobs) /\ uploads \in Seq(MeshJobs)
        /\ working \subseteq MeshJobs /\ waiting \subseteq MeshCoords
    BY <1>1
  <2>5. /\ DOMAIN gpu \subseteq MeshCoords
        /\ \A c \in DOMAIN gpu : gpu[c] \in [revision : Nat, mesh : Meshes]
    BY <1>1
  <2>6. /\ inSync \in BOOLEAN /\ expected \subseteq DOMAIN chunks
        /\ again \subseteq DOMAIN chunks
    BY <1>1
  <2> QED BY <2>1, <2>2, <2>3, <2>4, <2>5, <2>6 DEF MeshTypes
<1>4. RevisionsGrow /\ MeshesFit
  BY <1>1 DEF RevisionsGrow, MeshesFit
<1> QED BY <1>3, <1>4 DEF MeshInv

\* Who is around whom goes both ways.
LEMMA AroundIsMutual ==
  ASSUME NEW c \in MeshCoords, NEW d \in MeshCoords
  PROVE  /\ c \in Mesh!Around(c)
         /\ d \in Mesh!Around(c) <=> c \in Mesh!Around(d)
<1>1. /\ c[1] \in Int /\ c[2] \in Int /\ d[1] \in Int /\ d[2] \in Int
  BY ClientConstants
<1> QED BY <1>1 DEF Mesh!Around

\* The higher of two numbers.
LEMMA HigherOfTwo ==
  ASSUME NEW a \in Nat, NEW b \in Nat
  PROVE  /\ Mesh!Max({a, b}) \in Nat
         /\ a <= Mesh!Max({a, b}) /\ b <= Mesh!Max({a, b})
         /\ b > a => Mesh!Max({a, b}) = b
         /\ b = a => Mesh!Max({a, b}) = b
<1>1. \E x \in {a, b} : \A y \in {a, b} : x >= y
  OBVIOUS
<1> QED BY <1>1 DEF Mesh!Max

\* Bump counts revisions and leaves the rest.
LEMMA BumpCounts ==
  ASSUME NEW store, IsStore(store), NEW cs
  PROVE  /\ IsStore(Mesh!Bump(store, cs)) /\ DOMAIN Mesh!Bump(store, cs) = DOMAIN store
         /\ \A c \in DOMAIN store :
              /\ Mesh!Bump(store, cs)[c].shown = store[c].shown
              /\ Mesh!Bump(store, cs)[c].revision
                   = IF c \in cs THEN store[c].revision + 1 ELSE store[c].revision
<1> DEFINE new == Mesh!Bump(store, cs)
<1>1. DOMAIN new = DOMAIN store
  BY DEF Mesh!Bump
<1>2. ASSUME NEW c \in DOMAIN store
      PROVE  /\ new[c] \in MeshChunk(c) /\ new[c].shown = store[c].shown
             /\ new[c].revision = IF c \in cs THEN store[c].revision + 1 ELSE store[c].revision
  <2>1. new[c] = [store[c] EXCEPT !.revision = IF c \in cs THEN @ + 1 ELSE @]
    BY DEF Mesh!Bump
  <2>2. store[c] \in MeshChunk(c)
    BY DEF IsStore
  <2> HIDE DEF new
  <2> QED BY <2>1, <2>2 DEF MeshChunk
<1> HIDE DEF new
<1>3. IsStore(new)
  BY <1>1, <1>2 DEF IsStore
<1> QED BY <1>1, <1>2, <1>3 DEF new

\* Redo changes what one chunk shows.
LEMMA RedoShows ==
  ASSUME NEW store, IsStore(store), NEW c \in DOMAIN store, NEW cs
  PROVE  /\ IsStore(Mesh!Redo(store, c, cs)) /\ DOMAIN Mesh!Redo(store, c, cs) = DOMAIN store
         /\ \A d \in DOMAIN store :
              /\ Mesh!Redo(store, c, cs)[d].revision = store[d].revision
              /\ d # c => Mesh!Redo(store, c, cs)[d].shown = store[d].shown
<1> DEFINE new == Mesh!Redo(store, c, cs)
           old == store[c].shown
           redone == [d \in DOMAIN old |-> IF d \in cs THEN 1 - old[d] ELSE old[d]]
<1>1. /\ DOMAIN new = DOMAIN store
      /\ \A d \in DOMAIN store \ {c} : new[d] = store[d]
      /\ new[c] = [store[c] EXCEPT !.shown = redone]
  BY DEF Mesh!Redo
<1>2. store[c] \in MeshChunk(c)
  BY DEF IsStore
<1>3. redone \in [Mesh!Around(c) -> {0, 1}]
  <2>1. old \in [Mesh!Around(c) -> {0, 1}]
    BY <1>2 DEF MeshChunk
  <2> HIDE DEF old
  <2> QED BY <2>1
<1> HIDE DEF new, redone
<1>4. new[c] \in MeshChunk(c) /\ new[c].revision = store[c].revision
  BY <1>1, <1>2, <1>3 DEF MeshChunk
<1>5. IsStore(new)
  BY <1>1, <1>4 DEF IsStore
<1> QED BY <1>1, <1>4, <1>5 DEF new

\* What a change of the store must do for the meshes to fit: a chunk that is there has got a new
\* revision, or it came as a whole with one the client had had, or an edit near it is not
\* answered, or it shows what it showed.
Honest(store, owed, came, c) ==
  \/ store[c].revision > highest[c]
  \/ c \in again \cup came
  \/ /\ c \in DOMAIN chunks /\ store[c].revision = chunks[c].revision
     /\ \/ Mesh!Around(c) \cap owed # {}
        \/ Mesh!Around(c) \cap expected = {} /\ SeenIn(store, c) = Mesh!Seen(c)

LEMMA ChangeKeeps ==
  ASSUME MeshInv, NEW store, NEW owed, NEW came, Mesh!Change(store, owed, came),
         IsStore(store), owed \subseteq DOMAIN store,
         \A c \in DOMAIN store : Honest(store, owed, came, c)
  PROVE  MeshInv'
<1>1. /\ chunks' = store /\ expected' = owed /\ changes' = changes + 1 /\ changes < MaxChanges
      /\ highest' = [c \in MeshCoords |-> IF c \in DOMAIN store
                                          THEN Mesh!Max({highest[c], store[c].revision})
                                          ELSE highest[c]]
      /\ again' = {c \in DOMAIN store : /\ store[c].revision <= highest[c]
                                        /\ c \in again \cup came}
      /\ UNCHANGED <<jobs, working, meshed, gpu, uploads, waiting, inSync>>
  BY DEF Mesh!Change, Mesh!poolVars, Mesh!drawVars
<1>2. highest \in [MeshCoords -> Nat] /\ IsStore(chunks) /\ changes \in 0 .. MaxChanges
  BY DEF MeshInv, MeshTypes
<1>3. \A c \in DOMAIN store : /\ c \in MeshCoords /\ highest[c] \in Nat
                              /\ store[c].revision \in Nat
  BY <1>2 DEF IsStore, MeshChunk
<1>11. ASSUME NEW c \in DOMAIN store, c \notin again'
       PROVE  \/ store[c].revision > highest[c]
              \/ /\ c \in DOMAIN chunks \ again /\ store[c].revision = chunks[c].revision
                 /\ store[c].revision = highest[c]
                 /\ \/ Mesh!Around(c) \cap owed # {}
                    \/ Mesh!Around(c) \cap expected = {} /\ SeenIn(store, c) = Mesh!Seen(c)
  <2>1. Honest(store, owed, came, c)
    OBVIOUS
  <2>2. store[c].revision > highest[c] \/ c \notin again \cup came
    BY <1>1, <1>3, <1>11
  <2>3. c \in DOMAIN chunks \ again => chunks[c].revision = highest[c]
    BY DEF MeshInv, RevisionsGrow
  <2> QED BY <2>1, <2>2, <2>3 DEF Honest
<1>4. ASSUME NEW c \in MeshCoords
      PROVE  /\ highest'[c] \in Nat /\ highest[c] <= highest'[c]
             /\ c \in DOMAIN store => store[c].revision <= highest'[c]
             /\ c \in DOMAIN store \ again' => store[c].revision = highest'[c]
  <2>1. CASE c \notin DOMAIN store
    BY <1>1, <1>2, <2>1
  <2>2. CASE c \in DOMAIN store
    <3>1. highest'[c] = Mesh!Max({highest[c], store[c].revision})
      BY <1>1, <2>2
    <3>2. c \notin again' => store[c].revision >= highest[c]
      BY <1>3, <1>11, <2>2
    <3> QED BY <1>3, <2>2, <3>1, <3>2, HigherOfTwo
  <2> QED BY <2>1, <2>2
<1>5. highest' \in [MeshCoords -> Nat]
  BY <1>1, <1>4
<1>6. MeshTypes'
  <2>1. again' \subseteq DOMAIN store
    BY <1>1
  <2> QED BY <1>1, <1>2, <1>5, <2>1, ClientConstants DEF MeshInv, MeshTypes
<1>7. RevisionsGrow'
  BY <1>1, <1>4 DEF RevisionsGrow, IsStore
<1>8. ASSUME NEW c \in MeshCoords, NEW revision \in Nat, NEW mesh, Fits(c, revision, mesh)
      PROVE  Fits(c, revision, mesh)'
  <2>1. revision <= highest[c] /\ highest[c] \in Nat
    BY <1>2, <1>8 DEF Fits
  <2>2. revision <= highest'[c]
    BY <2>1, <1>4
  <2>3. ASSUME c \in DOMAIN store \ again', store[c].revision = revision
        PROVE  Mesh!Around(c) \cap owed # {} \/ mesh = SeenIn(store, c)
    <3>1. ~(store[c].revision > highest[c])
      BY <2>1, <2>3
    <3> QED BY <1>8, <1>11, <2>3, <3>1 DEF Fits
  <2>4. Mesh!Seen(c)' = SeenIn(store, c) /\ Mesh!Around(c)' = Mesh!Around(c)
    BY <1>1 DEF Mesh!Seen, Mesh!Loaded, SeenIn, Mesh!Around, Mesh!Air
  <2> QED BY <1>1, <2>2, <2>3, <2>4 DEF Fits
<1>9. \A job \in MeshJobs : JobFits(job) => JobFits(job)'
  BY <1>8 DEF MeshJobs, JobFits
<1>10. MeshesFit'
  <2>1. /\ jobs \in Seq(MeshJobs) /\ meshed \in Seq(MeshJobs) /\ uploads \in Seq(MeshJobs)
        /\ working \subseteq MeshJobs
        /\ \A c \in DOMAIN gpu : c \in MeshCoords /\ gpu[c].revision \in Nat
    BY DEF MeshInv, MeshTypes
  <2>2. \A i \in DOMAIN jobs : jobs[i] \in MeshJobs
    BY <2>1
  <2>3. \A i \in DOMAIN meshed : meshed[i] \in MeshJobs
    BY <2>1
  <2>4. \A i \in DOMAIN uploads : uploads[i] \in MeshJobs
    BY <2>1
  <2>5. \A c \in DOMAIN gpu : Fits(c, gpu[c].revision, gpu[c].mesh)'
    <3> SUFFICES ASSUME NEW c \in DOMAIN gpu' PROVE Fits(c, gpu[c].revision, gpu[c].mesh)'
      BY <1>1
    <3>1. Fits(c, gpu[c].revision, gpu[c].mesh) /\ c \in MeshCoords /\ gpu[c].revision \in Nat
      BY <1>1, <2>1 DEF MeshInv, MeshesFit
    <3>2. \A r, m : r = gpu[c].revision /\ m = gpu[c].mesh => Fits(c, r, m)'
      BY <1>8, <3>1
    <3> QED BY <1>1, <3>2 DEF Fits
  <2> QED BY <1>1, <1>9, <2>1, <2>2, <2>3, <2>4, <2>5 DEF MeshInv, MeshesFit, JobFits
<1> QED BY <1>6, <1>7, <1>10 DEF MeshInv

\* A chunk around which nothing changed shows what it showed.
LEMMA FarIsHonest ==
  ASSUME MeshInv, NEW store, NEW owed, NEW came, NEW cs, NEW d \in DOMAIN chunks,
         store[d].revision = chunks[d].revision,
         cs \cap Mesh!Around(d) = {},
         \A e \in MeshCoords \ cs : /\ e \in DOMAIN store <=> e \in DOMAIN chunks
                                    /\ e \in DOMAIN chunks => store[e].shown = chunks[e].shown,
         expected \ cs \subseteq owed
  PROVE  Honest(store, owed, came, d)
<1>1. Mesh!Around(d) \subseteq MeshCoords \ cs
  BY DEF Mesh!Around
<1>2. SeenIn(store, d) = Mesh!Seen(d)
  BY <1>1 DEF SeenIn, Mesh!Seen, Mesh!Loaded, Mesh!Air
<1>3. Mesh!Around(d) \cap owed = {} => Mesh!Around(d) \cap expected = {}
  <2>1. \A e : e \in Mesh!Around(d) /\ e \in expected => e \notin cs /\ e \in owed
    OBVIOUS
  <2> QED BY <2>1
<1> QED BY <1>2, <1>3 DEF Honest

\* A chunk that comes, changes or goes, with the revisions around it bumped.
LEMMA AroundIsBumped ==
  ASSUME MeshInv, NEW before, IsStore(before), NEW c \in MeshCoords, NEW owed, NEW came,
         expected \ {c} \subseteq owed,
         \A d \in MeshCoords \ {c} :
           /\ d \in DOMAIN before <=> d \in DOMAIN chunks
           /\ d \in DOMAIN chunks => /\ before[d].shown = chunks[d].shown
                                     /\ before[d].revision = chunks[d].revision,
         c \in DOMAIN before => before[c].revision > highest[c] \/ c \in again \cup came
  PROVE  /\ IsStore(Mesh!BumpAround(before, c))
         /\ DOMAIN Mesh!BumpAround(before, c) = DOMAIN before
         /\ \A d \in DOMAIN before : Honest(Mesh!BumpAround(before, c), owed, came, d)
<1> DEFINE store == Mesh!BumpAround(before, c)
           near == Mesh!Around(c) \ {c}
<1>1. store = Mesh!Bump(before, near)
  BY DEF Mesh!BumpAround
<1>2. /\ IsStore(store) /\ DOMAIN store = DOMAIN before
      /\ \A d \in DOMAIN before :
           /\ store[d].shown = before[d].shown
           /\ store[d].revision = IF d \in near THEN before[d].revision + 1 ELSE before[d].revision
  BY <1>1, BumpCounts
<1> HIDE DEF store
<1>3. DOMAIN before \subseteq MeshCoords /\ DOMAIN chunks \subseteq MeshCoords
  BY DEF IsStore, MeshInv, MeshTypes
<1>4. ASSUME NEW d \in DOMAIN before
      PROVE  Honest(store, owed, came, d)
  <2>1. CASE d = c
    BY <1>2, <2>1 DEF Honest
  <2>2. CASE d # c /\ d \in Mesh!Around(c)
    <3>1. d \in DOMAIN chunks /\ store[d].revision = chunks[d].revision + 1
      BY <1>2, <1>3, <2>2
    <3>2. (d \in again \/ chunks[d].revision = highest[d]) /\ highest[d] \in Nat
      BY <1>3, <3>1 DEF MeshInv, MeshTypes, RevisionsGrow
    <3> QED BY <3>1, <3>2 DEF Honest
  <2>3. CASE d # c /\ d \notin Mesh!Around(c)
    <3>1. d \in MeshCoords /\ d \in DOMAIN chunks /\ store[d].revision = chunks[d].revision
      BY <1>2, <1>3, <2>3
    <3>2. {c} \cap Mesh!Around(d) = {}
      BY <3>1, <2>3, AroundIsMutual
    <3>3. \A e \in MeshCoords \ {c} : /\ e \in DOMAIN store <=> e \in DOMAIN chunks
                                      /\ e \in DOMAIN chunks => store[e].shown = chunks[e].shown
      BY <1>2
    <3> QED BY <3>1, <3>2, <3>3, FarIsHonest
  <2> QED BY <2>1, <2>2, <2>3
<1> QED BY <1>2, <1>4 DEF store

LEMMA AddKeeps ==
  ASSUME MeshInv, NEW c \in MeshCoords, NEW version \in {0, 1},
         NEW revision \in 1 .. highest[c] + 1, Mesh!ApplyAdd(c, revision, version)
  PROVE  MeshInv'
<1> DEFINE chunk == [revision |-> revision, shown |-> [d \in Mesh!Around(c) |-> version]]
           before == [d \in Mesh!Loaded \cup {c} |-> IF d = c THEN chunk ELSE chunks[d]]
           owed == expected \ {c}
<1>1. Mesh!Change(Mesh!BumpAround(before, c), owed, {c})
  BY DEF Mesh!ApplyAdd
<1>2. IsStore(chunks) /\ highest[c] \in Nat /\ expected \subseteq DOMAIN chunks
  BY DEF MeshInv, MeshTypes
<1>3. revision \in Nat \ {0}
  BY <1>2
<1>4. chunk \in MeshChunk(c) /\ chunk.revision = revision
  BY <1>3 DEF MeshChunk
<1>5. DOMAIN before = DOMAIN chunks \cup {c}
  BY DEF Mesh!Loaded
<1>6. before[c] = chunk /\ \A d \in DOMAIN chunks \ {c} : before[d] = chunks[d]
  BY DEF Mesh!Loaded
<1> HIDE DEF chunk, before
<1>7. IsStore(before)
  <2>1. IsFiniteSet(DOMAIN chunks \cup {c})
    BY <1>2, FS_AddElement DEF IsStore
  <2> QED BY <1>2, <1>4, <1>5, <1>6, <2>1 DEF IsStore
<1>8. /\ IsStore(Mesh!BumpAround(before, c)) /\ DOMAIN Mesh!BumpAround(before, c) = DOMAIN before
      /\ \A d \in DOMAIN before : Honest(Mesh!BumpAround(before, c), owed, {c}, d)
  BY <1>1, <1>4, <1>5, <1>6, <1>7, AroundIsBumped
<1>9. owed \subseteq DOMAIN before
  BY <1>2, <1>5
<1> HIDE DEF owed
<1> QED BY <1>1, <1>8, <1>9, ChangeKeeps

LEMMA DeltaKeeps ==
  ASSUME MeshInv, NEW c \in MeshCoords, NEW cs, Mesh!ApplyDelta(c, cs)
  PROVE  MeshInv'
<1> DEFINE redone == Mesh!Redo(chunks, c, cs)
           before == Mesh!Bump(redone, {c})
           owed == expected \ {c}
<1>1. c \in DOMAIN chunks /\ Mesh!Change(Mesh!BumpAround(before, c), owed, {})
  BY DEF Mesh!ApplyDelta, Mesh!Loaded
<1>2. IsStore(chunks) /\ highest[c] \in Nat /\ expected \subseteq DOMAIN chunks
  BY DEF MeshInv, MeshTypes
<1>3. /\ IsStore(redone) /\ DOMAIN redone = DOMAIN chunks
      /\ \A d \in DOMAIN chunks : /\ redone[d].revision = chunks[d].revision
                                  /\ d # c => redone[d].shown = chunks[d].shown
  BY <1>1, <1>2, RedoShows
<1> HIDE DEF redone
<1>4. /\ IsStore(before) /\ DOMAIN before = DOMAIN redone
      /\ \A d \in DOMAIN redone :
           /\ before[d].shown = redone[d].shown
           /\ before[d].revision = IF d \in {c} THEN redone[d].revision + 1 ELSE redone[d].revision
  BY <1>3, BumpCounts
<1>5. c \in again \/ chunks[c].revision = highest[c]
  BY <1>1 DEF MeshInv, RevisionsGrow
<1> HIDE DEF before
<1>6. before[c].revision > highest[c] \/ c \in again
  BY <1>1, <1>2, <1>3, <1>4, <1>5
<1>7. \A d \in MeshCoords \ {c} :
        /\ d \in DOMAIN before <=> d \in DOMAIN chunks
        /\ d \in DOMAIN chunks => /\ before[d].shown = chunks[d].shown
                                  /\ before[d].revision = chunks[d].revision
  BY <1>3, <1>4
<1>8. /\ IsStore(Mesh!BumpAround(before, c)) /\ DOMAIN Mesh!BumpAround(before, c) = DOMAIN before
      /\ \A d \in DOMAIN before : Honest(Mesh!BumpAround(before, c), owed, {}, d)
  BY <1>4, <1>6, <1>7, AroundIsBumped
<1>9. owed \subseteq DOMAIN before
  BY <1>2, <1>3, <1>4
<1> HIDE DEF owed
<1> QED BY <1>1, <1>8, <1>9, ChangeKeeps

LEMMA RemoveKeeps ==
  ASSUME MeshInv, NEW c \in MeshCoords, Mesh!ApplyRemove(c)
  PROVE  MeshInv'
<1> DEFINE before == [d \in Mesh!Loaded \ {c} |-> chunks[d]]
           owed == expected \ {c}
<1>1. Mesh!Change(Mesh!BumpAround(before, c), owed, {})
  BY DEF Mesh!ApplyRemove
<1>2. IsStore(chunks) /\ expected \subseteq DOMAIN chunks
  BY DEF MeshInv, MeshTypes
<1>3. /\ DOMAIN before = DOMAIN chunks \ {c}
      /\ \A d \in DOMAIN chunks \ {c} : before[d] = chunks[d]
  BY DEF Mesh!Loaded
<1> HIDE DEF before
<1>4. IsStore(before)
  <2>1. IsFiniteSet(DOMAIN chunks \ {c})
    BY <1>2, FS_Subset DEF IsStore
  <2> QED BY <1>2, <1>3, <2>1 DEF IsStore
<1>5. /\ IsStore(Mesh!BumpAround(before, c)) /\ DOMAIN Mesh!BumpAround(before, c) = DOMAIN before
      /\ \A d \in DOMAIN before : Honest(Mesh!BumpAround(before, c), owed, {}, d)
  BY <1>3, <1>4, AroundIsBumped
<1>6. owed \subseteq DOMAIN before
  BY <1>2, <1>3
<1> HIDE DEF owed
<1> QED BY <1>1, <1>5, <1>6, ChangeKeeps

\* What edit_block makes of the store: revisions and what c and the chunk below show.
LEMMA EditShows ==
  ASSUME MeshInv, NEW c \in DOMAIN chunks, NEW cs, NEW touched, NEW lower,
         lower \subseteq DOMAIN chunks
  PROVE  /\ IsStore(Mesh!EditBlock(chunks, c, cs, touched, lower))
         /\ DOMAIN Mesh!EditBlock(chunks, c, cs, touched, lower) = DOMAIN chunks
         /\ \A d \in DOMAIN chunks :
              LET new == Mesh!EditBlock(chunks, c, cs, touched, lower)[d]
              IN  /\ \/ new.revision = chunks[d].revision
                     \/ new.revision > chunks[d].revision
                  /\ d \notin {c} \cup lower => new.shown = chunks[d].shown
<1> DEFINE redone == Mesh!Redo(chunks, c, cs)
           edited == Mesh!Bump(redone, {c} \cup touched)
           store == Mesh!EditBlock(chunks, c, cs, touched, lower)
           low == CHOOSE l \in lower : TRUE
           lit == Mesh!Redo(edited, low, Mesh!Around(low))
           relit == Mesh!Bump(lit, lower)
<1>1. store = IF lower = {} THEN edited ELSE relit
  BY DEF Mesh!EditBlock
<1>2. IsStore(chunks) /\ \A d \in DOMAIN chunks : chunks[d].revision \in Nat
  BY DEF MeshInv, MeshTypes, IsStore, MeshChunk
<1>3. /\ IsStore(redone) /\ DOMAIN redone = DOMAIN chunks
      /\ \A d \in DOMAIN chunks : /\ redone[d].revision = chunks[d].revision
                                  /\ d # c => redone[d].shown = chunks[d].shown
  BY <1>2, RedoShows
<1> HIDE DEF redone
<1>4. /\ IsStore(edited) /\ DOMAIN edited = DOMAIN redone
      /\ \A d \in DOMAIN redone :
           /\ edited[d].shown = redone[d].shown
           /\ edited[d].revision
                = IF d \in {c} \cup touched THEN redone[d].revision + 1 ELSE redone[d].revision
  BY <1>3, BumpCounts
<1> HIDE DEF edited
<1>5. CASE lower = {}
  <2>1. store = edited
    BY <1>1, <1>5
  <2> HIDE DEF store
  <2>2. \A d \in DOMAIN chunks :
           /\ store[d].revision = chunks[d].revision \/ store[d].revision > chunks[d].revision
           /\ d \notin {c} \cup lower => store[d].shown = chunks[d].shown
    BY <1>2, <1>3, <1>4, <1>5, <2>1
  <2> QED BY <1>3, <1>4, <2>1, <2>2 DEF store
<1>6. CASE lower # {}
  <2>1. low \in lower /\ low \in DOMAIN edited
    BY <1>3, <1>4, <1>6
  <2> HIDE DEF low
  <2>2. /\ IsStore(lit) /\ DOMAIN lit = DOMAIN edited
        /\ \A d \in DOMAIN edited : /\ lit[d].revision = edited[d].revision
                                    /\ d # low => lit[d].shown = edited[d].shown
    BY <1>4, <2>1, RedoShows
  <2> HIDE DEF lit
  <2>3. /\ IsStore(relit) /\ DOMAIN relit = DOMAIN lit
        /\ \A d \in DOMAIN lit :
             /\ relit[d].shown = lit[d].shown
             /\ relit[d].revision
                  = IF d \in lower THEN lit[d].revision + 1 ELSE lit[d].revision
    BY <2>2, BumpCounts
  <2>4. store = relit
    BY <1>1, <1>6
  <2> HIDE DEF store, relit
  <2>5. \A d \in DOMAIN chunks :
           /\ store[d].revision = chunks[d].revision \/ store[d].revision > chunks[d].revision
           /\ d \notin {c} \cup lower => store[d].shown = chunks[d].shown
    BY <1>2, <1>3, <1>4, <2>1, <2>2, <2>3, <2>4
  <2> QED BY <1>3, <1>4, <2>2, <2>3, <2>4, <2>5 DEF store
<1> QED BY <1>5, <1>6

LEMMA EditKeeps ==
  ASSUME MeshInv, NEW c \in MeshCoords, NEW cs, NEW touched,
         NEW lower \in SUBSET (Mesh!Below(c) \cap Mesh!Loaded),
         Mesh!PushBlockEdit(c, cs, touched, lower)
  PROVE  MeshInv'
<1> DEFINE store == Mesh!EditBlock(chunks, c, cs, touched, lower)
           owed == expected \cup {c} \cup lower
<1>1. c \in DOMAIN chunks /\ lower \subseteq DOMAIN chunks /\ Mesh!Change(store, owed, {})
  BY DEF Mesh!PushBlockEdit, Mesh!Loaded
<1>2. /\ IsStore(store) /\ DOMAIN store = DOMAIN chunks
      /\ \A d \in DOMAIN chunks :
           /\ store[d].revision = chunks[d].revision \/ store[d].revision > chunks[d].revision
           /\ d \notin {c} \cup lower => store[d].shown = chunks[d].shown
  BY <1>1, EditShows
<1>3. expected \subseteq DOMAIN chunks /\ DOMAIN chunks \subseteq MeshCoords
  BY DEF MeshInv, MeshTypes, IsStore
<1>4. owed \subseteq DOMAIN store
  BY <1>1, <1>2, <1>3
<1> HIDE DEF store
<1>5. ASSUME NEW d \in DOMAIN store
      PROVE  Honest(store, owed, {}, d)
  <2>1. CASE store[d].revision > chunks[d].revision
    BY <1>2, <2>1 DEF Honest, MeshInv, RevisionsGrow
  <2>2. CASE store[d].revision = chunks[d].revision /\ ({c} \cup lower) \cap Mesh!Around(d) # {}
    <3>1. Mesh!Around(d) \cap owed # {}
      BY <2>2
    <3> QED BY <1>2, <2>2, <3>1 DEF Honest
  <2>3. CASE store[d].revision = chunks[d].revision /\ ({c} \cup lower) \cap Mesh!Around(d) = {}
    BY <1>2, <2>3, FarIsHonest
  <2> QED BY <1>2, <2>1, <2>2, <2>3
<1> HIDE DEF owed
<1> QED BY <1>1, <1>2, <1>4, <1>5, ChangeKeeps

\* A step that leaves the store keeps what fits it, wherever the meshes go.
LEMMA StillFits ==
  ASSUME UNCHANGED Mesh!storeVars,
         \A i \in DOMAIN jobs' : JobFits(jobs'[i]),
         \A job \in working' : JobFits(job),
         \A i \in DOMAIN meshed' : JobFits(meshed'[i]),
         \A i \in DOMAIN uploads' : JobFits(uploads'[i]),
         \A c \in DOMAIN gpu' : Fits(c, gpu'[c].revision, gpu'[c].mesh)
  PROVE  MeshesFit'
<1>1. UNCHANGED <<chunks, expected, highest, again>>
  BY DEF Mesh!storeVars
<1>2. \A c : Mesh!Seen(c)' = Mesh!Seen(c) /\ Mesh!Around(c)' = Mesh!Around(c)
  BY <1>1 DEF Mesh!Seen, Mesh!Loaded, Mesh!Around, Mesh!Air
<1>3. (\A i \in DOMAIN jobs : JobFits(jobs[i]))'
  BY <1>1, <1>2 DEF JobFits, Fits
<1>4. (\A job \in working : JobFits(job))'
  BY <1>1, <1>2 DEF JobFits, Fits
<1>5. (\A i \in DOMAIN meshed : JobFits(meshed[i]))'
  BY <1>1, <1>2 DEF JobFits, Fits
<1>6. (\A i \in DOMAIN uploads : JobFits(uploads[i]))'
  BY <1>1, <1>2 DEF JobFits, Fits
<1>7. (\A c \in DOMAIN gpu : Fits(c, gpu[c].revision, gpu[c].mesh))'
  BY <1>1, <1>2 DEF Fits
<1> QED BY <1>3, <1>4, <1>5, <1>6, <1>7 DEF MeshesFit

\* What is at the head and in the tail of a queue is what was in it.
LEMMA QueueParts ==
  ASSUME NEW s \in Seq(MeshJobs), s # <<>>
  PROVE  /\ Head(s) = s[1] /\ Head(s) \in MeshJobs /\ 1 \in DOMAIN s
         /\ Tail(s) \in Seq(MeshJobs)
         /\ \A i \in DOMAIN Tail(s) : i + 1 \in DOMAIN s /\ Tail(s)[i] = s[i + 1]
<1>1. Len(s) \in Nat \ {0} /\ DOMAIN s = 1 .. Len(s)
  BY EmptySeq
<1> QED BY <1>1, HeadTailProperties

LEMMA TakeKeeps ==
  ASSUME MeshInv, Mesh!Take
  PROVE  MeshInv'
<1>1. /\ jobs # <<>> /\ Cardinality(working) < Workers
      /\ working' = working \cup {Head(jobs)} /\ jobs' = Tail(jobs)
      /\ UNCHANGED <<meshed, gpu, uploads, waiting, inSync, chunks, expected, highest, again,
                    changes>>
      /\ UNCHANGED Mesh!storeVars
  BY SameCardinality DEF Mesh!Take, Mesh!drawVars, Mesh!storeVars
<1>2. /\ jobs \in Seq(MeshJobs) /\ working \subseteq MeshJobs /\ IsFiniteSet(working)
      /\ Cardinality(working) \in Nat
  BY FS_CardinalityType DEF MeshInv, MeshTypes
<1>3. /\ Head(jobs) = jobs[1] /\ Head(jobs) \in MeshJobs /\ 1 \in DOMAIN jobs
      /\ Tail(jobs) \in Seq(MeshJobs)
      /\ \A i \in DOMAIN Tail(jobs) : i + 1 \in DOMAIN jobs /\ Tail(jobs)[i] = jobs[i + 1]
  BY <1>1, <1>2, QueueParts
<1>4. IsFiniteSet(working') /\ Cardinality(working') <= Workers
  <2>1. /\ IsFiniteSet(working')
        /\ Cardinality(working') = Cardinality(working)
             \/ Cardinality(working') = Cardinality(working) + 1
    BY <1>1, <1>2, FS_AddElement
  <2> QED BY <1>1, <1>2, <2>1, ClientConstants
<1>5. MeshTypes'
  <2>1. jobs' \in Seq(MeshJobs) /\ working' \subseteq MeshJobs
    BY <1>1, <1>2, <1>3
  <2> QED BY <1>1, <1>4, <2>1 DEF MeshInv, MeshTypes, IsStore, MeshChunk, Mesh!Around
<1>6. RevisionsGrow'
  BY <1>1 DEF MeshInv, RevisionsGrow
<1>7. MeshesFit'
  <2>1. /\ \A i \in DOMAIN jobs' : JobFits(jobs'[i])
        /\ \A job \in working' : JobFits(job)
    BY <1>1, <1>3 DEF MeshInv, MeshesFit
  <2> QED BY <1>1, <2>1, StillFits DEF MeshInv, MeshesFit
<1> QED BY <1>5, <1>6, <1>7 DEF MeshInv

LEMMA FinishKeeps ==
  ASSUME MeshInv, NEW job \in working, Mesh!Finish(job)
  PROVE  MeshInv'
<1>1. /\ working' = working \ {job} /\ meshed' = Append(meshed, job)
      /\ UNCHANGED <<jobs, gpu, uploads, waiting, inSync, chunks, expected, highest, again,
                    changes>>
      /\ UNCHANGED Mesh!storeVars
  BY DEF Mesh!Finish, Mesh!drawVars, Mesh!storeVars
<1>2. /\ meshed \in Seq(MeshJobs) /\ working \subseteq MeshJobs /\ IsFiniteSet(working)
      /\ Cardinality(working) \in Nat /\ Cardinality(working) <= Workers /\ Workers \in Nat
  BY FS_CardinalityType, ClientConstants DEF MeshInv, MeshTypes
<1>3. /\ meshed' \in Seq(MeshJobs)
      /\ \A i \in DOMAIN meshed' : meshed'[i] = job \/ (i \in DOMAIN meshed /\ meshed'[i] = meshed[i])
  <2>1. job \in MeshJobs
    BY <1>2
  <2> HIDE DEF MeshJobs
  <2>2. /\ meshed' \in Seq(MeshJobs) /\ Len(meshed') = Len(meshed) + 1
        /\ \A i \in 1 .. Len(meshed) : meshed'[i] = meshed[i]
        /\ meshed'[Len(meshed) + 1] = job
    BY <1>1, <1>2, <2>1, AppendProperties
  <2>3. /\ DOMAIN meshed = 1 .. Len(meshed) /\ Len(meshed) \in Nat
        /\ DOMAIN meshed' = 1 .. Len(meshed')
    BY <1>2, <2>2
  <2> QED BY <2>2, <2>3
<1>4. IsFiniteSet(working') /\ Cardinality(working') <= Workers
  <2>1. IsFiniteSet(working') /\ Cardinality(working') = Cardinality(working) - 1
    BY <1>1, <1>2, FS_RemoveElement
  <2> QED BY <1>2, <2>1
<1>5. MeshTypes'
  <2>1. meshed' \in Seq(MeshJobs) /\ working' \subseteq MeshJobs
    BY <1>1, <1>2, <1>3
  <2> QED BY <1>1, <1>4, <2>1 DEF MeshInv, MeshTypes, IsStore, MeshChunk, Mesh!Around
<1>6. RevisionsGrow'
  BY <1>1 DEF MeshInv, RevisionsGrow
<1>7. MeshesFit'
  <2>1. /\ \A i \in DOMAIN meshed' : JobFits(meshed'[i])
        /\ \A other \in working' : JobFits(other)
    BY <1>1, <1>3 DEF MeshInv, MeshesFit
  <2> QED BY <1>1, <2>1, StillFits DEF MeshInv, MeshesFit
<1> QED BY <1>5, <1>6, <1>7 DEF MeshInv

\* Some natural numbers have a least one.
LEMMA LeastOf ==
  ASSUME NEW S \in SUBSET Nat, S # {}
  PROVE  \E i \in S : \A j \in S : i <= j
<1> DEFINE R == OpToRel(<, Nat)
<1>1. PICK i \in S : \A j \in S : ~(<<j, i>> \in R)
  <2>1. IsWellFoundedOn(R, Nat)
    BY NatLessThanWellFounded
  <2> HIDE DEF R
  <2> QED BY <2>1, WFMin
<1>2. ASSUME NEW j \in S, ~(i <= j) PROVE FALSE
  <2>1. i \in Nat /\ j \in Nat /\ j < i
    BY <1>2
  <2>2. <<j, i>> \in R
    BY <2>1 DEF OpToRel
  <2> QED BY <1>1, <2>2
<1> QED BY <1>2

\* Some positions have a first and a last one.
LEMMA FirstAndLast ==
  ASSUME NEW n \in Nat, NEW S \in SUBSET (1 .. n), S # {}
  PROVE  /\ Mesh!Max(S) \in S
         /\ \E i \in S : \A j \in S : i <= j
<1>1. \E i \in S : \A j \in S : i <= j
  <2>1. S \in SUBSET Nat
    OBVIOUS
  <2> QED BY <2>1, LeastOf
<1>2. PICK i \in S : \A j \in S : i >= j
  <2> DEFINE T == {n - k : k \in S}
  <2>1. T \in SUBSET Nat /\ T # {}
    <3>1. \A k \in S : n - k \in Nat
      OBVIOUS
    <3>2. PICK k \in S : TRUE
      OBVIOUS
    <3> QED BY <3>1, <3>2
  <2> HIDE DEF T
  <2>2. PICK t \in T : \A u \in T : t <= u
    BY <2>1, LeastOf
  <2>3. PICK i \in S : t = n - i
    BY DEF T
  <2>4. \A j \in S : n - i <= n - j
    BY <2>2, <2>3 DEF T
  <2> QED BY <2>4
<1>3. Mesh!Max(S) \in S
  BY <1>2 DEF Mesh!Max
<1> QED BY <1>1, <1>3

\* The first results of use that a frame may upload are some, if there are too many for it, and
\* what is looked at ends with one of them.
LEMMA SomeAreTaken ==
  ASSUME NEW n \in Nat, NEW use \in SUBSET (1 .. n), NEW taken,
         taken = {i \in use : Mesh!Cardinality({j \in use : j < i}) < UploadBudget},
         NEW looked,
         looked = IF Mesh!Cardinality(use) < UploadBudget THEN n ELSE Mesh!Max(taken)
  PROVE  looked \in 0 .. n
<1>1. CASE Mesh!Cardinality(use) < UploadBudget
  BY <1>1
<1>2. CASE ~(Mesh!Cardinality(use) < UploadBudget)
  <2>1. use # {}
    <3>1. Cardinality({}) = 0
      BY FS_EmptySet
    <3> QED BY <1>2, <3>1, SameCardinality, ClientConstants
  <2>2. PICK first \in use : \A j \in use : first <= j
    BY <2>1, FirstAndLast
  <2>3. {j \in use : j < first} = {}
    <3>1. \A j \in use : ~(j < first)
      BY <2>2
    <3> QED BY <3>1
  <2>4. first \in taken
    <3>1. Cardinality({}) = 0
      BY FS_EmptySet
    <3>2. Mesh!Cardinality({j \in use : j < first}) < UploadBudget
      BY <2>3, <3>1, SameCardinality, ClientConstants
    <3> QED BY <3>2
  <2>5. taken \in SUBSET (1 .. n) /\ taken # {}
    BY <2>4
  <2>6. Mesh!Max(taken) \in taken
    BY <2>5, FirstAndLast
  <2> QED BY <1>2, <2>5, <2>6
<1> QED BY <1>1, <1>2

LEMMA UploadKeeps ==
  ASSUME MeshInv, Mesh!SyncUpload
  PROVE  MeshInv'
<1> DEFINE results == uploads \o meshed
           n == Len(results)
           use == {i \in DOMAIN results : Mesh!Current(results[i])}
           taken == {i \in use : Mesh!Cardinality({j \in use : j < i}) < UploadBudget}
           looked == IF Mesh!Cardinality(use) < UploadBudget THEN n ELSE Mesh!Max(taken)
           coords(is) == {results[i].coord : i \in is}
           latest(c) == results[Mesh!Max({i \in taken : results[i].coord = c})]
           kept == (DOMAIN gpu \cap DOMAIN chunks) \cup coords(taken)
<1>1. /\ gpu' = [c \in kept |-> IF c \in coords(taken)
                                THEN [revision |-> latest(c).revision, mesh |-> latest(c).mesh]
                                ELSE gpu[c]]
      /\ uploads' = SubSeq(results, looked + 1, n)
      /\ waiting' = (waiting \cup coords(DOMAIN results)) \ coords(1 .. looked)
      /\ meshed' = <<>> /\ inSync' = TRUE
      /\ UNCHANGED <<jobs, working, chunks, expected, highest, again,
                    changes>>
      /\ UNCHANGED Mesh!storeVars
  BY DEF Mesh!SyncUpload, Mesh!storeVars, Mesh!Loaded
<1>2. /\ uploads \in Seq(MeshJobs) /\ meshed \in Seq(MeshJobs) /\ waiting \subseteq MeshCoords
      /\ DOMAIN gpu \subseteq MeshCoords
      /\ \A c \in DOMAIN gpu : gpu[c] \in [revision : Nat, mesh : Meshes]
  BY DEF MeshInv, MeshTypes
<1>3. /\ results \in Seq(MeshJobs) /\ n \in Nat /\ DOMAIN results = 1 .. n
      /\ \A i \in 1 .. n : results[i] \in MeshJobs
  <2> HIDE DEF MeshJobs
  <2> QED BY <1>2, ConcatProperties
<1>4. \A i \in 1 .. n : JobFits(results[i])
  <2>1. /\ DOMAIN uploads = 1 .. Len(uploads) /\ DOMAIN meshed = 1 .. Len(meshed)
        /\ Len(uploads) \in Nat /\ Len(meshed) \in Nat
    BY <1>2
  <2>2. /\ n = Len(uploads) + Len(meshed)
        /\ \A i \in 1 .. Len(uploads) + Len(meshed) :
             results[i] = IF i <= Len(uploads) THEN uploads[i] ELSE meshed[i - Len(uploads)]
    BY <1>2, ConcatProperties
  <2> HIDE DEF results
  <2>3. ASSUME NEW i \in 1 .. n
        PROVE  JobFits(results[i])
    <3>1. CASE i <= Len(uploads)
      <4>1. i \in DOMAIN uploads /\ results[i] = uploads[i]
        BY <2>1, <2>2, <3>1
      <4> QED BY <4>1 DEF MeshInv, MeshesFit
    <3>2. CASE ~(i <= Len(uploads))
      <4>1. i - Len(uploads) \in DOMAIN meshed /\ results[i] = meshed[i - Len(uploads)]
        BY <2>1, <2>2, <3>2
      <4> QED BY <4>1 DEF MeshInv, MeshesFit
    <3> QED BY <3>1, <3>2
  <2> QED BY <2>3
<1> HIDE DEF results
<1>5. use \in SUBSET (1 .. n) /\ taken \in SUBSET (1 .. n)
  BY <1>3
<1> HIDE DEF use
<1>6. looked \in 0 .. n
  BY <1>3, <1>5, SomeAreTaken
<1> HIDE DEF looked, taken, n
<1>7. /\ uploads' \in Seq(MeshJobs)
      /\ \A i \in DOMAIN uploads' : JobFits(uploads'[i])
  <2>1. \A i \in looked + 1 .. n : i \in 1 .. n /\ results[i] \in MeshJobs
    BY <1>3, <1>6
  <2>2. looked + 1 \in Int /\ n \in Int
    BY <1>3, <1>6
  <2>3. /\ uploads' \in Seq(MeshJobs)
        /\ Len(uploads') = IF looked + 1 <= n THEN n - (looked + 1) + 1 ELSE 0
        /\ \A i \in 1 .. n - (looked + 1) + 1 : uploads'[i] = results[(looked + 1) + i - 1]
    <3> HIDE DEF MeshJobs
    <3> QED BY <1>1, <2>1, <2>2, SubSeqProperties
  <2>4. DOMAIN uploads' = 1 .. Len(uploads')
    BY <2>3
  <2>5. ASSUME NEW i \in DOMAIN uploads'
        PROVE  uploads'[i] = results[looked + i] /\ looked + i \in 1 .. n
    <3>1. i \in 1 .. n - (looked + 1) + 1 /\ (looked + 1) + i - 1 = looked + i
      BY <1>3, <1>6, <2>3, <2>4
    <3>2. uploads'[i] = results[(looked + 1) + i - 1]
      BY <2>3, <3>1
    <3>3. looked + i \in 1 .. n
      BY <1>3, <1>6, <3>1
    <3> QED BY <3>1, <3>2, <3>3
  <2> QED BY <1>4, <2>3, <2>5
<1>8. \A i \in 1 .. n : results[i].coord \in MeshCoords
  BY <1>3 DEF MeshJobs
<1>9. waiting' \subseteq MeshCoords
  BY <1>1, <1>2, <1>3, <1>8
<1>10. ASSUME NEW c \in coords(taken)
       PROVE  /\ c \in MeshCoords /\ latest(c) \in MeshJobs /\ JobFits(latest(c))
              /\ latest(c).coord = c
  <2> DEFINE S == {i \in taken : results[i].coord = c}
  <2>1. S \in SUBSET (1 .. n) /\ S # {}
    BY <1>5
  <2>2. Mesh!Max(S) \in S
    BY <1>3, <2>1, FirstAndLast
  <2>3. latest(c) = results[Mesh!Max(S)]
    OBVIOUS
  <2> QED BY <1>3, <1>4, <1>8, <2>1, <2>2, <2>3
<1> HIDE DEF latest
<1>11. ASSUME NEW c \in DOMAIN gpu'
       PROVE  /\ c \in MeshCoords /\ gpu'[c] \in [revision : Nat, mesh : Meshes]
              /\ Fits(c, gpu'[c].revision, gpu'[c].mesh)
  <2>1. CASE c \in coords(taken)
    <3>1. gpu'[c] = [revision |-> latest(c).revision, mesh |-> latest(c).mesh]
      BY <1>1, <2>1
    <3>2. latest(c).revision \in Nat /\ latest(c).mesh \in Meshes
      BY <1>10, <2>1 DEF MeshJobs
    <3>3. Fits(c, latest(c).revision, latest(c).mesh)
      BY <1>10, <2>1 DEF JobFits
    <3> QED BY <1>10, <2>1, <3>1, <3>2, <3>3
  <2>2. CASE c \notin coords(taken)
    <3>1. c \in DOMAIN gpu /\ gpu'[c] = gpu[c]
      BY <1>1, <2>2
    <3> QED BY <1>2, <3>1 DEF MeshInv, MeshesFit
  <2> QED BY <2>1, <2>2
<1>12. MeshTypes'
  <2>1. meshed' \in Seq(MeshJobs)
    BY <1>1
  <2>2. DOMAIN gpu' \subseteq MeshCoords /\ inSync' \in BOOLEAN
    BY <1>1, <1>11
  <2> QED BY <1>1, <1>7, <1>9, <1>11, <2>1, <2>2
        DEF MeshInv, MeshTypes, IsStore, MeshChunk, Mesh!Around
<1>13. RevisionsGrow'
  BY <1>1 DEF MeshInv, RevisionsGrow
<1>14. MeshesFit'
  <2>1. DOMAIN meshed' = {}
    BY <1>1
  <2>2. \A c \in DOMAIN gpu' : Fits(c, gpu'[c].revision, gpu'[c].mesh)
    BY <1>11
  <2>3. /\ \A i \in DOMAIN jobs' : JobFits(jobs'[i])
        /\ \A job \in working' : JobFits(job)
    BY <1>1 DEF MeshInv, MeshesFit
  <2> QED BY <1>1, <1>7, <2>1, <2>2, <2>3, StillFits
<1> QED BY <1>12, <1>13, <1>14 DEF MeshInv

\* A job that is made now fits.
LEMMA NewJobFits ==
  ASSUME MeshInv, NEW c \in DOMAIN chunks
  PROVE  Mesh!Job(c) \in MeshJobs /\ JobFits(Mesh!Job(c))
<1>1. Mesh!Job(c) = [coord |-> c, revision |-> chunks[c].revision, mesh |-> Mesh!Seen(c)]
  BY DEF Mesh!Job
<1>2. IsStore(chunks) /\ c \in MeshCoords /\ chunks[c].revision \in Nat
  BY DEF MeshInv, MeshTypes, IsStore, MeshChunk
<1>3. Mesh!Seen(c) \in Meshes
  <2>1. ASSUME NEW d \in Mesh!Around(c), d \in DOMAIN chunks
        PROVE  chunks[d].shown[c] \in {0, 1, 2}
    <3>1. chunks[d] \in MeshChunk(d) /\ d \in MeshCoords
      BY <1>2, <2>1 DEF IsStore
    <3>2. c \in Mesh!Around(d)
      BY <1>2, <2>1, <3>1, AroundIsMutual
    <3>3. chunks[d].shown \in [Mesh!Around(d) -> {0, 1}]
      BY <3>1 DEF MeshChunk
    <3> QED BY <3>2, <3>3
  <2>2. Mesh!Seen(c) \in [Mesh!Around(c) -> {0, 1, 2}]
    BY <2>1 DEF Mesh!Seen, Mesh!Loaded, Mesh!Air
  <2> QED BY <1>2, <2>2 DEF Meshes
<1>4. chunks[c].revision <= highest[c] /\ highest[c] \in Nat
  BY <1>2 DEF MeshInv, MeshTypes, RevisionsGrow
<1>5. Fits(c, chunks[c].revision, Mesh!Seen(c))
  BY <1>4 DEF Fits
<1> QED BY <1>1, <1>2, <1>3, <1>5 DEF MeshJobs, JobFits

LEMMA SubmitKeeps ==
  ASSUME MeshInv, Mesh!SyncSubmit
  PROVE  MeshInv'
<1> DEFINE due == {c \in DOMAIN chunks : Mesh!Outdated(c)} \ (Mesh!InFlightOrQueued \cup waiting)
<1>1. /\ inSync' = FALSE
      /\ UNCHANGED <<working, meshed, gpu, uploads, waiting, chunks, expected, highest, again,
                    changes>>
      /\ UNCHANGED Mesh!storeVars
  BY DEF Mesh!SyncSubmit, Mesh!storeVars
<1>2. PICK cs \in Mesh!kSubset(Mesh!Min({SubmitBudget, Mesh!Cardinality(due)}), due) :
        \E order \in Mesh!SetToSeqs(cs) :
          jobs' = jobs \o [i \in DOMAIN order |-> Mesh!Job(order[i])]
  BY DEF Mesh!SyncSubmit, Mesh!Loaded
<1> PICK order \in Mesh!SetToSeqs(cs) :
           jobs' = jobs \o [i \in DOMAIN order |-> Mesh!Job(order[i])]
  BY <1>2
<1>3. cs \in SUBSET due
  BY DEF Mesh!kSubset
<1>4. cs \subseteq DOMAIN chunks /\ IsFiniteSet(cs)
  <2>1. cs \subseteq DOMAIN chunks
    BY <1>3
  <2> QED BY <2>1, FS_Subset DEF MeshInv, MeshTypes, IsStore
<1> HIDE DEF due
<1> DEFINE k == Cardinality(cs)
           new == [i \in DOMAIN order |-> Mesh!Job(order[i])]
<1>5. k \in Nat
  BY <1>4, FS_CardinalityType
<1>6. order \in [1 .. k -> cs]
  BY SameCardinality DEF Mesh!SetToSeqs
<1> HIDE DEF k
<1>7. /\ DOMAIN new = 1 .. k
      /\ \A i \in 1 .. k : new[i] \in MeshJobs /\ JobFits(new[i])
  <2>1. DOMAIN new = 1 .. k /\ \A i \in 1 .. k : new[i] = Mesh!Job(order[i])
    BY <1>6
  <2> HIDE DEF new
  <2>2. \A i \in 1 .. k : order[i] \in DOMAIN chunks
    BY <1>4, <1>6
  <2> QED BY <2>1, <2>2, NewJobFits
<1>8. new \in Seq(MeshJobs) /\ Len(new) = k
  <2>1. new \in [1 .. k -> MeshJobs]
    BY <1>7
  <2> HIDE DEF new, MeshJobs
  <2> QED BY <1>5, <2>1
<1>9. jobs' = jobs \o new
  BY <1>2
<1> HIDE DEF new
<1>10. jobs \in Seq(MeshJobs)
  BY DEF MeshInv, MeshTypes
<1>11. /\ jobs' \in Seq(MeshJobs)
       /\ Len(jobs') = Len(jobs) + k
       /\ \A i \in 1 .. Len(jobs) + k :
            jobs'[i] = IF i <= Len(jobs) THEN jobs[i] ELSE new[i - Len(jobs)]
  <2> HIDE DEF MeshJobs
  <2>1. /\ jobs \o new \in Seq(MeshJobs) /\ Len(jobs \o new) = Len(jobs) + Len(new)
        /\ \A i \in 1 .. Len(jobs) + Len(new) :
             (jobs \o new)[i] = IF i <= Len(jobs) THEN jobs[i] ELSE new[i - Len(jobs)]
    BY <1>8, <1>10, ConcatProperties
  <2> QED BY <1>8, <1>9, <2>1
<1>12. \A i \in DOMAIN jobs' : JobFits(jobs'[i])
  <2>1. /\ DOMAIN jobs = 1 .. Len(jobs) /\ Len(jobs) \in Nat
        /\ DOMAIN jobs' = 1 .. Len(jobs) + k
    BY <1>10, <1>11
  <2>2. ASSUME NEW i \in DOMAIN jobs'
        PROVE  JobFits(jobs'[i])
    <3>1. CASE i <= Len(jobs)
      <4>1. i \in DOMAIN jobs /\ jobs'[i] = jobs[i]
        BY <1>5, <1>11, <2>1, <3>1
      <4> QED BY <4>1 DEF MeshInv, MeshesFit
    <3>2. CASE ~(i <= Len(jobs))
      <4>1. i - Len(jobs) \in 1 .. k /\ jobs'[i] = new[i - Len(jobs)]
        BY <1>5, <1>11, <2>1, <3>2
      <4> QED BY <1>7, <4>1
    <3> QED BY <3>1, <3>2
  <2> QED BY <2>2
<1>13. MeshTypes'
  BY <1>1, <1>11 DEF MeshInv, MeshTypes, IsStore, MeshChunk, Mesh!Around
<1>14. RevisionsGrow'
  BY <1>1 DEF MeshInv, RevisionsGrow
<1>15. MeshesFit'
  BY <1>1, <1>12, StillFits DEF MeshInv, MeshesFit
<1> QED BY <1>13, <1>14, <1>15 DEF MeshInv

\* Every step keeps the invariant.
LEMMA MeshKeeps ==
  ASSUME MeshInv, [Mesh!Next]_meshVars
  PROVE  MeshInv'
<1>1. CASE Mesh!Next
  <2>1. ASSUME NEW c \in MeshCoords, NEW version \in {0, 1}, NEW revision \in 1 .. highest[c] + 1,
               Mesh!ApplyAdd(c, revision, version)
        PROVE  MeshInv'
    BY <2>1, AddKeeps
  <2>2. ASSUME NEW c \in MeshCoords, NEW cs, Mesh!ApplyDelta(c, cs)
        PROVE  MeshInv'
    BY <2>2, DeltaKeeps
  <2>3. ASSUME NEW c \in MeshCoords, Mesh!ApplyRemove(c)
        PROVE  MeshInv'
    BY <2>3, RemoveKeeps
  <2>4. ASSUME NEW c \in MeshCoords, NEW cs, NEW touched,
               NEW lower \in SUBSET (Mesh!Below(c) \cap Mesh!Loaded),
               Mesh!PushBlockEdit(c, cs, touched, lower)
        PROVE  MeshInv'
    BY <2>4, EditKeeps
  <2>5. ASSUME Mesh!Work
        PROVE  MeshInv'
    BY <2>5, TakeKeeps, FinishKeeps DEF Mesh!Work
  <2>6. ASSUME Mesh!Frame
        PROVE  MeshInv'
    BY <2>6, UploadKeeps, SubmitKeeps DEF Mesh!Frame
  <2>7. QED
    BY <1>1, <2>1, <2>2, <2>3, <2>4, <2>5, <2>6 DEF Mesh!Next
<1>2. CASE UNCHANGED meshVars
  <2>1. UNCHANGED <<chunks, gpu, jobs, working, meshed, uploads, waiting, inSync, expected, highest,
                    again, changes>>
    BY <1>2 DEF meshVars
  <2>2. MeshTypes' /\ RevisionsGrow'
    BY <2>1 DEF MeshInv, MeshTypes, RevisionsGrow, IsStore, MeshChunk, Mesh!Around
  <2>3. MeshesFit'
    BY <2>1 DEF MeshInv, MeshesFit, JobFits, Fits, Mesh!Seen, Mesh!Loaded, Mesh!Around, Mesh!Air
  <2> QED BY <2>2, <2>3 DEF MeshInv
<1> QED BY <1>1, <1>2

LEMMA MeshSays == MeshInv => Mesh!TypeOK /\ Mesh!MeshIsCurrent
<1> SUFFICES ASSUME MeshInv PROVE Mesh!TypeOK /\ Mesh!MeshIsCurrent
  OBVIOUS
<1>1. IsStore(chunks) /\ highest \in [MeshCoords -> Nat] /\ RevisionsGrow
  BY DEF MeshInv, MeshTypes
<1>2. ASSUME NEW c \in DOMAIN chunks
      PROVE  chunks[c].revision \in 1 .. highest[c] /\ DOMAIN chunks[c].shown = Mesh!Around(c)
  <2>1. /\ chunks[c].revision \in Nat \ {0} /\ DOMAIN chunks[c].shown = Mesh!Around(c)
        /\ chunks[c].revision <= highest[c] /\ highest[c] \in Nat
    BY <1>1 DEF IsStore, MeshChunk, RevisionsGrow
  <2> QED BY <2>1
<1>3. Mesh!TypeOK
  BY <1>1, <1>2, SameCardinality DEF Mesh!TypeOK, MeshInv, MeshTypes, IsStore, Mesh!Loaded
<1>4. Mesh!MeshIsCurrent
  BY DEF Mesh!MeshIsCurrent, Mesh!Outdated, Mesh!Loaded, MeshInv, MeshesFit, Fits
<1> QED BY <1>3, <1>4

-----------------------------------------------------------------------------
(* PlayerSync: inputs and what comes back *)

Snaps == [entered : SUBSET Entities, updated : SUBSET Entities, removed : SUBSET Entities,
          acked : 0..MaxSeq, has_local : BOOLEAN, local : Seq(0..MaxSeq)]

\* The inputs of a path come in the order they were made, none twice, and up to n.
Rises(path) == \A i, j \in DOMAIN path : i < j => path[i] < path[j]
EndsBy(path, n) == \A i \in DOMAIN path : path[i] <= n

\* An input that a batch up to n goes without: the server has seen it, or it is too old.
GoesWithout(seq, n) == seq <= last_seq \/ seq + kMaxCmds <= n

\* A batch up to its newest input n has all others that it does not go without.
BatchFits(cmds, n) ==
  /\ n \in 0..sent /\ cmds \subseteq 1..n
  /\ \A seq \in 1..n : seq \in cmds \/ GoesWithout(seq, n)

SnapFits(snap) ==
  /\ snap \in Snaps /\ snap.acked <= last_seq
  /\ Rises(snap.local) /\ EndsBy(snap.local, snap.acked)

PlayerTypes ==
  /\ position \in Seq(0..MaxSeq) /\ predicted \in Seq(0..MaxSeq)
  /\ sent \in 0..MaxSeq /\ last_seq \in 0..sent
  /\ input_driven \in BOOLEAN
  /\ last_visible \subseteq Entities /\ shown \subseteq Entities
  /\ seen \subseteq 1..last_seq
  /\ history \subseteq 1..sent /\ Cardinality(history) <= kMaxCmds
  /\ inputs \in Seq(SUBSET (1..MaxSeq)) /\ snapshots \in Seq(Snaps)

PathsRise ==
  /\ Rises(position) /\ EndsBy(position, last_seq)
  /\ Rises(predicted) /\ EndsBy(predicted, sent)

LanesFit ==
  /\ BatchFits(history, sent)
  /\ \A i \in DOMAIN inputs : /\ \E n \in inputs[i] : BatchFits(inputs[i], n)
                              /\ Cardinality(inputs[i]) <= kMaxCmds
  /\ \A i \in DOMAIN snapshots : SnapFits(snapshots[i])

PlayerInv == PlayerTypes /\ PathsRise /\ LanesFit /\ Player!NoInputSkipped

LEMMA PlayerConstants == kMaxCmds \in Nat \ {0} /\ MaxSeq \in Nat
BY ClientConstants

\* Cardinality in the instance is that of this module.
LEMMA SameCount == \A S : Player!Cardinality(S) = Cardinality(S)
BY DEF Player!Cardinality, Cardinality

\* Some inputs have a newest one.
LEMMA NewestInput ==
  ASSUME NEW n \in Nat, NEW S \in SUBSET (1..n), S # {}
  PROVE  Player!Max(S) \in S /\ \A x \in S : x <= Player!Max(S)
<1>1. \E i \in S : \A j \in S : i >= j
  <2> DEFINE T == {k \in Nat : n - k \in S}
  <2>1. T \in SUBSET Nat /\ T # {}
    <3>1. PICK s \in S : TRUE
      OBVIOUS
    <3>2. n - s \in Nat /\ n - (n - s) = s
      OBVIOUS
    <3> QED BY <3>1, <3>2
  <2>2. PICK k \in T : \A j \in T : k <= j
    <3> HIDE DEF T
    <3> QED BY <2>1, LeastOf
  <2>3. ASSUME NEW j \in S PROVE n - k >= j
    <3>1. n - j \in Nat /\ n - (n - j) = j
      OBVIOUS
    <3>2. n - j \in T
      BY <3>1
    <3> QED BY <2>2, <3>2
  <2> QED BY <2>2, <2>3
<1>2. Player!Max(S) \in S /\ \A y \in S : Player!Max(S) >= y
  BY <1>1 DEF Player!Max
<1> QED BY <1>2

LEMMA OldestInput ==
  ASSUME NEW S \in SUBSET Nat, S # {}
  PROVE  Player!Min(S) \in S /\ \A x \in S : Player!Min(S) <= x
BY LeastOf DEF Player!Min

LEMMA FiniteInputs ==
  ASSUME NEW n \in Nat, NEW S \in SUBSET (1..n)
  PROVE  IsFiniteSet(S) /\ Cardinality(S) \in Nat
<1>1. IsFiniteSet(1..n)
  BY FS_Interval
<1> QED BY <1>1, FS_Subset, FS_CardinalityType

\* Any inputs can be put in order: the newest comes after the others.
LEMMA OrderExists ==
  ASSUME NEW n \in Nat
  PROVE  \A S \in SUBSET (1..n) : \E path \in [1..Cardinality(S) -> S] : Rises(path)
<1> DEFINE Ordered(S) == \E path \in [1..Cardinality(S) -> S] : Rises(path)
           Bad == {k \in Nat : \E S \in SUBSET (1..n) : Cardinality(S) = k /\ ~Ordered(S)}
<1>1. SUFFICES ASSUME Bad # {} PROVE FALSE
  <2>1. ASSUME NEW S \in SUBSET (1..n), ~Ordered(S) PROVE Cardinality(S) \in Bad
    BY <2>1, FiniteInputs
  <2> HIDE DEF Bad
  <2> QED BY <2>1
<1>2. PICK k \in Bad : \A j \in Bad : k <= j
  <2>1. Bad \in SUBSET Nat
    OBVIOUS
  <2> HIDE DEF Bad
  <2> QED BY <1>1, <2>1, LeastOf
<1>3. PICK S \in SUBSET (1..n) : Cardinality(S) = k /\ ~Ordered(S)
  OBVIOUS
<1>4. IsFiniteSet(S) /\ k \in Nat
  BY <1>3, FiniteInputs
<1>5. S # {}
  <2> SUFFICES ASSUME S = {} PROVE Ordered(S)
    BY <1>3
  <2>1. Cardinality(S) = 0
    BY FS_EmptySet
  <2>2. [i \in 1..0 |-> i] \in [1..0 -> S]
    OBVIOUS
  <2>3. Rises([i \in 1..0 |-> i])
    BY DEF Rises
  <2> QED BY <2>1, <2>2, <2>3
<1> DEFINE m == Player!Max(S)
           T == S \ {m}
<1>6. m \in S /\ (\A x \in S : x <= m) /\ m \in 1..n
  BY <1>5, NewestInput
<1> HIDE DEF m
<1>7. T \in SUBSET (1..n) /\ k - 1 \in Nat /\ Cardinality(T) = k - 1
  <2>1. Cardinality(T) = k - 1
    BY <1>3, <1>4, <1>6, FS_RemoveElement
  <2>2. Cardinality(T) \in Nat
    BY FiniteInputs
  <2> QED BY <1>4, <2>1, <2>2
<1>8. Ordered(T)
  <2>1. k - 1 \notin Bad
    <3> HIDE DEF Bad
    <3> QED BY <1>2, <1>4
  <2> HIDE DEF Ordered, T
  <2> QED BY <1>7, <2>1
<1>9. PICK p \in [1..(k - 1) -> T] : Rises(p)
  BY <1>7, <1>8
<1> DEFINE q == [i \in 1..k |-> IF i = k THEN m ELSE p[i]]
<1>10. q \in [1..k -> S]
  BY <1>4, <1>6, <1>7
<1>11. Rises(q)
  <2> SUFFICES ASSUME NEW i \in 1..k, NEW j \in 1..k, i < j PROVE q[i] < q[j]
    BY DEF Rises
  <2>1. i \in 1..(k - 1) /\ q[i] = p[i] /\ p[i] \in T
    BY <1>4, <1>7
  <2>2. CASE j = k
    <3>1. q[j] = m /\ q[i] \in S /\ q[i] # m
      BY <2>1, <2>2
    <3>2. q[i] \in 1..n /\ q[i] <= m
      BY <1>6, <3>1
    <3> QED BY <1>6, <3>1, <3>2
  <2>3. CASE j # k
    <3>1. j \in 1..(k - 1) /\ q[j] = p[j]
      BY <1>4, <2>3
    <3> QED BY <1>9, <2>1, <3>1 DEF Rises
  <2> QED BY <2>2, <2>3
<1> HIDE DEF q
<1> QED BY <1>3, <1>10, <1>11

\* Inputs in order are a path.
LEMMA InOrderRises ==
  ASSUME NEW n \in 0..MaxSeq, NEW S \in SUBSET (1..n)
  PROVE  /\ Player!InOrder(S) \in Seq(0..MaxSeq) /\ Rises(Player!InOrder(S))
         /\ \A i \in DOMAIN Player!InOrder(S) : Player!InOrder(S)[i] \in S
<1> USE PlayerConstants
<1>1. \E path \in [1..Cardinality(S) -> S] : Rises(path)
  BY OrderExists
<1>2. Player!InOrder(S) \in [1..Cardinality(S) -> S] /\ Rises(Player!InOrder(S))
  BY <1>1, SameCount DEF Player!InOrder, Rises
<1>3. Cardinality(S) \in Nat /\ S \subseteq 0..MaxSeq
  <2>1. n \in Nat /\ S \subseteq 0..MaxSeq
    OBVIOUS
  <2> QED BY <2>1, FiniteInputs
<1>4. Player!InOrder(S) \in [1..Cardinality(S) -> 0..MaxSeq]
  BY <1>2, <1>3
<1> QED BY <1>2, <1>3, <1>4

\* Later inputs continue a path.
LEMMA PathsJoin ==
  ASSUME NEW p \in Seq(0..MaxSeq), NEW q \in Seq(0..MaxSeq), NEW k \in Nat, NEW n \in Nat, k <= n,
         Rises(p), Rises(q), EndsBy(p, k), EndsBy(q, n), \A i \in DOMAIN q : k < q[i]
  PROVE  p \o q \in Seq(0..MaxSeq) /\ Rises(p \o q) /\ EndsBy(p \o q, n)
<1> DEFINE s == p \o q
<1>1. /\ s \in Seq(0..MaxSeq) /\ Len(s) = Len(p) + Len(q)
      /\ DOMAIN s = 1..(Len(p) + Len(q)) /\ Len(p) \in Nat /\ Len(q) \in Nat
      /\ DOMAIN p = 1..Len(p) /\ DOMAIN q = 1..Len(q)
      /\ \A i \in DOMAIN s : s[i] = IF i <= Len(p) THEN p[i] ELSE q[i - Len(p)]
  BY ConcatProperties
<1> HIDE DEF s
<1>2. ASSUME NEW i \in DOMAIN s
      PROVE  \/ i \in DOMAIN p /\ s[i] = p[i] /\ s[i] <= k /\ s[i] \in Nat
             \/ /\ i > Len(p) /\ i - Len(p) \in DOMAIN q /\ s[i] = q[i - Len(p)]
                /\ k < s[i] /\ s[i] <= n /\ s[i] \in Nat
  <2>1. s[i] \in 0..MaxSeq
    BY <1>1, ElementOfSeq
  <2>2. CASE i <= Len(p)
    BY <1>1, <2>1, <2>2 DEF EndsBy
  <2>3. CASE i > Len(p)
    <3>1. i - Len(p) \in DOMAIN q /\ s[i] = q[i - Len(p)]
      BY <1>1, <2>3
    <3> QED BY <2>1, <2>3, <3>1 DEF EndsBy
  <2> QED BY <1>1, <2>2, <2>3
<1>3. Rises(s)
  <2> SUFFICES ASSUME NEW i \in DOMAIN s, NEW j \in DOMAIN s, i < j PROVE s[i] < s[j]
    BY DEF Rises
  <2>1. CASE j \in DOMAIN p /\ s[j] = p[j]
    <3>1. i \in DOMAIN p /\ s[i] = p[i]
      BY <1>1, <2>1
    <3> QED BY <2>1, <3>1 DEF Rises
  <2>2. CASE j > Len(p) /\ i \in DOMAIN p
    <3>1. s[i] <= k /\ s[i] \in Nat
      BY <1>1, <1>2, <2>2
    <3>2. k < s[j] /\ s[j] \in Nat
      BY <1>1, <1>2, <2>2
    <3> QED BY <3>1, <3>2
  <2>3. CASE i > Len(p) /\ j > Len(p)
    <3>1. /\ i - Len(p) \in DOMAIN q /\ j - Len(p) \in DOMAIN q /\ i - Len(p) < j - Len(p)
          /\ s[i] = q[i - Len(p)] /\ s[j] = q[j - Len(p)]
      BY <1>1, <2>3
    <3> QED BY <3>1 DEF Rises
  <2> QED BY <1>1, <2>1, <2>2, <2>3
<1>4. EndsBy(s, n)
  BY <1>2 DEF EndsBy
<1> QED BY <1>1, <1>3, <1>4 DEF s

\* What stays on a lane was on it.
LEMMA Remaining ==
  ASSUME NEW S, NEW lane \in Seq(S), NEW i \in DOMAIN lane
  PROVE  /\ Player!RemoveAt(lane, i) \in Seq(S)
         /\ \A j \in DOMAIN Player!RemoveAt(lane, i) :
              \E k \in DOMAIN lane : Player!RemoveAt(lane, i)[j] = lane[k]
<1> DEFINE a == SubSeq(lane, 1, i - 1)
           b == SubSeq(lane, i + 1, Len(lane))
<1>1. /\ Len(lane) \in Nat /\ DOMAIN lane = 1..Len(lane) /\ i \in Int /\ i - 1 \in Int
      /\ i + 1 \in Int /\ Len(lane) \in Int
  OBVIOUS
<1>2. /\ a \in Seq(S) /\ Len(a) = i - 1 /\ \A j \in 1..(i - 1) : a[j] = lane[j]
  <2>1. \A j \in 1..(i - 1) : lane[j] \in S
    BY <1>1
  <2>2. /\ a \in Seq(S) /\ Len(a) = IF 1 <= i - 1 THEN i - 1 - 1 + 1 ELSE 0
        /\ \A j \in 1..(i - 1 - 1 + 1) : a[j] = lane[1 + j - 1]
    BY <1>1, <2>1, SubSeqProperties
  <2> HIDE DEF a
  <2> QED BY <1>1, <2>2
<1>3. /\ b \in Seq(S) /\ Len(b) = Len(lane) - i
      /\ \A j \in 1..(Len(lane) - i) : b[j] = lane[i + j]
  <2>1. \A j \in (i + 1)..Len(lane) : lane[j] \in S
    BY <1>1
  <2>2. /\ b \in Seq(S)
        /\ Len(b) = IF i + 1 <= Len(lane) THEN Len(lane) - (i + 1) + 1 ELSE 0
        /\ \A j \in 1..(Len(lane) - (i + 1) + 1) : b[j] = lane[i + 1 + j - 1]
    BY <1>1, <2>1, SubSeqProperties
  <2> HIDE DEF b
  <2>3. Len(b) = Len(lane) - i
    <3>1. i <= Len(lane)
      BY <1>1
    <3> QED BY <1>1, <2>2, <3>1
  <2>4. (Len(lane) - (i + 1)) + 1 = Len(lane) - i
    BY <1>1
  <2>5. ASSUME NEW j \in 1..(Len(lane) - i) PROVE b[j] = lane[i + j]
    <3>1. j \in 1..(Len(lane) - (i + 1) + 1) /\ (i + 1 + j) - 1 = i + j
      BY <1>1, <2>4
    <3>2. b[j] = lane[(i + 1 + j) - 1]
      BY <2>2, <3>1
    <3> QED BY <3>1, <3>2
  <2> QED BY <2>2, <2>3, <2>5
<1>4. Player!RemoveAt(lane, i) = a \o b
  BY DEF Player!RemoveAt
<1> HIDE DEF a, b
<1>5. /\ a \o b \in Seq(S) /\ DOMAIN (a \o b) = 1..(Len(a) + Len(b))
      /\ \A j \in DOMAIN (a \o b) : (a \o b)[j] = IF j <= Len(a) THEN a[j] ELSE b[j - Len(a)]
  <2>1. /\ a \o b \in Seq(S) /\ Len(a \o b) = Len(a) + Len(b)
        /\ \A j \in 1..(Len(a) + Len(b)) :
             (a \o b)[j] = IF j <= Len(a) THEN a[j] ELSE b[j - Len(a)]
    BY <1>2, <1>3, ConcatProperties
  <2>2. DOMAIN (a \o b) = 1..Len(a \o b)
    BY <2>1
  <2> QED BY <2>1, <2>2
<1>6. ASSUME NEW j \in DOMAIN (a \o b) PROVE \E k \in DOMAIN lane : (a \o b)[j] = lane[k]
  <2>1. CASE j <= Len(a)
    BY <1>1, <1>2, <1>3, <1>5, <2>1
  <2>2. CASE j > Len(a)
    <3>1. j - Len(a) \in 1..(Len(lane) - i) /\ i + (j - Len(a)) \in DOMAIN lane
      BY <1>1, <1>2, <1>3, <1>5, <2>2, SMTT(30)
    <3>2. (a \o b)[j] = b[j - Len(a)]
      BY <1>2, <1>3, <1>5, <2>2, SMTT(30)
    <3>3. b[j - Len(a)] = lane[i + (j - Len(a))]
      BY <1>3, <3>1
    <3> QED BY <3>1, <3>2, <3>3
  <2> QED BY <1>1, <1>2, <1>5, <2>1, <2>2
<1> QED BY <1>4, <1>5, <1>6

LEMMA OneMore ==
  ASSUME NEW S, NEW lane \in Seq(S), NEW m \in S
  PROVE  /\ Append(lane, m) \in Seq(S)
         /\ \A j \in DOMAIN Append(lane, m) :
              Append(lane, m)[j] = m \/ \E k \in DOMAIN lane : Append(lane, m)[j] = lane[k]
<1>1. /\ Len(lane) \in Nat /\ DOMAIN lane = 1..Len(lane) /\ Append(lane, m) \in Seq(S)
      /\ DOMAIN Append(lane, m) = 1..(Len(lane) + 1)
      /\ \A j \in 1..Len(lane) : Append(lane, m)[j] = lane[j]
      /\ Append(lane, m)[Len(lane) + 1] = m
  OBVIOUS
<1>2. ASSUME NEW j \in DOMAIN Append(lane, m)
      PROVE  j \in 1..Len(lane) \/ j = Len(lane) + 1
  BY <1>1
<1> QED BY <1>1, <1>2

LEMMA PlayerStarts == Player!Init => PlayerInv
<1> SUFFICES ASSUME Player!Init PROVE PlayerInv
  OBVIOUS
<1> USE PlayerConstants DEF Player!Init
<1>1. Cardinality({}) = 0
  BY FS_EmptySet
<1>2. position \in Seq(0..MaxSeq) /\ predicted \in Seq(0..MaxSeq)
  BY DEF Player!Spawn, Player!Origin
<1>3. PlayerTypes
  <2>1. inputs \in Seq(SUBSET (1..MaxSeq)) /\ snapshots \in Seq(Snaps)
    OBVIOUS
  <2>2. sent \in 0..MaxSeq /\ last_seq \in 0..sent /\ Cardinality(history) <= kMaxCmds
    BY <1>1
  <2> QED BY <1>2, <2>1, <2>2 DEF PlayerTypes
<1>4. PathsRise
  BY DEF PathsRise, Rises, EndsBy, Player!Spawn, Player!Origin
<1>5. LanesFit
  BY DEF LanesFit, BatchFits
<1>6. Player!NoInputSkipped
  BY DEF Player!NoInputSkipped
<1> QED BY <1>3, <1>4, <1>5, <1>6 DEF PlayerInv

\* What fits stays fitting when the server has seen more and the client has made more.
LEMMA FitsOn ==
  ASSUME PlayerTypes, PlayerTypes', sent <= sent', last_seq <= last_seq'
  PROVE  /\ \A cmds, n : BatchFits(cmds, n) => BatchFits(cmds, n)'
         /\ \A snap : SnapFits(snap) => SnapFits(snap)'
<1> USE PlayerConstants
<1>1. /\ sent \in Nat /\ sent' \in Nat /\ last_seq \in Nat /\ last_seq' \in Nat
  BY DEF PlayerTypes
<1>2. ASSUME NEW cmds, NEW n, BatchFits(cmds, n) PROVE BatchFits(cmds, n)'
  BY <1>1, <1>2 DEF BatchFits, GoesWithout
<1>3. ASSUME NEW snap, SnapFits(snap) PROVE SnapFits(snap)'
  <2>1. snap.acked \in Nat
    BY <1>3 DEF SnapFits, Snaps
  <2> QED BY <1>1, <1>3, <2>1 DEF SnapFits
<1> QED BY <1>2, <1>3

\* A new input is the newest, and the oldest goes where there are too many.
LEMMA CapKeeps ==
  ASSUME PlayerInv, sent < MaxSeq, NEW kept, kept = Player!Capped(history \union {sent + 1})
  PROVE  /\ kept \subseteq 1..(sent + 1) /\ sent + 1 \in kept /\ Cardinality(kept) <= kMaxCmds
         /\ \A seq \in 1..(sent + 1) : seq \in kept \/ GoesWithout(seq, sent + 1)
<1> USE PlayerConstants DEF PlayerInv
<1> DEFINE all == history \union {sent + 1}
<1>1. sent \in Nat /\ history \subseteq 1..sent /\ last_seq \in Nat /\ sent + 1 \notin history
  BY DEF PlayerTypes
<1>2. /\ IsFiniteSet(all) /\ Cardinality(all) \in Nat /\ Cardinality(all) <= kMaxCmds + 1
  <2>1. IsFiniteSet(history) /\ Cardinality(history) \in Nat /\ Cardinality(history) <= kMaxCmds
    BY <1>1, FiniteInputs DEF PlayerTypes
  <2> QED BY <1>1, <2>1, FS_AddElement
<1>3. all \in SUBSET (1..(sent + 1)) /\ sent + 1 \in all
  BY <1>1
<1>4. \A seq \in 1..(sent + 1) : seq \in all \/ GoesWithout(seq, sent + 1)
  BY <1>1 DEF LanesFit, BatchFits, GoesWithout
<1>5. CASE Cardinality(all) <= kMaxCmds
  <2>1. kept = all
    BY <1>2, <1>5, SameCount DEF Player!Capped
  <2> QED BY <1>3, <1>4, <1>5, <2>1
<1>6. CASE Cardinality(all) > kMaxCmds
  <2> DEFINE m == Player!Min(all)
  <2>1. kept = all \ {m}
    BY <1>6, SameCount DEF Player!Capped
  <2>2. m \in all /\ (\A x \in all : m <= x) /\ m \in Nat
    <3>1. all \in SUBSET Nat
      BY <1>3
    <3> QED BY <1>3, <3>1, OldestInput
  <2> HIDE DEF m, all
  <2>3. Cardinality(kept) <= kMaxCmds
    <3>1. Cardinality(kept) = Cardinality(all) - 1
      BY <1>2, <2>1, <2>2, FS_RemoveElement
    <3> QED BY <1>2, <3>1
  <2>4. m + kMaxCmds <= sent + 1
    <3>1. all \in SUBSET (m..(sent + 1))
      BY <1>3, <2>2
    <3>2. IsFiniteSet(m..(sent + 1)) /\ Cardinality(m..(sent + 1)) = ((sent + 1) - m) + 1
      <4>1. m <= sent + 1 /\ m \in Int /\ sent + 1 \in Int
        BY <1>1, <1>3, <2>2
      <4>2. ASSUME NEW b \in Int, m <= b
            PROVE  IsFiniteSet(m..b) /\ Cardinality(m..b) = (b - m) + 1
        BY <4>1, <4>2, FS_Interval
      <4> QED BY <4>1, <4>2
    <3>3. Cardinality(all) <= ((sent + 1) - m) + 1
      BY <3>1, <3>2, FS_Subset
    <3> QED BY <1>1, <1>2, <1>6, <2>2, <3>3
  <2>5. m # sent + 1
    BY <1>1, <2>2, <2>4
  <2>6. \A seq \in 1..(sent + 1) : seq \in kept \/ GoesWithout(seq, sent + 1)
    BY <1>4, <2>1, <2>4 DEF GoesWithout
  <2> QED BY <1>3, <2>1, <2>3, <2>5, <2>6
<1> QED BY <1>2, <1>5, <1>6

LEMMA PushKeeps ==
  ASSUME PlayerInv, NEW moves \in BOOLEAN, Player!PushInput(moves)
  PROVE  PlayerInv'
<1> USE PlayerConstants
<1> DEFINE seq == sent + 1
           kept == Player!Capped(history \union {seq})
<1>1. /\ sent < MaxSeq /\ sent' = seq /\ history' = kept /\ inputs' = Append(inputs, kept)
      /\ predicted' = IF moves THEN Append(predicted, seq) ELSE predicted
      /\ UNCHANGED <<position, last_seq, input_driven, last_visible, seen, shown, snapshots>>
  BY DEF Player!PushInput, Player!serverVars
<1>2. /\ sent \in Nat /\ seq \in 1..MaxSeq /\ last_seq \in 0..sent /\ predicted \in Seq(0..MaxSeq)
      /\ inputs \in Seq(SUBSET (1..MaxSeq))
  BY <1>1 DEF PlayerInv, PlayerTypes
<1>3. /\ kept \subseteq 1..seq /\ seq \in kept /\ Cardinality(kept) <= kMaxCmds
      /\ \A s \in 1..seq : s \in kept \/ GoesWithout(s, seq)
  BY <1>1, CapKeeps
<1> HIDE DEF kept
<1>4. predicted' \in Seq(0..MaxSeq) /\ Rises(predicted') /\ EndsBy(predicted', seq)
  <2>1. Rises(predicted) /\ EndsBy(predicted, sent)
    BY DEF PlayerInv, PathsRise
  <2>2. CASE ~moves
    BY <1>1, <1>2, <2>1, <2>2, ElementOfSeq DEF EndsBy
  <2>3. CASE moves
    <3>1. <<seq>> \in Seq(0..MaxSeq) /\ Rises(<<seq>>) /\ EndsBy(<<seq>>, seq)
          /\ \A i \in DOMAIN <<seq>> : sent < <<seq>>[i]
      BY <1>2 DEF Rises, EndsBy
    <3>2. Append(predicted, seq) = predicted \o <<seq>>
      BY <1>2, <3>1, AppendIsConcat
    <3>3. seq \in Nat /\ sent <= seq
      BY <1>2
    <3>4. /\ predicted \o <<seq>> \in Seq(0..MaxSeq)
          /\ Rises(predicted \o <<seq>>) /\ EndsBy(predicted \o <<seq>>, seq)
      BY <1>2, <2>1, <3>1, <3>3, PathsJoin
    <3> QED BY <1>1, <2>3, <3>2, <3>4
  <2> QED BY <2>2, <2>3
<1>5. /\ inputs' \in Seq(SUBSET (1..MaxSeq))
      /\ \A j \in DOMAIN inputs' : inputs'[j] = kept \/ \E k \in DOMAIN inputs : inputs'[j] = inputs[k]
  <2>1. kept \in SUBSET (1..MaxSeq)
    BY <1>2, <1>3
  <2> QED BY <1>1, <1>2, <2>1, OneMore
<1>6. PlayerTypes'
  <2>1. sent' \in 0..MaxSeq /\ last_seq' \in 0..sent' /\ seen' \subseteq 1..last_seq'
    BY <1>1, <1>2 DEF PlayerInv, PlayerTypes
  <2>2. history' \subseteq 1..sent' /\ Cardinality(history') <= kMaxCmds
    BY <1>1, <1>3
  <2> QED BY <1>1, <1>4, <1>5, <2>1, <2>2 DEF PlayerInv, PlayerTypes
<1>7. PathsRise'
  BY <1>1, <1>4 DEF PlayerInv, PathsRise
<1>8. LanesFit'
  <2>1. /\ \A cmds, n : BatchFits(cmds, n) => BatchFits(cmds, n)'
        /\ \A snap : SnapFits(snap) => SnapFits(snap)'
    BY <1>1, <1>2, <1>6, FitsOn DEF PlayerInv
  <2>2. BatchFits(history, sent)'
    BY <1>1, <1>2, <1>3 DEF BatchFits, GoesWithout
  <2>3. ASSUME NEW j \in DOMAIN inputs'
        PROVE  (\E n \in inputs'[j] : BatchFits(inputs[j], n)') /\ Cardinality(inputs'[j]) <= kMaxCmds
    <3>1. CASE inputs'[j] = kept
      <4>1. sent' \in inputs'[j] /\ inputs'[j] = history' /\ Cardinality(inputs'[j]) <= kMaxCmds
        BY <1>1, <1>3, <3>1
      <4> QED BY <2>2, <4>1 DEF BatchFits, GoesWithout
    <3>2. CASE \E k \in DOMAIN inputs : inputs'[j] = inputs[k]
      <4>1. PICK k \in DOMAIN inputs : inputs'[j] = inputs[k]
        BY <3>2
      <4>2. PICK n \in inputs[k] : BatchFits(inputs[k], n) /\ Cardinality(inputs[k]) <= kMaxCmds
        BY DEF PlayerInv, LanesFit
      <4> QED BY <2>1, <4>1, <4>2
    <3> QED BY <1>5, <3>1, <3>2
  <2>4. \A i \in DOMAIN snapshots' : SnapFits(snapshots[i])'
    BY <1>1, <2>1 DEF PlayerInv, LanesFit
  <2> QED BY <1>1, <2>2, <2>3, <2>4 DEF LanesFit
<1>9. Player!NoInputSkipped'
  BY <1>1 DEF PlayerInv, Player!NoInputSkipped
<1> QED BY <1>6, <1>7, <1>8, <1>9 DEF PlayerInv

\* What the server had not seen goes on from where the player was.
LEMMA ArrivalKeeps ==
  ASSUME PlayerInv, NEW i \in DOMAIN inputs, NEW moving, Player!HandleInputBatch(i, moving)
  PROVE  PlayerInv'
<1> USE PlayerConstants
<1> DEFINE fresh == Player!Unseen(inputs[i])
<1>1. /\ moving \subseteq fresh
      /\ position' = position \o Player!InOrder(moving)
      /\ last_seq' = IF fresh = {} THEN last_seq ELSE Player!Max(fresh)
      /\ seen' = seen \union fresh /\ input_driven' = TRUE
      /\ inputs' = Player!RemoveAt(inputs, i)
      /\ UNCHANGED <<last_visible, sent, predicted, history, shown, snapshots>>
  BY DEF Player!HandleInputBatch, Player!clientVars
<1>2. /\ sent \in 0..MaxSeq /\ last_seq \in 0..sent /\ position \in Seq(0..MaxSeq)
      /\ inputs \in Seq(SUBSET (1..MaxSeq)) /\ seen \subseteq 1..last_seq
  BY DEF PlayerInv, PlayerTypes
<1>3. PICK n \in inputs[i] : BatchFits(inputs[i], n)
  BY DEF PlayerInv, LanesFit
<1>4. /\ n \in 1..sent /\ fresh = {seq \in inputs[i] : seq > last_seq}
      /\ fresh \in SUBSET (1..sent) /\ \A seq \in fresh : last_seq < seq /\ seq <= n
  BY <1>2, <1>3 DEF BatchFits, Player!Unseen
<1>5. last_seq' = IF n > last_seq THEN n ELSE last_seq
  <2>1. CASE n > last_seq
    <3>1. n \in fresh
      BY <1>3, <1>4, <2>1
    <3>2. Player!Max(fresh) \in fresh /\ \A x \in fresh : x <= Player!Max(fresh)
      <4>1. sent \in Nat /\ fresh # {}
        BY <1>2, <3>1
      <4> QED BY <1>4, <4>1, NewestInput
    <3>3. Player!Max(fresh) \in Nat /\ n \in Nat /\ Player!Max(fresh) <= n /\ n <= Player!Max(fresh)
      BY <1>2, <1>4, <3>1, <3>2
    <3> QED BY <1>1, <2>1, <3>1, <3>3
  <2>2. CASE ~(n > last_seq)
    <3>1. fresh = {}
      BY <1>2, <1>4, <2>2
    <3> QED BY <1>1, <2>2, <3>1
  <2> QED BY <2>1, <2>2
<1> HIDE DEF fresh
<1>6. last_seq' \in 0..sent /\ last_seq <= last_seq' /\ n <= last_seq'
  BY <1>2, <1>4, <1>5
<1>7. position' \in Seq(0..MaxSeq) /\ Rises(position') /\ EndsBy(position', last_seq')
  <2> DEFINE q == Player!InOrder(moving)
  <2>1. moving \in SUBSET (1..sent)
    BY <1>1, <1>2, <1>4
  <2>2. q \in Seq(0..MaxSeq) /\ Rises(q) /\ \A j \in DOMAIN q : q[j] \in moving
    BY <1>2, <2>1, InOrderRises
  <2> HIDE DEF q
  <2>4. EndsBy(q, last_seq') /\ \A j \in DOMAIN q : last_seq < q[j]
    <3> SUFFICES ASSUME NEW j \in DOMAIN q PROVE q[j] <= last_seq' /\ last_seq < q[j]
      BY DEF EndsBy
    <3>1. q[j] \in fresh /\ q[j] \in 1..sent
      BY <1>1, <1>4, <2>2
    <3>2. last_seq < q[j] /\ q[j] <= n /\ q[j] \in Nat /\ n \in Nat /\ last_seq' \in Nat
      BY <1>2, <1>4, <1>6, <3>1
    <3> QED BY <1>6, <3>2
  <2>5. Rises(position) /\ EndsBy(position, last_seq)
    BY DEF PlayerInv, PathsRise
  <2>6. last_seq \in Nat /\ last_seq' \in Nat
    BY <1>2, <1>6
  <2>7. position' = position \o q
    BY <1>1 DEF q
  <2>8. /\ position \o q \in Seq(0..MaxSeq) /\ Rises(position \o q)
        /\ EndsBy(position \o q, last_seq')
    BY <1>2, <1>6, <2>2, <2>4, <2>5, <2>6, PathsJoin
  <2> QED BY <2>7, <2>8
<1>8. /\ inputs' \in Seq(SUBSET (1..MaxSeq))
      /\ \A j \in DOMAIN inputs' : \E k \in DOMAIN inputs : inputs'[j] = inputs[k]
  BY <1>1, <1>2, Remaining
<1>9. PlayerTypes'
  <2>1. seen' \subseteq 1..last_seq'
    <3>1. ASSUME NEW x \in seen PROVE x \in 1..last_seq'
      BY <1>2, <1>6
    <3>2. ASSUME NEW x \in fresh PROVE x \in 1..last_seq'
      <4>1. x \in 1..sent /\ x <= n /\ n \in 1..sent
        BY <1>4
      <4> QED BY <1>2, <1>6, <4>1
    <3> QED BY <1>1, <3>1, <3>2
  <2>2. sent' \in 0..MaxSeq /\ last_seq' \in 0..sent' /\ input_driven' \in BOOLEAN
    BY <1>1, <1>2, <1>6
  <2> QED BY <1>1, <1>7, <1>8, <2>1, <2>2 DEF PlayerInv, PlayerTypes
<1>10. PathsRise'
  BY <1>1, <1>7 DEF PlayerInv, PathsRise
<1>11. LanesFit'
  <2>1. sent <= sent' /\ last_seq <= last_seq'
    BY <1>1, <1>2, <1>6
  <2>2. /\ \A cmds, m : BatchFits(cmds, m) => BatchFits(cmds, m)'
        /\ \A snap : SnapFits(snap) => SnapFits(snap)'
    BY <1>9, <2>1, FitsOn DEF PlayerInv
  <2>3. ASSUME NEW j \in DOMAIN inputs'
        PROVE  (\E m \in inputs'[j] : BatchFits(inputs[j], m)') /\ Cardinality(inputs'[j]) <= kMaxCmds
    <3>1. PICK k \in DOMAIN inputs : inputs'[j] = inputs[k]
      BY <1>8
    <3>2. PICK m \in inputs[k] : BatchFits(inputs[k], m) /\ Cardinality(inputs[k]) <= kMaxCmds
      BY DEF PlayerInv, LanesFit
    <3> QED BY <2>2, <3>1, <3>2
  <2>4. BatchFits(history, sent)'
    BY <1>1, <2>2 DEF PlayerInv, LanesFit
  <2>5. \A j \in DOMAIN snapshots' : SnapFits(snapshots[j])'
    BY <1>1, <2>2 DEF PlayerInv, LanesFit
  <2> QED BY <2>3, <2>4, <2>5 DEF LanesFit
<1>12. Player!NoInputSkipped'
  <2> SUFFICES ASSUME NEW seq \in 1..last_seq' PROVE seq \in seen' \/ seq + kMaxCmds <= last_seq'
    BY DEF Player!NoInputSkipped
  <2>1. \A s \in 1..last_seq : s \in seen \/ s + kMaxCmds <= last_seq
    BY DEF PlayerInv, Player!NoInputSkipped
  <2>2. CASE seq <= last_seq
    BY <1>1, <1>2, <1>6, <2>1, <2>2
  <2>3. CASE seq > last_seq
    <3>1. last_seq' = n /\ seq \in 1..n
      BY <1>2, <1>5, <1>6, <2>3
    <3>2. seq \in inputs[i] \/ GoesWithout(seq, n)
      BY <1>3, <3>1 DEF BatchFits
    <3>3. CASE seq \in inputs[i]
      BY <1>1, <1>4, <2>3, <3>3
    <3>4. CASE GoesWithout(seq, n)
      BY <1>2, <2>3, <3>1, <3>4 DEF GoesWithout
    <3> QED BY <3>2, <3>3, <3>4
  <2> QED BY <1>2, <1>6, <2>2, <2>3
<1> QED BY <1>9, <1>10, <1>11, <1>12 DEF PlayerInv

\* What goes from a lane or is teleported changes nothing that is left.
LEMMA LossKeeps ==
  ASSUME PlayerInv,
         \/ Player!Teleport
         \/ \E i \in DOMAIN inputs : Player!LoseInput(i)
         \/ \E i \in DOMAIN snapshots : Player!LoseSnapshot(i)
  PROVE  PlayerInv'
<1> USE PlayerConstants
<1>1. /\ UNCHANGED <<last_seq, input_driven, last_visible, seen, sent, predicted, history, shown>>
      /\ position' \in {position, <<0>>}
      /\ \/ inputs' = inputs
         \/ \E i \in DOMAIN inputs : inputs' = Player!RemoveAt(inputs, i)
      /\ \/ snapshots' = snapshots
         \/ \E i \in DOMAIN snapshots : snapshots' = Player!RemoveAt(snapshots, i)
  BY DEF Player!Teleport, Player!LoseInput, Player!LoseSnapshot, Player!serverVars,
         Player!clientVars, Player!Spawn
<1>2. inputs \in Seq(SUBSET (1..MaxSeq)) /\ snapshots \in Seq(Snaps)
  BY DEF PlayerInv, PlayerTypes
<1>3. /\ inputs' \in Seq(SUBSET (1..MaxSeq))
      /\ \A j \in DOMAIN inputs' : \E k \in DOMAIN inputs : inputs'[j] = inputs[k]
  BY <1>1, <1>2, Remaining
<1>4. /\ snapshots' \in Seq(Snaps)
      /\ \A j \in DOMAIN snapshots' : \E k \in DOMAIN snapshots : snapshots'[j] = snapshots[k]
  BY <1>1, <1>2, Remaining
<1>5. last_seq \in Nat /\ <<0>> \in Seq(0..MaxSeq) /\ Rises(<<0>>) /\ EndsBy(<<0>>, last_seq)
  BY DEF PlayerInv, PlayerTypes, Rises, EndsBy
<1>6. PlayerTypes'
  <2>1. position' \in Seq(0..MaxSeq)
    BY <1>1, <1>5 DEF PlayerInv, PlayerTypes
  <2> QED BY <1>1, <1>3, <1>4, <2>1 DEF PlayerInv, PlayerTypes
<1>7. PathsRise'
  BY <1>1, <1>5 DEF PlayerInv, PathsRise
<1>8. LanesFit'
  <2>1. sent <= sent' /\ last_seq <= last_seq'
    BY <1>1 DEF PlayerInv, PlayerTypes
  <2>2. /\ \A cmds, m : BatchFits(cmds, m) => BatchFits(cmds, m)'
        /\ \A snap : SnapFits(snap) => SnapFits(snap)'
    BY <1>6, <2>1, FitsOn DEF PlayerInv
  <2>3. ASSUME NEW j \in DOMAIN inputs'
        PROVE  (\E m \in inputs'[j] : BatchFits(inputs[j], m)') /\ Cardinality(inputs'[j]) <= kMaxCmds
    <3>1. PICK k \in DOMAIN inputs : inputs'[j] = inputs[k]
      BY <1>3
    <3>2. PICK m \in inputs[k] : BatchFits(inputs[k], m) /\ Cardinality(inputs[k]) <= kMaxCmds
      BY DEF PlayerInv, LanesFit
    <3> QED BY <2>2, <3>1, <3>2
  <2>4. BatchFits(history, sent)'
    BY <1>1, <2>2 DEF PlayerInv, LanesFit
  <2>5. ASSUME NEW j \in DOMAIN snapshots' PROVE SnapFits(snapshots[j])'
    <3>1. PICK k \in DOMAIN snapshots : snapshots'[j] = snapshots[k]
      BY <1>4
    <3>2. SnapFits(snapshots[k])
      BY DEF PlayerInv, LanesFit
    <3> QED BY <2>2, <3>1, <3>2
  <2> QED BY <2>3, <2>4, <2>5 DEF LanesFit
<1>9. Player!NoInputSkipped'
  BY <1>1 DEF PlayerInv, Player!NoInputSkipped
<1> QED BY <1>6, <1>7, <1>8, <1>9 DEF PlayerInv

\* A snapshot shows where the player is by what the server has seen.
LEMMA BroadcastKeeps ==
  ASSUME PlayerInv, NEW visible \in SUBSET Entities, Player!Broadcast(visible)
  PROVE  PlayerInv'
<1> USE PlayerConstants
<1> DEFINE snap == [entered |-> visible \ last_visible,
                    updated |-> visible \intersect last_visible,
                    removed |-> last_visible \ visible,
                    acked |-> last_seq,
                    has_local |-> input_driven,
                    local |-> IF input_driven THEN position ELSE Player!Origin]
<1>1. /\ last_visible' = visible
      /\ snapshots' = snapshots \/ snapshots' = Append(snapshots, snap)
      /\ UNCHANGED <<position, last_seq, input_driven, seen, sent, predicted, history, shown, inputs>>
  BY DEF Player!Broadcast, Player!clientVars
<1>2. /\ snapshots \in Seq(Snaps) /\ position \in Seq(0..MaxSeq) /\ last_visible \in SUBSET Entities
      /\ last_seq \in 0..MaxSeq /\ input_driven \in BOOLEAN
  BY DEF PlayerInv, PlayerTypes
<1>3. snap \in Snaps
  <2>1. Player!Origin \in Seq(0..MaxSeq)
    BY DEF Player!Origin
  <2>2. snap.local \in Seq(0..MaxSeq)
    BY <1>2, <2>1
  <2>3. /\ visible \ last_visible \in SUBSET Entities /\ visible \intersect last_visible \in SUBSET Entities
        /\ last_visible \ visible \in SUBSET Entities
    BY <1>2
  <2> QED BY <1>2, <2>2, <2>3, Zenon DEF Snaps
<1>4. SnapFits(snap)
  <2>1. Rises(position) /\ EndsBy(position, last_seq)
    BY DEF PlayerInv, PathsRise
  <2>2. Rises(Player!Origin) /\ EndsBy(Player!Origin, last_seq)
    BY DEF Rises, EndsBy, Player!Origin
  <2>3. /\ snap.acked = last_seq /\ snap.local \in {position, Player!Origin}
    OBVIOUS
  <2>4. last_seq <= last_seq
    BY <1>2
  <2> HIDE DEF snap
  <2> QED BY <1>3, <2>1, <2>2, <2>3, <2>4 DEF SnapFits
<1> HIDE DEF snap
<1>5. /\ snapshots' \in Seq(Snaps)
      /\ \A j \in DOMAIN snapshots' : snapshots'[j] = snap \/ \E k \in DOMAIN snapshots : snapshots'[j] = snapshots[k]
  <2>1. /\ Append(snapshots, snap) \in Seq(Snaps)
        /\ \A j \in DOMAIN Append(snapshots, snap) :
             Append(snapshots, snap)[j] = snap
               \/ \E k \in DOMAIN snapshots : Append(snapshots, snap)[j] = snapshots[k]
    BY <1>2, <1>3, OneMore
  <2>2. CASE snapshots' = snapshots
    BY <1>2, <2>2
  <2>3. CASE snapshots' = Append(snapshots, snap)
    BY <2>1, <2>3
  <2> QED BY <1>1, <2>2, <2>3
<1>6. PlayerTypes'
  BY <1>1, <1>5 DEF PlayerInv, PlayerTypes
<1>7. PathsRise'
  BY <1>1 DEF PlayerInv, PathsRise
<1>8. LanesFit'
  <2>1. ASSUME NEW j \in DOMAIN snapshots' PROVE SnapFits(snapshots'[j])
    BY <1>4, <1>5 DEF PlayerInv, LanesFit
  <2>2. ASSUME NEW j \in DOMAIN snapshots' PROVE SnapFits(snapshots[j])'
    BY <1>1, <2>1 DEF SnapFits
  <2> QED BY <1>1, <2>2 DEF PlayerInv, LanesFit, BatchFits, GoesWithout
<1>9. Player!NoInputSkipped'
  BY <1>1 DEF PlayerInv, Player!NoInputSkipped
<1> QED BY <1>6, <1>7, <1>8, <1>9 DEF PlayerInv

\* The replay goes on from where the server knows the player to be.
LEMMA SnapshotKeeps ==
  ASSUME PlayerInv, NEW i \in DOMAIN snapshots, Player!ApplySnapshot(i)
  PROVE  PlayerInv'
<1> USE PlayerConstants
<1> DEFINE snap == snapshots[i]
           left == Player!Unacked(snap.acked)
<1>1. /\ shown' = (shown \union snap.entered \union snap.updated) \ snap.removed
      /\ \/ history' = left /\ predicted' = snap.local \o Player!InOrder(left)
         \/ UNCHANGED <<history, predicted>>
      /\ snapshots' = Player!RemoveAt(snapshots, i)
      /\ UNCHANGED <<position, last_seq, input_driven, last_visible, seen, sent, inputs>>
  BY DEF Player!ApplySnapshot, Player!Shown, Player!serverVars
<1>2. /\ snap \in Snaps /\ snap.acked \in 0..last_seq /\ snap.local \in Seq(0..MaxSeq)
      /\ Rises(snap.local) /\ EndsBy(snap.local, snap.acked)
      /\ snap.entered \subseteq Entities /\ snap.updated \subseteq Entities
  BY DEF PlayerInv, PlayerTypes, LanesFit, SnapFits, Snaps
<1>3. /\ sent \in 0..MaxSeq /\ last_seq \in 0..sent /\ snapshots \in Seq(Snaps)
      /\ history \in SUBSET (1..sent) /\ Cardinality(history) <= kMaxCmds
      /\ \A seq \in 1..sent : seq \in history \/ GoesWithout(seq, sent)
  BY DEF PlayerInv, PlayerTypes, LanesFit, BatchFits
<1>4. left = {seq \in history : seq > snap.acked} /\ left \in SUBSET (1..sent)
  BY <1>3 DEF Player!Unacked
<1> HIDE DEF left, snap
<1>5. /\ history' \in SUBSET (1..sent) /\ Cardinality(history') <= kMaxCmds
      /\ \A seq \in 1..sent : seq \in history' \/ GoesWithout(seq, sent)
  <2>1. CASE history' = history
    BY <1>3, <2>1
  <2>2. CASE history' = left
    <3>1. Cardinality(left) <= kMaxCmds
      <4>1. sent \in Nat
        BY <1>3
      <4>2. IsFiniteSet(history) /\ Cardinality(history) \in Nat /\ Cardinality(left) \in Nat
        BY <1>3, <1>4, <4>1, FiniteInputs
      <4>3. Cardinality(left) <= Cardinality(history)
        BY <1>4, <4>2, FS_Subset
      <4> QED BY <1>3, <4>2, <4>3
    <3>2. ASSUME NEW seq \in 1..sent PROVE seq \in left \/ GoesWithout(seq, sent)
      <4>1. CASE seq <= snap.acked
        BY <1>2, <1>3, <4>1 DEF GoesWithout
      <4>2. CASE ~(seq <= snap.acked)
        <5>1. seq > snap.acked
          BY <1>2, <1>3, <4>2
        <5> QED BY <1>3, <1>4, <5>1
      <4> QED BY <4>1, <4>2
    <3> QED BY <1>4, <2>2, <3>1, <3>2
  <2> QED BY <1>1, <2>1, <2>2
<1>6. predicted' \in Seq(0..MaxSeq) /\ Rises(predicted') /\ EndsBy(predicted', sent)
  <2>1. CASE UNCHANGED predicted
    BY <2>1 DEF PlayerInv, PlayerTypes, PathsRise
  <2>2. CASE predicted' = snap.local \o Player!InOrder(left)
    <3> DEFINE q == Player!InOrder(left)
    <3>1. q \in Seq(0..MaxSeq) /\ Rises(q) /\ \A j \in DOMAIN q : q[j] \in left
      BY <1>3, <1>4, InOrderRises
    <3> HIDE DEF q
    <3>2. EndsBy(q, sent) /\ \A j \in DOMAIN q : snap.acked < q[j]
      <4> SUFFICES ASSUME NEW j \in DOMAIN q PROVE q[j] <= sent /\ snap.acked < q[j]
        BY DEF EndsBy
      <4>1. q[j] \in 1..sent /\ q[j] > snap.acked
        BY <1>4, <3>1
      <4> QED BY <1>2, <1>3, <4>1
    <3>3. snap.acked \in Nat /\ sent \in Nat /\ snap.acked <= sent
      BY <1>2, <1>3
    <3>4. /\ snap.local \o q \in Seq(0..MaxSeq) /\ Rises(snap.local \o q)
          /\ EndsBy(snap.local \o q, sent)
      BY <1>2, <3>1, <3>2, <3>3, PathsJoin
    <3> QED BY <2>2, <3>4 DEF q
  <2> QED BY <1>1, <2>1, <2>2
<1>7. /\ snapshots' \in Seq(Snaps)
      /\ \A j \in DOMAIN snapshots' : \E k \in DOMAIN snapshots : snapshots'[j] = snapshots[k]
  BY <1>1, <1>3, Remaining
<1>8. PlayerTypes'
  <2>1. shown' \subseteq Entities
    BY <1>1, <1>2 DEF PlayerInv, PlayerTypes
  <2> QED BY <1>1, <1>5, <1>6, <1>7, <2>1 DEF PlayerInv, PlayerTypes
<1>9. PathsRise'
  BY <1>1, <1>6 DEF PlayerInv, PathsRise
<1>10. LanesFit'
  <2>1. BatchFits(history, sent)'
    BY <1>1, <1>3, <1>5 DEF BatchFits, GoesWithout
  <2>2. \A j \in DOMAIN inputs' : /\ \E n \in inputs'[j] : BatchFits(inputs[j], n)'
                                  /\ Cardinality(inputs'[j]) <= kMaxCmds
    BY <1>1 DEF PlayerInv, LanesFit, BatchFits, GoesWithout
  <2>3. ASSUME NEW j \in DOMAIN snapshots' PROVE SnapFits(snapshots[j])'
    <3>1. SnapFits(snapshots'[j])
      BY <1>7 DEF PlayerInv, LanesFit
    <3> QED BY <1>1, <3>1 DEF SnapFits
  <2> QED BY <2>1, <2>2, <2>3 DEF LanesFit
<1>11. Player!NoInputSkipped'
  BY <1>1 DEF PlayerInv, Player!NoInputSkipped
<1> QED BY <1>8, <1>9, <1>10, <1>11 DEF PlayerInv

LEMMA PlayerKeeps == PlayerInv /\ [Player!Next]_playerVars => PlayerInv'
<1> SUFFICES ASSUME PlayerInv, [Player!Next]_playerVars PROVE PlayerInv'
  OBVIOUS
<1>1. CASE Player!Next
  <2>1. ASSUME Player!Arrive PROVE PlayerInv'
    <3>1. PICK i \in Player!Arrivals(inputs) :
            \E moving \in SUBSET inputs[i] : Player!HandleInputBatch(i, moving)
      BY <2>1 DEF Player!Arrive
    <3>2. i \in DOMAIN inputs
      BY DEF Player!Arrivals
    <3> QED BY <3>1, <3>2, ArrivalKeeps
  <2>2. ASSUME Player!Receive PROVE PlayerInv'
    <3>1. PICK i \in Player!Arrivals(snapshots) : Player!ApplySnapshot(i)
      BY <2>2 DEF Player!Receive
    <3>2. i \in DOMAIN snapshots
      BY DEF Player!Arrivals
    <3> QED BY <3>1, <3>2, SnapshotKeeps
  <2>3. ASSUME Player!Tick PROVE PlayerInv'
    BY <2>3, BroadcastKeeps DEF Player!Tick
  <2>4. ASSUME \E moves \in BOOLEAN : Player!PushInput(moves) PROVE PlayerInv'
    BY <2>4, PushKeeps
  <2> QED BY <1>1, <2>1, <2>2, <2>3, <2>4, LossKeeps DEF Player!Next
<1>2. CASE UNCHANGED playerVars
  BY <1>2 DEF playerVars, PlayerInv, PlayerTypes, PathsRise, LanesFit, BatchFits, GoesWithout,
              SnapFits, Player!NoInputSkipped
<1> QED BY <1>1, <1>2

LEMMA PlayerSays ==
  PlayerInv => Player!TypeOK /\ Player!NoInputTwice /\ Player!NoInputSkipped
<1> SUFFICES ASSUME PlayerInv PROVE Player!TypeOK /\ Player!NoInputTwice
  BY DEF PlayerInv
<1>1. history \subseteq 1..MaxSeq
  BY PlayerConstants DEF PlayerInv, PlayerTypes
<1>2. \A i \in DOMAIN inputs : inputs[i] \subseteq 1..MaxSeq /\ Cardinality(inputs[i]) <= kMaxCmds
  <2>1. \A i \in DOMAIN inputs : inputs[i] \subseteq 1..MaxSeq
    BY ElementOfSeq DEF PlayerInv, PlayerTypes
  <2> QED BY <2>1 DEF PlayerInv, LanesFit
<1>3. Player!TypeOK
  BY <1>1, <1>2, SameCount DEF Player!TypeOK, Player!Seqs, PlayerInv, PlayerTypes
<1>4. Player!NoInputTwice
  BY DEF Player!NoInputTwice, PlayerInv, PathsRise, Rises
<1> QED BY <1>3, <1>4

-----------------------------------------------------------------------------
(* Signing in *)

\* t answers what the server asked last.
Answers(t) == t.issued = nonce /\ t.nonce \in {0, nonce}

\* At most one message is on its way, and it is about what the server asked last, which is either
\* on its way to the client, or asked of the player, or answered, or verified.
OneAtATime ==
  /\ s2c # <<>> => s2c = <<nonce>> /\ pending /\ ~open /\ c2s = <<>> /\ ticket = None
  /\ open => activeNonce = nonce /\ pending /\ s2c = <<>> /\ c2s = <<>> /\ ticket = None
  /\ c2s # <<>> => /\ \E t \in Account!Token : c2s = <<t>> /\ Answers(t)
                   /\ pending /\ ticket = None /\ s2c = <<>>
  /\ ticket # None => pending /\ Answers(ticket.token) /\ s2c = <<>> /\ c2s = <<>>

\* What the player works on belongs to the request that is open.
WorkFits ==
  /\ task # None => /\ open /\ signInPhase = "working" /\ token = None /\ trusted
                    /\ task.nonce \in {0, nonce}
                    /\ task.result = "token" => task.token # None /\ Answers(task.token)
  /\ token # None => Answers(token) /\ signInPhase = "finished" /\ (Account!Connected => open) /\ ~reauth
  /\ reauth => open \/ ~Account!Connected
  /\ signInPhase = "idle" => nonce = 1 /\ pending /\ ~open /\ c2s = <<>> /\ ticket = None
  /\ signInPhase = "choosing" => open \/ ~Account!Connected
  /\ signInPhase = "working" => task # None
  /\ signInPhase = "finished" => (open => token # None \/ cancelled)
  /\ cancelled => signInPhase = "finished" /\ (Account!Connected => open)

\* Trust is asked for once, before anything else happens.
TrustComesFirst ==
  /\ needsTrust => /\ nonce = 1 /\ pending /\ ~reauth /\ ~trusted
                   /\ signInPhase # "idle" /\ s2c = <<>> /\ c2s = <<>> /\ ticket = None
                   /\ token = None
  /\ signInPhase # "idle" => trusted \/ needsTrust
  /\ stored => trusted

\* The variables of the service and the server, and of the client, one by one.
ServerTypes ==
  /\ discovered \in BOOLEAN /\ keys \in 0..MaxKeys /\ refreshRequested \in BOOLEAN
  /\ limited \in BOOLEAN /\ fetching \in {None, "discovery", "keys"}
  /\ signingIn \in {"joining", "playing", "out"} /\ nonce \in 1..MaxNonce /\ pending \in BOOLEAN
  /\ ticket \in Account!Tickets \union {None}
  /\ lastVerdict \in {None, "ok", "nonce", "key", "late"}
LaneTypes ==
  /\ \A i \in DOMAIN s2c : s2c[i] \in 1..MaxNonce
  /\ \A i \in DOMAIN c2s : c2s[i] \in Account!Token
ClientTypes ==
  /\ open \in BOOLEAN /\ signInPhase \in {"idle", "choosing", "working", "finished"}
  /\ activeNonce \in 0..MaxNonce /\ token \in Account!Token \union {None}
  /\ cancelled \in BOOLEAN /\ needsTrust \in BOOLEAN /\ reauth \in BOOLEAN /\ silent \in BOOLEAN
  /\ misses \in 0..PromptAfter /\ retry \in BOOLEAN
  /\ task \in Account!Tasks \union {None} /\ stored \in BOOLEAN /\ trusted \in BOOLEAN
IdpTypes == idp \in [up : BOOLEAN, key : 1..MaxKeys, knows : BOOLEAN] /\ faults \in 0..MaxFaults

AccountInv ==
  /\ IdpTypes /\ ServerTypes /\ LaneTypes /\ ClientTypes
  /\ OneAtATime /\ WorkFits /\ TrustComesFirst
  /\ lastVerdict \notin {"nonce", "late"}

LEMMA AccountConstants == Account!SignInConstants
BY ClientConstants

\* A lane that holds one message is empty without it.
LEMMA Single ==
  ASSUME NEW m
  PROVE  /\ <<m>> # <<>> /\ Head(<<m>>) = m /\ Tail(<<m>>) = <<>> /\ Append(<<>>, m) = <<m>>
         /\ DOMAIN <<m>> = {1} /\ <<m>>[1] = m
OBVIOUS

LEMMA AccountStarts == Account!Init => AccountInv
<1> SUFFICES ASSUME Account!Init PROVE AccountInv
  OBVIOUS
<1> USE AccountConstants DEF Account!Init, Account!SignInConstants
<1>1. 1 \in 1..MaxNonce /\ 1 \in 1..MaxKeys /\ 0 \in 0..MaxKeys /\ 0 \in 0..MaxFaults
      /\ 0 \in 0..MaxNonce /\ 0 \in 0..PromptAfter
  OBVIOUS
<1>5. IdpTypes
  <2>1. idp \in [up : BOOLEAN, key : 1..MaxKeys, knows : BOOLEAN]
    BY <1>1, Zenon
  <2> QED BY <1>1, <2>1 DEF IdpTypes
<1>6. ServerTypes
  BY <1>1 DEF ServerTypes
<1>3. LaneTypes
  BY Single DEF LaneTypes
<1>4. ClientTypes
  BY <1>1 DEF ClientTypes
<1>2. OneAtATime /\ WorkFits /\ TrustComesFirst
  BY Single DEF OneAtATime, WorkFits, TrustComesFirst, Account!Connected
<1> QED BY <1>2, <1>3, <1>4, <1>5, <1>6 DEF AccountInv

\* The service's work and the provider's touch no request.
LEMMA ServiceKeeps ==
  ASSUME AccountInv, Account!Provider \/ Account!FetchStart \/ Account!FetchEnd \/ Account!LimitEnds
  PROVE  AccountInv'
<1> USE AccountConstants DEF AccountInv, Account!SignInConstants
<1>1. /\ UNCHANGED <<signingIn, nonce, pending, lastVerdict, s2c, c2s, open, Account!coordinator>>
      /\ ticket # None => ticket' \in Account!Tickets /\ ticket'.token = ticket.token
      /\ ticket = None => ticket' = None
  BY DEF Account!Provider, Account!FetchStart, Account!FetchEnd, Account!LimitEnds,
         Account!server, Account!service, ServerTypes, Account!Tickets, Account!Pcs
<1>2. IdpTypes'
  <2>1. CASE Account!Provider
    <3>1. idp.key \in 1..MaxKeys /\ (idp.key < MaxKeys => idp.key + 1 \in 1..MaxKeys)
      BY DEF IdpTypes
    <3>2. faults' \in 0..MaxFaults
      BY <2>1 DEF Account!Provider, IdpTypes
    <3>3. idp' \in [up : BOOLEAN, key : 1..MaxKeys, knows : BOOLEAN]
      BY <2>1, <3>1, Zenon DEF Account!Provider, IdpTypes
    <3> QED BY <3>2, <3>3 DEF IdpTypes
  <2>2. CASE ~Account!Provider
    BY <2>2 DEF Account!FetchStart, Account!FetchEnd, Account!LimitEnds, IdpTypes
  <2> QED BY <2>1, <2>2
<1>3. ServerTypes'
  <2>0. idp.key \in 0..MaxKeys /\ idp.up \in BOOLEAN
    BY DEF IdpTypes
  <2>1. discovered' \in BOOLEAN /\ keys' \in 0..MaxKeys /\ refreshRequested' \in BOOLEAN
    BY <2>0 DEF Account!Provider, Account!FetchStart, Account!FetchEnd, Account!LimitEnds,
           Account!service, ServerTypes, IdpTypes
  <2>2. limited' \in BOOLEAN /\ fetching' \in {None, "discovery", "keys"}
    BY DEF Account!Provider, Account!FetchStart, Account!FetchEnd, Account!LimitEnds,
           Account!service, ServerTypes
  <2> QED BY <1>1, <2>1, <2>2 DEF ServerTypes
<1>4. LaneTypes' /\ ClientTypes'
  BY <1>1 DEF LaneTypes, ClientTypes, Account!coordinator
<1>5. OneAtATime'
  <2> USE <1>1 DEF Answers
  <2>1. c2s # <<>> => \E t \in Account!Token : c2s = <<t>> /\ Answers(t)'
    BY DEF OneAtATime
  <2>2. ticket' # None => ticket # None /\ Answers(ticket.token)'
    BY DEF OneAtATime
  <2>3. UNCHANGED <<nonce, pending, s2c, c2s, open, activeNonce>>
    BY DEF Account!coordinator
  <2> QED BY <2>1, <2>2, <2>3 DEF OneAtATime
<1>6. WorkFits' /\ TrustComesFirst'
  BY <1>1 DEF WorkFits, TrustComesFirst, Answers, Account!Connected, Account!coordinator
<1> QED BY <1>1, <1>2, <1>3, <1>4, <1>5, <1>6

\* A verdict on an answer that fits is none about its nonce or its time, and ends the request or
\* the session.
LEMMA PollKeeps ==
  ASSUME AccountInv, Account!Poll
  PROVE  AccountInv'
<1> USE AccountConstants DEF AccountInv, Account!SignInConstants
<1>1. /\ ticket # None /\ ticket \in Account!Tickets /\ Account!Connected
      /\ UNCHANGED <<nonce, s2c, c2s, open, Account!coordinator>>
  BY DEF Account!Poll, Account!Check, Account!Ask, Account!Wait, Account!Recheck, ServerTypes,
         Account!Verdict, Account!service
<1>2. Account!Judged = "ok"
  BY <1>1 DEF Account!Judged, OneAtATime, Answers, ServerTypes, Account!Token, Account!Tickets
<1>3. \/ /\ ticket' \in Account!Tickets /\ ticket'.token = ticket.token
         /\ UNCHANGED <<signingIn, pending, lastVerdict>>
      \/ /\ ticket' = None /\ lastVerdict' \in {"ok", "key"}
         /\ \/ signingIn' = "playing" /\ pending' = FALSE
            \/ signingIn' = "out" /\ UNCHANGED pending
  BY <1>1, <1>2 DEF Account!Poll, Account!Check, Account!Ask, Account!Wait, Account!Recheck,
                    Account!Verdict, Account!Tickets, Account!Pcs
<1>4. UNCHANGED <<idp, faults, discovered, keys, fetching, limited>>
      /\ refreshRequested' \in BOOLEAN
  BY DEF Account!Poll, Account!Check, Account!Ask, Account!Wait, Account!Recheck, ServerTypes,
         Account!service, Account!Verdict
<1>5. IdpTypes' /\ LaneTypes'
  BY <1>1, <1>4 DEF IdpTypes, LaneTypes
<1>6. ServerTypes'
  BY <1>1, <1>3, <1>4 DEF ServerTypes
<1>7. ClientTypes'
  BY <1>1 DEF ClientTypes, Account!coordinator
<1>8. OneAtATime'
  BY <1>1, <1>3 DEF OneAtATime, Answers
<1>9. WorkFits' /\ TrustComesFirst'
  BY <1>1, <1>3 DEF WorkFits, TrustComesFirst, OneAtATime, Answers, Account!Connected,
                    Account!coordinator
<1> QED BY <1>3, <1>5, <1>6, <1>7, <1>8, <1>9

\* Another request goes out only where the last was answered.
LEMMA RequestKeeps ==
  ASSUME AccountInv, Account!Request
  PROVE  AccountInv'
<1> USE AccountConstants DEF AccountInv, Account!SignInConstants
<1>1. /\ ~pending /\ nonce \in 1 .. MaxNonce /\ nonce + 1 \in 2 .. MaxNonce
      /\ s2c = <<>> /\ c2s = <<>> /\ ~open /\ ticket = None
  BY DEF Account!Request, Account!RequestDue, OneAtATime, ServerTypes
<1>2. /\ nonce' = nonce + 1 /\ pending' = TRUE /\ ticket' = None /\ s2c' = <<nonce + 1>>
      /\ UNCHANGED <<idp, faults, Account!service, signingIn, lastVerdict, c2s, open,
                     Account!coordinator>>
      /\ Account!Connected
  BY <1>1, Single DEF Account!Request, Account!RequestDue, Account!Connected
<1>3. task = None /\ token = None /\ ~needsTrust
  BY <1>1, <1>2 DEF WorkFits, TrustComesFirst
<1>4. IdpTypes' /\ ServerTypes'
  BY <1>1, <1>2 DEF IdpTypes, ServerTypes, Account!service
<1>5. LaneTypes'
  BY <1>1, <1>2, Single DEF LaneTypes
<1>6. ClientTypes'
  BY <1>2 DEF ClientTypes, Account!coordinator
<1>7. OneAtATime'
  BY <1>1, <1>2, Single DEF OneAtATime
<1>8. WorkFits' /\ TrustComesFirst'
  BY <1>1, <1>2, <1>3 DEF WorkFits, TrustComesFirst, Account!Connected, Account!coordinator
<1> QED BY <1>2, <1>4, <1>5, <1>6, <1>7, <1>8

LEMMA DeadlineKeeps ==
  ASSUME AccountInv, Account!Deadline
  PROVE  AccountInv'
<1> USE AccountConstants DEF AccountInv, Account!SignInConstants, Account!Deadline
<1>1. IdpTypes' /\ ServerTypes' /\ LaneTypes'
  BY DEF IdpTypes, ServerTypes, LaneTypes, Account!service
<1>2. ClientTypes'
  BY DEF ClientTypes, Account!coordinator
<1>3. OneAtATime'
  <2>1. UNCHANGED <<nonce, pending, ticket, s2c, c2s, open, activeNonce>>
    BY DEF Account!coordinator
  <2> QED BY <2>1 DEF OneAtATime, Answers
<1>4. WorkFits' /\ TrustComesFirst'
  BY DEF WorkFits, TrustComesFirst, Answers, Account!Connected, Account!coordinator
<1> QED BY <1>1, <1>2, <1>3, <1>4

LEMMA AnswerKeeps ==
  ASSUME AccountInv, Account!ReceiveAnswer
  PROVE  AccountInv'
<1> USE AccountConstants DEF AccountInv, Account!SignInConstants
<1>1. PICK t \in Account!Token : c2s = <<t>> /\ Answers(t)
  BY DEF Account!ReceiveAnswer, OneAtATime
<1>2. /\ c2s' = <<>> /\ ticket' = [token |-> t, pc |-> "new", empty |-> FALSE]
      /\ ticket' \in Account!Tickets /\ ticket'.token = t
      /\ pending /\ s2c = <<>> /\ ~open /\ ~needsTrust /\ signInPhase # "idle"
  BY <1>1, Single DEF Account!ReceiveAnswer, OneAtATime, TrustComesFirst, WorkFits,
                      Account!Tickets, Account!Pcs
<1>3. UNCHANGED <<idp, faults, Account!service, signingIn, nonce, pending, lastVerdict, s2c, open,
                  Account!coordinator>>
  BY DEF Account!ReceiveAnswer
<1>4. IdpTypes' /\ ServerTypes'
  BY <1>2, <1>3 DEF IdpTypes, ServerTypes, Account!service
<1>5. LaneTypes' /\ ClientTypes'
  BY <1>2, <1>3 DEF LaneTypes, ClientTypes, Account!coordinator
<1>6. OneAtATime'
  BY <1>1, <1>2, <1>3 DEF OneAtATime, Answers
<1>7. WorkFits' /\ TrustComesFirst'
  BY <1>2, <1>3 DEF WorkFits, TrustComesFirst, Answers, Account!Connected, Account!coordinator
<1> QED BY <1>3, <1>4, <1>5, <1>6, <1>7

\* A silent try begins where there is something to try, and leaves no one without work.
LEMMA SilentBegins ==
  ASSUME NEW ph, task = None, Account!BeginSilent(ph)
  PROVE  \/ /\ stored /\ silent' = TRUE /\ signInPhase' = "working"
            /\ task' = [kind |-> "silent", nonce |-> 0, result |-> None, token |-> None]
            /\ task' \in Account!Tasks /\ task' # None
         \/ /\ ~stored /\ signInPhase' = ph /\ task' = None /\ silent' = silent
BY AccountConstants DEF Account!BeginSilent, Account!SignInConstants, Account!Tasks

LEMMA ReceiveRequestKeeps ==
  ASSUME AccountInv, Account!ReceiveRequest
  PROVE  AccountInv'
<1> USE AccountConstants DEF AccountInv, Account!SignInConstants
<1>1. /\ s2c = <<nonce>> /\ Head(s2c) = nonce /\ Tail(s2c) = <<>>
      /\ pending /\ ~open /\ c2s = <<>> /\ ticket = None /\ nonce \in 1 .. MaxNonce
  BY Single DEF Account!ReceiveRequest, OneAtATime, ServerTypes
<1>2. task = None
  BY <1>1 DEF WorkFits
<1>3. /\ s2c' = <<>> /\ activeNonce' = nonce /\ open' = TRUE /\ token' = None /\ cancelled' = FALSE
      /\ UNCHANGED <<idp, faults, Account!service, signingIn, nonce, pending, ticket, lastVerdict,
                     c2s, stored, trusted>>
  BY <1>1 DEF Account!ReceiveRequest, Account!server
<1>4. \/ /\ nonce = 1 /\ reauth' = FALSE /\ needsTrust' = ~trusted
         /\ \/ trusted /\ Account!BeginSilent("choosing")
            \/ ~trusted /\ signInPhase' = "choosing" /\ UNCHANGED <<silent, task>>
         /\ UNCHANGED <<retry, misses>>
      \/ /\ nonce # 1 /\ reauth' = TRUE /\ retry' = FALSE /\ misses' = 0
         /\ Account!BeginSilent("choosing") /\ UNCHANGED needsTrust
  BY <1>1 DEF Account!ReceiveRequest
<1>5. /\ \/ /\ stored /\ trusted /\ silent' = TRUE /\ signInPhase' = "working"
            /\ task' = [kind |-> "silent", nonce |-> 0, result |-> None, token |-> None]
            /\ task' \in Account!Tasks /\ task' # None
         \/ signInPhase' = "choosing" /\ task' = None /\ silent' = silent
      /\ needsTrust' => nonce = 1 /\ ~trusted /\ ~reauth' /\ task' = None
      /\ trusted \/ needsTrust'
  <2>1. CASE nonce = 1
    BY <1>2, <1>4, <2>1, SilentBegins DEF TrustComesFirst
  <2>2. CASE nonce # 1
    <3>1. ~needsTrust /\ (signInPhase # "idle" => trusted)
      BY <2>2 DEF TrustComesFirst
    <3>2. trusted
      BY <1>1, <2>2, <3>1 DEF TrustComesFirst, WorkFits
    <3>3. Account!BeginSilent("choosing") /\ reauth' = TRUE /\ needsTrust' = needsTrust
      BY <1>4, <2>2
    <3> QED BY <1>2, <3>1, <3>2, <3>3, SilentBegins
  <2> QED BY <2>1, <2>2
<1>6. IdpTypes' /\ ServerTypes' /\ LaneTypes'
  BY <1>1, <1>3, Single DEF IdpTypes, ServerTypes, LaneTypes, Account!service
<1>7. ClientTypes'
  <2>0. 0 \in 0 .. PromptAfter
    OBVIOUS
  <2>1. misses' \in 0..PromptAfter /\ retry' \in BOOLEAN /\ reauth' \in BOOLEAN
    BY <1>4, <2>0, Zenon DEF ClientTypes
  <2>2. needsTrust' \in BOOLEAN /\ silent' \in BOOLEAN
    BY <1>4, <1>5 DEF ClientTypes
  <2>3. task' \in Account!Tasks \union {None} /\ signInPhase' \in {"choosing", "working"}
    BY <1>5
  <2>4. activeNonce' \in 0 .. MaxNonce /\ stored' \in BOOLEAN /\ trusted' \in BOOLEAN
    BY <1>1, <1>3 DEF ClientTypes
  <2>5. open' \in BOOLEAN /\ cancelled' \in BOOLEAN /\ token' \in Account!Token \union {None}
    BY <1>3, Zenon
  <2> QED BY <2>1, <2>2, <2>3, <2>4, <2>5 DEF ClientTypes
<1>8. OneAtATime'
  BY <1>1, <1>3 DEF OneAtATime
<1>9. WorkFits' /\ TrustComesFirst'
  BY <1>1, <1>3, <1>5 DEF WorkFits, TrustComesFirst
<1> QED BY <1>3, <1>6, <1>7, <1>8, <1>9

\* Who trusts the server had nothing saved for it, so nothing begins by itself.
LEMMA TrustKeeps ==
  ASSUME AccountInv, Account!Trust
  PROVE  AccountInv'
<1> USE AccountConstants DEF AccountInv, Account!SignInConstants
<1>1. /\ needsTrust /\ ~stored /\ task = None /\ token = None
      /\ trusted' = TRUE /\ needsTrust' = FALSE
  BY DEF Account!Trust, TrustComesFirst, WorkFits
<1>2. /\ UNCHANGED <<idp, faults, Account!service, Account!server, s2c, c2s, open, activeNonce,
                     token, cancelled, reauth, misses, retry, stored>>
      /\ UNCHANGED <<signInPhase, silent, task>>
  BY <1>1, SilentBegins DEF Account!Trust
<1>3. IdpTypes' /\ ServerTypes' /\ LaneTypes'
  BY <1>2 DEF IdpTypes, ServerTypes, LaneTypes, Account!service, Account!server
<1>6. ClientTypes'
  BY <1>1, <1>2, Zenon DEF ClientTypes
<1>4. OneAtATime'
  BY <1>1, <1>2 DEF OneAtATime, Answers, Account!server
<1>5. WorkFits' /\ TrustComesFirst'
  BY <1>1, <1>2 DEF WorkFits, TrustComesFirst, Answers, Account!Connected, Account!server
<1> QED BY <1>2, <1>3, <1>4, <1>5, <1>6 DEF Account!server

\* What the player starts is for the request that is open.
LEMMA StartKeeps ==
  ASSUME AccountInv, Account!Start
  PROVE  AccountInv'
<1> USE AccountConstants DEF AccountInv, Account!SignInConstants
<1>1. /\ signInPhase = "choosing" /\ task = None /\ ~needsTrust /\ open /\ signInPhase' = "working"
      /\ activeNonce = nonce /\ token = None /\ trusted /\ ~cancelled
  BY DEF Account!Start, Account!MayStart, WorkFits, TrustComesFirst, OneAtATime
<1>2. UNCHANGED <<idp, faults, Account!service, Account!server, s2c, c2s, open, activeNonce, token,
                  cancelled, needsTrust, reauth, silent, misses, retry, stored, trusted>>
  BY DEF Account!Start
<1>3. /\ task' \in Account!Tasks /\ task' # None
      /\ task'.nonce \in {0, nonce} /\ task'.result = None
  <2>1. nonce \in 0 .. MaxNonce /\ 0 \in 0 .. MaxNonce
    BY DEF ServerTypes
  <2> QED BY <1>1, <2>1 DEF Account!Start, Account!Tasks
<1>4. IdpTypes' /\ ServerTypes' /\ LaneTypes'
  BY <1>2 DEF IdpTypes, ServerTypes, LaneTypes, Account!service, Account!server
<1>5. ClientTypes'
  BY <1>1, <1>2, <1>3 DEF ClientTypes
<1>6. OneAtATime'
  BY <1>2 DEF OneAtATime, Answers, Account!server
<1>7. WorkFits' /\ TrustComesFirst'
  BY <1>1, <1>2, <1>3 DEF WorkFits, TrustComesFirst, Account!Connected, Account!server
<1> QED BY <1>2, <1>4, <1>5, <1>6, <1>7 DEF Account!server

LEMMA CancelKeeps ==
  ASSUME AccountInv, Account!Cancel
  PROVE  AccountInv'
<1> USE AccountConstants DEF AccountInv, Account!SignInConstants
<1>1. /\ open /\ cancelled' = TRUE /\ task' = None /\ signInPhase' = "finished" /\ Account!Connected
      /\ UNCHANGED <<idp, faults, Account!service, Account!server, s2c, c2s, open, activeNonce, token,
                     needsTrust, reauth, silent, misses, retry, stored, trusted>>
  BY DEF Account!Cancel
<1>2. IdpTypes' /\ ServerTypes' /\ LaneTypes' /\ ClientTypes'
  BY <1>1 DEF IdpTypes, ServerTypes, LaneTypes, ClientTypes, Account!service, Account!server
<1>3. OneAtATime'
  BY <1>1 DEF OneAtATime, Answers, Account!server
<1>4. WorkFits' /\ TrustComesFirst'
  BY <1>1 DEF WorkFits, TrustComesFirst, Answers, Account!Connected, Account!server
<1> QED BY <1>1, <1>2, <1>3, <1>4 DEF Account!server

\* A token is issued while the request it is for is the last one.
LEMMA TaskEndKeeps ==
  ASSUME AccountInv, Account!TaskEnds
  PROVE  AccountInv'
<1> USE AccountConstants DEF AccountInv, Account!SignInConstants
<1>1. /\ task # None /\ task \in Account!Tasks /\ task.nonce \in {0, nonce}
      /\ idp.key \in 1 .. MaxKeys /\ nonce \in 1 .. MaxNonce
      /\ UNCHANGED <<idp, faults, Account!service, Account!server, s2c, c2s, open, signInPhase,
                     activeNonce, token, cancelled, needsTrust, reauth, silent, misses, retry, stored,
                     trusted>>
  BY DEF Account!TaskEnds, ClientTypes, IdpTypes, ServerTypes, WorkFits
<1>2. DEFINE fresh == [nonce |-> task.nonce, key |-> idp.key, issued |-> nonce]
<1>3. fresh \in Account!Token /\ fresh # None /\ Answers(fresh)
  BY <1>1 DEF Account!Token, Account!Tasks, Answers
<1> HIDE DEF fresh
<1>4. /\ task' \in Account!Tasks /\ task' # None /\ task'.nonce = task.nonce
      /\ task'.result = "token" => task'.token = fresh
  <2>1. \/ task' = [task EXCEPT !.result = "token", !.token = fresh]
        \/ task' = [task EXCEPT !.result = "retryable"]
        \/ task' = [task EXCEPT !.result = "refused"]
    BY DEF Account!TaskEnds, fresh
  <2>2. ASSUME task' = [task EXCEPT !.result = "token", !.token = fresh]
        PROVE  /\ task' \in Account!Tasks /\ task'.nonce = task.nonce
               /\ task'.result = "token" => task'.token = fresh
    BY <1>1, <1>3, <2>2 DEF Account!Tasks
  <2>3. ASSUME NEW r \in {"retryable", "refused"}, task' = [task EXCEPT !.result = r]
        PROVE  /\ task' \in Account!Tasks /\ task'.nonce = task.nonce /\ task'.result # "token"
    BY <1>1, <2>3 DEF Account!Tasks
  <2> QED BY <2>1, <2>2, <2>3
<1>5. IdpTypes' /\ ServerTypes' /\ LaneTypes'
  BY <1>1 DEF IdpTypes, ServerTypes, LaneTypes, Account!service, Account!server
<1>6. ClientTypes'
  BY <1>1, <1>4 DEF ClientTypes
<1>7. OneAtATime'
  BY <1>1 DEF OneAtATime, Answers, Account!server
<1>8. WorkFits' /\ TrustComesFirst'
  BY <1>1, <1>3, <1>4 DEF WorkFits, TrustComesFirst, Answers, Account!Connected, Account!server
<1> QED BY <1>1, <1>5, <1>6, <1>7, <1>8 DEF Account!server

\* What a task brought is a token for the open request, or leads back to the player's choice.
LEMMA UpdateKeeps ==
  ASSUME AccountInv, Account!Update
  PROVE  AccountInv'
<1> USE AccountConstants DEF AccountInv, Account!SignInConstants
<1>1. /\ task # None /\ task \in Account!Tasks /\ open /\ token = None /\ trusted /\ ~needsTrust
      /\ ~cancelled /\ Account!Connected /\ task' = None /\ silent' = FALSE
      /\ UNCHANGED <<idp, faults, Account!service, Account!server, s2c, c2s, open, activeNonce,
                     cancelled, needsTrust, trusted>>
  BY DEF Account!Update, WorkFits, TrustComesFirst, ClientTypes
<1>2. \/ /\ token' = task.token /\ token' # None /\ Answers(token') /\ token' \in Account!Token
         /\ signInPhase' = "finished" /\ reauth' = FALSE
      \/ token' = None /\ signInPhase' = "choosing"
  BY <1>1 DEF Account!Update, Account!Saved, Account!Quiet, Account!Failed, WorkFits, Account!Tasks
<1>3. /\ misses' \in 0 .. PromptAfter /\ retry' \in BOOLEAN /\ reauth' \in BOOLEAN
      /\ stored' \in BOOLEAN
  <2>1. 0 \in 0 .. PromptAfter /\ (misses < PromptAfter => misses + 1 \in 0 .. PromptAfter)
    BY DEF ClientTypes
  <2>2. CASE Account!Saved
    BY <2>1, <2>2, Zenon DEF Account!Saved
  <2>3. CASE Account!Quiet
    <3>1. misses' \in 0 .. PromptAfter
      BY <2>1, <2>3, Zenon DEF Account!Quiet, ClientTypes
    <3> QED BY <2>3, <3>1, Zenon DEF Account!Quiet, ClientTypes
  <2>4. CASE Account!Failed
    BY <2>1, <2>4, Zenon DEF Account!Failed, ClientTypes
  <2> QED BY <2>2, <2>3, <2>4 DEF Account!Update
<1>4. IdpTypes' /\ ServerTypes' /\ LaneTypes'
  BY <1>1 DEF IdpTypes, ServerTypes, LaneTypes, Account!service, Account!server
<1>5. ClientTypes'
  BY <1>1, <1>2, <1>3 DEF ClientTypes
<1>6. OneAtATime'
  BY <1>1 DEF OneAtATime, Answers, Account!server
<1>7. WorkFits' /\ TrustComesFirst'
  BY <1>1, <1>2 DEF WorkFits, TrustComesFirst, Answers, Account!Connected, Account!server
<1> QED BY <1>1, <1>4, <1>5, <1>6, <1>7 DEF Account!server

\* The silent tries go on only for a request that is still open.
LEMMA RetryKeeps ==
  ASSUME AccountInv, Account!Retry
  PROVE  AccountInv'
<1> USE AccountConstants DEF AccountInv, Account!SignInConstants
<1>1. /\ task = None /\ ~cancelled /\ reauth /\ retry' = FALSE /\ Account!BeginSilent(signInPhase)
      /\ ~needsTrust /\ Account!Connected
      /\ UNCHANGED <<idp, faults, Account!service, Account!server, s2c, c2s, open, activeNonce, token,
                     cancelled, needsTrust, reauth, misses, stored, trusted>>
  BY DEF Account!Retry, TrustComesFirst
<1>2. open /\ token = None /\ signInPhase = "choosing"
  BY <1>1 DEF WorkFits, ClientTypes
<1>3. \/ /\ trusted /\ signInPhase' = "working" /\ silent' = TRUE
         /\ task' = [kind |-> "silent", nonce |-> 0, result |-> None, token |-> None]
         /\ task' \in Account!Tasks /\ task' # None
      \/ UNCHANGED <<signInPhase, task, silent>>
  BY <1>1, SilentBegins DEF TrustComesFirst
<1>4. IdpTypes' /\ ServerTypes' /\ LaneTypes'
  BY <1>1 DEF IdpTypes, ServerTypes, LaneTypes, Account!service, Account!server
<1>5. ClientTypes'
  <2>1. /\ task' \in Account!Tasks \union {None} /\ silent' \in BOOLEAN
        /\ signInPhase' \in {"idle", "choosing", "working", "finished"}
    BY <1>3, Zenon DEF ClientTypes
  <2> QED BY <1>1, <2>1, Zenon DEF ClientTypes
<1>6. OneAtATime'
  BY <1>1 DEF OneAtATime, Answers, Account!server
<1>7. WorkFits' /\ TrustComesFirst'
  BY <1>1, <1>2, <1>3 DEF WorkFits, TrustComesFirst, Account!Connected, Account!server
<1> QED BY <1>1, <1>4, <1>5, <1>6, <1>7 DEF Account!server

\* What goes to the server is for its last request, and nothing else is on its way.
LEMMA PollTicketKeeps ==
  ASSUME AccountInv, Account!PollTicket
  PROVE  AccountInv'
<1> USE AccountConstants DEF AccountInv, Account!SignInConstants
<1>1. /\ open /\ Account!Connected /\ open' = FALSE /\ c2s = <<>> /\ pending /\ ticket = None
      /\ s2c = <<>>
      /\ UNCHANGED <<idp, faults, Account!service, nonce, pending, ticket, lastVerdict, s2c,
                     signInPhase, activeNonce, cancelled, needsTrust, reauth, silent, misses, retry,
                     task, stored, trusted>>
  BY DEF Account!PollTicket, OneAtATime
<1>2. \/ cancelled /\ signingIn' = "out" /\ UNCHANGED <<c2s, token>>
      \/ /\ ~cancelled /\ token # None /\ token \in Account!Token /\ Answers(token)
         /\ c2s' = <<token>> /\ token' = None /\ UNCHANGED signingIn
  BY <1>1, Single DEF Account!PollTicket, ClientTypes, WorkFits
<1>3. IdpTypes' /\ ServerTypes'
  BY <1>1, <1>2 DEF IdpTypes, ServerTypes, Account!service
<1>4. LaneTypes'
  BY <1>1, <1>2, Single DEF LaneTypes
<1>5. ClientTypes'
  <2>1. token' \in Account!Token \union {None}
    BY <1>2 DEF ClientTypes
  <2> QED BY <1>1, <2>1, Zenon DEF ClientTypes
<1>6. OneAtATime'
  BY <1>1, <1>2, Single DEF OneAtATime, Answers
<1>7. WorkFits' /\ TrustComesFirst'
  <2>1. CASE cancelled
    BY <1>1, <1>2, <2>1 DEF WorkFits, TrustComesFirst, Answers, Account!Connected
  <2>2. CASE ~cancelled
    <3>1. signInPhase = "finished" /\ task = None /\ ~needsTrust /\ ~reauth
      BY <1>1, <1>2, <2>2 DEF WorkFits, TrustComesFirst
    <3> QED BY <1>1, <1>2, <2>2, <3>1 DEF WorkFits, TrustComesFirst
  <2> QED BY <2>1, <2>2
<1> QED BY <1>1, <1>3, <1>4, <1>5, <1>6, <1>7

LEMMA AccountKeeps == AccountInv /\ [Account!Next]_accountVars => AccountInv'
<1> SUFFICES ASSUME AccountInv, [Account!Next]_accountVars PROVE AccountInv'
  OBVIOUS
<1>1. CASE Account!Next
  BY <1>1, ServiceKeeps, PollKeeps, RequestKeeps, DeadlineKeeps, AnswerKeeps, ReceiveRequestKeeps,
     TrustKeeps, StartKeeps, CancelKeeps, TaskEndKeeps, UpdateKeeps, RetryKeeps, PollTicketKeeps
     DEF Account!Next, Account!Worker
<1>2. CASE UNCHANGED accountVars
  <2> USE <1>2 DEF accountVars, AccountInv
  <2>1. IdpTypes' /\ ServerTypes' /\ LaneTypes' /\ ClientTypes'
    <3>1. IdpTypes' /\ ServerTypes' /\ LaneTypes'
      BY DEF IdpTypes, ServerTypes, LaneTypes
    <3>2. ClientTypes'
      BY ZenonT(60) DEF ClientTypes
    <3> QED BY <3>1, <3>2
  <2>2. OneAtATime' /\ WorkFits' /\ TrustComesFirst'
    BY DEF OneAtATime, WorkFits, TrustComesFirst, Answers, Account!Connected
  <2> QED BY <2>1, <2>2
<1> QED BY <1>1, <1>2

LEMMA AccountSays == AccountInv => Account!TypeOK /\ Account!NeverStuck /\ Account!AnswerFits
<1> SUFFICES ASSUME AccountInv PROVE Account!TypeOK /\ Account!NeverStuck /\ Account!AnswerFits
  OBVIOUS
<1>1. Account!TypeOK
  BY DEF AccountInv, Account!TypeOK, IdpTypes, ServerTypes, LaneTypes, ClientTypes
<1>2. Account!AnswerFits
  BY DEF AccountInv, Account!AnswerFits, OneAtATime, Answers
<1>3. Account!NeverStuck
  <2> SUFFICES ASSUME open, Account!Connected, ~cancelled, task = None, token = None,
                      ~(retry /\ reauth), ~(needsTrust /\ ~reauth)
               PROVE  Account!MayStart /\ (reauth => Account!PromptActive)
    BY DEF Account!NeverStuck
  <2>1. signInPhase = "choosing" /\ ~needsTrust
    BY DEF AccountInv, WorkFits, TrustComesFirst, ClientTypes
  <2> QED BY <2>1 DEF Account!MayStart, Account!PromptActive
<1> QED BY <1>1, <1>2, <1>3

-----------------------------------------------------------------------------
(* The parts side by side *)

\* A step of the run is a step of each part, or leaves it as it is.
LEMMA PartsStep ==
  ASSUME [RunNext]_allVars
  PROVE  /\ [Shell!Next]_shellVars /\ [Screen!Next]_screenVars /\ [Mesh!Next]_meshVars
         /\ [Player!Next]_playerVars /\ [Account!Next]_accountVars /\ [Next]_vars
BY DEF RunNext, Only, allVars

\* The session a state of the client talks to is there, and so is the ticket its sign-in waits for
\* (ClientApp::begin_connect, cancel_connect, tick_connecting).
THEOREM SessionsStayLive == RunSpec => []SessionsLive
<1>1. RunInit => ShellInv
  BY ShellStarts DEF RunInit
<1>2. ShellInv /\ [RunNext]_allVars => ShellInv'
  BY PartsStep, ShellKeeps
<1>3. ShellInv => SessionsLive
  BY ShellSays DEF SessionsLive
<1> QED BY <1>1, <1>2, <1>3, PTL DEF RunSpec

\* Whatever callbacks do to the screens and whenever they do it, the server is told of the end of
\* each, and once and under its name unless it was closed from its own close handler or under the
\* flag of a click on the HUD; and a press that went to a screen is no button in the game
\* (UiRuntime::open, close, ClientApp::frame).
THEOREM ScreensAlwaysHold == RunSpec => []ScreensHold
<1>1. RunInit => ScreenInv
  BY ScreenStarts DEF RunInit
<1>2. ScreenInv /\ [RunNext]_allVars => ScreenInv'
  BY PartsStep, ScreenKeeps
<1>3. ScreenInv => ScreensHold
  BY ScreenSays DEF ScreensHold
<1> QED BY <1>1, <1>2, <1>3, PTL DEF RunSpec

\* A wish to capture the mouse outlives a frame only where a screen or the chat still has it
\* (ClientApp::frame).
THEOREM CaptureIsAlwaysKept == RunSpec => CaptureIsKept
<1>1. RunInit => ScreenInv
  BY ScreenStarts DEF RunInit
<1>2. ScreenInv /\ [RunNext]_allVars => ScreenInv'
  BY PartsStep, ScreenKeeps
<1>3. ScreenInv /\ [RunNext]_allVars
        => [pc = "input" /\ pc' = "hud" /\ wished' => screenName' # None \/ chat']_(Screen!vars)
  BY PartsStep, CaptureWaits
<1> QED BY <1>1, <1>2, <1>3, PTL DEF RunSpec, CaptureIsKept, Screen!CaptureIsKept

\* For any world, any budgets and any number of threads: a mesh that is not due to be made again
\* shows what is there, its neighbours' borders included (ClientChunkStore's bump_all_neighbor_
\* revisions, ChunkRenderer::sync, ChunkMeshWorkerPool).
THEOREM MeshesStayCurrent == RunSpec => []MeshIsCurrent
<1>1. RunInit => MeshInv
  BY MeshStarts DEF RunInit
<1>2. MeshInv /\ [RunNext]_allVars => MeshInv'
  BY PartsStep, MeshKeeps
<1>3. MeshInv => MeshIsCurrent
  BY MeshSays DEF MeshIsCurrent
<1> QED BY <1>1, <1>2, <1>3, PTL DEF RunSpec

\* For any number of requests, keys and faults of the provider: a request to sign in never waits
\* for nobody, and what is verified for a request was made for it (SignInCoordinator's update and
\* poll_ticket, ServerSession::system_reauth, finish_reauth).
THEOREM SignInAlwaysHolds == RunSpec => []SignInHolds
<1>1. RunInit => AccountInv
  BY AccountStarts DEF RunInit
<1>2. AccountInv /\ [RunNext]_allVars => AccountInv'
  BY PartsStep, AccountKeeps
<1>3. AccountInv => SignInHolds
  BY AccountSays DEF SignInHolds
<1> QED BY <1>1, <1>2, <1>3, PTL DEF RunSpec

\* For any caps and numbers of inputs, lanes that lose and reorder and snapshots that are late:
\* each input moves the player once, in order, on the server and in the prediction, and the server
\* passes over none but those that came too late for kMaxCmds (ServerSession::handle_input_batch,
\* ClientSession::push_input, reconcile).
THEOREM InputsAlwaysCountOnce == RunSpec => []InputsCountOnce
<1>1. RunInit => PlayerInv
  BY PlayerStarts DEF RunInit
<1>2. PlayerInv /\ [RunNext]_allVars => PlayerInv'
  BY PartsStep, PlayerKeeps
<1>3. PlayerInv => InputsCountOnce
  BY PlayerSays DEF InputsCountOnce, PlayerInv
<1> QED BY <1>1, <1>2, <1>3, PTL DEF RunSpec

\* All the variables of a client are well typed.
THEOREM TypesAreRight == RunSpec => []TypesOK
<1> DEFINE AllInv == TypeOK /\ ShellInv /\ ScreenInv /\ MeshInv /\ PlayerInv /\ AccountInv
<1>1. RunInit => AllInv
  BY StartsAsArray, ShellStarts, ScreenStarts, MeshStarts, PlayerStarts, AccountStarts DEF RunInit
<1>2. AllInv /\ [RunNext]_allVars => AllInv'
  <2> SUFFICES ASSUME AllInv, [RunNext]_allVars PROVE AllInv'
    OBVIOUS
  <2>1. TypeOK'
    <3>1. CASE UNCHANGED vars
      BY <3>1 DEF TypeOK, vars
    <3> QED BY <3>1, PartsStep, StepIsArrayStep
  <2> QED BY <2>1, PartsStep, ShellKeeps, ScreenKeeps, MeshKeeps, PlayerKeeps, AccountKeeps
<1>3. AllInv => TypesOK
  BY ShellSays, ScreenSays, MeshSays, PlayerSays, AccountSays DEF TypesOK
<1> HIDE DEF AllInv
<1> QED BY <1>1, <1>2, <1>3, PTL DEF RunSpec
=============================================================================
