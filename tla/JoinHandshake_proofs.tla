------------------------ MODULE JoinHandshake_proofs ------------------------
(***************************************************************************)
(* What holds of the join handshake for every finite set of connections,   *)
(* whatever accounts they sign in with and whatever the bounds: types,     *)
(* names that tell players apart, at most one session per account in the   *)
(* game, no client that follows the protocol rejected for breaking it, and *)
(* rosters that name exactly the other players in game.                    *)
(***************************************************************************)
EXTENDS JoinHandshake, TLAPS, SequenceTheorems, FiniteSetTheorems, WellFoundedInduction

-----------------------------------------------------------------------------
(* The invariants *)

PlainTypes == {"connected", "closed", "Hello", "Auth", "AssetManifestRequest", "Ready",
               "ServerInfo", "Challenge", "AuthResult", "AuthRefused", "AssetManifest",
               "AssetData", "JoinAccept", "Disconnect"}
RosterTypes == {"PlayerList", "PlayerJoin", "PlayerLeave"}

\* What travels between a client and the server.
Messages == [type : PlainTypes, arg : {{}}]
            \union [type : {"AssetRequest"}, arg : {1..n : n \in 0..MaxChunks}]
            \union [type : RosterTypes, arg : SUBSET Conns]

\* The queues hold messages, and who syncs assets still needs some.
QueuesOK ==
  /\ inbox \in [Conns -> Seq(Messages)]
  /\ net \in [Conns -> Seq(Messages)]
  /\ out \in [Conns -> Seq(Messages)]
  /\ strayed \subseteq Conns
  /\ \A c \in Conns : cli[c] = "SyncingAssets" => need[c] > 0

TypeInv == TypeOK /\ QueuesOK

\* The types of the messages of a queue, and of all that is on its way to the server.
T(s) == {s[i].type : i \in DOMAIN s}
Pending(c) == T(inbox[c]) \union T(net[c])

Closing == <<Msg("closed")>>

\* The phases of the tick: what is polled is handled before the sweep, and the sweep
\* is over before the next poll.
PhaseInv ==
  /\ phase = "between" => \A c \in Conns : inbox[c] = <<>>
  /\ verified \union dropping # {} => phase = "tick" /\ \A c \in Conns : inbox[c] = <<>>

\* A connection is new to the server until its kConnected is handled, and that is
\* the first event of the connection and the only one of its kind.
Fresh(c) == cli[c] = "Offline" \/ "connected" \in Pending(c)
FreshOne(c) ==
  /\ cli[c] = "Offline" => Pending(c) = {}
  /\ Fresh(c) => srv[c] = "none" /\ c \notin signed
  /\ "connected" \in T(inbox[c]) => Head(inbox[c]).type = "connected"
                                    /\ "connected" \notin T(Tail(inbox[c])) \union T(net[c])
  /\ "connected" \in T(net[c]) => Head(net[c]).type = "connected"
                                  /\ "connected" \notin T(Tail(net[c])) /\ inbox[c] = <<>>
FreshInv == \A c \in Conns : FreshOne(c)

\* What a client has not yet been led to send: the asset exchange begins with the
\* verdict, and the request with the manifest.  Before the verdict the connection has no
\* login, and as long as the server does not give it up, it is open.
Before == {"AwaitingHello", "AwaitingAuth", "VerifyingAuth"}
ExchangeOne(c) ==
  /\ srv[c] \in Before \/ Fresh(c) =>
       /\ Pending(c) \cap {"AssetManifestRequest", "AssetRequest"} = {}
       /\ T(out[c]) \cap {"AuthResult", "AssetManifest"} = {}
       /\ cli[c] \notin {"AwaitingAssetManifest", "SyncingAssets", "Syncing", "Joined"}
       /\ c \in open \ signed
  /\ srv[c] = "AwaitingAssetManifestRequest" =>
       /\ "AssetRequest" \notin Pending(c)
       /\ "AssetManifest" \notin T(out[c])
       /\ cli[c] \notin {"SyncingAssets", "Syncing", "Joined"}
ExchangeInv == \A c \in Conns : ExchangeOne(c)

\* Server states of a session with a verified login.
Admitted == {"AwaitingAssetManifestRequest", "AwaitingAssetRequest", "StreamingAssets",
             "AwaitingReady", "Playing"}

\* A session in one of them has a login; once the server has closed it, all that is still
\* to come of it is its disconnect.
ClosingOne(c) ==
  /\ srv[c] \in Admitted => c \in signed
  /\ c \in signed \ open => net[c] = Closing \/ inbox[c] = Closing
  /\ net[c] = Closing => c \notin open \/ cli[c] = "Gone"
  /\ c \in dropping => srv[c] = "Closed"
ClosingInv == \A c \in Conns : ClosingOne(c)

\* The older session x gives way to y of the same account: y was just verified, and it
\* cannot get to play before x's disconnect is handled.
GivesWay(x, y) ==
  \/ /\ y \in verified /\ srv[y] = "AwaitingAssetManifestRequest"
  \/ /\ net[x] = Closing /\ srv[y] = "AwaitingAssetManifestRequest"
     /\ "AssetManifestRequest" \notin T(inbox[y])
  \/ /\ inbox[x] = Closing
     /\ \/ srv[y] = "AwaitingAssetManifestRequest"
        \/ srv[y] = "AwaitingAssetRequest" /\ "AssetRequest" \notin T(inbox[y])

SuccessionInv ==
  \A x, y \in Conns :
    x # y /\ Account(x) = Account(y) /\ srv[x] \in Admitted /\ srv[y] \in Admitted
      => GivesWay(x, y) \/ GivesWay(y, x)

SessionInv == PhaseInv /\ FreshInv /\ ExchangeInv /\ ClosingInv /\ SuccessionInv

-----------------------------------------------------------------------------
(* Messages and queues *)

\* Plain messages, requests and rosters are messages.
LEMMA MessagesOK ==
  /\ \A t \in PlainTypes : Msg(t) \in Messages
  /\ \A n \in 0..MaxChunks : MsgOf("AssetRequest", 1..n) \in Messages
  /\ \A t \in RosterTypes, S \in SUBSET Conns : MsgOf(t, S) \in Messages
  /\ \A m \in Messages : m.type \in PlainTypes \union {"AssetRequest"} \union RosterTypes
  /\ \A m \in Messages : m.type = "AssetRequest" => m.arg \in {1..n : n \in 0..MaxChunks}
  /\ \A m \in Messages : m.type \in RosterTypes => m.arg \subseteq Conns
BY DEF Messages, Msg, MsgOf, PlainTypes, RosterTypes

\* The message types of an empty queue, of a queue after its head is taken, and of one
\* that grew.
LEMMA TypesEmpty == T(<<>>) = {}
BY DEF T

LEMMA TypesHeadTail ==
  ASSUME NEW S, NEW s \in Seq(S), s # <<>>
  PROVE  /\ Tail(s) \in Seq(S) /\ Head(s) \in S
         /\ T(s) = {Head(s).type} \union T(Tail(s))
<1>1. /\ Head(s) \in S /\ Tail(s) \in Seq(S)
      /\ Len(s) \in Nat \ {0} /\ Len(Tail(s)) = Len(s) - 1
      /\ \A i \in 1..(Len(s) - 1) : Tail(s)[i] = s[i + 1]
      /\ DOMAIN s = 1..Len(s) /\ DOMAIN Tail(s) = 1..(Len(s) - 1)
      /\ Head(s) = s[1]
  BY HeadTailProperties, LenProperties, EmptySeq
<1>2. ASSUME NEW t \in T(s) PROVE t \in {Head(s).type} \union T(Tail(s))
  <2>1. PICK i \in 1..Len(s) : t = s[i].type
    BY <1>1, <1>2 DEF T
  <2>2. CASE i = 1
    BY <1>1, <2>1, <2>2
  <2>3. CASE i # 1
    <3>1. i - 1 \in 1..(Len(s) - 1) /\ (i - 1) + 1 = i
      BY <1>1, <2>1, <2>3
    <3>2. t = Tail(s)[i - 1].type
      BY <1>1, <2>1, <3>1
    <3> QED BY <1>1, <3>1, <3>2 DEF T
  <2> QED BY <2>2, <2>3
<1>3. ASSUME NEW t \in {Head(s).type} \union T(Tail(s)) PROVE t \in T(s)
  <2>1. CASE t = Head(s).type
    <3>1. 1 \in DOMAIN s /\ t = s[1].type
      BY <1>1, <2>1
    <3> QED BY <3>1 DEF T
  <2>2. CASE t \in T(Tail(s))
    <3>1. PICK i \in 1..(Len(s) - 1) : t = Tail(s)[i].type
      BY <1>1, <2>2 DEF T
    <3>2. i + 1 \in DOMAIN s /\ t = s[i + 1].type
      BY <1>1, <3>1
    <3> QED BY <3>2 DEF T
  <2> QED BY <1>3, <2>1, <2>2
<1> QED BY <1>1, <1>2, <1>3

LEMMA NoTypes ==
  ASSUME NEW S, NEW s \in Seq(S), T(s) = {}
  PROVE  s = <<>>
<1>1. s # <<>> => T(s) = {Head(s).type} \union T(Tail(s))
  BY TypesHeadTail, Zenon
<1> QED BY <1>1

LEMMA TypesConcat ==
  ASSUME NEW S, NEW s \in Seq(S), NEW t \in Seq(S)
  PROVE  s \o t \in Seq(S) /\ T(s \o t) = T(s) \union T(t)
<1>1. /\ s \o t \in Seq(S)
      /\ Len(s) \in Nat /\ Len(t) \in Nat
      /\ DOMAIN s = 1..Len(s) /\ DOMAIN t = 1..Len(t)
      /\ DOMAIN (s \o t) = 1..(Len(s) + Len(t))
      /\ \A i \in 1..(Len(s) + Len(t)) :
           (s \o t)[i] = IF i <= Len(s) THEN s[i] ELSE t[i - Len(s)]
  BY ConcatProperties, LenProperties
<1>2. ASSUME NEW x \in T(s \o t) PROVE x \in T(s) \union T(t)
  <2>1. PICK i \in 1..(Len(s) + Len(t)) : x = (s \o t)[i].type
    BY <1>1, <1>2 DEF T
  <2>2. CASE i <= Len(s)
    <3>1. i \in DOMAIN s /\ x = s[i].type
      BY <1>1, <2>1, <2>2
    <3> QED BY <3>1 DEF T
  <2>3. CASE ~(i <= Len(s))
    <3>1. i - Len(s) \in DOMAIN t /\ x = t[i - Len(s)].type
      BY <1>1, <2>1, <2>3
    <3> QED BY <3>1 DEF T
  <2> QED BY <2>2, <2>3
<1>3. ASSUME NEW x \in T(s) \union T(t) PROVE x \in T(s \o t)
  <2>1. CASE x \in T(s)
    <3>1. PICK i \in DOMAIN s : x = s[i].type
      BY <2>1 DEF T
    <3>2. i \in DOMAIN (s \o t) /\ x = (s \o t)[i].type
      BY <1>1, <3>1
    <3> QED BY <3>2 DEF T
  <2>2. CASE x \in T(t)
    <3>1. PICK i \in DOMAIN t : x = t[i].type
      BY <2>2 DEF T
    <3>2. i + Len(s) \in DOMAIN (s \o t) /\ x = (s \o t)[i + Len(s)].type
      BY <1>1, <3>1
    <3> QED BY <3>2 DEF T
  <2> QED BY <1>3, <2>1, <2>2
<1> QED BY <1>1, <1>2, <1>3

LEMMA TypesAppend ==
  ASSUME NEW S, NEW s \in Seq(S), NEW m \in S
  PROVE  Append(s, m) \in Seq(S) /\ T(Append(s, m)) = T(s) \union {m.type}
<1>1. Append(s, m) = s \o <<m>> /\ <<m>> \in Seq(S)
  BY AppendIsConcat
<1>2. T(<<m>>) = {m.type}
  BY DEF T
<1>3. s \o <<m>> \in Seq(S) /\ T(s \o <<m>>) = T(s) \union T(<<m>>)
  BY <1>1, TypesConcat
<1> QED BY <1>1, <1>2, <1>3, Zenon

\* A queue keeps its head when something is put behind it.
LEMMA HeadOfConcat ==
  ASSUME NEW S, NEW s \in Seq(S), NEW t \in Seq(S), s # <<>>
  PROVE  Head(s \o t) = Head(s) /\ T(Tail(s \o t)) = T(Tail(s)) \union T(t)
<1>1. Tail(s) \in Seq(S) /\ s \o t # <<>>
  BY TypesHeadTail, ConcatSimplifications, ConcatProperties, LenProperties, EmptySeq
<1>2. Head(s \o t) = Head(s) /\ Tail(s \o t) = Tail(s) \o t
  OBVIOUS
<1> QED BY <1>1, <1>2, TypesConcat, ZenonT(60)

\* The short queues that steps send.
LEMMA ShortQueues ==
  ASSUME NEW m1 \in Messages, NEW m2 \in Messages
  PROVE  /\ <<>> \in Seq(Messages)
         /\ <<m1>> \in Seq(Messages) /\ T(<<m1>>) = {m1.type}
         /\ <<m1, m2>> \in Seq(Messages) /\ T(<<m1, m2>>) = {m1.type, m2.type}
BY DEF T

LEMMA PlainQueues ==
  /\ \A t \in PlainTypes : <<Msg(t)>> \in Seq(Messages) /\ T(<<Msg(t)>>) = {t}
  /\ \A t, u \in PlainTypes : /\ <<Msg(t), Msg(u)>> \in Seq(Messages)
                              /\ T(<<Msg(t), Msg(u)>>) = {t, u}
<1>1. ASSUME NEW t \in PlainTypes, NEW u \in PlainTypes
      PROVE  /\ Msg(t) \in Messages /\ Msg(u) \in Messages
             /\ Msg(t).type = t /\ Msg(u).type = u
  BY MessagesOK DEF Msg
<1>2. ASSUME NEW t \in PlainTypes, NEW u \in PlainTypes
      PROVE  /\ <<Msg(t)>> \in Seq(Messages) /\ T(<<Msg(t)>>) = {t}
             /\ <<Msg(t), Msg(u)>> \in Seq(Messages) /\ T(<<Msg(t), Msg(u)>>) = {t, u}
  BY <1>1, ShortQueues
<1> QED BY <1>2

\* What one call of pump_assets sends, and leaves.
LEMMA SentOK ==
  ASSUME NEW n \in 0..MaxChunks
  PROVE  /\ Sent(n) \in Nat /\ n - Sent(n) \in 0..MaxChunks
         /\ [i \in 1..Sent(n) |-> Msg("AssetData")] \in Seq(Messages)
         /\ T([i \in 1..Sent(n) |-> Msg("AssetData")]) \subseteq {"AssetData"}
<1>1. MaxChunks \in Nat /\ AssetBudget \in Nat
  BY JoinHandshakeAssumption
<1>2. Sent(n) \in {n, AssetBudget} /\ Sent(n) <= n
  <2>1. \E x \in {n, AssetBudget} : \A y \in {n, AssetBudget} : x <= y
    BY <1>1
  <2>2. Sent(n) \in {n, AssetBudget} /\ \A y \in {n, AssetBudget} : Sent(n) <= y
    BY <2>1 DEF Sent, Min
  <2> QED BY <2>2
<1>3. Sent(n) \in Nat /\ n - Sent(n) \in 0..MaxChunks
  BY <1>1, <1>2
<1>4. Msg("AssetData") \in Messages /\ Msg("AssetData").type = "AssetData"
  BY MessagesOK DEF PlainTypes, Msg
<1> QED BY <1>3, <1>4 DEF T

\* What steps do to the queues.
LEMMA SendToOK ==
  ASSUME out \in [Conns -> Seq(Messages)], NEW c \in Conns, NEW ms \in Seq(Messages)
  PROVE  /\ SendTo(c, ms) \in [Conns -> Seq(Messages)]
         /\ \A d \in Conns : d # c => SendTo(c, ms)[d] = out[d]
         /\ T(SendTo(c, ms)[c]) \subseteq T(out[c]) \union T(ms)
<1>1. out[c] \o ms \in Seq(Messages) /\ T(out[c] \o ms) = T(out[c]) \union T(ms)
  BY TypesConcat
<1>2. SendTo(c, ms)[c] = IF Reads(c) THEN out[c] \o ms ELSE out[c]
  BY DEF SendTo
<1>3. T(SendTo(c, ms)[c]) \subseteq T(out[c]) \union T(ms)
  BY <1>1, <1>2
<1> QED BY <1>1, <1>3 DEF SendTo

LEMMA ConsumeOK ==
  ASSUME inbox \in [Conns -> Seq(Messages)], NEW c \in Conns, inbox[c] # <<>>, Consume(c)
  PROVE  /\ inbox' \in [Conns -> Seq(Messages)]
         /\ \A d \in Conns : d # c => inbox'[d] = inbox[d]
         /\ inbox'[c] = Tail(inbox[c])
         /\ Head(inbox[c]) \in Messages
         /\ T(inbox[c]) = {Head(inbox[c]).type} \union T(inbox'[c])
<1>1. /\ Tail(inbox[c]) \in Seq(Messages) /\ Head(inbox[c]) \in Messages
      /\ T(inbox[c]) = {Head(inbox[c]).type} \union T(Tail(inbox[c]))
  BY TypesHeadTail
<1>2. inbox'[c] = Tail(inbox[c])
  BY DEF Consume
<1>3. T(inbox[c]) = {Head(inbox[c]).type} \union T(inbox'[c])
  BY <1>1, <1>2
<1> QED BY <1>1, <1>2, <1>3 DEF Consume

LEMMA ReceiveOK ==
  ASSUME out \in [Conns -> Seq(Messages)], NEW c \in Conns, NEW type, Receive(c, type)
  PROVE  /\ out' \in [Conns -> Seq(Messages)]
         /\ \A d \in Conns : d # c => out'[d] = out[d]
         /\ Head(out[c]) \in Messages /\ Head(out[c]).type = type
         /\ T(out[c]) = {type} \union T(out'[c])
<1>1. /\ Tail(out[c]) \in Seq(Messages) /\ Head(out[c]) \in Messages
      /\ T(out[c]) = {Head(out[c]).type} \union T(Tail(out[c]))
  BY TypesHeadTail DEF Receive
<1>2. out'[c] = Tail(out[c])
  BY DEF Receive
<1>3. T(out[c]) = {Head(out[c]).type} \union T(out'[c])
  BY <1>1, <1>2
<1> QED BY <1>1, <1>2, <1>3 DEF Receive

LEMMA SendOK ==
  ASSUME net \in [Conns -> Seq(Messages)], NEW c \in Conns, NEW ms \in Seq(Messages), Send(c, ms)
  PROVE  /\ net' \in [Conns -> Seq(Messages)]
         /\ \A d \in Conns : d # c => net'[d] = net[d]
         /\ net'[c] = IF c \in open THEN net[c] \o ms ELSE net[c]
         /\ T(net'[c]) = IF c \in open THEN T(net[c]) \union T(ms) ELSE T(net[c])
<1>1. net[c] \o ms \in Seq(Messages) /\ T(net[c] \o ms) = T(net[c]) \union T(ms)
  BY TypesConcat
<1>2. net'[c] = IF c \in open THEN net[c] \o ms ELSE net[c]
  BY DEF Send
<1>3. T(net'[c]) = IF c \in open THEN T(net[c]) \union T(ms) ELSE T(net[c])
  BY <1>1, <1>2
<1> QED BY <1>1, <1>2, <1>3 DEF Send

LEMMA DropOK ==
  ASSUME net \in [Conns -> Seq(Messages)], open \subseteq Conns, NEW cs, Drop(cs)
  PROVE  /\ net' \in [Conns -> Seq(Messages)]
         /\ open' \subseteq open
         /\ \A d \in Conns : IF d \in cs /\ d \in open THEN net'[d] = Closing
                                                         ELSE net'[d] = net[d]
<1>1. Closing \in Seq(Messages)
  BY MessagesOK DEF Closing, PlainTypes
<1> QED BY <1>1 DEF Drop, Closing

\* A closed queue holds nothing but the disconnect.
LEMMA ClosingOK ==
  /\ Closing \in Seq(Messages) /\ Closing # <<>>
  /\ T(Closing) = {"closed"} /\ Head(Closing).type = "closed" /\ Tail(Closing) = <<>>
<1>1. Msg("closed") \in Messages /\ Msg("closed").type = "closed"
  BY MessagesOK DEF PlainTypes, Msg
<1>2. T(Closing) = {Msg("closed").type}
  BY DEF T, Closing
<1> QED BY <1>1, <1>2 DEF Closing

-----------------------------------------------------------------------------
(* resolve_name *)

\* There is a name for everybody: among one more names than connections, some connection
\* would have to hold two if all were taken; and there is a least among those that are free.
LEMMA FreshNameOK ==
  ASSUME NEW c \in Conns
  PROVE  FreshName(c) \in 1..(Cardinality(Conns) + 1) /\ ~Taken(c, FreshName(c))
<1> DEFINE N == Cardinality(Conns) + 1
           Free == {n \in 1..N : ~Taken(c, n)}
           R == OpToRel(<, Nat)
<1>1. IsFiniteSet(Conns) /\ Cardinality(Conns) \in Nat
  BY JoinHandshakeAssumption, FS_CardinalityType
<1>2. IsFiniteSet(1..N) /\ Cardinality(1..N) = N
  BY <1>1, FS_Interval
<1>3. Free # {}
  <2> SUFFICES ASSUME \A n \in 1..N : Taken(c, n) PROVE FALSE
    OBVIOUS
  <2> DEFINE f == [n \in 1..N |-> CHOOSE d \in Conns : name[d] = n]
  <2>1. \A n \in 1..N : \E d \in Conns : name[d] = n
    BY DEF Taken
  <2>2. \A n \in 1..N : f[n] \in Conns /\ name[f[n]] = n
    BY <2>1
  <2>3. f \in [1..N -> Conns]
    BY <2>2
  <2>4. Cardinality(Conns) < Cardinality(1..N)
    BY <1>1, <1>2
  <2> HIDE DEF f
  <2>5. \E x, y \in 1..N : x # y /\ f[x] = f[y]
    BY <1>1, <1>2, <2>3, <2>4, FS_PigeonHole
  <2> QED BY <2>2, <2>5
<1>4. PICK n \in Free : \A m \in Free : ~(<<m, n>> \in R)
  <2>1. IsWellFoundedOn(R, Nat)
    BY NatLessThanWellFounded
  <2>2. Free \subseteq Nat
    BY <1>1
  <2> HIDE DEF Free, R
  <2> QED BY <1>3, <2>1, <2>2, WFMin
<1>5. n \in 1..N /\ ~Taken(c, n) /\ \A m \in 1..(n - 1) : Taken(c, m)
  <2>1. ASSUME NEW m \in 1..(n - 1), ~Taken(c, m) PROVE FALSE
    <3>1. m \in Free /\ m \in Nat /\ n \in Nat /\ m < n
      BY <1>1, <2>1
    <3>2. <<m, n>> \in R
      BY <3>1 DEF OpToRel
    <3> QED BY <1>4, <3>1, <3>2
  <2> QED BY <2>1
<1> QED BY <1>5 DEF FreshName

-----------------------------------------------------------------------------
(* Types *)

\* The counts that steps store are within their bounds.
LEMMA BoundsOK ==
  /\ 0 \in 0..MaxChunks /\ 0 \in 0..(Cardinality(Conns) + 1)
  /\ \A n \in 0..MaxChunks : /\ Cardinality(1..n) = n
                             /\ n > 0 => n - 1 \in 0..MaxChunks
                             /\ n > 1 => n - 1 > 0
                             /\ n # 0 => n > 0
  /\ \A c \in Conns : FreshName(c) \in 0..(Cardinality(Conns) + 1)
<1>1. Cardinality(Conns) \in Nat /\ MaxChunks \in Nat
  BY JoinHandshakeAssumption, FS_CardinalityType
<1>2. ASSUME NEW n \in 0..MaxChunks PROVE Cardinality(1..n) = n
  BY <1>1, FS_Interval
<1>3. ASSUME NEW c \in Conns PROVE FreshName(c) \in 0..(Cardinality(Conns) + 1)
  <2>1. FreshName(c) \in 1..(Cardinality(Conns) + 1)
    BY FreshNameOK
  <2> QED BY <1>1, <2>1
<1> QED BY <1>1, <1>2, <1>3

LEMMA TypeInit == Init => TypeInv
<1>1. Cardinality(Conns) \in Nat /\ MaxChunks \in Nat
  BY JoinHandshakeAssumption, FS_CardinalityType
<1> QED BY <1>1 DEF Init, TypeInv, TypeOK, QueuesOK, ServerStates, ClientStates, Handshaking

\* The server's steps for one connection.
LEMMA TypeServer ==
  ASSUME TypeInv, NEW c \in Conns, NEW late \in BOOLEAN, HandleOne(c) \/ SweepOne(c, late)
  PROVE  TypeInv'
<1> USE DEF TypeInv, TypeOK, QueuesOK, ServerStates, Handshaking
<1>1. 0 \in 0..MaxChunks /\ 0 \in 0..(Cardinality(Conns) + 1)
  BY BoundsOK
<1>2. FreshName(c) \in 0..(Cardinality(Conns) + 1)
  BY BoundsOK
<1>3. /\ \A t \in PlainTypes : <<Msg(t)>> \in Seq(Messages)
      /\ \A t, u \in PlainTypes : <<Msg(t), Msg(u)>> \in Seq(Messages)
  BY MessagesOK, ShortQueues
<1>4. /\ SendTo(c, <<>>) \in [Conns -> Seq(Messages)]
      /\ \A t \in PlainTypes : SendTo(c, <<Msg(t)>>) \in [Conns -> Seq(Messages)]
      /\ \A t, u \in PlainTypes : SendTo(c, <<Msg(t), Msg(u)>>) \in [Conns -> Seq(Messages)]
  <2>1. ASSUME NEW ms \in Seq(Messages) PROVE SendTo(c, ms) \in [Conns -> Seq(Messages)]
    BY SendToOK
  <2>2. <<>> \in Seq(Messages)
    BY EmptySeq
  <2> QED BY <1>3, <2>1, <2>2
<1>5. ASSUME NEW cs, Drop(cs) PROVE net' \in [Conns -> Seq(Messages)] /\ open' \subseteq Conns
  BY <1>5, DropOK
<1>6. ASSUME inbox[c] # <<>>, Consume(c)
      PROVE  inbox' \in [Conns -> Seq(Messages)] /\ Head(inbox[c]) \in Messages
  BY <1>6, ConsumeOK
<1>7. CASE Accept(c)
  BY <1>6, <1>7 DEF Accept, Polled, sweepVars, clientVars
<1>8. CASE Forget(c)
  <2>1. MsgOf("PlayerLeave", {c}) \in Messages
    BY MessagesOK DEF RosterTypes
  <2>2. \A d \in Conns : Append(out[d], MsgOf("PlayerLeave", {c})) \in Seq(Messages)
    BY <2>1, TypesAppend
  <2>3. out' \in [Conns -> Seq(Messages)]
    BY <1>8, <2>2 DEF Forget
  <2>4. name' \in [Conns -> 0..(Cardinality(Conns) + 1)] /\ left' \in [Conns -> 0..MaxChunks]
    BY <1>1, <1>8 DEF Forget
  <2> QED BY <1>6, <1>8, <2>3, <2>4 DEF Forget, Polled, sweepVars, clientVars
<1>19. ASSUME NEW reason \in {"ServerFull", "AuthFailed", "BadHandshake"}, Fail(c, reason)
       PROVE  /\ out' \in [Conns -> Seq(Messages)] /\ net' \in [Conns -> Seq(Messages)]
              /\ open' \subseteq Conns /\ srv' \in [Conns -> ServerStates]
              /\ why' \in [Conns -> {"none", "BadHandshake", "PackChanged", "ServerFull",
                                    "AuthFailed", "Timeout", "unexpected frame"}]
              /\ UNCHANGED <<signed, name, left>>
  <2>1. net' \in [Conns -> Seq(Messages)] /\ open' \subseteq Conns
    BY <1>5, <1>19 DEF Fail
  <2>2. out' \in [Conns -> Seq(Messages)]
    BY <1>4, <1>19 DEF Fail, PlainTypes
  <2>3. srv' \in [Conns -> ServerStates]
    BY <1>19 DEF Fail
  <2>4. why' \in [Conns -> {"none", "BadHandshake", "PackChanged", "ServerFull",
                           "AuthFailed", "Timeout", "unexpected frame"}]
    BY <1>19 DEF Fail, Blame
  <2>5. UNCHANGED <<signed, name, left>>
    BY <1>19 DEF Fail
  <2> QED BY <2>1, <2>2, <2>3, <2>4, <2>5
<1>21. ASSUME Admit(c)
       PROVE  /\ out' \in [Conns -> Seq(Messages)] /\ srv' \in [Conns -> ServerStates]
              /\ name' \in [Conns -> 0..(Cardinality(Conns) + 1)] /\ signed' \subseteq Conns
  <2>1. out' \in [Conns -> Seq(Messages)]
    BY <1>4, <1>21 DEF Admit, Advance, PlainTypes
  <2>2. srv' \in [Conns -> ServerStates]
    BY <1>21 DEF Admit, Advance
  <2>3. name' \in [Conns -> 0..(Cardinality(Conns) + 1)] /\ signed' \subseteq Conns
    BY <1>2, <1>21 DEF Admit
  <2> QED BY <2>1, <2>2, <2>3
<1>9. CASE OnHello(c)
  <2>1. CASE Fail(c, "AuthFailed")
    BY <1>6, <1>9, <1>19, <2>1 DEF OnHello, Polled, sweepVars, clientVars
  <2>2. CASE /\ Advance(c, "AwaitingAuth", <<Msg("ServerInfo"), Msg("Challenge")>>)
             /\ UNCHANGED <<net, open, signed, name, left, why>>
    BY <1>4, <1>6, <1>9, <2>2 DEF OnHello, PlainTypes, Polled, Advance, sweepVars, clientVars
  <2> QED BY <1>9, <2>1, <2>2 DEF OnHello
<1>10. CASE OnAuth(c)
  <2>1. ASSUME Refuse(c), Drop({c}) PROVE TypeInv'
    BY <1>4, <1>5, <1>6, <1>10, <2>1 DEF OnAuth, Polled, Refuse, Blame, sweepVars, clientVars, PlainTypes
  <2>2. ASSUME Admit(c), Drop(Duplicates(c)), UNCHANGED <<left, why>> PROVE TypeInv'
    <3>1. UNCHANGED <<left, why>>
      BY <2>2
    <3>2. net' \in [Conns -> Seq(Messages)] /\ open' \subseteq Conns
      BY <1>5, <2>2
    <3>3. inbox' \in [Conns -> Seq(Messages)] /\ UNCHANGED <<phase, sweepVars, clientVars>>
      BY <1>6, <1>10 DEF OnAuth, Polled
    <3> QED BY <1>21, <2>2, <3>1, <3>2, <3>3 DEF sweepVars, clientVars
  <2>3. ASSUME \/ Fail(c, "ServerFull") \/ Fail(c, "AuthFailed") PROVE TypeInv'
    BY <1>6, <1>10, <1>19, <2>3 DEF OnAuth, Polled, sweepVars, clientVars
  <2>4. ASSUME srv' = [srv EXCEPT ![c] = "VerifyingAuth"],
               UNCHANGED <<net, out, open, signed, name, left, why>>
        PROVE  TypeInv'
    BY <1>6, <1>10, <2>4 DEF OnAuth, Polled, sweepVars, clientVars
  <2> QED BY <1>10, <2>1, <2>2, <2>3, <2>4 DEF OnAuth
<1>11. CASE OnAssetManifestRequest(c)
  BY <1>4, <1>6, <1>11 DEF OnAssetManifestRequest, Polled, Advance, sweepVars, clientVars, PlainTypes
<1>12. CASE OnAssetRequest(c)
  <2>1. Head(inbox[c]) \in Messages /\ Head(inbox[c]).type = "AssetRequest"
    BY <1>6, <1>12 DEF OnAssetRequest, Polled
  <2>2. PICK n \in 0..MaxChunks : Head(inbox[c]).arg = 1..n
    BY <2>1, MessagesOK
  <2>3. Cardinality(1..n) = n
    BY BoundsOK
  <2>4. Cardinality(Head(inbox[c]).arg) \in 0..MaxChunks
    BY <2>2, <2>3
  <2> QED BY <1>6, <1>12, <2>4 DEF OnAssetRequest, Polled, sweepVars, clientVars
<1>13. CASE OnReady(c)
  <2>1. Playing \subseteq Conns
    BY DEF Playing
  <2>2. /\ Msg("JoinAccept") \in Messages /\ MsgOf("PlayerList", Playing) \in Messages
        /\ MsgOf("PlayerJoin", {c}) \in Messages
    BY <2>1, MessagesOK DEF RosterTypes, PlainTypes
  <2>3. ASSUME NEW P \in SUBSET Conns
        PROVE  <<Msg("JoinAccept"), MsgOf("PlayerList", P)>> \in Seq(Messages)
    BY <2>3, MessagesOK, ShortQueues DEF RosterTypes, PlainTypes
  <2>4. \A d \in Conns : Append(out[d], MsgOf("PlayerJoin", {c})) \in Seq(Messages)
    BY <2>2, TypesAppend
  <2>5. out[c] \o <<Msg("JoinAccept"), MsgOf("PlayerList", Playing)>> \in Seq(Messages)
    BY <2>1, <2>3, TypesConcat
  <2>6. out' \in [Conns -> Seq(Messages)]
    BY <1>13, <2>4, <2>5 DEF OnReady
  <2> QED BY <1>6, <1>13, <2>6 DEF OnReady, Polled, sweepVars, clientVars
<1>14. CASE OnUnexpected(c)
  BY <1>6, <1>14, <1>19 DEF OnUnexpected, sweepVars, clientVars
<1>15. CASE BypassHandshake(c)
  BY <1>6, <1>15 DEF BypassHandshake, sweepVars, clientVars
<1>20. ASSUME SweepOne(c, late)
       PROVE  /\ UNCHANGED <<phase, inbox, net, open, clientVars>>
              /\ swept' = swept \union {c}
  BY <1>20 DEF SweepOne, Sweeping
<1>16. CASE SweepOne(c, late)
  <2>1. CASE PumpAssets(c, late)
    <3>1. /\ [i \in 1..Sent(left[c]) |-> Msg("AssetData")] \in Seq(Messages)
          /\ left[c] - Sent(left[c]) \in 0..MaxChunks
      BY SentOK
    <3>2. [i \in 1..Sent(left[c]) |-> Msg("AssetData")] \o <<Msg("Disconnect")>> \in Seq(Messages)
      BY <1>3, <3>1, TypesConcat DEF PlainTypes
    <3>3. /\ SendTo(c, [i \in 1..Sent(left[c]) |-> Msg("AssetData")]) \in [Conns -> Seq(Messages)]
          /\ SendTo(c, [i \in 1..Sent(left[c]) |-> Msg("AssetData")] \o <<Msg("Disconnect")>>)
               \in [Conns -> Seq(Messages)]
      BY <3>1, <3>2, SendToOK
    <3>4. Streamed(left[c]) \in {"AwaitingReady", "StreamingAssets"}
      BY DEF Streamed
    <3>5. out' \in [Conns -> Seq(Messages)] /\ srv' \in [Conns -> ServerStates]
      BY <2>1, <3>3, <3>4 DEF PumpAssets, Conclude, Advance
    <3>6. left' \in [Conns -> 0..MaxChunks]
      BY <2>1, <3>1 DEF PumpAssets
    <3> QED BY <1>16, <2>1, <3>5, <3>6
            DEF SweepOne, Sweeping, PumpAssets, Conclude, Advance, Blame, clientVars
  <2>2. CASE VisitOnly(c, late)
    <3>4. <<>> \o <<Msg("Disconnect")>> \in Seq(Messages)
      BY <1>3, ConcatProperties, EmptySeq DEF PlainTypes
    <3>1. SendTo(c, <<>> \o <<Msg("Disconnect")>>) \in [Conns -> Seq(Messages)]
      BY <3>4, SendToOK
    <3>2. out' \in [Conns -> Seq(Messages)]
      BY <1>4, <2>2, <3>1 DEF VisitOnly, Conclude, Advance, PlainTypes
    <3>3. srv' \in [Conns -> ServerStates]
      BY <2>2 DEF VisitOnly, Conclude, Advance
    <3> QED BY <1>16, <2>2, <3>2, <3>3
            DEF SweepOne, Sweeping, VisitOnly, Conclude, Blame, clientVars
  <2>3. CASE PumpRefused(c)
    <3>1. /\ out' \in [Conns -> Seq(Messages)] /\ srv' \in [Conns -> ServerStates]
          /\ UNCHANGED <<left, signed, name, verified>>
      BY <1>4, <2>3 DEF PumpRefused, PlainTypes
    <3>2. /\ why' \in [Conns -> {"none", "BadHandshake", "PackChanged", "ServerFull",
                                 "AuthFailed", "Timeout", "unexpected frame"}]
          /\ dropping' = dropping \union {c}
      BY <2>3 DEF PumpRefused, Blame
    <3> QED BY <1>16, <1>20, <3>1, <3>2 DEF clientVars
  <2>4. CASE VerdictRefused(c)
    <3>1. /\ out' \in [Conns -> Seq(Messages)] /\ srv' \in [Conns -> ServerStates]
          /\ UNCHANGED <<left, signed, name, verified>>
      BY <1>4, <2>4 DEF VerdictRefused, Refuse, PlainTypes
    <3>2. /\ why' \in [Conns -> {"none", "BadHandshake", "PackChanged", "ServerFull",
                                 "AuthFailed", "Timeout", "unexpected frame"}]
          /\ dropping' = dropping \union {c}
      BY <2>4 DEF VerdictRefused, Refuse, Blame
    <3> QED BY <1>16, <1>20, <3>1, <3>2 DEF clientVars
  <2>5. CASE VerdictVerified(c)
    <3>1. Admit(c) /\ verified' = verified \union {c} /\ UNCHANGED <<left, dropping, why>>
      BY <2>5 DEF VerdictVerified
    <3> QED BY <1>16, <1>20, <1>21, <3>1 DEF clientVars
  <2> QED BY <1>16, <2>1, <2>2, <2>3, <2>4, <2>5 DEF SweepOne
<1> QED BY <1>7, <1>8, <1>9, <1>10, <1>11, <1>12, <1>13, <1>14, <1>15, <1>16 DEF HandleOne

\* The steps of one client.
LEMMA TypeClient ==
  ASSUME TypeInv, NEW c \in Conns, ClientStep(c) \/ LoseServer(c) \/ GiveUp(c)
  PROVE  TypeInv'
<1> USE DEF TypeInv, TypeOK, QueuesOK, ClientStates
<1>1. \A n \in 0..MaxChunks : /\ n > 0 => n - 1 \in 0..MaxChunks
                              /\ n > 1 => n - 1 > 0
                              /\ n # 0 => n > 0
  BY BoundsOK
<1>2. \A t \in PlainTypes : <<Msg(t)>> \in Seq(Messages)
  BY MessagesOK, ShortQueues
<1>3. ASSUME NEW t \in PlainTypes, Send(c, <<Msg(t)>>) PROVE net' \in [Conns -> Seq(Messages)]
  BY <1>2, <1>3, SendOK
<1>4. ASSUME NEW type, Receive(c, type)
      PROVE  /\ out' \in [Conns -> Seq(Messages)]
             /\ Head(out[c]) \in Messages /\ Head(out[c]).type = type
  BY <1>4, ReceiveOK
<1>5. CASE Connect(c)
  BY <1>3, <1>5 DEF Connect, Become, serverVars, PlainTypes
<1>6. CASE Start(c)
  BY <1>3, <1>6 DEF Start, Become, serverVars, PlainTypes
<1>7. CASE OnServerInfo(c)
  BY <1>4, <1>7 DEF OnServerInfo, Become, serverVars
<1>8. CASE OnChallenge(c)
  BY <1>4, <1>8 DEF OnChallenge, Become, serverVars
<1>9. CASE SignedIn(c)
  BY <1>3, <1>9 DEF SignedIn, Become, serverVars, PlainTypes
<1>10. CASE OnAuthResult(c)
  BY <1>3, <1>4, <1>10 DEF OnAuthResult, Become, serverVars, PlainTypes
<1>11. CASE OnAssetManifest(c)
  <2>1. PICK n \in 0..MaxChunks :
          /\ need' = [need EXCEPT ![c] = n]
          /\ Become(c, IF n = 0 THEN "Syncing" ELSE "SyncingAssets")
          /\ Send(c, <<MsgOf("AssetRequest", 1..n)>> \o (IF n = 0 THEN <<Msg("Ready")>> ELSE <<>>))
    BY <1>11 DEF OnAssetManifest
  <2>2. /\ <<MsgOf("AssetRequest", 1..n)>> \in Seq(Messages)
        /\ (IF n = 0 THEN <<Msg("Ready")>> ELSE <<>>) \in Seq(Messages)
    BY MessagesOK, ShortQueues DEF PlainTypes
  <2>3. <<MsgOf("AssetRequest", 1..n)>> \o (IF n = 0 THEN <<Msg("Ready")>> ELSE <<>>)
          \in Seq(Messages)
    BY <2>2, ConcatProperties
  <2>4. net' \in [Conns -> Seq(Messages)]
    BY <2>1, <2>3, SendOK
  <2>5. /\ need' \in [Conns -> 0..MaxChunks] /\ cli' \in [Conns -> ClientStates]
        /\ \A d \in Conns : cli'[d] = "SyncingAssets" => need'[d] > 0
    BY <1>1, <2>1 DEF Become
  <2>6. out' \in [Conns -> Seq(Messages)]
    BY <1>4, <1>11 DEF OnAssetManifest
  <2> QED BY <1>11, <2>4, <2>5, <2>6 DEF OnAssetManifest, serverVars
<1>12. CASE OnAssetData(c)
  <2>1. net' \in [Conns -> Seq(Messages)]
    BY <1>3, <1>12 DEF OnAssetData, PlainTypes
  <2>2. need[c] \in 0..MaxChunks /\ need[c] > 0
    BY <1>12 DEF OnAssetData
  <2>3. need[c] - 1 \in 0..MaxChunks /\ (need[c] > 1 => need[c] - 1 > 0)
    BY <1>1, <2>2
  <2>4. /\ need' \in [Conns -> 0..MaxChunks] /\ cli' \in [Conns -> ClientStates]
        /\ \A d \in Conns : cli'[d] = "SyncingAssets" => need'[d] > 0
    BY <1>12, <2>3 DEF OnAssetData, Become
  <2>5. out' \in [Conns -> Seq(Messages)]
    BY <1>4, <1>12 DEF OnAssetData
  <2> QED BY <1>12, <2>1, <2>4, <2>5 DEF OnAssetData, serverVars
<1>13. CASE OnJoinAccept(c)
  BY <1>4, <1>13 DEF OnJoinAccept, Become, serverVars
<1>14. CASE OnRoster(c)
  <2>1. PICK type \in RosterTypes :
          /\ Receive(c, type)
          /\ roster' = [roster EXCEPT ![c] =
               IF type = "PlayerList" THEN Head(out[c]).arg
               ELSE IF type = "PlayerJoin" THEN @ \union Head(out[c]).arg
               ELSE @ \ Head(out[c]).arg]
    BY <1>14 DEF OnRoster, RosterTypes
  <2>2. Head(out[c]).arg \subseteq Conns
    BY <1>4, <2>1, MessagesOK
  <2>3. roster' \in [Conns -> SUBSET Conns]
    BY <2>1, <2>2
  <2> QED BY <1>4, <1>14, <2>1, <2>3 DEF OnRoster, serverVars
<1>15. CASE OnOtherFrame(c)
  <2>1. PICK type : Receive(c, type)
    BY <1>15 DEF OnOtherFrame
  <2>2. out' \in [Conns -> Seq(Messages)]
    BY <1>4, <2>1
  <2>3. /\ UNCHANGED <<serverVars, net, need, roster, strayed>>
        /\ cli' = cli \/ cli' = [cli EXCEPT ![c] = "Failed"]
        /\ why' = why \/ why' = [why EXCEPT ![c] = IF @ = "none" THEN "unexpected frame" ELSE @]
    BY <1>15 DEF OnOtherFrame, Become, Blame
  <2>4. /\ cli' \in [Conns -> ClientStates]
        /\ \A d \in Conns : cli'[d] = "SyncingAssets" => need'[d] > 0
    BY <2>3, ZenonT(60)
  <2>5. why' \in [Conns -> {"none", "BadHandshake", "PackChanged", "ServerFull",
                           "AuthFailed", "Timeout", "unexpected frame"}]
    BY <2>3
  <2> QED BY <2>2, <2>3, <2>4, <2>5 DEF serverVars
<1>16. CASE Stray(c)
  BY <1>3, <1>16 DEF Stray, serverVars, PlainTypes
<1>17. CASE LoseServer(c)
  <2>1. out' \in [Conns -> Seq(Messages)]
    BY <1>17, EmptySeq DEF LoseServer
  <2> QED BY <1>17, <2>1 DEF LoseServer, Become, serverVars
<1>18. CASE GiveUp(c)
  <2>1. net' \in [Conns -> Seq(Messages)]
    BY <1>2, <1>18 DEF GiveUp, PlainTypes
  <2>2. out' \in [Conns -> Seq(Messages)]
    BY <1>18, EmptySeq DEF GiveUp
  <2> QED BY <1>18, <2>1, <2>2 DEF GiveUp, Become, serverVars
<1> QED BY <1>5, <1>6, <1>7, <1>8, <1>9, <1>10, <1>11, <1>12, <1>13, <1>14, <1>15, <1>16, <1>17,
           <1>18 DEF ClientStep

LEMMA TypeStep == TypeInv /\ [Next]_vars => TypeInv'
<1> SUFFICES ASSUME TypeInv, [Next]_vars PROVE TypeInv'
  OBVIOUS
<1>1. CASE Poll
  <2>1. net' \in [Conns -> Seq(Messages)]
    BY <1>1, EmptySeq DEF Poll
  <2> QED BY <1>1, <2>1 DEF Poll, TypeInv, TypeOK, QueuesOK, sweepVars, clientVars
<1>2. CASE EndTick
  <2>1. net' \in [Conns -> Seq(Messages)] /\ open' \subseteq Conns
    BY <1>2, DropOK DEF EndTick, TypeInv, TypeOK, QueuesOK
  <2> QED BY <1>2, <2>1 DEF EndTick, TypeInv, TypeOK, QueuesOK, clientVars
<1>3. CASE UNCHANGED vars
  BY <1>3 DEF vars, serverVars, clientVars, TypeInv, TypeOK, QueuesOK
<1> QED BY <1>1, <1>2, <1>3, TypeServer, TypeClient DEF Next, ServerStep

\* Peers, sessions, queues and rosters always hold what they are declared to hold.
THEOREM TypeCorrect == Spec => []TypeInv
BY TypeInit, TypeStep, PTL DEF Spec

-----------------------------------------------------------------------------
(* Names *)

\* A connection's name changes to none, or to a free one.
LEMMA NameStep ==
  ASSUME TypeInv, [Next]_vars
  PROVE  \/ name' = name
         \/ \E c \in Conns : name' = [name EXCEPT ![c] = 0]
         \/ \E c \in Conns : name' = [name EXCEPT ![c] = FreshName(c)]
<1>1. ASSUME NEW c \in Conns, HandleOne(c)
      PROVE  name' = name \/ name' = [name EXCEPT ![c] = 0] \/ name' = [name EXCEPT ![c] = FreshName(c)]
  BY <1>1 DEF HandleOne, Accept, Forget, OnHello, OnAuth, OnAssetManifestRequest, OnAssetRequest,
              OnReady, OnUnexpected, BypassHandshake, Fail, Refuse, Admit
<1>2. ASSUME NEW c \in Conns, NEW late \in BOOLEAN, SweepOne(c, late)
      PROVE  name' = name \/ name' = [name EXCEPT ![c] = FreshName(c)]
  BY <1>2 DEF SweepOne, PumpAssets, VisitOnly, PumpRefused, VerdictRefused, VerdictVerified,
              Refuse, Admit
<1>3. ASSUME NEW c \in Conns, ClientStep(c) \/ LoseServer(c) \/ GiveUp(c)
      PROVE  name' = name
  BY <1>3 DEF ClientStep, Connect, Start, OnServerInfo, OnChallenge, SignedIn, OnAuthResult,
              OnAssetManifest, OnAssetData, OnJoinAccept, OnRoster, OnOtherFrame, Stray,
              LoseServer, GiveUp, serverVars
<1>4. Poll \/ EndTick \/ UNCHANGED vars => name' = name
  BY DEF Poll, EndTick, vars, serverVars
<1> QED BY <1>1, <1>2, <1>3, <1>4 DEF Next, ServerStep

\* A name that is given is free of every connection of another account, so names stay unique.
LEMMA NamesStep == TypeInv /\ UniqueNames /\ [Next]_vars => UniqueNames'
<1> SUFFICES ASSUME TypeInv, UniqueNames, [Next]_vars PROVE UniqueNames'
  OBVIOUS
<1> name \in [Conns -> 0..(Cardinality(Conns) + 1)]
  BY DEF TypeInv, TypeOK
<1>1. CASE name' = name
  BY <1>1 DEF UniqueNames
<1>2. ASSUME NEW c \in Conns, name' = [name EXCEPT ![c] = 0] PROVE UniqueNames'
  BY <1>2 DEF UniqueNames
<1>3. ASSUME NEW c \in Conns, name' = [name EXCEPT ![c] = FreshName(c)] PROVE UniqueNames'
  <2>1. \A d \in Conns : Account(d) # Account(c) => name[d] # FreshName(c)
    BY FreshNameOK DEF Taken
  <2> HIDE DEF FreshName
  <2> QED BY <1>3, <2>1 DEF UniqueNames
<1> QED BY <1>1, <1>2, <1>3, NameStep

THEOREM NamesAreUnique == Spec => []UniqueNames
<1>1. Init => UniqueNames
  BY DEF Init, UniqueNames
<1> QED BY <1>1, NamesStep, TypeCorrect, PTL DEF Spec

-----------------------------------------------------------------------------
(* What the steps do to one connection, as far as sessions depend on it *)

\* Everything but the two messages that let a client go on with the asset exchange.
Harmless == RosterTypes \union {"ServerInfo", "Challenge", "AuthRefused", "AssetData",
                                "JoinAccept", "Disconnect"}
OutGrows(c, types) == T(out'[c]) \subseteq T(out[c]) \union types

\* A connection is left as it is, or the server closes it.
Kept(d) == net'[d] = net[d] /\ (d \in open' <=> d \in open)
Dropped(d) == net'[d] = Closing /\ d \in open /\ d \notin open'

\* Connections other than c keep their sessions.
OthersKept(c) ==
  /\ UNCHANGED cli /\ open' \subseteq open
  /\ \A d \in Conns \ {c} : /\ srv'[d] = srv[d] /\ (d \in signed' <=> d \in signed)
                            /\ OutGrows(d, Harmless)
                            /\ Kept(d) \/ (d \in signed /\ Dropped(d))

\* The session of c goes to state s.
GoesTo(c, s) == srv'[c] = s /\ (c \in signed' <=> c \in signed) /\ Kept(c)

\* The session of c fails or goes on, where neither depends on a certain message.
Moves(c) ==
  /\ OutGrows(c, Harmless)
  /\ \/ srv'[c] = "Closed" /\ (c \in signed' <=> c \in signed) /\ (Kept(c) \/ Dropped(c))
     \/ GoesTo(c, srv[c])
     \/ srv[c] = "AwaitingHello" /\ GoesTo(c, "AwaitingAuth")
     \/ srv[c] = "AwaitingAuth" /\ GoesTo(c, "VerifyingAuth")
     \/ srv[c] = "StreamingAssets" /\ GoesTo(c, "AwaitingReady")
     \/ srv[c] = "AwaitingReady" /\ GoesTo(c, "Playing")

\* The login of c is verified.
IsAdmitted(c) ==
  /\ srv'[c] = "AwaitingAssetManifestRequest" /\ c \in signed' /\ Kept(c)
  /\ OutGrows(c, {"AuthResult"})

\* One polled event of c is handled.
Handled(c) ==
  /\ phase = "tick" /\ inbox[c] # <<>> /\ inbox' = [inbox EXCEPT ![c] = Tail(@)]
  /\ UNCHANGED <<phase, verified, dropping>>
  /\ OthersKept(c)
  /\ LET type == Head(inbox[c]).type IN
     \/ type = "connected" /\ GoesTo(c, "AwaitingHello") /\ OutGrows(c, {})
     \/ /\ type = "closed" /\ OutGrows(c, {})
        /\ srv'[c] = "none" /\ c \notin signed' /\ c \notin open' /\ net'[c] = net[c]
     \/ type \notin {"connected", "closed"} /\ Moves(c)
     \/ /\ type = "Auth" /\ srv[c] = "AwaitingAuth" /\ IsAdmitted(c)
        /\ \A d \in signed \ {c} : Account(d) = Account(c) => d \notin open'
     \/ /\ type = "AssetManifestRequest" /\ srv[c] = "AwaitingAssetManifestRequest"
        /\ GoesTo(c, "AwaitingAssetRequest") /\ OutGrows(c, {"AssetManifest"})
     \/ /\ type = "AssetRequest" /\ srv[c] = "AwaitingAssetRequest"
        /\ \E s \in {"StreamingAssets", "AwaitingReady"} : GoesTo(c, s)
        /\ OutGrows(c, {})

\* The sweep visits c.
Visited(c) ==
  /\ phase = "tick" /\ \A d \in Conns : inbox[d] = <<>>
  /\ srv[c] \in Handshaking \union {"Closed"}
  /\ UNCHANGED <<phase, inbox, net, open>>
  /\ OthersKept(c)
  /\ \/ /\ Moves(c) /\ verified' = verified
        /\ \/ dropping' = dropping
           \/ dropping' = dropping \union {c} /\ srv'[c] = "Closed"
     \/ /\ srv[c] = "VerifyingAuth" /\ IsAdmitted(c)
        /\ verified' = verified \union {c} /\ dropping' = dropping

\* The client of c puts ms behind what it sent.
Sends(c, ms) == net'[c] = IF c \in open THEN net[c] \o ms ELSE net[c]

\* The client of c takes a step.
Acted(c) ==
  /\ UNCHANGED <<phase, inbox, open, srv, signed, verified, dropping>>
  /\ \A d \in Conns \ {c} : net'[d] = net[d] /\ out'[d] = out[d] /\ cli'[d] = cli[d]
  /\ T(out'[c]) \subseteq T(out[c])
  /\ \/ cli[c] = "Offline" /\ cli'[c] = "Dialing" /\ Sends(c, <<Msg("connected")>>)
     \/ cli[c] # "Offline" /\ cli'[c] = "Gone" /\ net'[c] \in {net[c], Closing}
     \/ /\ cli[c] \notin {"Offline", "Gone"}
        /\ \E ms \in Seq(Messages) :
             /\ Sends(c, ms)
             /\ \/ /\ T(ms) \subseteq {"Hello", "Auth", "Ready"}
                   /\ \/ cli'[c] \in {cli[c], "Failed", "Connecting", "AwaitingChallenge",
                                      "SigningIn", "Authenticating"}
                      \/ cli[c] \in {"SyncingAssets", "Syncing"} /\ cli'[c] \in {"Syncing", "Joined"}
                \/ /\ "AuthResult" \in T(out[c]) /\ cli'[c] = "AwaitingAssetManifest"
                   /\ T(ms) \subseteq {"AssetManifestRequest"}
                \/ /\ "AssetManifest" \in T(out[c]) /\ cli[c] = "AwaitingAssetManifest"
                   /\ T(ms) \subseteq {"AssetRequest", "Ready"}
                   /\ cli'[c] \in {"SyncingAssets", "Syncing"}

LEMMA HandleEffect ==
  ASSUME TypeInv, NEW c \in Conns, HandleOne(c)
  PROVE  Handled(c)
<1>1. /\ inbox \in [Conns -> Seq(Messages)] /\ net \in [Conns -> Seq(Messages)]
      /\ out \in [Conns -> Seq(Messages)] /\ open \subseteq Conns /\ signed \subseteq Conns
      /\ srv \in [Conns -> ServerStates] /\ cli \in [Conns -> ClientStates]
  BY DEF TypeInv, TypeOK, QueuesOK
<1>2. /\ phase = "tick" /\ inbox[c] # <<>> /\ inbox' = [inbox EXCEPT ![c] = Tail(@)]
      /\ UNCHANGED <<phase, verified, dropping, cli>>
  BY DEF HandleOne, Accept, Forget, OnHello, OnAuth, OnAssetManifestRequest, OnAssetRequest,
         OnReady, OnUnexpected, BypassHandshake, Polled, Consume, sweepVars, clientVars
<1>3. ASSUME NEW ms \in Seq(Messages), out' = SendTo(c, ms)
      PROVE  OutGrows(c, T(ms)) /\ \A d \in Conns \ {c} : OutGrows(d, Harmless)
  <2>1. /\ \A d \in Conns : d # c => out'[d] = out[d]
        /\ T(SendTo(c, ms)[c]) \subseteq T(out[c]) \union T(ms)
    BY <1>1, <1>3, SendToOK
  <2>2. out'[c] = SendTo(c, ms)[c]
    BY <1>3
  <2> QED BY <2>1, <2>2, Zenon DEF OutGrows
<1>4. ASSUME UNCHANGED out
      PROVE  OutGrows(c, {}) /\ OutGrows(c, Harmless) /\ \A d \in Conns \ {c} : OutGrows(d, Harmless)
  BY <1>4 DEF OutGrows
<1>5. /\ \A t \in PlainTypes : <<Msg(t)>> \in Seq(Messages) /\ T(<<Msg(t)>>) = {t}
      /\ \A t, u \in PlainTypes : /\ <<Msg(t), Msg(u)>> \in Seq(Messages)
                                  /\ T(<<Msg(t), Msg(u)>>) = {t, u}
  BY PlainQueues
<1>18. ASSUME NEW t \in PlainTypes, out' = SendTo(c, <<Msg(t)>>)
       PROVE  OutGrows(c, {t}) /\ \A d \in Conns \ {c} : OutGrows(d, Harmless)
  <2>1. <<Msg(t)>> \in Seq(Messages) /\ T(<<Msg(t)>>) = {t}
    BY <1>5
  <2>2. OutGrows(c, T(<<Msg(t)>>)) /\ \A d \in Conns \ {c} : OutGrows(d, Harmless)
    BY <1>3, <1>18, <2>1
  <2> QED BY <2>1, <2>2
<1>19. ASSUME NEW t \in PlainTypes, NEW u \in PlainTypes, out' = SendTo(c, <<Msg(t), Msg(u)>>)
       PROVE  OutGrows(c, {t, u}) /\ \A d \in Conns \ {c} : OutGrows(d, Harmless)
  <2>1. <<Msg(t), Msg(u)>> \in Seq(Messages) /\ T(<<Msg(t), Msg(u)>>) = {t, u}
    BY <1>5
  <2>2. OutGrows(c, T(<<Msg(t), Msg(u)>>)) /\ \A d \in Conns \ {c} : OutGrows(d, Harmless)
    BY <1>3, <1>19, <2>1
  <2> QED BY <2>1, <2>2
<1>6. ASSUME UNCHANGED <<net, open>> PROVE open' \subseteq open /\ \A d \in Conns : Kept(d)
  BY <1>6 DEF Kept
<1>7. ASSUME NEW cs, Drop(cs)
      PROVE  open' \subseteq open /\ \A d \in Conns : IF d \in cs /\ d \in open THEN Dropped(d)
                                                                    ELSE Kept(d)
  BY <1>1, <1>7 DEF Drop, Closing, Kept, Dropped
<1>8. ASSUME NEW reason, Fail(c, reason)
      PROVE  OthersKept(c) /\ Moves(c)
  <2>1. OutGrows(c, {"Disconnect"}) /\ \A d \in Conns \ {c} : OutGrows(d, Harmless)
    <3>1. <<Msg("Disconnect")>> \in Seq(Messages) /\ T(<<Msg("Disconnect")>>) = {"Disconnect"}
      BY <1>5 DEF PlainTypes
    <3>2. out' = SendTo(c, <<Msg("Disconnect")>>)
      BY <1>8 DEF Fail
    <3> QED BY <1>3, <3>1, <3>2
  <2>2. OutGrows(c, Harmless)
    BY <2>1 DEF OutGrows, Harmless
  <2>3. srv'[c] = "Closed" /\ signed' = signed /\ \A d \in Conns \ {c} : srv'[d] = srv[d]
    BY <1>1, <1>8 DEF Fail
  <2>4. Drop({c})
    BY <1>8 DEF Fail
  <2> QED BY <1>2, <1>7, <2>1, <2>2, <2>3, <2>4 DEF OthersKept, Moves
<1>9. CASE Accept(c)
  <2>1. UNCHANGED <<out, net, open, signed>> /\ srv' = [srv EXCEPT ![c] = "AwaitingHello"]
    BY <1>9 DEF Accept
  <2>2. Head(inbox[c]).type = "connected"
    BY <1>9 DEF Accept, Polled
  <2>3. OthersKept(c) /\ GoesTo(c, "AwaitingHello")
    BY <1>1, <1>2, <1>4, <1>6, <2>1 DEF OthersKept, GoesTo
  <2> QED BY <1>2, <1>4, <2>1, <2>2, <2>3 DEF Handled
<1>10. CASE Forget(c)
  <2>1. \A d \in Conns \ {c} : OutGrows(d, Harmless)
    <3>1. MsgOf("PlayerLeave", {c}) \in Messages /\ MsgOf("PlayerLeave", {c}).type = "PlayerLeave"
      BY MessagesOK DEF RosterTypes, MsgOf
    <3>2. ASSUME NEW d \in Conns
          PROVE  T(Append(out[d], MsgOf("PlayerLeave", {c}))) \subseteq T(out[d]) \union {"PlayerLeave"}
      <4>1. out[d] \in Seq(Messages)
        BY <1>1
      <4>2. T(Append(out[d], MsgOf("PlayerLeave", {c})))
              = T(out[d]) \union {MsgOf("PlayerLeave", {c}).type}
        BY <3>1, <4>1, TypesAppend
      <4> QED BY <3>1, <4>2
    <3>3. ASSUME NEW d \in Conns
          PROVE  out'[d] = out[d] \/ out'[d] = Append(out[d], MsgOf("PlayerLeave", {c}))
      BY <1>1, <1>10 DEF Forget
    <3> HIDE DEF MsgOf
    <3> QED BY <3>2, <3>3 DEF OutGrows, Harmless, RosterTypes
  <2>2. OutGrows(c, {})
    BY <1>1, <1>10 DEF OutGrows, Forget, LeaveAudience
  <2>3. /\ srv' = [srv EXCEPT ![c] = "none"] /\ signed' = signed \ {c} /\ open' = open \ {c}
        /\ net' = net /\ Head(inbox[c]).type = "closed"
    BY <1>10 DEF Forget, Polled
  <2>4. OthersKept(c)
    BY <1>1, <1>2, <2>1, <2>3 DEF OthersKept, Kept
  <2> QED BY <1>1, <1>2, <2>2, <2>3, <2>4 DEF Handled
<1>11. CASE OnHello(c)
  <2>1. Head(inbox[c]).type = "Hello" /\ srv[c] = "AwaitingHello"
    BY <1>11 DEF OnHello, Polled
  <2>2. CASE /\ Advance(c, "AwaitingAuth", <<Msg("ServerInfo"), Msg("Challenge")>>)
             /\ UNCHANGED <<net, open, signed, name, left, why>>
    <3>1. OutGrows(c, {"ServerInfo", "Challenge"}) /\ \A d \in Conns \ {c} : OutGrows(d, Harmless)
      BY <1>19, <2>2 DEF Advance, PlainTypes
    <3>2. OutGrows(c, Harmless)
      BY <3>1 DEF OutGrows, Harmless
    <3>3. OthersKept(c) /\ GoesTo(c, "AwaitingAuth")
      BY <1>1, <1>2, <1>6, <2>2, <3>1 DEF OthersKept, GoesTo, Advance
    <3> QED BY <1>2, <2>1, <3>2, <3>3 DEF Handled, Moves
  <2>3. CASE Fail(c, "AuthFailed")
    BY <1>2, <1>8, <2>1, <2>3 DEF Handled
  <2> QED BY <1>11, <2>2, <2>3 DEF OnHello
<1>12. CASE OnAuth(c)
  <2>1. Head(inbox[c]).type = "Auth" /\ srv[c] = "AwaitingAuth"
    BY <1>12 DEF OnAuth, Polled
  <2>2. CASE Fail(c, "ServerFull") \/ Fail(c, "AuthFailed")
    BY <1>2, <1>8, <2>1, <2>2 DEF Handled
  <2>3. CASE /\ srv' = [srv EXCEPT ![c] = "VerifyingAuth"]
             /\ UNCHANGED <<net, out, open, signed, name, left, why>>
    <3>1. OthersKept(c) /\ GoesTo(c, "VerifyingAuth") /\ OutGrows(c, Harmless)
      BY <1>1, <1>2, <1>4, <1>6, <2>3 DEF OthersKept, GoesTo
    <3> QED BY <1>2, <2>1, <3>1 DEF Handled, Moves
  <2>4. CASE Refuse(c) /\ Drop({c})
    <3>1. OutGrows(c, {"AuthRefused", "Disconnect"}) /\ \A d \in Conns \ {c} : OutGrows(d, Harmless)
      BY <1>19, <2>4 DEF Refuse, PlainTypes
    <3>2. OutGrows(c, Harmless)
      BY <3>1 DEF OutGrows, Harmless
    <3>3. srv'[c] = "Closed" /\ signed' = signed /\ \A d \in Conns \ {c} : srv'[d] = srv[d]
      BY <1>1, <2>4 DEF Refuse
    <3>4. OthersKept(c) /\ Moves(c)
      BY <1>2, <1>7, <2>4, <3>1, <3>2, <3>3 DEF OthersKept, Moves
    <3> QED BY <1>2, <2>1, <3>4 DEF Handled
  <2>5. CASE Admit(c) /\ Drop(Duplicates(c))
    <3>1. OutGrows(c, {"AuthResult"}) /\ \A d \in Conns \ {c} : OutGrows(d, Harmless)
      BY <1>18, <2>5 DEF Admit, Advance, PlainTypes
    <3>2. /\ Kept(c) /\ open' \subseteq open
          /\ \A d \in Conns : Kept(d) \/ (d \in signed /\ Dropped(d))
      BY <1>7, <2>5 DEF Duplicates
    <3>3. /\ srv' = [srv EXCEPT ![c] = "AwaitingAssetManifestRequest"]
          /\ signed' = signed \union {c}
      BY <2>5 DEF Admit, Advance
    <3>4. \A d \in signed \ {c} : Account(d) = Account(c) => d \notin open'
      BY <2>5 DEF Drop, Duplicates
    <3>5. OthersKept(c) /\ IsAdmitted(c)
      BY <1>1, <1>2, <3>1, <3>2, <3>3 DEF OthersKept, IsAdmitted
    <3> QED BY <1>2, <2>1, <3>4, <3>5 DEF Handled
  <2> QED BY <1>12, <2>2, <2>3, <2>4, <2>5 DEF OnAuth
<1>13. CASE OnAssetManifestRequest(c)
  <2>1. /\ Head(inbox[c]).type = "AssetManifestRequest" /\ srv[c] = "AwaitingAssetManifestRequest"
        /\ Advance(c, "AwaitingAssetRequest", <<Msg("AssetManifest")>>)
        /\ UNCHANGED <<net, open, signed>>
    BY <1>13 DEF OnAssetManifestRequest, Polled
  <2>2. OutGrows(c, {"AssetManifest"}) /\ \A d \in Conns \ {c} : OutGrows(d, Harmless)
    BY <1>18, <2>1 DEF Advance, PlainTypes
  <2>3. OthersKept(c) /\ GoesTo(c, "AwaitingAssetRequest")
    BY <1>1, <1>2, <1>6, <2>1, <2>2 DEF OthersKept, GoesTo, Advance
  <2> QED BY <1>2, <2>1, <2>2, <2>3 DEF Handled
<1>14. CASE OnAssetRequest(c)
  <2>1. /\ Head(inbox[c]).type = "AssetRequest" /\ srv[c] = "AwaitingAssetRequest"
        /\ \E s \in {"StreamingAssets", "AwaitingReady"} : srv' = [srv EXCEPT ![c] = s]
        /\ UNCHANGED <<net, out, open, signed>>
    BY <1>14 DEF OnAssetRequest, Polled
  <2>2. OthersKept(c) /\ \E s \in {"StreamingAssets", "AwaitingReady"} : GoesTo(c, s)
    BY <1>1, <1>2, <1>4, <1>6, <2>1 DEF OthersKept, GoesTo
  <2> QED BY <1>2, <1>4, <2>1, <2>2 DEF Handled
<1>15. CASE OnReady(c)
  <2>1. /\ Head(inbox[c]).type = "Ready" /\ srv[c] = "AwaitingReady"
        /\ srv' = [srv EXCEPT ![c] = "Playing"] /\ UNCHANGED <<net, open, signed>>
    BY <1>15 DEF OnReady, Polled
  <2>2. ASSUME NEW d \in Conns PROVE OutGrows(d, Harmless)
    <3>1. Playing \in SUBSET Conns /\ out[d] \in Seq(Messages)
      BY <1>1 DEF Playing
    <3>2. ASSUME NEW P \in SUBSET Conns
          PROVE  T(out[d] \o <<Msg("JoinAccept"), MsgOf("PlayerList", P)>>)
                   = T(out[d]) \union {"JoinAccept", "PlayerList"}
      <4>1. /\ Msg("JoinAccept") \in Messages /\ MsgOf("PlayerList", P) \in Messages
            /\ Msg("JoinAccept").type = "JoinAccept" /\ MsgOf("PlayerList", P).type = "PlayerList"
        BY MessagesOK DEF Msg, MsgOf, PlainTypes, RosterTypes
      <4>2. /\ <<Msg("JoinAccept"), MsgOf("PlayerList", P)>> \in Seq(Messages)
            /\ T(<<Msg("JoinAccept"), MsgOf("PlayerList", P)>>) = {"JoinAccept", "PlayerList"}
        BY <4>1, ShortQueues
      <4>3. T(out[d] \o <<Msg("JoinAccept"), MsgOf("PlayerList", P)>>)
              = T(out[d]) \union T(<<Msg("JoinAccept"), MsgOf("PlayerList", P)>>)
        <5>1. ASSUME NEW ms \in Seq(Messages) PROVE T(out[d] \o ms) = T(out[d]) \union T(ms)
          BY <3>1, TypesConcat
        <5> QED BY <4>2, <5>1
      <4> QED BY <4>2, <4>3
    <3>3. T(out[d] \o <<Msg("JoinAccept"), MsgOf("PlayerList", Playing)>>)
            = T(out[d]) \union {"JoinAccept", "PlayerList"}
      BY <3>1, <3>2
    <3>4. T(Append(out[d], MsgOf("PlayerJoin", {c}))) = T(out[d]) \union {"PlayerJoin"}
      <4>1. MsgOf("PlayerJoin", {c}) \in Messages /\ MsgOf("PlayerJoin", {c}).type = "PlayerJoin"
        BY MessagesOK DEF RosterTypes, MsgOf
      <4>2. T(Append(out[d], MsgOf("PlayerJoin", {c})))
              = T(out[d]) \union {MsgOf("PlayerJoin", {c}).type}
        BY <3>1, <4>1, TypesAppend
      <4> QED BY <4>1, <4>2
    <3>5. \/ out'[d] = out[d]
          \/ out'[d] = out[d] \o <<Msg("JoinAccept"), MsgOf("PlayerList", Playing)>>
          \/ out'[d] = Append(out[d], MsgOf("PlayerJoin", {c}))
      BY <1>1, <1>15 DEF OnReady
    <3> HIDE DEF Playing
    <3> QED BY <3>3, <3>4, <3>5 DEF OutGrows, Harmless, RosterTypes
  <2>3. OthersKept(c) /\ GoesTo(c, "Playing")
    BY <1>1, <1>2, <1>6, <2>1, <2>2 DEF OthersKept, GoesTo
  <2> QED BY <1>2, <2>1, <2>2, <2>3 DEF Handled, Moves
<1>16. CASE OnUnexpected(c)
  BY <1>2, <1>8, <1>16 DEF OnUnexpected, Handled
<1>17. CASE BypassHandshake(c)
  <2>1. Head(inbox[c]).type \notin {"connected", "closed"} /\ UNCHANGED <<net, out, open, srv, signed>>
    BY <1>17 DEF BypassHandshake
  <2>2. OthersKept(c) /\ GoesTo(c, srv[c])
    BY <1>1, <1>2, <1>4, <1>6, <2>1 DEF OthersKept, GoesTo
  <2> QED BY <1>2, <1>4, <2>1, <2>2 DEF Handled, Moves
<1> QED BY <1>9, <1>10, <1>11, <1>12, <1>13, <1>14, <1>15, <1>16, <1>17 DEF HandleOne

LEMMA VisitEffect ==
  ASSUME TypeInv, NEW c \in Conns, NEW late \in BOOLEAN, SweepOne(c, late)
  PROVE  Visited(c)
<1>1. /\ inbox \in [Conns -> Seq(Messages)] /\ net \in [Conns -> Seq(Messages)]
      /\ out \in [Conns -> Seq(Messages)] /\ open \subseteq Conns /\ signed \subseteq Conns
      /\ srv \in [Conns -> ServerStates] /\ left \in [Conns -> 0..MaxChunks]
  BY DEF TypeInv, TypeOK, QueuesOK
<1>2. /\ phase = "tick" /\ \A d \in Conns : inbox[d] = <<>>
      /\ srv[c] \in Handshaking \union {"Closed"}
      /\ UNCHANGED <<phase, inbox, net, open, cli>>
  BY DEF SweepOne, Sweeping, Unswept, clientVars
<1>3. open' \subseteq open /\ \A d \in Conns : Kept(d)
  BY <1>2 DEF Kept
<1>4. ASSUME NEW ms \in Seq(Messages), NEW types, T(ms) \subseteq types, out' = SendTo(c, ms)
      PROVE  OutGrows(c, types) /\ \A d \in Conns \ {c} : OutGrows(d, Harmless)
  <2>1. /\ \A d \in Conns : d # c => out'[d] = out[d]
        /\ T(SendTo(c, ms)[c]) \subseteq T(out[c]) \union T(ms)
    BY <1>1, <1>4, SendToOK
  <2>2. out'[c] = SendTo(c, ms)[c]
    BY <1>4
  <2>3. T(out[c]) \union T(ms) \subseteq T(out[c]) \union types
    BY <1>4
  <2> QED BY <2>1, <2>2, <2>3, Zenon DEF OutGrows
<1>5. ASSUME NEW ms \in Seq(Messages), T(ms) \subseteq Harmless, NEW s, Conclude(c, s, ms, late)
      PROVE  /\ OutGrows(c, Harmless) /\ \A d \in Conns \ {c} : OutGrows(d, Harmless)
             /\ \A d \in Conns \ {c} : srv'[d] = srv[d]
             /\ \/ srv'[c] = s /\ (s \notin Handshaking \/ dropping' = dropping)
                \/ srv'[c] = "Closed"
             /\ dropping' = dropping \/ dropping' = dropping \union {c}
  <2>1. <<Msg("Disconnect")>> \in Seq(Messages) /\ T(<<Msg("Disconnect")>>) = {"Disconnect"}
    BY PlainQueues DEF PlainTypes
  <2>2. ms \o <<Msg("Disconnect")>> \in Seq(Messages) /\ T(ms \o <<Msg("Disconnect")>>) \subseteq Harmless
    <3>1. ASSUME NEW us \in Seq(Messages)
          PROVE  ms \o us \in Seq(Messages) /\ T(ms \o us) = T(ms) \union T(us)
      BY <1>5, TypesConcat
    <3> QED BY <1>5, <2>1, <3>1 DEF Harmless
  <2>3. out' = SendTo(c, ms) \/ out' = SendTo(c, ms \o <<Msg("Disconnect")>>)
    BY <1>5 DEF Conclude, Advance
  <2>4. OutGrows(c, Harmless) /\ \A d \in Conns \ {c} : OutGrows(d, Harmless)
    BY <1>4, <1>5, <2>2, <2>3
  <2>5. srv' = [srv EXCEPT ![c] = s] \/ srv' = [srv EXCEPT ![c] = "Closed"]
    BY <1>5 DEF Conclude, Advance
  <2>6. srv' = [srv EXCEPT ![c] = "Closed"] \/ s \notin Handshaking \/ dropping' = dropping
    BY <1>5 DEF Conclude
  <2>7. dropping' = dropping \/ dropping' = dropping \union {c}
    BY <1>5 DEF Conclude
  <2> QED BY <1>1, <2>4, <2>5, <2>6, <2>7
<1>6. CASE PumpAssets(c, late)
  <2>1. /\ [i \in 1..Sent(left[c]) |-> Msg("AssetData")] \in Seq(Messages)
        /\ T([i \in 1..Sent(left[c]) |-> Msg("AssetData")]) \subseteq Harmless
    BY <1>1, SentOK DEF Harmless
  <2>2. /\ Conclude(c, Streamed(left[c]), [i \in 1..Sent(left[c]) |-> Msg("AssetData")], late)
        /\ srv[c] = "StreamingAssets" /\ UNCHANGED <<signed, verified>>
    BY <1>6 DEF PumpAssets
  <2>3. Streamed(left[c]) \in {"AwaitingReady", "StreamingAssets"}
    BY DEF Streamed
  <2>4. /\ OutGrows(c, Harmless) /\ \A d \in Conns \ {c} : OutGrows(d, Harmless)
        /\ \A d \in Conns \ {c} : srv'[d] = srv[d]
        /\ \/ srv'[c] \in {"AwaitingReady", "StreamingAssets"} /\ dropping' = dropping
           \/ srv'[c] = "Closed"
        /\ dropping' = dropping \/ dropping' = dropping \union {c}
    <3> HIDE DEF Sent, Streamed, Conclude
    <3>1. {"AwaitingReady", "StreamingAssets"} \subseteq Handshaking
      BY DEF Handshaking
    <3> QED BY <1>5, <2>1, <2>2, <2>3, <3>1
  <2>5. OthersKept(c)
    BY <1>2, <1>3, <2>2, <2>4 DEF OthersKept
  <2>6. Moves(c)
    BY <1>3, <2>2, <2>4 DEF Moves, GoesTo
  <2> QED BY <1>2, <2>2, <2>4, <2>5, <2>6 DEF Visited
<1>7. CASE VisitOnly(c, late)
  <2>1. <<>> \in Seq(Messages) /\ T(<<>>) \subseteq Harmless
    BY TypesEmpty, EmptySeq
  <2>2. Conclude(c, srv[c], <<>>, late) /\ UNCHANGED <<signed, verified>>
    BY <1>7 DEF VisitOnly
  <2>3. /\ OutGrows(c, Harmless) /\ \A d \in Conns \ {c} : OutGrows(d, Harmless)
        /\ \A d \in Conns \ {c} : srv'[d] = srv[d]
        /\ \/ srv'[c] = srv[c] /\ (srv[c] = "Closed" \/ dropping' = dropping)
           \/ srv'[c] = "Closed"
        /\ dropping' = dropping \/ dropping' = dropping \union {c}
    BY <1>2, <1>5, <2>1, <2>2
  <2>4. OthersKept(c)
    BY <1>2, <1>3, <2>2, <2>3 DEF OthersKept
  <2>5. Moves(c)
    BY <1>3, <2>2, <2>3 DEF Moves, GoesTo
  <2> QED BY <1>2, <2>2, <2>3, <2>4, <2>5 DEF Visited
<1>8. CASE PumpRefused(c)
  <2>1. OutGrows(c, Harmless) /\ \A d \in Conns \ {c} : OutGrows(d, Harmless)
    <3>1. <<Msg("Disconnect")>> \in Seq(Messages) /\ T(<<Msg("Disconnect")>>) \subseteq Harmless
      <4>1. /\ <<Msg("Disconnect")>> \in Seq(Messages)
            /\ T(<<Msg("Disconnect")>>) = {"Disconnect"}
        BY PlainQueues DEF PlainTypes
      <4> QED BY <4>1 DEF Harmless
    <3> QED BY <1>4, <1>8, <3>1 DEF PumpRefused
  <2>2. /\ srv' = [srv EXCEPT ![c] = "Closed"] /\ UNCHANGED <<signed, verified>>
        /\ dropping' = dropping \union {c}
    BY <1>8 DEF PumpRefused
  <2>3. OthersKept(c) /\ Moves(c) /\ srv'[c] = "Closed"
    BY <1>1, <1>2, <1>3, <2>1, <2>2 DEF OthersKept, Moves
  <2> QED BY <1>2, <2>2, <2>3 DEF Visited
<1>9. CASE VerdictRefused(c)
  <2>1. OutGrows(c, Harmless) /\ \A d \in Conns \ {c} : OutGrows(d, Harmless)
    <3>1. /\ <<Msg("AuthRefused"), Msg("Disconnect")>> \in Seq(Messages)
          /\ T(<<Msg("AuthRefused"), Msg("Disconnect")>>) \subseteq Harmless
      <4>1. /\ <<Msg("AuthRefused"), Msg("Disconnect")>> \in Seq(Messages)
            /\ T(<<Msg("AuthRefused"), Msg("Disconnect")>>) = {"AuthRefused", "Disconnect"}
        BY PlainQueues DEF PlainTypes
      <4> QED BY <4>1 DEF Harmless
    <3> QED BY <1>4, <1>9, <3>1 DEF VerdictRefused, Refuse
  <2>2. /\ srv' = [srv EXCEPT ![c] = "Closed"] /\ UNCHANGED <<signed, verified>>
        /\ dropping' = dropping \union {c}
    BY <1>9 DEF VerdictRefused, Refuse
  <2>3. OthersKept(c) /\ Moves(c) /\ srv'[c] = "Closed"
    BY <1>1, <1>2, <1>3, <2>1, <2>2 DEF OthersKept, Moves
  <2> QED BY <1>2, <2>2, <2>3 DEF Visited
<1>10. CASE VerdictVerified(c)
  <2>1. OutGrows(c, {"AuthResult"}) /\ \A d \in Conns \ {c} : OutGrows(d, Harmless)
    <3>1. <<Msg("AuthResult")>> \in Seq(Messages) /\ T(<<Msg("AuthResult")>>) \subseteq {"AuthResult"}
      BY PlainQueues DEF PlainTypes
    <3> QED BY <1>4, <1>10, <3>1 DEF VerdictVerified, Admit, Advance
  <2>2. /\ srv' = [srv EXCEPT ![c] = "AwaitingAssetManifestRequest"]
        /\ signed' = signed \union {c} /\ verified' = verified \union {c}
        /\ dropping' = dropping /\ srv[c] = "VerifyingAuth"
    BY <1>10 DEF VerdictVerified, Admit, Advance
  <2>3. OthersKept(c) /\ IsAdmitted(c)
    BY <1>1, <1>2, <1>3, <2>1, <2>2 DEF OthersKept, IsAdmitted
  <2> QED BY <1>2, <2>2, <2>3 DEF Visited
<1> QED BY <1>6, <1>7, <1>8, <1>9, <1>10 DEF SweepOne

LEMMA ActEffect ==
  ASSUME TypeInv, NEW c \in Conns, ClientStep(c) \/ LoseServer(c) \/ GiveUp(c)
  PROVE  Acted(c)
<1>1. /\ net \in [Conns -> Seq(Messages)] /\ out \in [Conns -> Seq(Messages)]
      /\ cli \in [Conns -> ClientStates]
  BY DEF TypeInv, TypeOK, QueuesOK
<1>2. UNCHANGED <<phase, inbox, open, srv, signed, verified, dropping>>
  BY DEF ClientStep, Connect, Start, OnServerInfo, OnChallenge, SignedIn, OnAuthResult,
         OnAssetManifest, OnAssetData, OnJoinAccept, OnRoster, OnOtherFrame, Stray,
         LoseServer, GiveUp, serverVars
<1>3. ASSUME NEW s, Become(c, s)
      PROVE  cli'[c] = s /\ \A d \in Conns \ {c} : cli'[d] = cli[d]
  BY <1>1, <1>3 DEF Become
<1>4. ASSUME NEW ms \in Seq(Messages), Send(c, ms)
      PROVE  Sends(c, ms) /\ \A d \in Conns \ {c} : net'[d] = net[d]
  BY <1>1, <1>4, SendOK DEF Sends
<1>5. ASSUME UNCHANGED net
      PROVE  Sends(c, <<>>) /\ \A d \in Conns \ {c} : net'[d] = net[d]
  BY <1>1, <1>5, ConcatEmptySeq DEF Sends
<1>6. ASSUME NEW type, Receive(c, type)
      PROVE  type \in T(out[c]) /\ T(out'[c]) \subseteq T(out[c])
             /\ \A d \in Conns \ {c} : out'[d] = out[d]
  BY <1>1, <1>6, ReceiveOK
<1>7. ASSUME UNCHANGED out PROVE T(out'[c]) \subseteq T(out[c]) /\ \A d \in Conns \ {c} : out'[d] = out[d]
  BY <1>7
<1>8. /\ \A t \in PlainTypes : <<Msg(t)>> \in Seq(Messages) /\ T(<<Msg(t)>>) = {t}
      /\ <<>> \in Seq(Messages) /\ T(<<>>) = {}
  BY PlainQueues, EmptySeq, TypesEmpty
<1>9. CASE Connect(c)
  <2>1. Sends(c, <<Msg("connected")>>) /\ \A d \in Conns \ {c} : net'[d] = net[d]
    BY <1>4, <1>8, <1>9 DEF Connect, PlainTypes
  <2>2. cli[c] = "Offline" /\ Become(c, "Dialing") /\ UNCHANGED out
    BY <1>9 DEF Connect
  <2> QED BY <1>2, <1>3, <1>7, <2>1, <2>2 DEF Acted
<1>10. CASE Start(c) \/ SignedIn(c) \/ Stray(c)
  <2>1. PICK t \in {"Hello", "Auth", "Ready"} : Send(c, <<Msg(t)>>) /\ UNCHANGED out
    BY <1>10 DEF Start, SignedIn, Stray
  <2>2. Sends(c, <<Msg(t)>>) /\ \A d \in Conns \ {c} : net'[d] = net[d]
    BY <1>4, <1>8, <2>1 DEF PlainTypes
  <2>3. <<Msg(t)>> \in Seq(Messages) /\ T(<<Msg(t)>>) \subseteq {"Hello", "Auth", "Ready"}
    BY <1>8, <2>1 DEF PlainTypes
  <2>4. /\ cli[c] \notin {"Offline", "Gone"}
        /\ cli'[c] \in {cli[c], "Connecting", "Authenticating"}
        /\ \A d \in Conns \ {c} : cli'[d] = cli[d]
    BY <1>1, <1>3, <1>10 DEF Start, SignedIn, Stray
  <2> QED BY <1>2, <1>7, <2>1, <2>2, <2>3, <2>4 DEF Acted
<1>11. CASE OnServerInfo(c) \/ OnChallenge(c) \/ OnJoinAccept(c) \/ OnRoster(c) \/ OnOtherFrame(c)
            \/ LoseServer(c)
  <2>1. Sends(c, <<>>) /\ \A d \in Conns \ {c} : net'[d] = net[d]
    <3>1. UNCHANGED net
      BY <1>11 DEF OnServerInfo, OnChallenge, OnJoinAccept, OnRoster, OnOtherFrame, LoseServer
    <3> QED BY <1>5, <3>1
  <2>2. T(out'[c]) \subseteq T(out[c]) /\ \A d \in Conns \ {c} : out'[d] = out[d]
    <3>1. CASE \E type : Receive(c, type)
      BY <1>6, <3>1
    <3>2. CASE out' = [out EXCEPT ![c] = <<>>]
      BY <1>1, <1>8, <3>2
    <3> QED BY <1>11, <3>1, <3>2
            DEF OnServerInfo, OnChallenge, OnJoinAccept, OnRoster, OnOtherFrame, LoseServer
  <2>3. /\ cli[c] \notin {"Offline", "Gone"}
        /\ \/ cli'[c] \in {cli[c], "AwaitingChallenge", "SigningIn", "Failed"}
           \/ cli[c] = "Syncing" /\ cli'[c] = "Joined"
        /\ \A d \in Conns \ {c} : cli'[d] = cli[d]
    BY <1>1, <1>11 DEF OnServerInfo, OnChallenge, OnJoinAccept, OnRoster, OnOtherFrame, LoseServer,
                       Become, Expects
  <2> QED BY <1>2, <1>8, <2>1, <2>2, <2>3 DEF Acted
<1>12. CASE OnAuthResult(c)
  <2>1. Receive(c, "AuthResult") /\ Become(c, "AwaitingAssetManifest") /\ cli[c] = "Authenticating"
    BY <1>12 DEF OnAuthResult
  <2>2. Sends(c, <<Msg("AssetManifestRequest")>>) /\ \A d \in Conns \ {c} : net'[d] = net[d]
    BY <1>4, <1>8, <1>12 DEF OnAuthResult, PlainTypes
  <2>3. /\ <<Msg("AssetManifestRequest")>> \in Seq(Messages)
        /\ T(<<Msg("AssetManifestRequest")>>) \subseteq {"AssetManifestRequest"}
    BY <1>8 DEF PlainTypes
  <2>4. cli'[c] = "AwaitingAssetManifest" /\ \A d \in Conns \ {c} : cli'[d] = cli[d]
    BY <1>3, <2>1
  <2>5. /\ "AuthResult" \in T(out[c]) /\ T(out'[c]) \subseteq T(out[c])
        /\ \A d \in Conns \ {c} : out'[d] = out[d]
    BY <1>6, <2>1
  <2> QED BY <1>2, <2>1, <2>2, <2>3, <2>4, <2>5 DEF Acted
<1>13. CASE OnAssetManifest(c)
  <2>1. Receive(c, "AssetManifest") /\ cli[c] = "AwaitingAssetManifest"
    BY <1>13 DEF OnAssetManifest
  <2>2. PICK n \in 0..MaxChunks :
          /\ Become(c, IF n = 0 THEN "Syncing" ELSE "SyncingAssets")
          /\ Send(c, <<MsgOf("AssetRequest", 1..n)>> \o (IF n = 0 THEN <<Msg("Ready")>> ELSE <<>>))
    BY <1>13 DEF OnAssetManifest
  <2> DEFINE first == <<MsgOf("AssetRequest", 1..n)>>
             rest == IF n = 0 THEN <<Msg("Ready")>> ELSE <<>>
  <2>3. first \in Seq(Messages) /\ T(first) = {"AssetRequest"}
    <3>1. MsgOf("AssetRequest", 1..n) \in Messages /\ MsgOf("AssetRequest", 1..n).type = "AssetRequest"
      BY MessagesOK DEF MsgOf
    <3> QED BY <3>1, ShortQueues
  <2>4. rest \in Seq(Messages) /\ T(rest) \subseteq {"Ready"}
    BY <1>8 DEF PlainTypes
  <2> HIDE DEF first, rest
  <2>5. first \o rest \in Seq(Messages) /\ T(first \o rest) \subseteq {"AssetRequest", "Ready"}
    BY <2>3, <2>4, TypesConcat
  <2>6. Sends(c, first \o rest) /\ \A d \in Conns \ {c} : net'[d] = net[d]
    BY <1>4, <2>2, <2>5 DEF first, rest
  <2>7. /\ cli'[c] \in {"Syncing", "SyncingAssets"} /\ \A d \in Conns \ {c} : cli'[d] = cli[d]
    BY <1>3, <2>2
  <2>8. /\ "AssetManifest" \in T(out[c]) /\ T(out'[c]) \subseteq T(out[c])
        /\ \A d \in Conns \ {c} : out'[d] = out[d]
    BY <1>6, <2>1
  <2> QED BY <1>2, <2>1, <2>5, <2>6, <2>7, <2>8 DEF Acted
<1>14. CASE OnAssetData(c)
  <2>1. Receive(c, "AssetData") /\ cli[c] = "SyncingAssets"
    BY <1>14 DEF OnAssetData
  <2>2. T(out'[c]) \subseteq T(out[c]) /\ \A d \in Conns \ {c} : out'[d] = out[d]
    BY <1>6, <2>1
  <2>3. CASE UNCHANGED <<cli, net>>
    BY <1>2, <1>5, <1>8, <2>1, <2>2, <2>3 DEF Acted
  <2>4. CASE Become(c, "Syncing") /\ Send(c, <<Msg("Ready")>>)
    <3>1. Sends(c, <<Msg("Ready")>>) /\ \A d \in Conns \ {c} : net'[d] = net[d]
      BY <1>4, <1>8, <2>4 DEF PlainTypes
    <3>2. <<Msg("Ready")>> \in Seq(Messages) /\ T(<<Msg("Ready")>>) \subseteq {"Hello", "Auth", "Ready"}
      BY <1>8 DEF PlainTypes
    <3> QED BY <1>2, <1>3, <2>1, <2>2, <2>4, <3>1, <3>2 DEF Acted
  <2> QED BY <1>14, <2>3, <2>4 DEF OnAssetData
<1>15. CASE GiveUp(c)
  <2>1. /\ net'[c] \in {net[c], Closing} /\ \A d \in Conns \ {c} : net'[d] = net[d]
        /\ \A d \in Conns \ {c} : out'[d] = out[d]
        /\ out'[c] = <<>>
        /\ cli'[c] = "Gone"
        /\ \A d \in Conns \ {c} : cli'[d] = cli[d]
        /\ cli[c] # "Offline"
    BY <1>1, <1>15 DEF GiveUp, Become, Closing
  <2> QED BY <1>2, <1>8, <2>1 DEF Acted
<1> QED BY <1>9, <1>10, <1>11, <1>12, <1>13, <1>14, <1>15 DEF ClientStep

-----------------------------------------------------------------------------
(* Sessions *)

\* What handling an event of c leaves of the queues; c is not new to the server any more.
LEMMA HandledQueues ==
  ASSUME TypeInv, TypeInv', FreshInv, NEW c \in Conns, Handled(c)
  PROVE  /\ T(inbox[c]) = {Head(inbox[c]).type} \union T(inbox'[c])
         /\ \A d \in Conns \ {c} : inbox'[d] = inbox[d]
         /\ \A d \in Conns : T(net'[d]) \subseteq T(net[d]) \union {"closed"}
         /\ \A d \in Conns : Pending(d)' \subseteq Pending(d) \union {"closed"}
         /\ ~Fresh(c)'
         /\ Fresh(c) => Head(inbox[c]).type = "connected"
<1>1. /\ inbox \in [Conns -> Seq(Messages)] /\ inbox[c] # <<>>
      /\ inbox' = [inbox EXCEPT ![c] = Tail(@)]
  BY DEF TypeInv, QueuesOK, Handled
<1>2. /\ T(inbox[c]) = {Head(inbox[c]).type} \union T(inbox'[c]) /\ inbox'[c] = Tail(inbox[c])
      /\ \A d \in Conns \ {c} : inbox'[d] = inbox[d]
  BY <1>1, ConsumeOK DEF Consume
<1>3. ASSUME NEW d \in Conns
      PROVE  /\ T(net'[d]) \subseteq T(net[d]) \union {"closed"}
             /\ Pending(d)' \subseteq Pending(d) \union {"closed"}
  <2>1. net'[d] = net[d] \/ net'[d] = Closing
    BY DEF Handled, OthersKept, Moves, GoesTo, IsAdmitted, Kept, Dropped
  <2>2. T(net'[d]) \subseteq T(net[d]) \union {"closed"}
    BY <2>1, ClosingOK
  <2>3. T(inbox'[d]) \subseteq T(inbox[d])
    BY <1>2
  <2> QED BY <2>2, <2>3 DEF Pending
<1>4. Fresh(c) => Head(inbox[c]).type = "connected"
  <2>1. FreshOne(c)
    BY DEF FreshInv
  <2>2. Head(inbox[c]).type \in T(inbox[c]) /\ inbox[c] # <<>>
    BY <1>1, <1>2
  <2> QED BY <2>1, <2>2 DEF FreshOne, Fresh, Pending
<1>5. ~Fresh(c)'
  <2>1. FreshOne(c) /\ cli' = cli
    BY DEF FreshInv, Handled, OthersKept
  <2>2. cli[c] # "Offline"
    BY <1>2, <2>1 DEF FreshOne, Pending
  <2>3. CASE Head(inbox[c]).type = "connected"
    <3>1. "connected" \notin T(inbox'[c]) \union T(net[c])
      BY <1>2, <2>1, <2>3 DEF FreshOne
    <3> QED BY <1>3, <2>1, <2>2, <3>1 DEF Fresh, Pending
  <2>4. CASE Head(inbox[c]).type # "connected"
    <3>1. "connected" \notin Pending(c)
      BY <1>4, <2>4 DEF Fresh
    <3> QED BY <1>3, <2>1, <2>2, <3>1 DEF Fresh
  <2> QED BY <2>3, <2>4
<1> QED BY <1>2, <1>3, <1>4, <1>5

LEMMA HandledKeepsFresh ==
  ASSUME TypeInv, TypeInv', FreshInv, NEW c \in Conns, Handled(c)
  PROVE  FreshInv'
<1> SUFFICES ASSUME NEW d \in Conns PROVE FreshOne(d)'
  BY DEF FreshInv
<1>1. FreshOne(d)
  BY DEF FreshInv
<1>2. CASE d = c
  BY <1>2, HandledQueues DEF FreshOne, Fresh, Pending
<1>3. CASE d # c
  <2>1. inbox'[d] = inbox[d] /\ cli'[d] = cli[d] /\ srv'[d] = srv[d] /\ (d \in signed' <=> d \in signed)
    BY <1>3, HandledQueues DEF Handled, OthersKept
  <2>2. CASE Kept(d)
    BY <1>1, <2>1, <2>2 DEF FreshOne, Fresh, Pending, Kept
  <2>3. CASE d \in signed /\ Dropped(d)
    <3>1. T(net'[d]) = {"closed"}
      BY <2>3, ClosingOK DEF Dropped
    <3>2. ~Fresh(d)
      BY <1>1, <2>3 DEF FreshOne
    <3> QED BY <2>1, <3>1, <3>2 DEF FreshOne, Fresh, Pending
  <2> QED BY <1>3, <2>2, <2>3 DEF Handled, OthersKept
<1> QED BY <1>2, <1>3

LEMMA HandledKeepsExchange ==
  ASSUME TypeInv, TypeInv', FreshInv, ExchangeInv, NEW c \in Conns, Handled(c)
  PROVE  ExchangeInv'
<1> SUFFICES ASSUME NEW d \in Conns PROVE ExchangeOne(d)'
  BY DEF ExchangeInv
<1>1. ExchangeOne(d) /\ FreshOne(d)
  BY DEF ExchangeInv, FreshInv
<1>2. Pending(d)' \subseteq Pending(d) \union {"closed"} /\ cli' = cli
  BY HandledQueues DEF Handled, OthersKept
<1>3. CASE d # c
  <2>1. /\ inbox'[d] = inbox[d] /\ srv'[d] = srv[d] /\ (d \in signed' <=> d \in signed)
        /\ OutGrows(d, Harmless)
    BY <1>3, HandledQueues DEF Handled, OthersKept
  <2>2. {"AuthResult", "AssetManifest"} \cap T(out'[d]) \subseteq T(out[d])
    BY <2>1 DEF OutGrows, Harmless, RosterTypes
  <2>3. CASE Kept(d)
    <3>1. Fresh(d)' => Fresh(d)
      BY <1>2, <2>1, <2>3 DEF Fresh, Pending, Kept
    <3> QED BY <1>1, <1>2, <2>1, <2>2, <2>3, <3>1 DEF ExchangeOne, Kept
  <2>4. CASE d \in signed /\ Dropped(d)
    <3>1. ~Fresh(d) /\ srv[d] \notin Before
      BY <1>1, <2>4 DEF FreshOne, ExchangeOne
    <3>2. ~Fresh(d)'
      BY <1>2, <3>1 DEF Fresh
    <3> QED BY <1>1, <1>2, <2>1, <2>2, <3>1, <3>2 DEF ExchangeOne
  <2> QED BY <1>3, <2>3, <2>4 DEF Handled, OthersKept
<1>4. CASE d = c
  <2>1. ~Fresh(d)'
    BY <1>4, HandledQueues
  <2>2. CASE Head(inbox[d]).type = "connected" /\ GoesTo(d, "AwaitingHello") /\ OutGrows(d, {})
    <3>1. Fresh(d)
      BY <1>4, <2>2, HandledQueues DEF Fresh, Pending
    <3> QED BY <1>1, <1>2, <2>1, <2>2, <3>1 DEF ExchangeOne, GoesTo, OutGrows, Kept, Before
  <2>3. CASE srv'[d] = "none"
    BY <2>1, <2>3 DEF ExchangeOne, Before
  <2>4. CASE Moves(d)
    <3>1. {"AuthResult", "AssetManifest"} \cap T(out'[d]) \subseteq T(out[d])
      BY <2>4 DEF Moves, OutGrows, Harmless, RosterTypes
    <3>2. CASE GoesTo(d, srv[d])
      BY <1>1, <1>2, <2>1, <3>1, <3>2 DEF ExchangeOne, GoesTo, Kept
    <3>3. CASE \/ srv[d] = "AwaitingHello" /\ GoesTo(d, "AwaitingAuth")
               \/ srv[d] = "AwaitingAuth" /\ GoesTo(d, "VerifyingAuth")
      BY <1>1, <1>2, <2>1, <3>1, <3>3 DEF ExchangeOne, GoesTo, Kept, Before
    <3>4. CASE srv'[d] \in {"Closed", "AwaitingReady", "Playing"}
      BY <2>1, <3>4 DEF ExchangeOne, Before
    <3> QED BY <2>4, <3>2, <3>3, <3>4 DEF Moves, GoesTo
  <2>5. CASE srv[d] = "AwaitingAuth" /\ IsAdmitted(d)
    BY <1>1, <1>2, <2>1, <2>5 DEF ExchangeOne, IsAdmitted, OutGrows, Before
  <2>6. CASE \E s \in {"AwaitingAssetRequest", "StreamingAssets", "AwaitingReady"} : GoesTo(d, s)
    BY <2>1, <2>6 DEF ExchangeOne, GoesTo, Before
  <2> QED BY <1>4, <2>2, <2>3, <2>4, <2>5, <2>6 DEF Handled
<1> QED BY <1>3, <1>4

\* While an event is handled, the sweep has not begun.
LEMMA HandledKeepsPhase ==
  ASSUME PhaseInv, NEW c \in Conns, Handled(c)
  PROVE  PhaseInv' /\ verified = {} /\ verified' = {} /\ dropping = {} /\ dropping' = {}
BY DEF PhaseInv, Handled

LEMMA HandledKeepsClosing ==
  ASSUME TypeInv, TypeInv', PhaseInv, FreshInv, ExchangeInv, ClosingInv,
         NEW c \in Conns, Handled(c)
  PROVE  ClosingInv'
<1> SUFFICES ASSUME NEW d \in Conns PROVE ClosingOne(d)'
  BY DEF ClosingInv
<1>1. ClosingOne(d) /\ ExchangeOne(d) /\ FreshOne(d) /\ dropping' = {} /\ cli' = cli
  BY HandledKeepsPhase DEF ClosingInv, ExchangeInv, FreshInv, Handled, OthersKept
<1>2. CASE d # c
  <2>1. inbox'[d] = inbox[d] /\ srv'[d] = srv[d] /\ (d \in signed' <=> d \in signed)
    BY <1>2, HandledQueues DEF Handled, OthersKept
  <2>2. Kept(d) \/ (d \in signed /\ Dropped(d))
    BY <1>2 DEF Handled, OthersKept
  <2> QED BY <1>1, <2>1, <2>2 DEF ClosingOne, Kept, Dropped
<1>3. CASE d = c
  <2>1. inbox[d] = Closing => Head(inbox[d]).type = "closed"
    BY ClosingOK
  <2>2. CASE Head(inbox[d]).type = "connected" /\ GoesTo(d, "AwaitingHello")
    <3>1. Fresh(d)
      BY <1>3, <2>2, HandledQueues DEF Fresh, Pending
    <3> QED BY <1>1, <2>2, <3>1 DEF ClosingOne, FreshOne, GoesTo, Kept, Admitted
  <2>3. CASE srv'[d] = "none" /\ d \notin signed' /\ d \notin open'
    BY <1>1, <2>3 DEF ClosingOne, Admitted
  <2>4. CASE Head(inbox[d]).type \notin {"connected", "closed"} /\ Moves(d)
    <3>1. CASE srv'[d] = "Closed" /\ (d \in signed' <=> d \in signed) /\ (Kept(d) \/ Dropped(d))
      BY <1>1, <2>1, <2>4, <3>1 DEF ClosingOne, Kept, Dropped, Admitted
    <3>2. CASE \E s : GoesTo(d, s) /\ (s \in Admitted => srv[d] \in Admitted)
      BY <1>1, <2>1, <2>4, <3>2 DEF ClosingOne, GoesTo, Kept
    <3> QED BY <2>4, <3>1, <3>2 DEF Moves, Admitted
  <2>5. CASE srv[d] = "AwaitingAuth" /\ IsAdmitted(d)
    BY <1>1, <2>5 DEF ClosingOne, ExchangeOne, IsAdmitted, Kept, Before
  <2>6. CASE /\ Head(inbox[d]).type \in {"AssetManifestRequest", "AssetRequest"}
             /\ srv[d] \in Admitted /\ \E s : GoesTo(d, s)
    BY <1>1, <2>1, <2>6 DEF ClosingOne, GoesTo, Kept
  <2> QED BY <1>3, <2>2, <2>3, <2>4, <2>5, <2>6 DEF Handled, Admitted
<1> QED BY <1>2, <1>3

\* A session that gives way keeps giving way, or one of the two is over.
LEMMA HandledGivesWay ==
  ASSUME TypeInv, TypeInv', PhaseInv, FreshInv, ExchangeInv, NEW c \in Conns, Handled(c),
         NEW x \in Conns, NEW y \in Conns, x # y, GivesWay(x, y),
         srv[y] \in Admitted, srv'[x] \in Admitted, srv'[y] \in Admitted
  PROVE  GivesWay(x, y)'
<1>1. verified = {} /\ verified' = {}
  BY HandledKeepsPhase
<1>2. net[x] = Closing => net'[x] = Closing
  BY DEF Handled, OthersKept, Moves, GoesTo, IsAdmitted, Kept, Dropped
<1>3. inbox[x] = Closing => inbox'[x] = Closing
  <2>1. CASE x # c
    BY <2>1, HandledQueues
  <2>2. CASE x = c
    BY <2>2, ClosingOK DEF Handled, Admitted
  <2> QED BY <2>1, <2>2
<1>4. CASE y # c
  <2>1. srv'[y] = srv[y] /\ inbox'[y] = inbox[y]
    BY <1>4, HandledQueues DEF Handled, OthersKept
  <2> QED BY <1>1, <1>2, <1>3, <2>1 DEF GivesWay
<1>5. CASE y = c
  <2>1. T(inbox'[y]) \subseteq T(inbox[y]) /\ Head(inbox[y]).type \in T(inbox[y])
    BY <1>5, HandledQueues
  <2>2. ExchangeOne(y) /\ FreshOne(y) /\ T(inbox[y]) \subseteq Pending(y)
    BY DEF ExchangeInv, FreshInv, Pending
  <2>3. Head(inbox[y]).type \notin {"connected", "closed"}
    BY <1>5, <2>1, <2>2 DEF Handled, FreshOne, Fresh, Admitted
  <2>4. CASE srv[y] = "AwaitingAssetManifestRequest"
    <3>1. \/ srv'[y] = "AwaitingAssetManifestRequest"
          \/ /\ srv'[y] = "AwaitingAssetRequest"
             /\ Head(inbox[y]).type = "AssetManifestRequest"
      BY <1>5, <2>3, <2>4 DEF Handled, Moves, GoesTo, IsAdmitted, Admitted
    <3>2. "AssetRequest" \notin T(inbox'[y])
      BY <2>1, <2>2, <2>4 DEF ExchangeOne
    <3> QED BY <1>1, <1>2, <1>3, <2>1, <2>4, <3>1, <3>2 DEF GivesWay
  <2>5. CASE srv[y] # "AwaitingAssetManifestRequest"
    <3>1. /\ inbox[x] = Closing /\ srv[y] = "AwaitingAssetRequest"
          /\ "AssetRequest" \notin T(inbox[y])
      BY <1>1, <2>5 DEF GivesWay
    <3>2. srv'[y] = "AwaitingAssetRequest"
      BY <1>5, <2>1, <2>3, <3>1 DEF Handled, Moves, GoesTo, IsAdmitted, Admitted
    <3> QED BY <1>3, <2>1, <3>1, <3>2 DEF GivesWay
  <2> QED BY <2>4, <2>5
<1> QED BY <1>4, <1>5

LEMMA HandledKeepsSuccession ==
  ASSUME TypeInv, TypeInv', PhaseInv, FreshInv, ExchangeInv, ClosingInv, SuccessionInv,
         NEW c \in Conns, Handled(c)
  PROVE  SuccessionInv'
<1> SUFFICES ASSUME NEW x \in Conns, NEW y \in Conns, x # y, Account(x) = Account(y),
                    srv'[x] \in Admitted, srv'[y] \in Admitted
             PROVE  GivesWay(x, y)' \/ GivesWay(y, x)'
  BY DEF SuccessionInv
<1>1. CASE srv[x] \in Admitted /\ srv[y] \in Admitted
  BY <1>1, HandledGivesWay DEF SuccessionInv
<1>2. ASSUME srv[c] \notin Admitted, srv'[c] \in Admitted,
             NEW z \in Conns, z # c, Account(z) = Account(c), srv'[z] \in Admitted
      PROVE  GivesWay(z, c)'
  <2>1. /\ srv[c] = "AwaitingAuth" /\ IsAdmitted(c)
        /\ \A d \in signed \ {c} : Account(d) = Account(c) => d \notin open'
    BY <1>2 DEF Handled, Moves, GoesTo, Admitted
  <2>2. srv'[z] = srv[z] /\ (z \in signed' <=> z \in signed)
    BY <1>2 DEF Handled, OthersKept
  <2>3. z \in signed
    BY <1>2, <2>2 DEF ClosingInv, ClosingOne
  <2>4. net'[z] = Closing \/ inbox'[z] = Closing
    BY <1>2, <2>1, <2>2, <2>3, HandledKeepsClosing DEF ClosingInv, ClosingOne
  <2>5. "AssetManifestRequest" \notin T(inbox[c])
    BY <2>1 DEF ExchangeInv, ExchangeOne, Before, Pending
  <2>6. "AssetManifestRequest" \notin T(inbox'[c])
    BY <2>5, HandledQueues
  <2> QED BY <2>1, <2>4, <2>6 DEF GivesWay, IsAdmitted
<1>3. \A d \in Conns \ {c} : srv'[d] = srv[d]
  BY DEF Handled, OthersKept
<1> QED BY <1>1, <1>2, <1>3

-----------------------------------------------------------------------------
\* The sweep's visit of c.
LEMMA VisitedKeeps ==
  ASSUME TypeInv, SessionInv, NEW c \in Conns, Visited(c)
  PROVE  SessionInv'
<1>1. /\ PhaseInv /\ FreshInv /\ ExchangeInv /\ ClosingInv /\ SuccessionInv
      /\ phase = "tick" /\ \A d \in Conns : inbox[d] = <<>>
      /\ UNCHANGED <<phase, inbox, net, open, cli>>
      /\ srv[c] \in Handshaking \union {"Closed"}
      /\ \A d \in Conns \ {c} : /\ srv'[d] = srv[d] /\ (d \in signed' <=> d \in signed)
                                /\ OutGrows(d, Harmless)
  BY DEF SessionInv, Visited, OthersKept
<1>2. \A d \in Conns : Pending(d)' = Pending(d) /\ (Fresh(d)' <=> Fresh(d))
  BY <1>1 DEF Pending, Fresh
<1>3. ~Fresh(c)
  BY <1>1 DEF FreshInv, FreshOne, Handshaking
<1>4. PhaseInv'
  BY <1>1 DEF PhaseInv
<1>5. ASSUME NEW d \in Conns PROVE FreshOne(d)'
  BY <1>1, <1>2, <1>3 DEF FreshInv, FreshOne
<1>6. ASSUME NEW d \in Conns PROVE ExchangeOne(d)'
  <2>1. ExchangeOne(d)
    BY <1>1 DEF ExchangeInv
  <2>2. CASE d # c
    <3>1. {"AuthResult", "AssetManifest"} \cap T(out'[d]) \subseteq T(out[d])
      BY <1>1, <2>2 DEF OutGrows, Harmless, RosterTypes
    <3> QED BY <1>1, <1>2, <2>1, <2>2, <3>1 DEF ExchangeOne
  <2>3. CASE d = c /\ Moves(c)
    <3>1. {"AuthResult", "AssetManifest"} \cap T(out'[c]) \subseteq T(out[c])
      BY <2>3 DEF Moves, OutGrows, Harmless, RosterTypes
    <3>2. CASE GoesTo(c, srv[c])
      BY <1>1, <1>2, <2>1, <2>3, <3>1, <3>2 DEF ExchangeOne, GoesTo
    <3>3. CASE \/ srv[c] = "AwaitingHello" /\ GoesTo(c, "AwaitingAuth")
               \/ srv[c] = "AwaitingAuth" /\ GoesTo(c, "VerifyingAuth")
      BY <1>1, <1>2, <2>1, <2>3, <3>1, <3>3 DEF ExchangeOne, GoesTo, Before
    <3>4. CASE srv'[c] \in {"Closed", "AwaitingReady", "Playing"}
      BY <1>2, <1>3, <2>3, <3>4 DEF ExchangeOne, Before
    <3> QED BY <2>3, <3>2, <3>3, <3>4 DEF Moves, GoesTo
  <2>4. CASE d = c /\ srv[c] = "VerifyingAuth" /\ IsAdmitted(c)
    BY <1>1, <1>2, <1>3, <2>1, <2>4 DEF ExchangeOne, IsAdmitted, OutGrows, Before
  <2> QED BY <2>2, <2>3, <2>4 DEF Visited
<1>7. ASSUME NEW d \in Conns PROVE ClosingOne(d)'
  <2>1. ClosingOne(d) /\ ExchangeOne(d)
    BY <1>1 DEF ClosingInv, ExchangeInv
  <2>2. CASE d # c
    BY <1>1, <2>1, <2>2 DEF ClosingOne, Visited
  <2>3. CASE d = c /\ Moves(c)
    <3>1. /\ c \in signed' <=> c \in signed
          /\ srv'[c] \in Admitted => srv[c] \in Admitted
          /\ srv[c] = "Closed" => srv'[c] = "Closed"
      BY <2>3 DEF Moves, GoesTo, Admitted
    <3>2. c \in dropping' => c \in dropping \/ srv'[c] = "Closed"
      BY <2>3 DEF Visited, Moves, IsAdmitted
    <3> QED BY <1>1, <2>1, <2>3, <3>1, <3>2 DEF ClosingOne
  <2>4. CASE d = c /\ srv[c] = "VerifyingAuth" /\ IsAdmitted(c)
    BY <1>1, <2>1, <2>4 DEF ClosingOne, ExchangeOne, IsAdmitted, Before, Visited, Moves, GoesTo
  <2> QED BY <2>2, <2>3, <2>4 DEF Visited
<1>8. ASSUME NEW x \in Conns, NEW y \in Conns, x # y, Account(x) = Account(y),
             srv'[x] \in Admitted, srv'[y] \in Admitted
      PROVE  GivesWay(x, y)' \/ GivesWay(y, x)'
  <2>1. verified \subseteq verified'
    BY DEF Visited
  <2>2. ASSUME NEW u \in Conns, NEW v \in Conns, GivesWay(u, v), srv'[v] \in Admitted,
               srv[v] \in Admitted
        PROVE  GivesWay(u, v)'
    <3>1. srv[v] = "AwaitingAssetManifestRequest"
      BY <1>1, <2>2, ClosingOK DEF GivesWay
    <3>2. srv'[v] = "AwaitingAssetManifestRequest"
      BY <1>1, <2>2, <3>1 DEF Visited, Moves, GoesTo, IsAdmitted, Admitted
    <3> QED BY <1>1, <2>1, <2>2, <3>1, <3>2 DEF GivesWay
  <2>3. CASE srv[x] \in Admitted /\ srv[y] \in Admitted
    BY <1>1, <1>8, <2>2, <2>3 DEF SuccessionInv
  <2>4. CASE srv[c] \notin Admitted /\ srv'[c] \in Admitted
    <3>1. IsAdmitted(c) /\ c \in verified'
      BY <2>4 DEF Visited, Moves, GoesTo, Admitted
    <3>2. GivesWay(x, c)' /\ GivesWay(y, c)'
      BY <3>1 DEF GivesWay, IsAdmitted
    <3>3. x = c \/ y = c \/ (srv[x] \in Admitted /\ srv[y] \in Admitted)
      BY <1>1, <1>8
    <3> QED BY <2>3, <3>2, <3>3
  <2> QED BY <1>1, <1>8, <2>3, <2>4
<1> QED BY <1>4, <1>5, <1>6, <1>7, <1>8
        DEF SessionInv, FreshInv, ExchangeInv, ClosingInv, SuccessionInv

-----------------------------------------------------------------------------
\* A step of c's client.
LEMMA ActedKeeps ==
  ASSUME TypeInv, SessionInv, NEW c \in Conns, Acted(c)
  PROVE  SessionInv'
<1>1. /\ PhaseInv /\ FreshOne(c) /\ ExchangeOne(c) /\ ClosingOne(c) /\ SuccessionInv
      /\ net[c] \in Seq(Messages) /\ inbox[c] \in Seq(Messages)
      /\ UNCHANGED <<phase, inbox, open, srv, signed, verified, dropping>>
      /\ T(out'[c]) \subseteq T(out[c])
  BY DEF SessionInv, FreshInv, ExchangeInv, ClosingInv, TypeInv, QueuesOK, Acted
<1>2. ASSUME NEW d \in Conns \ {c} PROVE FreshOne(d)' /\ ExchangeOne(d)' /\ ClosingOne(d)'
  <2>1. FreshOne(d) /\ ExchangeOne(d) /\ ClosingOne(d)
    BY DEF SessionInv, FreshInv, ExchangeInv, ClosingInv
  <2>2. net'[d] = net[d] /\ out'[d] = out[d] /\ cli'[d] = cli[d]
    BY DEF Acted
  <2>3. FreshOne(d)'
    BY <1>1, <2>1, <2>2 DEF FreshOne, Fresh, Pending
  <2>4. ExchangeOne(d)'
    BY <1>1, <2>1, <2>2 DEF ExchangeOne, Fresh, Pending
  <2>5. ClosingOne(d)'
    BY <1>1, <2>1, <2>2 DEF ClosingOne
  <2> QED BY <2>3, <2>4, <2>5
<1>3. PhaseInv'
  BY <1>1 DEF PhaseInv
<1>4. FreshOne(c)' /\ ExchangeOne(c)' /\ ClosingOne(c)' /\ (net[c] = Closing => net'[c] = Closing)
  <2>1. CASE cli[c] = "Offline" /\ cli'[c] = "Dialing" /\ Sends(c, <<Msg("connected")>>)
    <3>1. Pending(c) = {} /\ c \in open /\ Fresh(c) /\ srv[c] = "none" /\ c \notin signed
      BY <1>1, <2>1 DEF FreshOne, ExchangeOne, Fresh
    <3>2. net[c] = <<>> /\ inbox[c] = <<>>
      <4>1. T(net[c]) = {} /\ T(inbox[c]) = {}
        BY <3>1 DEF Pending
      <4> QED BY <1>1, <4>1, NoTypes
    <3>3. <<Msg("connected")>> \in Seq(Messages) /\ T(<<Msg("connected")>>) = {"connected"}
      BY PlainQueues DEF PlainTypes
    <3>4. net'[c] = <<Msg("connected")>>
      BY <2>1, <3>1, <3>2, <3>3, ConcatEmptySeq DEF Sends
    <3>5. Head(net'[c]).type = "connected" /\ Tail(net'[c]) = <<>>
      BY <3>4 DEF Msg
    <3>6. Pending(c)' = {"connected"} /\ T(Tail(net'[c])) = {}
      BY <1>1, <3>2, <3>3, <3>4, <3>5, TypesEmpty DEF Pending
    <3>7. FreshOne(c)'
      BY <1>1, <2>1, <3>1, <3>2, <3>5, <3>6, TypesEmpty DEF FreshOne, Fresh
    <3>8. ExchangeOne(c)'
      BY <1>1, <2>1, <3>1, <3>6 DEF ExchangeOne
    <3>9. net'[c] # Closing /\ net[c] # Closing
      BY <3>2, <3>3, <3>4, ClosingOK
    <3>10. ClosingOne(c)'
      BY <1>1, <3>1, <3>9 DEF ClosingOne
    <3> QED BY <3>7, <3>8, <3>9, <3>10
  <2>2. CASE cli[c] # "Offline" /\ cli'[c] = "Gone" /\ net'[c] \in {net[c], Closing}
    <3>1. Pending(c)' \subseteq Pending(c) \union {"closed"} /\ (Fresh(c)' => Fresh(c))
      BY <1>1, <2>2, ClosingOK DEF Pending, Fresh
    <3>2. "connected" \in T(net'[c]) => net'[c] = net[c]
      BY <2>2, ClosingOK
    <3>3. FreshOne(c)'
      BY <1>1, <2>2, <3>1, <3>2 DEF FreshOne, Fresh, Pending
    <3>4. ExchangeOne(c)'
      BY <1>1, <2>2, <3>1 DEF ExchangeOne
    <3>5. ClosingOne(c)'
      BY <1>1, <2>2 DEF ClosingOne
    <3> QED BY <2>2, <3>3, <3>4, <3>5
  <2>3. ASSUME cli[c] \notin {"Offline", "Gone"}, cli'[c] \notin {"Offline", "Gone"},
               NEW ms \in Seq(Messages), Sends(c, ms),
               NEW types, T(ms) \subseteq types, types \cap {"connected", "closed"} = {}
        PROVE  /\ FreshOne(c)' /\ ClosingOne(c)' /\ (net[c] = Closing => net'[c] = Closing)
               /\ Pending(c)' \subseteq Pending(c) \union T(ms)
               /\ Fresh(c)' => Fresh(c)
    <3>1. /\ net[c] \o ms \in Seq(Messages) /\ T(net[c] \o ms) = T(net[c]) \union T(ms)
          /\ net[c] # <<>> => /\ Head(net[c] \o ms) = Head(net[c])
                              /\ T(Tail(net[c] \o ms)) = T(Tail(net[c])) \union T(ms)
      BY <1>1, <2>3, TypesConcat, HeadOfConcat
    <3>2. net'[c] = net[c] \/ net'[c] = net[c] \o ms
      BY <2>3 DEF Sends
    <3>3. T(net'[c]) \subseteq T(net[c]) \union T(ms)
      BY <3>1, <3>2
    <3>4. Pending(c)' \subseteq Pending(c) \union T(ms)
      BY <1>1, <3>3 DEF Pending
    <3>5. Fresh(c)' => Fresh(c)
      BY <2>3, <3>4 DEF Fresh
    <3>6. "connected" \in T(net'[c]) => "connected" \in T(net[c]) /\ net[c] # <<>>
      BY <2>3, <3>3, TypesEmpty
    <3>7. FreshOne(c)'
      BY <1>1, <2>3, <3>1, <3>2, <3>3, <3>5, <3>6 DEF FreshOne
    <3>8. ASSUME net'[c] = Closing PROVE net[c] = Closing
      <4>1. CASE net'[c] = net[c]
        BY <3>8, <4>1
      <4>2. CASE net'[c] = net[c] \o ms
        <5>1. T(ms) = {}
          BY <2>3, <3>1, <3>8, <4>2, ClosingOK
        <5>2. ms = <<>>
          BY <2>3, <5>1, NoTypes
        <5> QED BY <1>1, <3>8, <4>2, <5>2, ConcatEmptySeq
      <4> QED BY <3>2, <4>1, <4>2
    <3>9. net[c] = Closing => net'[c] = Closing
      BY <1>1, <2>3 DEF ClosingOne, Sends
    <3>10. ClosingOne(c)'
      <4>1. net'[c] = Closing => c \notin open
        BY <1>1, <2>3, <3>8 DEF ClosingOne
      <4> QED BY <1>1, <3>9, <4>1 DEF ClosingOne
    <3> QED BY <3>4, <3>5, <3>7, <3>9, <3>10
  <2>4. ASSUME cli[c] \notin {"Offline", "Gone"}, NEW ms \in Seq(Messages), Sends(c, ms),
               T(ms) \subseteq {"Hello", "Auth", "Ready"},
               \/ cli'[c] \in {cli[c], "Failed", "Connecting", "AwaitingChallenge",
                               "SigningIn", "Authenticating"}
               \/ cli[c] \in {"SyncingAssets", "Syncing"} /\ cli'[c] \in {"Syncing", "Joined"}
        PROVE  FreshOne(c)' /\ ExchangeOne(c)' /\ ClosingOne(c)' /\ (net[c] = Closing => net'[c] = Closing)
    <3>1. {"Hello", "Auth", "Ready"} \cap {"connected", "closed"} = {}
          /\ cli'[c] \notin {"Offline", "Gone"}
      BY <2>4
    <3>2. /\ FreshOne(c)' /\ ClosingOne(c)' /\ (net[c] = Closing => net'[c] = Closing)
          /\ Pending(c)' \subseteq Pending(c) \union T(ms)
          /\ Fresh(c)' => Fresh(c)
      BY <2>3, <2>4, <3>1
    <3>3. ExchangeOne(c)'
      BY <1>1, <2>4, <3>2 DEF ExchangeOne
    <3> QED BY <3>2, <3>3
  <2>5. ASSUME cli[c] \notin {"Offline", "Gone"}, NEW ms \in Seq(Messages), Sends(c, ms),
               "AuthResult" \in T(out[c]), cli'[c] = "AwaitingAssetManifest",
               T(ms) \subseteq {"AssetManifestRequest"}
        PROVE  FreshOne(c)' /\ ExchangeOne(c)' /\ ClosingOne(c)' /\ (net[c] = Closing => net'[c] = Closing)
    <3>1. /\ FreshOne(c)' /\ ClosingOne(c)' /\ (net[c] = Closing => net'[c] = Closing)
          /\ Pending(c)' \subseteq Pending(c) \union T(ms)
          /\ Fresh(c)' => Fresh(c)
      BY <2>3, <2>5
    <3>2. ExchangeOne(c)'
      BY <1>1, <2>5, <3>1 DEF ExchangeOne
    <3> QED BY <3>1, <3>2
  <2>6. ASSUME cli[c] = "AwaitingAssetManifest", NEW ms \in Seq(Messages), Sends(c, ms),
               "AssetManifest" \in T(out[c]), cli'[c] \in {"SyncingAssets", "Syncing"},
               T(ms) \subseteq {"AssetRequest", "Ready"}
        PROVE  FreshOne(c)' /\ ExchangeOne(c)' /\ ClosingOne(c)' /\ (net[c] = Closing => net'[c] = Closing)
    <3>1. /\ FreshOne(c)' /\ ClosingOne(c)' /\ (net[c] = Closing => net'[c] = Closing)
          /\ Pending(c)' \subseteq Pending(c) \union T(ms)
          /\ Fresh(c)' => Fresh(c)
      BY <2>3, <2>6
    <3>2. ExchangeOne(c)'
      BY <1>1, <2>6, <3>1 DEF ExchangeOne
    <3> QED BY <3>1, <3>2
  <2> QED BY <2>1, <2>2, <2>4, <2>5, <2>6 DEF Acted
<1>5. SuccessionInv'
  <2>1. \A x \in Conns : net[x] = Closing => net'[x] = Closing
    BY <1>4 DEF Acted
  <2>2. \A x, y \in Conns : GivesWay(x, y) => GivesWay(x, y)'
    BY <1>1, <2>1 DEF GivesWay
  <2> QED BY <1>1, <2>2 DEF SuccessionInv
<1> QED BY <1>2, <1>3, <1>4, <1>5 DEF SessionInv, FreshInv, ExchangeInv, ClosingInv

\* The poll moves what has arrived into the inboxes, which were empty.
LEMMA PollKeeps ==
  ASSUME TypeInv, SessionInv, Poll
  PROVE  SessionInv'
<1>1. /\ PhaseInv /\ FreshInv /\ ExchangeInv /\ ClosingInv /\ SuccessionInv
      /\ phase = "between" /\ phase' = "tick"
      /\ inbox' = net /\ \A c \in Conns : net'[c] = <<>>
      /\ UNCHANGED <<out, open, srv, signed, verified, dropping, cli>>
  BY DEF SessionInv, Poll, sweepVars, clientVars
<1>2. (\A c \in Conns : inbox[c] = <<>>) /\ verified = {} /\ dropping = {}
  BY <1>1 DEF PhaseInv
<1>3. \A c \in Conns : Pending(c)' = Pending(c) /\ (Fresh(c)' <=> Fresh(c))
  BY <1>1, <1>2 DEF Pending, Fresh
<1>4. PhaseInv'
  BY <1>1, <1>2 DEF PhaseInv
<1>5. FreshInv'
  BY <1>1, <1>2, <1>3, TypesEmpty DEF FreshInv, FreshOne
<1>6. ExchangeInv'
  BY <1>1, <1>3 DEF ExchangeInv, ExchangeOne
<1>7. ClosingInv'
  BY <1>1, <1>2, ClosingOK DEF ClosingInv, ClosingOne
<1>8. \A x, y \in Conns : GivesWay(x, y) => GivesWay(x, y)'
  BY <1>1, <1>2, ClosingOK DEF GivesWay
<1> QED BY <1>1, <1>4, <1>5, <1>6, <1>7, <1>8 DEF SessionInv, SuccessionInv

\* The end of the tick closes the older sessions of the accounts that were verified.
LEMMA EndTickKeeps ==
  ASSUME TypeInv, SessionInv, EndTick
  PROVE  SessionInv'
<1> DEFINE gone == (UNION {Duplicates(c) : c \in verified}) \union dropping
<1>1. /\ PhaseInv /\ FreshInv /\ ExchangeInv /\ ClosingInv /\ SuccessionInv
      /\ phase' = "between" /\ \A c \in Conns : inbox[c] = <<>>
      /\ verified' = {} /\ dropping' = {} /\ Drop(gone)
      /\ UNCHANGED <<inbox, out, srv, signed, cli>>
  BY DEF SessionInv, EndTick, clientVars
<1>2. /\ open' = open \ gone
      /\ \A d \in Conns : net'[d] = IF d \in gone /\ d \in open THEN Closing ELSE net[d]
  BY <1>1 DEF Drop, Closing
<1>3. ASSUME NEW d \in gone PROVE d \in signed \/ d \in dropping
  <2>1. d \in dropping \/ \E c \in verified : d \in Duplicates(c)
    BY <1>3, Zenon
  <2> QED BY <2>1 DEF Duplicates
<1>4. ASSUME NEW x \in signed, NEW y \in verified, x # y, Account(x) = Account(y)
      PROVE  x \in gone
  <2>1. x \in Duplicates(y)
    BY <1>4 DEF Duplicates
  <2> QED BY <2>1
<1> HIDE DEF gone
<1>5. PhaseInv'
  BY <1>1 DEF PhaseInv
<1>6. ASSUME NEW d \in Conns PROVE FreshOne(d)' /\ ExchangeOne(d)' /\ ClosingOne(d)'
  <2>1. FreshOne(d) /\ ExchangeOne(d) /\ ClosingOne(d)
    BY <1>1 DEF FreshInv, ExchangeInv, ClosingInv
  <2>2. CASE d \in gone /\ d \in open
    <3>1. net'[d] = Closing /\ d \notin open'
      BY <1>2, <2>2
    <3>2. ~Fresh(d) /\ srv[d] \notin Before
      BY <1>3, <2>1, <2>2 DEF FreshOne, ExchangeOne, ClosingOne, Before
    <3>3. Pending(d)' = {"closed"}
      BY <1>1, <3>1, TypesEmpty, ClosingOK DEF Pending
    <3>4. ~Fresh(d)'
      BY <1>1, <3>2, <3>3 DEF Fresh
    <3>5. FreshOne(d)'
      BY <3>3, <3>4 DEF FreshOne, Fresh, Pending
    <3>6. ExchangeOne(d)'
      BY <1>1, <2>1, <3>2, <3>3, <3>4 DEF ExchangeOne
    <3>7. ClosingOne(d)'
      BY <1>1, <2>1, <3>1 DEF ClosingOne
    <3> QED BY <3>5, <3>6, <3>7
  <2>3. CASE ~(d \in gone /\ d \in open)
    <3>1. net'[d] = net[d] /\ (d \in open' <=> d \in open)
      BY <1>2, <2>3
    <3>2. Pending(d)' = Pending(d) /\ (Fresh(d)' <=> Fresh(d))
      BY <1>1, <3>1 DEF Pending, Fresh
    <3>3. FreshOne(d)'
      BY <1>1, <2>1, <3>1, <3>2 DEF FreshOne
    <3>4. ExchangeOne(d)'
      BY <1>1, <2>1, <3>1, <3>2 DEF ExchangeOne
    <3>5. ClosingOne(d)'
      BY <1>1, <2>1, <3>1 DEF ClosingOne
    <3> QED BY <3>3, <3>4, <3>5
  <2> QED BY <2>2, <2>3
<1>7. ASSUME NEW x \in Conns, NEW y \in Conns, x # y, Account(x) = Account(y),
             srv[x] \in Admitted, GivesWay(x, y)
      PROVE  GivesWay(x, y)'
  <2>1. "AssetManifestRequest" \notin T(inbox[y]) /\ inbox[x] # Closing
    BY <1>1, TypesEmpty, ClosingOK
  <2>2. CASE y \in verified /\ srv[y] = "AwaitingAssetManifestRequest"
    <3>1. x \in signed' \ open'
      BY <1>1, <1>2, <1>4, <1>7, <2>2 DEF ClosingInv, ClosingOne
    <3>2. net'[x] = Closing
      BY <1>1, <1>6, <2>1, <3>1 DEF ClosingOne
    <3> QED BY <1>1, <2>1, <2>2, <3>2 DEF GivesWay
  <2>3. CASE net[x] = Closing /\ srv[y] = "AwaitingAssetManifestRequest"
    BY <1>1, <1>2, <2>1, <2>3 DEF GivesWay
  <2> QED BY <1>7, <2>1, <2>2, <2>3 DEF GivesWay
<1>8. SuccessionInv'
  BY <1>1, <1>7 DEF SuccessionInv
<1> QED BY <1>5, <1>6, <1>8 DEF SessionInv, FreshInv, ExchangeInv, ClosingInv

LEMMA SessionInit == Init => SessionInv
<1> SUFFICES ASSUME Init PROVE SessionInv
  OBVIOUS
<1>1. \A c \in Conns : inbox[c] = <<>> /\ net[c] = <<>> /\ out[c] = <<>> /\ srv[c] = "none"
                       /\ cli[c] = "Offline" /\ c \in open /\ c \notin signed
  BY DEF Init
<1>2. \A c \in Conns : Pending(c) = {} /\ T(out[c]) = {} /\ net[c] # Closing
  BY <1>1, TypesEmpty, ClosingOK DEF Pending
<1>3. PhaseInv
  BY <1>1 DEF Init, PhaseInv
<1>4. ASSUME NEW c \in Conns PROVE FreshOne(c) /\ ExchangeOne(c) /\ ClosingOne(c)
  <2>1. FreshOne(c)
    BY <1>1, <1>2 DEF FreshOne, Pending
  <2>2. ExchangeOne(c)
    BY <1>1, <1>2 DEF ExchangeOne, Before
  <2>3. ClosingOne(c)
    BY <1>1, <1>2 DEF Init, ClosingOne, Admitted
  <2> QED BY <2>1, <2>2, <2>3
<1>5. SuccessionInv
  BY <1>1 DEF SuccessionInv, Admitted
<1> QED BY <1>3, <1>4, <1>5 DEF SessionInv, FreshInv, ExchangeInv, ClosingInv

LEMMA SessionStep == TypeInv /\ SessionInv /\ [Next]_vars => SessionInv'
<1> SUFFICES ASSUME TypeInv, SessionInv, [Next]_vars PROVE SessionInv'
  OBVIOUS
<1>1. TypeInv'
  BY TypeStep
<1>2. ASSUME NEW c \in Conns, HandleOne(c) PROVE SessionInv'
  <2>1. Handled(c)
    BY <1>2, HandleEffect
  <2> QED BY <1>1, <2>1, HandledKeepsPhase, HandledKeepsFresh, HandledKeepsExchange,
             HandledKeepsClosing, HandledKeepsSuccession DEF SessionInv
<1>3. ASSUME NEW c \in Conns, NEW late \in BOOLEAN, SweepOne(c, late) PROVE SessionInv'
  BY <1>3, VisitEffect, VisitedKeeps
<1>4. ASSUME NEW c \in Conns, ClientStep(c) \/ LoseServer(c) \/ GiveUp(c) PROVE SessionInv'
  BY <1>4, ActEffect, ActedKeeps
<1>5. CASE UNCHANGED vars
  <2>1. UNCHANGED <<phase, inbox, net, out, srv, signed, open, verified, dropping, cli>>
    BY <1>5 DEF vars, serverVars, sweepVars, clientVars
  <2>2. PhaseInv'
    BY <2>1 DEF PhaseInv, SessionInv
  <2>3. FreshInv'
    BY <2>1 DEF FreshInv, FreshOne, Fresh, Pending, SessionInv
  <2>4. ExchangeInv'
    BY <2>1 DEF ExchangeInv, ExchangeOne, Fresh, Pending, SessionInv
  <2>5. ClosingInv'
    BY <2>1 DEF ClosingInv, ClosingOne, SessionInv
  <2>6. SuccessionInv'
    BY <2>1 DEF SuccessionInv, GivesWay, SessionInv
  <2> QED BY <2>2, <2>3, <2>4, <2>5, <2>6 DEF SessionInv
<1> QED BY <1>2, <1>3, <1>4, <1>5, PollKeeps, EndTickKeeps DEF Next, ServerStep

THEOREM SessionsFollow == Spec => []SessionInv
BY TypeCorrect, SessionInit, SessionStep, PTL DEF Spec

\* Two sessions of an account are never in game together: one of them would have to give way,
\* and then the other one is not yet in game.
THEOREM OneSession == Spec => []OneSessionPerAccount
<1>1. TypeInv /\ SessionInv => OneSessionPerAccount
  BY DEF SessionInv, SuccessionInv, GivesWay, Admitted, OneSessionPerAccount, Playing
<1> QED BY <1>1, TypeCorrect, SessionsFollow, PTL

\* No two players are taken for each other, and none plays against themself.
THEOREM SessionsStayUnique == Spec => []SessionsAreUnique
BY NamesAreUnique, OneSession, PTL DEF SessionsAreUnique

-----------------------------------------------------------------------------
(* Honest clients: the invariant is a table of where the two ends of a      *)
(* connection can be at the same time, and what is then on its way between *)
(* them                                                                    *)

Bad == {"BadHandshake", "unexpected frame"}

Request(n) == MsgOf("AssetRequest", 1..n)
Data(n) == [i \in 1..n |-> Msg("AssetData")]

\* A client in state k of a server that has it in state s: what the server has still to
\* handle is up, what the client has still to read is down, the server has l more chunks
\* to stream and the client waits for n.  From Syncing on the client holds back or
\* plays whatever comes.
InStep(k, s, up, down, l, n) ==
  \/ k = "Offline" /\ s = "none" /\ up = <<>> /\ down = <<>>
  \/ /\ k = "Dialing" /\ down = <<>>
     /\ \/ s = "none" /\ up = <<Msg("connected")>>
        \/ s = "AwaitingHello" /\ up = <<>>
  \/ /\ k = "Connecting"
     /\ \/ s = "none" /\ up = <<Msg("connected"), Msg("Hello")>> /\ down = <<>>
        \/ s = "AwaitingHello" /\ up = <<Msg("Hello")>> /\ down = <<>>
        \/ s = "AwaitingAuth" /\ up = <<>> /\ down = <<Msg("ServerInfo"), Msg("Challenge")>>
  \/ k = "AwaitingChallenge" /\ s = "AwaitingAuth" /\ up = <<>> /\ down = <<Msg("Challenge")>>
  \/ k = "SigningIn" /\ s = "AwaitingAuth" /\ up = <<>> /\ down = <<>>
  \/ /\ k = "Authenticating"
     /\ \/ s = "AwaitingAuth" /\ up = <<Msg("Auth")>> /\ down = <<>>
        \/ s = "VerifyingAuth" /\ up = <<>> /\ down = <<>>
        \/ s = "AwaitingAssetManifestRequest" /\ up = <<>> /\ down = <<Msg("AuthResult")>>
  \/ /\ k = "AwaitingAssetManifest"
     /\ \/ s = "AwaitingAssetManifestRequest" /\ up = <<Msg("AssetManifestRequest")>> /\ down = <<>>
        \/ s = "AwaitingAssetRequest" /\ up = <<>> /\ down = <<Msg("AssetManifest")>>
  \/ /\ k = "SyncingAssets"
     /\ \/ s = "AwaitingAssetRequest" /\ up = <<Request(n)>> /\ down = <<>>
        \/ s = "StreamingAssets" /\ up = <<>> /\ l \in 1..n /\ down = Data(n - l)
        \/ s = "AwaitingReady" /\ up = <<>> /\ down = Data(n)
  \/ /\ k \in {"Syncing", "Joined"}
     /\ \/ s = "AwaitingAssetRequest" /\ up = <<Request(0), Msg("Ready")>>
        \/ s = "AwaitingReady" /\ up = <<Msg("Ready")>>
        \/ s = "Playing" /\ up = <<>>

\* What this tick can still have to handle of a client that is no longer there.
Unhandled(s) ==
  {us \in { <<Msg("connected")>>, <<Msg("connected"), Msg("Hello")>> } : s = "none"}
  \union {us \in { <<Msg("Hello")>> } : s = "AwaitingHello"}
  \union {us \in { <<Msg("Auth")>> } : s = "AwaitingAuth"}
  \union {us \in { <<Msg("AssetManifestRequest")>> } : s = "AwaitingAssetManifestRequest"}
  \union {us \in {<<Request(n)>> : n \in 0..MaxChunks} \union { <<Request(0), Msg("Ready")>> } :
            s = "AwaitingAssetRequest"}
  \union {us \in { <<Msg("Ready")>> } : s = "AwaitingReady"}

\* A connection that is closed, or whose client is gone: nothing comes after its disconnect.
Winding(s, in, wire) ==
  /\ s # "Closed" /\ wire \in {<<>>, Closing}
  /\ in \in {<<>>, Closing} \union Unhandled(s)

Alive(c) == c \in open /\ cli[c] # "Gone"

HonestOne(c) ==
  /\ why[c] \notin Bad
  /\ why[c] = "none" =>
       IF Alive(c) THEN InStep(cli[c], srv[c], inbox[c] \o net[c], out[c], left[c], need[c])
                   ELSE Winding(srv[c], inbox[c], net[c])

HonestInv == \A c \in Conns \ Strays : HonestOne(c)

-----------------------------------------------------------------------------
(* Short queues *)

LEMMA Shorts ==
  ASSUME NEW a, NEW b
  PROVE  /\ <<a>> # <<>> /\ Head(<<a>>) = a /\ Tail(<<a>>) = <<>>
         /\ <<a, b>> # <<>> /\ Head(<<a, b>>) = a /\ Tail(<<a, b>>) = <<b>>
         /\ <<a>> # <<a, b>>
         /\ <<>> \o <<a>> = <<a>> /\ <<>> \o <<a, b>> = <<a, b>> /\ <<a>> \o <<b>> = <<a, b>>
<1>1. <<a>> # <<>> /\ <<a, b>> # <<>> /\ <<a>> # <<a, b>>
  OBVIOUS
<1>2. Head(<<a>>) = a /\ Head(<<a, b>>) = a
  OBVIOUS
<1>3. Tail(<<a>>) = <<>>
  OBVIOUS
<1>4. Tail(<<a, b>>) = <<b>>
  OBVIOUS
<1>5. <<a>> \in Seq({a, b}) /\ <<b>> \in Seq({a, b}) /\ <<a, b>> \in Seq({a, b})
  OBVIOUS
<1>6. <<>> \o <<a>> = <<a>> /\ <<>> \o <<a, b>> = <<a, b>>
  BY <1>5, ConcatEmptySeq
<1>7. <<a>> \o <<b>> = <<a, b>>
  <2>1. <<a>> \o <<b>> \in Seq({a, b}) /\ Len(<<a>> \o <<b>>) = 2
        /\ (<<a>> \o <<b>>)[1] = a /\ (<<a>> \o <<b>>)[2] = b
    BY <1>5, ConcatProperties
  <2>2. Len(<<a, b>>) = 2 /\ <<a, b>>[1] = a /\ <<a, b>>[2] = b
    OBVIOUS
  <2>3. ASSUME NEW s \in Seq({a, b}), NEW t \in Seq({a, b}), Len(s) = 2, Len(t) = 2,
               s[1] = t[1], s[2] = t[2]
        PROVE  s = t
    <3>1. \A i \in 1..Len(s) : s[i] = t[i]
      BY <2>3
    <3> QED BY <2>3, <3>1, SeqEqual
  <2> QED BY <1>5, <2>1, <2>2, <2>3
<1> QED BY <1>1, <1>2, <1>3, <1>4, <1>6, <1>7

\* What is in front of a queue of at most two.
LEMMA Fronts ==
  ASSUME NEW S, NEW s \in Seq(S), NEW t \in Seq(S), NEW a \in S, NEW b \in S
  PROVE  /\ s \o t = <<>> => s = <<>>
         /\ s \o t = <<a>> => s \in {<<>>, <<a>>}
         /\ s \o t = <<a, b>> => s \in {<<>>, <<a>>, <<a, b>>}
<1>1. /\ Len(s) \in Nat /\ Len(t) \in Nat
      /\ DOMAIN s = 1..Len(s) /\ DOMAIN t = 1..Len(t)
      /\ Len(s \o t) = Len(s) + Len(t)
      /\ \A i \in 1..Len(s) : (s \o t)[i] = s[i]
  BY ConcatProperties, LenProperties
<1>2. Len(s) = 0 => s = <<>>
  BY EmptySeq
<1>3. ASSUME s \o t = <<>> PROVE s = <<>>
  <2>1. Len(s) = 0
    BY <1>1, <1>3
  <2> QED BY <1>2, <2>1
<1>4. ASSUME s \o t = <<a>> PROVE s \in {<<>>, <<a>>}
  <2>1. Len(s \o t) = 1 /\ (s \o t)[1] = a
    BY <1>4
  <2>2. Len(s) \in {0, 1} /\ (Len(s) = 1 => s[1] = a)
    BY <1>1, <2>1
  <2>3. Len(s) = 1 => s = <<a>>
    BY <1>1, <2>2
  <2> QED BY <1>2, <2>2, <2>3
<1>5. ASSUME s \o t = <<a, b>> PROVE s \in {<<>>, <<a>>, <<a, b>>}
  <2>1. Len(s \o t) = 2 /\ (s \o t)[1] = a /\ (s \o t)[2] = b
    BY <1>5
  <2>2. Len(s) \in {0, 1, 2} /\ (Len(s) > 0 => s[1] = a) /\ (Len(s) = 2 => s[2] = b)
    BY <1>1, <2>1
  <2>3. Len(s) = 1 => s = <<a>>
    BY <1>1, <2>2
  <2>4. Len(s) = 2 => s = <<a, b>>
    BY <1>1, <2>2
  <2> QED BY <1>2, <2>2, <2>3, <2>4
<1> QED BY <1>3, <1>4, <1>5

\* Taking from the front of two queues, and putting something behind them.
LEMMA Laid ==
  ASSUME NEW S, NEW s \in Seq(S), NEW t \in Seq(S)
  PROVE  /\ s # <<>> => /\ s \o t # <<>> /\ Head(s \o t) = Head(s)
                        /\ Tail(s \o t) = Tail(s) \o t
         /\ \A r \in Seq(S) : s \o (t \o r) = (s \o t) \o r
         /\ s \o <<>> = s /\ <<>> \o s = s
<1>1. s # <<>> => s \o t # <<>> /\ Head(s \o t) = Head(s) /\ Tail(s \o t) = Tail(s) \o t
  <2>1. s # <<>> => s \o t # <<>>
    BY ConcatProperties, LenProperties, EmptySeq
  <2> QED BY <2>1
<1>2. \A r \in Seq(S) : s \o (t \o r) = (s \o t) \o r
  BY ConcatAssociative
<1> QED BY <1>1, <1>2, ConcatEmptySeq

\* Of one message over and over, the length says everything.
LEMMA SameOnes ==
  ASSUME NEW x, NEW s \in Seq({x}), NEW t \in Seq({x}), NEW r \in Seq({x}),
         Len(r) = Len(s) + Len(t)
  PROVE  s \o t = r
<1>1. s \o t \in Seq({x}) /\ Len(s \o t) = Len(s) + Len(t)
  BY ConcatProperties
<1>2. ASSUME NEW q \in Seq({x}) PROVE \A i \in 1..Len(q) : q[i] = x
  <2>1. \A i \in 1..Len(q) : q[i] \in {x}
    BY ElementOfSeq
  <2> QED BY <2>1
<1>3. /\ \A i \in 1..Len(s \o t) : (s \o t)[i] = x
      /\ \A i \in 1..Len(r) : r[i] = x
  BY <1>1, <1>2
<1>4. Len(s \o t) = Len(r) /\ \A i \in 1..Len(s \o t) : (s \o t)[i] = r[i]
  BY <1>1, <1>3
<1> QED BY <1>1, <1>4, SeqEqual

\* Asset chunks on their way.
LEMMA DataOK ==
  /\ Data(0) = <<>>
  /\ \A a, b \in Nat : Data(a) \o Data(b) = Data(a + b)
  /\ \A a \in Nat : a > 0 => /\ Data(a) # <<>> /\ Head(Data(a)) = Msg("AssetData")
                             /\ Tail(Data(a)) = Data(a - 1)
<1>1. \A a \in Nat : Data(a) \in Seq({Msg("AssetData")}) /\ Len(Data(a)) = a
                     /\ \A i \in 1..a : Data(a)[i] = Msg("AssetData")
  BY DEF Data
<1>2. Data(0) = <<>>
  BY <1>1, EmptySeq
<1>3. ASSUME NEW a \in Nat, NEW b \in Nat PROVE Data(a) \o Data(b) = Data(a + b)
  <2>1. /\ Data(a) \in Seq({Msg("AssetData")}) /\ Len(Data(a)) = a
        /\ Data(b) \in Seq({Msg("AssetData")}) /\ Len(Data(b)) = b
        /\ Data(a + b) \in Seq({Msg("AssetData")}) /\ Len(Data(a + b)) = a + b
    BY <1>1
  <2> HIDE DEF Data
  <2> QED BY <2>1, SameOnes
<1>4. ASSUME NEW a \in Nat, a > 0
      PROVE  Data(a) # <<>> /\ Head(Data(a)) = Msg("AssetData") /\ Tail(Data(a)) = Data(a - 1)
  <2>1. Data(a) # <<>>
    BY <1>1, <1>4
  <2>2. /\ Tail(Data(a)) \in Seq({Msg("AssetData")}) /\ Len(Tail(Data(a))) = a - 1
        /\ \A i \in 1..(a - 1) : Tail(Data(a))[i] = Data(a)[i + 1]
        /\ Head(Data(a)) = Data(a)[1]
    BY <1>1, <2>1, HeadTailProperties
  <2>3. \A i \in 1..(a - 1) : Tail(Data(a))[i] = Msg("AssetData")
    BY <1>1, <1>4, <2>2
  <2>4. Head(Data(a)) = Msg("AssetData")
    BY <1>1, <1>4, <2>2
  <2>5. /\ a - 1 \in Nat /\ Data(a - 1) \in Seq({Msg("AssetData")}) /\ Len(Data(a - 1)) = a - 1
        /\ \A i \in 1..(a - 1) : Data(a - 1)[i] = Msg("AssetData")
    BY <1>1, <1>4
  <2> HIDE DEF Data
  <2>6. Tail(Data(a)) = Data(a - 1)
    BY <2>2, <2>3, <2>5, SeqEqual
  <2> QED BY <2>1, <2>4, <2>6
<1> QED BY <1>2, <1>3, <1>4
-----------------------------------------------------------------------------
(* The table, row by row *)

\* The only message that the server can have to handle next.
Due(s) == IF s = "none" THEN "connected" ELSE Accepts[s]
Waiting == {"none"} \union DOMAIN Accepts

LEMMA UpIsDue ==
  ASSUME NEW k, NEW s, NEW u, NEW d, NEW l, NEW n, InStep(k, s, u, d, l, n)
  PROVE  /\ k \notin {"Failed", "Gone"} /\ s # "Closed"
         /\ u # <<>> => s \in Waiting /\ Head(u).type = Due(s)
<1>1. k \notin {"Failed", "Gone"} /\ s # "Closed"
  BY DEF InStep
<1>2. \A a, b : Head(<<a>>) = a /\ Head(<<a, b>>) = a
  BY Shorts
<1>3. u # <<>> =>
        \/ s = "none" /\ Head(u) = Msg("connected")
        \/ s = "AwaitingHello" /\ Head(u) = Msg("Hello")
        \/ s = "AwaitingAuth" /\ Head(u) = Msg("Auth")
        \/ s = "AwaitingAssetManifestRequest" /\ Head(u) = Msg("AssetManifestRequest")
        \/ s = "AwaitingAssetRequest" /\ \E m \in {0, n} : Head(u) = Request(m)
        \/ s = "AwaitingReady" /\ Head(u) = Msg("Ready")
  BY <1>2 DEF InStep
<1> QED BY <1>1, <1>3 DEF Due, Waiting, Accepts, Msg, MsgOf, Request

\* Somebody who leaves or is dropped while the two were in step winds down.
LEMMA UpWinds ==
  ASSUME NEW k, NEW s, NEW i \in Seq(Messages), NEW w \in Seq(Messages), NEW d, NEW l,
         NEW n \in 0..MaxChunks, InStep(k, s, i \o w, d, l, n)
  PROVE  Winding(s, i, Closing)
<1>1. \A a, b \in Messages : /\ i \o w = <<>> => i = <<>>
                             /\ i \o w = <<a>> => i \in {<<>>, <<a>>}
                             /\ i \o w = <<a, b>> => i \in {<<>>, <<a>>, <<a, b>>}
  BY Fronts
<1>2. /\ \A t \in PlainTypes : Msg(t) \in Messages
      /\ Request(n) \in Messages /\ Request(0) \in Messages /\ 0 \in 0..MaxChunks
  BY MessagesOK, BoundsOK DEF Request
<1>3. s # "Closed"
  BY UpIsDue
<1>4. CASE i \o w = <<>>
  BY <1>1, <1>2, <1>3, <1>4 DEF Winding, PlainTypes
<1>5. CASE s = "none" /\ i \o w \in { <<Msg("connected")>>, <<Msg("connected"), Msg("Hello")>> }
  BY <1>1, <1>2, <1>5 DEF Winding, Unhandled, PlainTypes
<1>6. CASE s = "AwaitingHello" /\ i \o w = <<Msg("Hello")>>
  BY <1>1, <1>2, <1>6 DEF Winding, Unhandled, PlainTypes
<1>7. CASE s = "AwaitingAuth" /\ i \o w = <<Msg("Auth")>>
  BY <1>1, <1>2, <1>7 DEF Winding, Unhandled, PlainTypes
<1>8. CASE s = "AwaitingAssetManifestRequest" /\ i \o w = <<Msg("AssetManifestRequest")>>
  BY <1>1, <1>2, <1>8 DEF Winding, Unhandled, PlainTypes
<1>9. CASE s = "AwaitingAssetRequest" /\ i \o w \in { <<Request(n)>>, <<Request(0), Msg("Ready")>> }
  BY <1>1, <1>2, <1>9 DEF Winding, Unhandled, PlainTypes
<1>10. CASE s = "AwaitingReady" /\ i \o w = <<Msg("Ready")>>
  BY <1>1, <1>2, <1>10 DEF Winding, Unhandled, PlainTypes
<1> QED BY <1>4, <1>5, <1>6, <1>7, <1>8, <1>9, <1>10 DEF InStep

\* What the server does with the next message, or of itself, keeps the two in step.
LEMMA ServerInStep ==
  ASSUME NEW k, NEW s, NEW u, NEW d \in Seq(Messages), NEW l \in Nat, NEW n \in Nat,
         InStep(k, s, u, d, l, n)
  PROVE  /\ s = "none" /\ u # <<>> => InStep(k, "AwaitingHello", Tail(u), d, l, n)
         /\ s = "AwaitingHello" /\ u # <<>> =>
              InStep(k, "AwaitingAuth", Tail(u), d \o <<Msg("ServerInfo"), Msg("Challenge")>>, l, n)
         /\ s = "AwaitingAuth" /\ u # <<>> =>
              /\ InStep(k, "VerifyingAuth", Tail(u), d, l, n)
              /\ InStep(k, "AwaitingAssetManifestRequest", Tail(u), d \o <<Msg("AuthResult")>>, l, n)
         /\ s = "VerifyingAuth" =>
              InStep(k, "AwaitingAssetManifestRequest", u, d \o <<Msg("AuthResult")>>, l, n)
         /\ s = "AwaitingAssetManifestRequest" /\ u # <<>> =>
              InStep(k, "AwaitingAssetRequest", Tail(u), d \o <<Msg("AssetManifest")>>, l, n)
         /\ s = "AwaitingReady" /\ u # <<>> => \A e : InStep(k, "Playing", Tail(u), e, l, n)
<1>1. /\ \A a, b : /\ Tail(<<a>>) = <<>> /\ Tail(<<a, b>>) = <<b>>
                   /\ <<>> \o <<a>> = <<a>> /\ <<>> \o <<a, b>> = <<a, b>>
  BY Shorts
<1>2. ASSUME s = "none", u # <<>> PROVE InStep(k, "AwaitingHello", Tail(u), d, l, n)
  <2>1. /\ d = <<>>
        /\ \/ k = "Dialing" /\ u = <<Msg("connected")>>
           \/ k = "Connecting" /\ u = <<Msg("connected"), Msg("Hello")>>
    BY <1>2 DEF InStep
  <2>2. \/ k = "Dialing" /\ Tail(u) = <<>>
        \/ k = "Connecting" /\ Tail(u) = <<Msg("Hello")>>
    BY <1>1, <2>1
  <2> QED BY <2>1, <2>2 DEF InStep
<1>3. ASSUME s = "AwaitingHello", u # <<>>
      PROVE  InStep(k, "AwaitingAuth", Tail(u), d \o <<Msg("ServerInfo"), Msg("Challenge")>>, l, n)
  <2>1. d = <<>> /\ k = "Connecting" /\ u = <<Msg("Hello")>>
    BY <1>3 DEF InStep
  <2>2. Tail(u) = <<>> /\ d \o <<Msg("ServerInfo"), Msg("Challenge")>>
                            = <<Msg("ServerInfo"), Msg("Challenge")>>
    BY <1>1, <2>1
  <2> QED BY <2>1, <2>2 DEF InStep
<1>4. ASSUME s = "AwaitingAuth", u # <<>>
      PROVE  /\ InStep(k, "VerifyingAuth", Tail(u), d, l, n)
             /\ InStep(k, "AwaitingAssetManifestRequest", Tail(u), d \o <<Msg("AuthResult")>>, l, n)
  <2>1. d = <<>> /\ k = "Authenticating" /\ u = <<Msg("Auth")>>
    BY <1>4 DEF InStep
  <2>2. Tail(u) = <<>> /\ d \o <<Msg("AuthResult")>> = <<Msg("AuthResult")>>
    BY <1>1, <2>1
  <2> QED BY <2>1, <2>2 DEF InStep
<1>5. ASSUME s = "VerifyingAuth"
      PROVE  InStep(k, "AwaitingAssetManifestRequest", u, d \o <<Msg("AuthResult")>>, l, n)
  <2>1. d = <<>> /\ k = "Authenticating" /\ u = <<>>
    BY <1>5 DEF InStep
  <2>2. d \o <<Msg("AuthResult")>> = <<Msg("AuthResult")>>
    BY <1>1, <2>1
  <2> QED BY <2>1, <2>2 DEF InStep
<1>6. ASSUME s = "AwaitingAssetManifestRequest", u # <<>>
      PROVE  InStep(k, "AwaitingAssetRequest", Tail(u), d \o <<Msg("AssetManifest")>>, l, n)
  <2>1. d = <<>> /\ k = "AwaitingAssetManifest" /\ u = <<Msg("AssetManifestRequest")>>
    BY <1>6 DEF InStep
  <2>2. Tail(u) = <<>> /\ d \o <<Msg("AssetManifest")>> = <<Msg("AssetManifest")>>
    BY <1>1, <2>1
  <2> QED BY <2>1, <2>2 DEF InStep
<1>7. ASSUME s = "AwaitingReady", u # <<>>, NEW e PROVE InStep(k, "Playing", Tail(u), e, l, n)
  <2>1. k \in {"Syncing", "Joined"} /\ u = <<Msg("Ready")>>
    BY <1>7 DEF InStep
  <2>2. Tail(u) = <<>>
    BY <1>1, <2>1
  <2> QED BY <2>1, <2>2 DEF InStep
<1> QED BY <1>2, <1>3, <1>4, <1>5, <1>6, <1>7

\* The server learns what the client wants, and streams it, b chunks at a time.
LEMMA AssetsInStep ==
  ASSUME NEW k, NEW s, NEW u, NEW d \in Seq(Messages), NEW l \in Nat, NEW n \in 0..MaxChunks,
         InStep(k, s, u, d, l, n)
  PROVE  /\ s = "AwaitingAssetRequest" /\ u # <<>> =>
              LET m == Cardinality(Head(u).arg)
              IN  InStep(k, IF m = 0 THEN "AwaitingReady" ELSE "StreamingAssets", Tail(u), d, m, n)
         /\ s = "StreamingAssets" => \A b \in 1..l :
              InStep(k, IF b = l THEN "AwaitingReady" ELSE "StreamingAssets", u, d \o Data(b), l - b, n)
<1>1. ASSUME s = "AwaitingAssetRequest", u # <<>>
      PROVE  LET m == Cardinality(Head(u).arg)
             IN  InStep(k, IF m = 0 THEN "AwaitingReady" ELSE "StreamingAssets", Tail(u), d, m, n)
  <2>1. \A j \in 0..MaxChunks : Cardinality(Request(j).arg) = j
    BY BoundsOK DEF Request, MsgOf
  <2>2. /\ Cardinality(Request(0).arg) = 0 /\ Cardinality(Request(n).arg) = n
        /\ n \in Nat /\ Data(0) = <<>>
    BY <2>1, BoundsOK, DataOK
  <2> HIDE DEF Request, Data
  <2>3. CASE k = "SyncingAssets" /\ u = <<Request(n)>> /\ d = <<>>
    <3>1. Head(u) = Request(n) /\ Tail(u) = <<>>
      BY <2>3, Shorts
    <3>2. n - n = 0 /\ (n # 0 => n \in 1..n)
      BY <2>2
    <3> QED BY <2>2, <2>3, <3>1, <3>2 DEF InStep
  <2>4. CASE k \in {"Syncing", "Joined"} /\ u = <<Request(0), Msg("Ready")>>
    <3>1. Head(u) = Request(0) /\ Tail(u) = <<Msg("Ready")>>
      BY <2>4, Shorts
    <3> QED BY <2>2, <2>4, <3>1 DEF InStep
  <2> QED BY <1>1, <2>3, <2>4 DEF InStep
<1>2. ASSUME s = "StreamingAssets", NEW b \in 1..l
      PROVE  InStep(k, IF b = l THEN "AwaitingReady" ELSE "StreamingAssets", u, d \o Data(b), l - b, n)
  <2>1. k = "SyncingAssets" /\ u = <<>> /\ l \in 1..n /\ d = Data(n - l)
    BY <1>2 DEF InStep
  <2>2. n - l \in Nat /\ b \in Nat /\ (n - l) + b = n - (l - b)
        /\ (b = l => n - (l - b) = n) /\ (b # l => l - b \in 1..n)
    BY <1>2, <2>1
  <2>3. d \o Data(b) = Data(n - (l - b))
    BY <2>1, <2>2, DataOK
  <2> QED BY <2>1, <2>2, <2>3 DEF InStep
<1> QED BY <1>1, <1>2

\* The only message that a client before Syncing can have to read next.
LEMMA DownIsDue ==
  ASSUME NEW k, NEW s, NEW u, NEW d, NEW l \in Nat, NEW n \in Nat, InStep(k, s, u, d, l, n),
         d # <<>>, k \notin {"Syncing", "Joined"}
  PROVE  k \in DOMAIN Expects /\ Head(d).type = Expects[k]
<1>1. \A a, b : Head(<<a>>) = a /\ Head(<<a, b>>) = a
  BY Shorts
<1>2. ASSUME k = "SyncingAssets" PROVE Head(d) = Msg("AssetData")
  <2>1. PICK m \in Nat : d = Data(m)
    <3>1. CASE d = <<>>
      BY <3>1
    <3>2. CASE d = Data(n)
      BY <3>2
    <3>3. CASE l \in 1..n /\ d = Data(n - l)
      <4>1. n - l \in Nat
        BY <3>3
      <4> QED BY <3>3, <4>1
    <3> QED BY <1>2, <3>1, <3>2, <3>3 DEF InStep
  <2> HIDE DEF Data
  <2>2. m > 0
    BY <2>1, DataOK
  <2> QED BY <2>1, <2>2, DataOK
<1>3. \/ k = "Connecting" /\ Head(d) = Msg("ServerInfo")
      \/ k = "AwaitingChallenge" /\ Head(d) = Msg("Challenge")
      \/ k = "Authenticating" /\ Head(d) = Msg("AuthResult")
      \/ k = "AwaitingAssetManifest" /\ Head(d) = Msg("AssetManifest")
      \/ k = "SyncingAssets" /\ Head(d) = Msg("AssetData")
  BY <1>1, <1>2 DEF InStep
<1> QED BY <1>3 DEF Expects, Msg

\* What the client does of itself, or with the next message, keeps the two in step.
LEMMA ClientInStep ==
  ASSUME NEW k, NEW s, NEW u \in Seq(Messages), NEW d \in Seq(Messages), NEW l \in Nat,
         NEW n \in Nat, InStep(k, s, u, d, l, n)
  PROVE  /\ k = "Offline" => InStep("Dialing", s, u \o <<Msg("connected")>>, d, l, n)
         /\ k = "Dialing" => InStep("Connecting", s, u \o <<Msg("Hello")>>, d, l, n)
         /\ k = "Connecting" /\ d # <<>> => InStep("AwaitingChallenge", s, u, Tail(d), l, n)
         /\ k = "AwaitingChallenge" /\ d # <<>> => InStep("SigningIn", s, u, Tail(d), l, n)
         /\ k = "SigningIn" => InStep("Authenticating", s, u \o <<Msg("Auth")>>, d, l, n)
         /\ k = "Authenticating" /\ d # <<>> =>
              InStep("AwaitingAssetManifest", s, u \o <<Msg("AssetManifestRequest")>>, Tail(d), l, n)
         /\ k \in {"Syncing", "Joined"} =>
              \A e : \A j \in {"Syncing", "Joined"} : InStep(j, s, u, e, l, n)
<1>1. /\ \A a, b : /\ Tail(<<a>>) = <<>> /\ Tail(<<a, b>>) = <<b>>
                   /\ <<>> \o <<a>> = <<a>> /\ <<a>> \o <<b>> = <<a, b>>
  BY Shorts
<1>2. ASSUME k = "Offline" PROVE InStep("Dialing", s, u \o <<Msg("connected")>>, d, l, n)
  <2>1. s = "none" /\ u = <<>> /\ d = <<>>
    BY <1>2 DEF InStep
  <2>2. u \o <<Msg("connected")>> = <<Msg("connected")>>
    BY <1>1, <2>1
  <2> QED BY <2>1, <2>2 DEF InStep
<1>3. ASSUME k = "Dialing" PROVE InStep("Connecting", s, u \o <<Msg("Hello")>>, d, l, n)
  <2>1. /\ d = <<>>
        /\ \/ s = "none" /\ u = <<Msg("connected")>>
           \/ s = "AwaitingHello" /\ u = <<>>
    BY <1>3 DEF InStep
  <2>2. \/ s = "none" /\ u \o <<Msg("Hello")>> = <<Msg("connected"), Msg("Hello")>>
        \/ s = "AwaitingHello" /\ u \o <<Msg("Hello")>> = <<Msg("Hello")>>
    BY <1>1, <2>1
  <2> QED BY <2>1, <2>2 DEF InStep
<1>4. ASSUME k = "Connecting", d # <<>> PROVE InStep("AwaitingChallenge", s, u, Tail(d), l, n)
  <2>1. s = "AwaitingAuth" /\ u = <<>> /\ d = <<Msg("ServerInfo"), Msg("Challenge")>>
    BY <1>4 DEF InStep
  <2>2. Tail(d) = <<Msg("Challenge")>>
    BY <1>1, <2>1
  <2> QED BY <2>1, <2>2 DEF InStep
<1>5. ASSUME k = "AwaitingChallenge", d # <<>> PROVE InStep("SigningIn", s, u, Tail(d), l, n)
  <2>1. s = "AwaitingAuth" /\ u = <<>> /\ d = <<Msg("Challenge")>>
    BY <1>5 DEF InStep
  <2>2. Tail(d) = <<>>
    BY <1>1, <2>1
  <2> QED BY <2>1, <2>2 DEF InStep
<1>6. ASSUME k = "SigningIn" PROVE InStep("Authenticating", s, u \o <<Msg("Auth")>>, d, l, n)
  <2>1. s = "AwaitingAuth" /\ u = <<>> /\ d = <<>>
    BY <1>6 DEF InStep
  <2>2. u \o <<Msg("Auth")>> = <<Msg("Auth")>>
    BY <1>1, <2>1
  <2> QED BY <2>1, <2>2 DEF InStep
<1>7. ASSUME k = "Authenticating", d # <<>>
      PROVE  InStep("AwaitingAssetManifest", s, u \o <<Msg("AssetManifestRequest")>>, Tail(d), l, n)
  <2>1. s = "AwaitingAssetManifestRequest" /\ u = <<>> /\ d = <<Msg("AuthResult")>>
    BY <1>7 DEF InStep
  <2>2. Tail(d) = <<>> /\ u \o <<Msg("AssetManifestRequest")>> = <<Msg("AssetManifestRequest")>>
    BY <1>1, <2>1
  <2> QED BY <2>1, <2>2 DEF InStep
<1>8. ASSUME k \in {"Syncing", "Joined"}, NEW j \in {"Syncing", "Joined"}, NEW e
      PROVE  InStep(j, s, u, e, l, n)
  BY <1>8 DEF InStep
<1> QED BY <1>2, <1>3, <1>4, <1>5, <1>6, <1>7, <1>8

\* The client asks for the m chunks that it misses, and goes on when it has the last one.
LEMMA RequestInStep ==
  ASSUME NEW k, NEW s, NEW u \in Seq(Messages), NEW d \in Seq(Messages), NEW l \in Nat,
         NEW n \in Nat, InStep(k, s, u, d, l, n), d # <<>>
  PROVE  /\ k = "AwaitingAssetManifest" => \A m \in Nat :
              InStep(IF m = 0 THEN "Syncing" ELSE "SyncingAssets", s,
                     u \o (<<Request(m)>> \o (IF m = 0 THEN <<Msg("Ready")>> ELSE <<>>)),
                     Tail(d), l, m)
         /\ k = "SyncingAssets" /\ n > 1 => InStep("SyncingAssets", s, u, Tail(d), l, n - 1)
         /\ k = "SyncingAssets" /\ ~(n > 1) =>
              InStep("Syncing", s, u \o <<Msg("Ready")>>, Tail(d), l, n - 1)
<1>1. ASSUME k = "AwaitingAssetManifest", NEW m \in Nat
      PROVE  InStep(IF m = 0 THEN "Syncing" ELSE "SyncingAssets", s,
                    u \o (<<Request(m)>> \o (IF m = 0 THEN <<Msg("Ready")>> ELSE <<>>)),
                    Tail(d), l, m)
  <2>1. s = "AwaitingAssetRequest" /\ u = <<>> /\ d = <<Msg("AssetManifest")>>
    BY <1>1 DEF InStep
  <2>2. Tail(d) = <<>>
    BY <2>1, Shorts
  <2>3. CASE m = 0
    <3>1. <<Request(m)>> \o <<Msg("Ready")>> = <<Request(m), Msg("Ready")>>
          /\ <<>> \o <<Request(m), Msg("Ready")>> = <<Request(m), Msg("Ready")>>
      BY Shorts
    <3> QED BY <2>1, <2>3, <3>1 DEF InStep
  <2>4. CASE m # 0
    <3>1. <<Request(m)>> \o <<>> = <<Request(m)>> /\ <<>> \o <<Request(m)>> = <<Request(m)>>
      <4>1. <<Request(m)>> \in Seq({Request(m)})
        OBVIOUS
      <4> QED BY <4>1, ConcatEmptySeq
    <3> QED BY <2>1, <2>2, <2>4, <3>1 DEF InStep
  <2> QED BY <2>3, <2>4
<1>2. ASSUME k = "SyncingAssets"
      PROVE  /\ n \in Nat \ {0} /\ u = <<>>
             /\ \/ s = "StreamingAssets" /\ l \in 1..(n - 1) /\ Tail(d) = Data((n - 1) - l)
                \/ s = "AwaitingReady" /\ Tail(d) = Data(n - 1)
  <2>1. u = <<>> /\ (\/ s = "StreamingAssets" /\ l \in 1..n /\ d = Data(n - l)
                     \/ s = "AwaitingReady" /\ d = Data(n))
    BY <1>2 DEF InStep
  <2>2. CASE s = "StreamingAssets" /\ l \in 1..n /\ d = Data(n - l)
    <3>1. n - l \in Nat /\ n \in Nat \ {0}
      BY <2>2
    <3>2. n - l > 0
      BY <2>2, <3>1, DataOK
    <3>3. l \in 1..(n - 1) /\ (n - l) - 1 = (n - 1) - l
      BY <2>2, <3>2
    <3>4. Tail(d) = Data((n - l) - 1)
      BY <2>2, <3>1, <3>2, DataOK
    <3> QED BY <2>1, <2>2, <3>1, <3>3, <3>4
  <2>3. CASE s = "AwaitingReady" /\ d = Data(n)
    <3>1. n > 0
      BY <2>3, DataOK
    <3> QED BY <2>1, <2>3, <3>1, DataOK
  <2> QED BY <2>1, <2>2, <2>3
<1>3. ASSUME k = "SyncingAssets", n > 1 PROVE InStep("SyncingAssets", s, u, Tail(d), l, n - 1)
  BY <1>2, <1>3 DEF InStep
<1>4. ASSUME k = "SyncingAssets", ~(n > 1)
      PROVE  InStep("Syncing", s, u \o <<Msg("Ready")>>, Tail(d), l, n - 1)
  <2>1. s = "AwaitingReady" /\ u = <<>>
    BY <1>2, <1>4
  <2>2. <<>> \o <<Msg("Ready")>> = <<Msg("Ready")>>
    BY Shorts
  <2> QED BY <2>1, <2>2 DEF InStep
<1> QED BY <1>1, <1>3, <1>4

-----------------------------------------------------------------------------
(* What the steps of the other connections do to one *)

\* Nothing but closing it, and to a player in game sending something.
Apart(c) ==
  /\ inbox'[c] = inbox[c] /\ srv'[c] = srv[c] /\ cli'[c] = cli[c]
  /\ need'[c] = need[c] /\ left'[c] = left[c] /\ why'[c] = why[c]
  /\ out'[c] = out[c] \/ srv[c] = "Playing"
  /\ Kept(c) \/ Dropped(c)

LEMMA ApartKeepsHonest ==
  ASSUME TypeInv, NEW c \in Conns, HonestOne(c), Apart(c)
  PROVE  HonestOne(c)'
<1>1. inbox[c] \in Seq(Messages) /\ net[c] \in Seq(Messages) /\ need[c] \in 0..MaxChunks
  BY DEF TypeInv, TypeOK, QueuesOK
<1>2. why'[c] = why[c] /\ cli'[c] = cli[c]
  BY DEF Apart
<1> SUFFICES ASSUME why[c] = "none"
    PROVE  IF Alive(c)'
           THEN InStep(cli'[c], srv'[c], inbox'[c] \o net'[c], out'[c], left'[c], need'[c])
           ELSE Winding(srv'[c], inbox'[c], net'[c])
  BY <1>2 DEF HonestOne
<1>3. CASE Kept(c) /\ Alive(c)
  <2>1. InStep(cli[c], srv[c], inbox[c] \o net[c], out[c], left[c], need[c])
    BY <1>3 DEF HonestOne
  <2>2. Alive(c)' /\ inbox'[c] \o net'[c] = inbox[c] \o net[c]
    BY <1>2, <1>3 DEF Alive, Kept, Apart
  <2>3. InStep(cli[c], srv[c], inbox[c] \o net[c], out'[c], left[c], need[c])
    <3>1. CASE out'[c] = out[c]
      BY <2>1, <3>1
    <3>2. CASE srv[c] = "Playing"
      BY <2>1, <3>2 DEF InStep
    <3> QED BY <3>1, <3>2 DEF Apart
  <2> QED BY <2>2, <2>3 DEF Apart
<1>4. CASE Kept(c) /\ ~Alive(c)
  <2>1. Winding(srv[c], inbox[c], net[c])
    BY <1>4 DEF HonestOne
  <2>2. ~Alive(c)' /\ net'[c] = net[c]
    BY <1>2, <1>4 DEF Alive, Kept
  <2> QED BY <2>1, <2>2 DEF Apart
<1>5. CASE Dropped(c)
  <2>1. net'[c] = Closing /\ ~Alive(c)'
    BY <1>5 DEF Dropped, Alive
  <2>2. Winding(srv[c], inbox[c], Closing)
    <3>1. CASE Alive(c)
      <4>1. InStep(cli[c], srv[c], inbox[c] \o net[c], out[c], left[c], need[c])
        BY <3>1 DEF HonestOne
      <4> QED BY <1>1, <4>1, UpWinds
    <3>2. CASE ~Alive(c)
      BY <3>2 DEF HonestOne, Winding
    <3> QED BY <3>1, <3>2
  <2> QED BY <2>1, <2>2 DEF Apart
<1> QED BY <1>3, <1>4, <1>5 DEF Apart

\* Steps change the blame, the chunks and the inbox of the connection they are about only.
LEMMA HandleApart ==
  ASSUME TypeInv, NEW c \in Conns, HandleOne(c), NEW d \in Conns \ {c}
  PROVE  Apart(d)
<1>1. /\ inbox \in [Conns -> Seq(Messages)] /\ out \in [Conns -> Seq(Messages)]
      /\ srv \in [Conns -> ServerStates] /\ left \in [Conns -> 0..MaxChunks]
      /\ DOMAIN why = Conns
  BY DEF TypeInv, TypeOK, QueuesOK
<1>2. Handled(c)
  BY HandleEffect
<1>3. inbox'[d] = inbox[d] /\ srv'[d] = srv[d] /\ (Kept(d) \/ Dropped(d))
  BY <1>1, <1>2 DEF Handled, OthersKept
<1>4. cli'[d] = cli[d] /\ need'[d] = need[d]
  BY DEF HandleOne, Accept, Forget, OnHello, OnAuth, OnAssetManifestRequest, OnAssetRequest,
         OnReady, OnUnexpected, BypassHandshake, clientVars
<1>5. \A ms : SendTo(c, ms)[d] = out[d]
  BY <1>1 DEF SendTo
<1>6. ASSUME NEW reason, Fail(c, reason)
      PROVE  left'[d] = left[d] /\ why'[d] = why[d] /\ out'[d] = out[d]
  BY <1>1, <1>5, <1>6 DEF Fail, Blame
<1>7. ASSUME Refuse(c) PROVE left'[d] = left[d] /\ why'[d] = why[d] /\ out'[d] = out[d]
  BY <1>1, <1>5, <1>7 DEF Refuse, Blame
<1>8. ASSUME NEW s, NEW ms, Advance(c, s, ms) PROVE out'[d] = out[d]
  BY <1>5, <1>8 DEF Advance
<1>9. left'[d] = left[d] /\ why'[d] = why[d] /\ (out'[d] = out[d] \/ srv[d] = "Playing")
  <2>1. CASE Accept(c) \/ BypassHandshake(c)
    BY <2>1 DEF Accept, BypassHandshake
  <2>2. CASE Forget(c)
    BY <1>1, <2>2 DEF Forget, LeaveAudience, Playing
  <2>3. CASE OnHello(c)
    BY <1>6, <1>8, <2>3 DEF OnHello
  <2>4. CASE OnAuth(c)
    BY <1>6, <1>7, <1>8, <2>4 DEF OnAuth, Admit
  <2>5. CASE OnAssetManifestRequest(c)
    BY <1>8, <2>5 DEF OnAssetManifestRequest
  <2>6. CASE OnAssetRequest(c)
    BY <1>1, <2>6 DEF OnAssetRequest
  <2>7. CASE OnReady(c)
    BY <1>1, <2>7 DEF OnReady, Playing
  <2>8. CASE OnUnexpected(c)
    BY <1>6, <2>8 DEF OnUnexpected
  <2> QED BY <2>1, <2>2, <2>3, <2>4, <2>5, <2>6, <2>7, <2>8 DEF HandleOne
<1> QED BY <1>3, <1>4, <1>9 DEF Apart

LEMMA SweepApart ==
  ASSUME TypeInv, NEW c \in Conns, NEW late \in BOOLEAN, SweepOne(c, late), NEW d \in Conns \ {c}
  PROVE  Apart(d)
<1>1. /\ out \in [Conns -> Seq(Messages)] /\ srv \in [Conns -> ServerStates]
      /\ left \in [Conns -> 0..MaxChunks] /\ DOMAIN why = Conns
  BY DEF TypeInv, TypeOK, QueuesOK
<1>2. /\ inbox'[d] = inbox[d] /\ cli'[d] = cli[d] /\ need'[d] = need[d] /\ Kept(d)
  BY DEF SweepOne, clientVars, Kept
<1>3. \A ms : SendTo(c, ms)[d] = out[d]
  BY <1>1 DEF SendTo
<1>4. ASSUME NEW s, NEW ms, Conclude(c, s, ms, late)
      PROVE  srv'[d] = srv[d] /\ why'[d] = why[d] /\ out'[d] = out[d]
  BY <1>1, <1>3, <1>4 DEF Conclude, Advance, Blame
<1>5. srv'[d] = srv[d] /\ left'[d] = left[d] /\ why'[d] = why[d] /\ out'[d] = out[d]
  <2>1. CASE PumpAssets(c, late)
    BY <1>1, <1>4, <2>1 DEF PumpAssets
  <2>2. CASE VisitOnly(c, late)
    BY <1>4, <2>2 DEF VisitOnly
  <2>3. CASE PumpRefused(c)
    BY <1>1, <1>3, <2>3 DEF PumpRefused, Blame
  <2>4. CASE VerdictRefused(c)
    BY <1>1, <1>3, <2>4 DEF VerdictRefused, Refuse, Blame
  <2>5. CASE VerdictVerified(c)
    BY <1>1, <1>3, <2>5 DEF VerdictVerified, Admit, Advance
  <2> QED BY <2>1, <2>2, <2>3, <2>4, <2>5 DEF SweepOne
<1> QED BY <1>2, <1>5 DEF Apart

LEMMA ActApart ==
  ASSUME TypeInv, NEW c \in Conns, ClientStep(c) \/ LoseServer(c) \/ GiveUp(c),
         NEW d \in Conns \ {c}
  PROVE  Apart(d)
<1>1. Acted(c)
  BY ActEffect
<1>2. inbox' = inbox /\ open' = open /\ srv' = srv /\ left' = left
  BY DEF ClientStep, Connect, Start, OnServerInfo, OnChallenge, SignedIn, OnAuthResult,
         OnAssetManifest, OnAssetData, OnJoinAccept, OnRoster, OnOtherFrame, Stray,
         LoseServer, GiveUp, serverVars
<1>3. need \in [Conns -> 0..MaxChunks] /\ DOMAIN why = Conns
  BY DEF TypeInv, TypeOK
<1>4. need'[d] = need[d] /\ why'[d] = why[d]
  <2>1. CASE OnAssetManifest(c)
    BY <1>3, <2>1 DEF OnAssetManifest
  <2>2. CASE OnAssetData(c)
    BY <1>3, <2>2 DEF OnAssetData
  <2>3. CASE OnOtherFrame(c)
    BY <1>3, <2>3 DEF OnOtherFrame, Blame
  <2> QED BY <2>1, <2>2, <2>3 DEF ClientStep, Connect, Start, OnServerInfo, OnChallenge, SignedIn,
             OnAuthResult, OnJoinAccept, OnRoster, Stray, LoseServer, GiveUp
<1> QED BY <1>1, <1>2, <1>4 DEF Apart, Acted, Kept

-----------------------------------------------------------------------------
(* Steps of the connection itself *)

\* The first blame stays.
LEMMA WhySticks ==
  ASSUME TypeInv, NEW c \in Conns, why[c] # "none",
         NEW late \in BOOLEAN, HandleOne(c) \/ SweepOne(c, late) \/ ClientStep(c)
                               \/ LoseServer(c) \/ GiveUp(c)
  PROVE  why'[c] = why[c]
<1>1. DOMAIN why = Conns
  BY DEF TypeInv, TypeOK
<1>2. \/ UNCHANGED why
      \/ \E reason : Blame(c, reason)
  <2>1. ASSUME HandleOne(c) PROVE UNCHANGED why \/ \E reason : Blame(c, reason)
    BY <2>1 DEF HandleOne, Accept, Forget, OnHello, OnAuth, OnAssetManifestRequest,
                OnAssetRequest, OnReady, OnUnexpected, BypassHandshake, Fail, Refuse
  <2>2. ASSUME SweepOne(c, late) PROVE UNCHANGED why \/ \E reason : Blame(c, reason)
    BY <2>2 DEF SweepOne, PumpAssets, VisitOnly, PumpRefused, VerdictRefused, VerdictVerified,
                Conclude, Refuse
  <2>3. ASSUME ClientStep(c) \/ LoseServer(c) \/ GiveUp(c)
        PROVE  UNCHANGED why \/ \E reason : Blame(c, reason)
    BY <2>3 DEF ClientStep, Connect, Start, OnServerInfo, OnChallenge, SignedIn, OnAuthResult,
                OnAssetManifest, OnAssetData, OnJoinAccept, OnRoster, OnOtherFrame, Stray,
                LoseServer, GiveUp
  <2> QED BY <2>1, <2>2, <2>3
<1> QED BY <1>1, <1>2 DEF Blame

LEMMA HandleKeepsHonest ==
  ASSUME TypeInv, NEW c \in Conns, HonestOne(c), why[c] = "none", HandleOne(c)
  PROVE  HonestOne(c)'
<1> DEFINE up == inbox[c] \o net[c]
<1>1. /\ inbox \in [Conns -> Seq(Messages)] /\ net \in [Conns -> Seq(Messages)]
      /\ out \in [Conns -> Seq(Messages)] /\ srv \in [Conns -> ServerStates]
      /\ left \in [Conns -> 0..MaxChunks] /\ need \in [Conns -> 0..MaxChunks]
      /\ DOMAIN why = Conns /\ MaxChunks \in Nat
  BY JoinHandshakeAssumption DEF TypeInv, TypeOK, QueuesOK
<1>2. left[c] \in Nat /\ need[c] \in 0..MaxChunks /\ need[c] \in Nat /\ out[c] \in Seq(Messages)
  BY <1>1
<1>3. inbox[c] # <<>> /\ inbox'[c] = Tail(inbox[c]) /\ UNCHANGED <<cli, need>>
  <2>1. inbox[c] # <<>> /\ inbox' = [inbox EXCEPT ![c] = Tail(@)]
    BY HandleEffect DEF Handled
  <2>2. UNCHANGED <<cli, need>>
    BY DEF HandleOne, Accept, Forget, OnHello, OnAuth, OnAssetManifestRequest, OnAssetRequest,
           OnReady, OnUnexpected, BypassHandshake, clientVars
  <2> QED BY <1>1, <2>1, <2>2
<1>4. up # <<>> /\ Head(up) = Head(inbox[c]) /\ Tail(up) = Tail(inbox[c]) \o net[c]
  <2>1. \A s, t \in Seq(Messages) : s # <<>> =>
          s \o t # <<>> /\ Head(s \o t) = Head(s) /\ Tail(s \o t) = Tail(s) \o t
    BY Laid
  <2>2. inbox[c] \in Seq(Messages) /\ net[c] \in Seq(Messages)
    BY <1>1
  <2> QED BY <1>3, <2>1, <2>2, Zenon
<1>5. /\ Alive(c) => InStep(cli[c], srv[c], up, out[c], left[c], need[c])
      /\ ~Alive(c) => Winding(srv[c], inbox[c], net[c])
  BY DEF HonestOne
<1>6. ASSUME Alive(c)
      PROVE  /\ Reads(c) /\ srv[c] \in Waiting /\ Head(inbox[c]).type = Due(srv[c])
  <2>1. /\ cli[c] \notin {"Failed", "Gone"} /\ srv[c] \in Waiting
        /\ Head(up).type = Due(srv[c])
    <3>1. InStep(cli[c], srv[c], up, out[c], left[c], need[c]) /\ up # <<>>
      BY <1>4, <1>5, <1>6
    <3> HIDE DEF up
    <3>2. /\ cli[c] \notin {"Failed", "Gone"} /\ srv[c] # "Closed"
          /\ up # <<>> => srv[c] \in Waiting /\ Head(up).type = Due(srv[c])
      BY <3>1, UpIsDue
    <3> QED BY <3>1, <3>2
  <2> QED BY <1>4, <1>6, <2>1 DEF Reads, Alive
<1>7. ASSUME ~Alive(c), inbox[c] # Closing
      PROVE  /\ srv[c] \in Waiting /\ Head(inbox[c]).type = Due(srv[c])
             /\ \/ Tail(inbox[c]) = <<>>
                \/ srv[c] = "none" /\ Tail(inbox[c]) = <<Msg("Hello")>>
                \/ /\ srv[c] = "AwaitingAssetRequest" /\ Head(inbox[c]) = Request(0)
                   /\ Tail(inbox[c]) = <<Msg("Ready")>>
  <2>1. inbox[c] \in Unhandled(srv[c])
    BY <1>3, <1>5, <1>7 DEF Winding
  <2>2. \/ srv[c] = "none" /\ inbox[c] = <<Msg("connected")>>
        \/ srv[c] = "none" /\ inbox[c] = <<Msg("connected"), Msg("Hello")>>
        \/ srv[c] = "AwaitingHello" /\ inbox[c] = <<Msg("Hello")>>
        \/ srv[c] = "AwaitingAuth" /\ inbox[c] = <<Msg("Auth")>>
        \/ srv[c] = "AwaitingAssetManifestRequest" /\ inbox[c] = <<Msg("AssetManifestRequest")>>
        \/ srv[c] = "AwaitingAssetRequest" /\ \E n \in 0..MaxChunks : inbox[c] = <<Request(n)>>
        \/ srv[c] = "AwaitingAssetRequest" /\ inbox[c] = <<Request(0), Msg("Ready")>>
        \/ srv[c] = "AwaitingReady" /\ inbox[c] = <<Msg("Ready")>>
    BY <2>1 DEF Unhandled
  <2>3. \A a, b : /\ Head(<<a>>) = a /\ Tail(<<a>>) = <<>>
                  /\ Head(<<a, b>>) = a /\ Tail(<<a, b>>) = <<b>>
    BY Shorts, ZenonT(60)
  <2>4. \/ srv[c] = "none" /\ Head(inbox[c]) = Msg("connected")
             /\ Tail(inbox[c]) \in { <<>>, <<Msg("Hello")>> }
        \/ srv[c] = "AwaitingHello" /\ Head(inbox[c]) = Msg("Hello") /\ Tail(inbox[c]) = <<>>
        \/ srv[c] = "AwaitingAuth" /\ Head(inbox[c]) = Msg("Auth") /\ Tail(inbox[c]) = <<>>
        \/ srv[c] = "AwaitingAssetManifestRequest" /\ Head(inbox[c]) = Msg("AssetManifestRequest")
             /\ Tail(inbox[c]) = <<>>
        \/ srv[c] = "AwaitingAssetRequest" /\ (\E n \in 0..MaxChunks : Head(inbox[c]) = Request(n))
             /\ Tail(inbox[c]) = <<>>
        \/ srv[c] = "AwaitingAssetRequest" /\ Head(inbox[c]) = Request(0)
             /\ Tail(inbox[c]) = <<Msg("Ready")>>
        \/ srv[c] = "AwaitingReady" /\ Head(inbox[c]) = Msg("Ready") /\ Tail(inbox[c]) = <<>>
    BY <2>2, <2>3
  <2>5. srv[c] \in Waiting
    BY <2>4 DEF Waiting, Accepts
  <2>6. \/ srv[c] = "none" /\ Head(inbox[c]).type = "connected"
        \/ srv[c] = "AwaitingHello" /\ Head(inbox[c]).type = "Hello"
        \/ srv[c] = "AwaitingAuth" /\ Head(inbox[c]).type = "Auth"
        \/ srv[c] = "AwaitingAssetManifestRequest" /\ Head(inbox[c]).type = "AssetManifestRequest"
        \/ srv[c] = "AwaitingAssetRequest" /\ Head(inbox[c]).type = "AssetRequest"
        \/ srv[c] = "AwaitingReady" /\ Head(inbox[c]).type = "Ready"
    <3>1. (\A t : Msg(t).type = t) /\ \A n : Request(n).type = "AssetRequest"
      BY DEF Msg, MsgOf, Request
    <3> QED BY <2>4, <3>1
  <2>7. Head(inbox[c]).type = Due(srv[c])
    BY <2>6 DEF Due, Accepts
  <2> QED BY <2>4, <2>5, <2>7
<1>8. ASSUME Head(inbox[c]).type # "closed" PROVE inbox[c] # Closing
  BY <1>8, ClosingOK
<1>9. ASSUME why'[c] \notin Bad \union {"none"} PROVE HonestOne(c)'
  BY <1>9 DEF HonestOne, Bad
<1>10. ASSUME Alive(c), UNCHANGED open \/ c \in open', net'[c] = net[c], why'[c] = why[c],
              InStep(cli[c], srv'[c], Tail(up), out'[c], left'[c], need[c])
       PROVE  HonestOne(c)'
  <2>1. Alive(c)' /\ inbox'[c] \o net'[c] = Tail(up)
    BY <1>3, <1>4, <1>10 DEF Alive
  <2> QED BY <1>3, <1>10, <2>1 DEF HonestOne, Bad
<1>11. ASSUME ~Alive(c), open' \subseteq open, net'[c] \in {net[c], Closing}, why'[c] = why[c],
              srv'[c] # "Closed", Tail(inbox[c]) \in {<<>>, Closing} \union Unhandled(srv'[c])
       PROVE  HonestOne(c)'
  <2>1. ~Alive(c)' /\ net'[c] \in {<<>>, Closing}
    BY <1>3, <1>5, <1>11 DEF Alive, Winding
  <2> QED BY <1>3, <1>11, <2>1 DEF HonestOne, Winding, Bad
<1>12. ASSUME NEW ms, out' = SendTo(c, ms), Alive(c) PROVE out'[c] = out[c] \o ms
  BY <1>1, <1>6, <1>12 DEF SendTo
<1>13. ASSUME NEW reason, reason \notin Bad \union {"none"}, Fail(c, reason) PROVE HonestOne(c)'
  <2>1. why'[c] = reason
    BY <1>1, <1>13 DEF Fail, Blame
  <2> QED BY <1>9, <1>13, <2>1
<1>14. CASE Accept(c)
  <2>1. /\ Head(inbox[c]).type = "connected" /\ srv'[c] = "AwaitingHello"
        /\ UNCHANGED <<net, out, open, left, why>>
    BY <1>1, <1>14 DEF Accept, Polled
  <2>2. srv[c] = "none"
    BY <1>6, <1>7, <1>8, <2>1 DEF Waiting, Due, Accepts
  <2>3. CASE Alive(c)
    BY <1>2, <1>4, <1>5, <1>10, <2>1, <2>2, <2>3, ServerInStep
  <2>4. CASE ~Alive(c)
    <3>1. Tail(inbox[c]) \in { <<>>, <<Msg("Hello")>> }
      BY <1>7, <1>8, <2>1, <2>2, <2>4
    <3> QED BY <1>11, <2>1, <2>4, <3>1 DEF Unhandled
  <2> QED BY <2>3, <2>4
<1>15. CASE Forget(c)
  <2>1. /\ Head(inbox[c]).type = "closed" /\ srv'[c] = "none" /\ open' = open \ {c}
        /\ UNCHANGED <<net, why>>
    BY <1>1, <1>15 DEF Forget, Polled
  <2>2. ~Alive(c) /\ inbox[c] = Closing
    BY <1>6, <1>7, <2>1 DEF Waiting, Due, Accepts
  <2> QED BY <1>11, <2>1, <2>2, ClosingOK
<1>16. CASE OnHello(c)
  <2>1. Head(inbox[c]).type = "Hello" /\ srv[c] = "AwaitingHello"
    BY <1>16 DEF OnHello, Polled
  <2>2. CASE Fail(c, "AuthFailed")
    BY <1>13, <2>2 DEF Bad
  <2>3. CASE /\ Advance(c, "AwaitingAuth", <<Msg("ServerInfo"), Msg("Challenge")>>)
             /\ UNCHANGED <<net, open, signed, name, left, why>>
    <3>1. srv'[c] = "AwaitingAuth" /\ UNCHANGED <<net, open, left, why>>
          /\ out' = SendTo(c, <<Msg("ServerInfo"), Msg("Challenge")>>)
      BY <1>1, <2>3 DEF Advance
    <3>2. CASE Alive(c)
      <4>1. out'[c] = out[c] \o <<Msg("ServerInfo"), Msg("Challenge")>>
        BY <1>12, <3>1, <3>2
      <4>2. InStep(cli[c], "AwaitingAuth", Tail(up), out'[c], left[c], need[c])
        BY <1>2, <1>4, <1>5, <2>1, <3>2, <4>1, ServerInStep
      <4> QED BY <1>10, <3>1, <3>2, <4>2
    <3>3. CASE ~Alive(c)
      BY <1>7, <1>8, <1>11, <2>1, <3>1, <3>3
    <3> QED BY <3>2, <3>3
  <2> QED BY <1>16, <2>2, <2>3 DEF OnHello
<1>17. CASE OnAuth(c)
  <2>1. Head(inbox[c]).type = "Auth" /\ srv[c] = "AwaitingAuth"
    BY <1>17 DEF OnAuth, Polled
  <2>2. CASE Fail(c, "ServerFull") \/ Fail(c, "AuthFailed")
    BY <1>13, <2>2 DEF Bad
  <2>3. CASE /\ srv' = [srv EXCEPT ![c] = "VerifyingAuth"]
             /\ UNCHANGED <<net, out, open, signed, name, left, why>>
    <3>1. srv'[c] = "VerifyingAuth" /\ UNCHANGED <<net, out, open, left, why>>
      BY <1>1, <2>3
    <3>2. CASE Alive(c)
      BY <1>2, <1>4, <1>5, <1>10, <2>1, <3>1, <3>2, ServerInStep
    <3>3. CASE ~Alive(c)
      BY <1>7, <1>8, <1>11, <2>1, <3>1, <3>3
    <3> QED BY <3>2, <3>3
  <2>4. CASE Refuse(c) /\ Drop({c})
    <3>1. why'[c] = "AuthFailed"
      BY <1>1, <2>4 DEF Refuse, Blame
    <3> QED BY <1>9, <3>1 DEF Bad
  <2>5. CASE Admit(c) /\ Drop(Duplicates(c)) /\ UNCHANGED <<left, why>>
    <3>1. srv'[c] = "AwaitingAssetManifestRequest" /\ out' = SendTo(c, <<Msg("AuthResult")>>)
          /\ UNCHANGED <<left, why>>
      BY <1>1, <2>5 DEF Admit, Advance
    <3>2. net'[c] = net[c] /\ (c \in open => c \in open') /\ open' \subseteq open
      BY <1>1, <2>5 DEF Drop, Duplicates
    <3>3. CASE Alive(c)
      <4>1. out'[c] = out[c] \o <<Msg("AuthResult")>>
        BY <1>12, <3>1, <3>3
      <4>2. InStep(cli[c], "AwaitingAssetManifestRequest", Tail(up), out'[c], left[c], need[c])
        BY <1>2, <1>4, <1>5, <2>1, <3>3, <4>1, ServerInStep
      <4> QED BY <1>10, <3>1, <3>2, <3>3, <4>2 DEF Alive
    <3>4. CASE ~Alive(c)
      BY <1>7, <1>8, <1>11, <2>1, <3>1, <3>2, <3>4
    <3> QED BY <3>3, <3>4
  <2> QED BY <1>17, <2>2, <2>3, <2>4, <2>5 DEF OnAuth
<1>18. CASE OnAssetManifestRequest(c)
  <2>1. /\ Head(inbox[c]).type = "AssetManifestRequest" /\ srv[c] = "AwaitingAssetManifestRequest"
        /\ srv'[c] = "AwaitingAssetRequest" /\ out' = SendTo(c, <<Msg("AssetManifest")>>)
        /\ UNCHANGED <<net, open, left, why>>
    BY <1>1, <1>18 DEF OnAssetManifestRequest, Polled, Advance
  <2>2. CASE Alive(c)
    <3>1. out'[c] = out[c] \o <<Msg("AssetManifest")>>
      BY <1>12, <2>1, <2>2
    <3>2. InStep(cli[c], "AwaitingAssetRequest", Tail(up), out'[c], left[c], need[c])
      BY <1>2, <1>4, <1>5, <2>1, <2>2, <3>1, ServerInStep
    <3> QED BY <1>10, <2>1, <2>2, <3>2
  <2>3. CASE ~Alive(c)
    BY <1>7, <1>8, <1>11, <2>1, <2>3
  <2> QED BY <2>2, <2>3
<1>19. CASE OnAssetRequest(c)
  <2> DEFINE m == Cardinality(Head(inbox[c]).arg)
             s == IF m = 0 THEN "AwaitingReady" ELSE "StreamingAssets"
  <2>1. /\ Head(inbox[c]).type = "AssetRequest" /\ srv[c] = "AwaitingAssetRequest"
        /\ srv'[c] = s /\ left'[c] = m /\ UNCHANGED <<net, out, open, why>>
    BY <1>1, <1>19 DEF OnAssetRequest, Polled
  <2>2. CASE Alive(c)
    <3>1. InStep(cli[c], s, Tail(up), out[c], m, need[c])
      BY <1>2, <1>4, <1>5, <2>1, <2>2, AssetsInStep
    <3> QED BY <1>10, <2>1, <2>2, <3>1
  <2>3. CASE ~Alive(c)
    <3>1. \/ Tail(inbox[c]) = <<>>
          \/ Head(inbox[c]) = Request(0) /\ Tail(inbox[c]) = <<Msg("Ready")>>
      BY <1>7, <1>8, <2>1, <2>3
    <3>2. Head(inbox[c]) = Request(0) => m = 0
      <4>1. Cardinality(1..0) = 0
        BY BoundsOK
      <4> QED BY <4>1 DEF Request, MsgOf
    <3> QED BY <1>11, <2>1, <2>3, <3>1, <3>2 DEF Unhandled
  <2> QED BY <2>2, <2>3
<1>20. CASE OnReady(c)
  <2>1. /\ Head(inbox[c]).type = "Ready" /\ srv[c] = "AwaitingReady" /\ srv'[c] = "Playing"
        /\ UNCHANGED <<net, open, left, why>>
    BY <1>1, <1>20 DEF OnReady, Polled
  <2>2. CASE Alive(c)
    <3>1. \A e : InStep(cli[c], "Playing", Tail(up), e, left[c], need[c])
      BY <1>2, <1>4, <1>5, <2>1, <2>2, ServerInStep
    <3> QED BY <1>10, <2>1, <2>2, <3>1
  <2>3. CASE ~Alive(c)
    BY <1>7, <1>8, <1>11, <2>1, <2>3
  <2> QED BY <2>2, <2>3
<1>21. CASE OnUnexpected(c) \/ BypassHandshake(c)
  <2>1. /\ Head(inbox[c]).type \notin {"connected", "closed"}
        /\ \/ /\ srv[c] \in Handshaking \union {"Closed"}
              /\ srv[c] \in DOMAIN Accepts => Accepts[srv[c]] # Head(inbox[c]).type
           \/ srv[c] \in {"none", "Playing"}
    BY <1>21 DEF OnUnexpected, BypassHandshake
  <2>2. srv[c] \in Waiting /\ Head(inbox[c]).type = Due(srv[c])
    BY <1>6, <1>7, <1>8, <2>1
  <2> QED BY <2>1, <2>2 DEF Waiting, Due, Accepts, Handshaking
<1> QED BY <1>14, <1>15, <1>16, <1>17, <1>18, <1>19, <1>20, <1>21 DEF HandleOne

LEMMA SentExactly ==
  ASSUME NEW n \in 1..MaxChunks
  PROVE  Sent(n) \in 1..n /\ (Sent(n) = n <=> n <= AssetBudget)
<1>1. MaxChunks \in Nat /\ AssetBudget \in Nat \ {0}
  BY JoinHandshakeAssumption
<1>2. \E x \in {n, AssetBudget} : \A y \in {n, AssetBudget} : x <= y
  BY <1>1
<1>3. Sent(n) \in {n, AssetBudget} /\ \A y \in {n, AssetBudget} : Sent(n) <= y
  BY <1>2 DEF Sent, Min
<1> QED BY <1>1, <1>3

LEMMA SweepKeepsHonest ==
  ASSUME TypeInv, NEW c \in Conns, HonestOne(c), why[c] = "none",
         NEW late \in BOOLEAN, SweepOne(c, late)
  PROVE  HonestOne(c)'
<1>1. /\ net \in [Conns -> Seq(Messages)]
      /\ out \in [Conns -> Seq(Messages)] /\ srv \in [Conns -> ServerStates]
      /\ left \in [Conns -> 0..MaxChunks] /\ need \in [Conns -> 0..MaxChunks]
      /\ DOMAIN why = Conns /\ MaxChunks \in Nat
  BY JoinHandshakeAssumption DEF TypeInv, TypeOK, QueuesOK
<1>2. /\ left[c] \in Nat /\ left[c] \in 0..MaxChunks /\ need[c] \in 0..MaxChunks
      /\ need[c] \in Nat /\ out[c] \in Seq(Messages)
  BY <1>1
<1>3. /\ inbox[c] = <<>> /\ srv[c] \in Handshaking \union {"Closed"}
      /\ UNCHANGED <<inbox, net, open, cli, need>>
  BY DEF SweepOne, Sweeping, Unswept, clientVars
<1>4. /\ inbox[c] \o net[c] = net[c]
      /\ Alive(c) => InStep(cli[c], srv[c], net[c], out[c], left[c], need[c])
      /\ ~Alive(c) => srv[c] # "Closed" /\ net[c] \in {<<>>, Closing}
  BY <1>1, <1>3, ConcatEmptySeq DEF HonestOne, Winding
<1>5. srv[c] \in Handshaking /\ (Alive(c) => Reads(c))
  <2>1. Alive(c) => srv[c] # "Closed" /\ cli[c] \notin {"Failed", "Gone"}
    BY <1>4, UpIsDue
  <2> QED BY <1>3, <1>4, <2>1 DEF Alive, Reads
<1>6. ASSUME why'[c] \notin Bad \union {"none"} PROVE HonestOne(c)'
  BY <1>6 DEF HonestOne, Bad
<1>7. ASSUME Alive(c), why'[c] = why[c],
             InStep(cli[c], srv'[c], net[c], out'[c], left'[c], need[c])
      PROVE  HonestOne(c)'
  <2>1. Alive(c)' /\ inbox'[c] \o net'[c] = net[c]
    BY <1>3, <1>4, <1>7 DEF Alive
  <2> QED BY <1>3, <1>7, <2>1 DEF HonestOne, Bad
<1>8. ASSUME ~Alive(c), why'[c] = why[c], srv'[c] # "Closed" PROVE HonestOne(c)'
  <2>1. ~Alive(c)'
    BY <1>3, <1>8 DEF Alive
  <2> QED BY <1>3, <1>4, <1>8, <2>1 DEF HonestOne, Winding, Bad
<1>9. ASSUME NEW ms, out' = SendTo(c, ms), Alive(c) PROVE out'[c] = out[c] \o ms
  BY <1>1, <1>5, <1>9 DEF SendTo
<1>10. ASSUME NEW s \in Handshaking, NEW ms, Conclude(c, s, ms, late)
       PROVE  \/ why'[c] = "Timeout"
              \/ srv'[c] = s /\ out' = SendTo(c, ms) /\ UNCHANGED why
  BY <1>1, <1>10 DEF Conclude, Advance, Blame
<1>11. CASE PumpAssets(c, late)
  <2> DEFINE s == Streamed(left[c])
             ms == Data(Sent(left[c]))
  <2>1. /\ srv[c] = "StreamingAssets" /\ left'[c] = left[c] - Sent(left[c])
        /\ Conclude(c, s, ms, late) /\ s \in Handshaking
    BY <1>1, <1>11 DEF PumpAssets, Streamed, Handshaking, Data
  <2>2. CASE why'[c] = "Timeout"
    BY <1>6, <2>2 DEF Bad
  <2>3. CASE srv'[c] = s /\ out' = SendTo(c, ms) /\ UNCHANGED why
    <3>1. CASE Alive(c)
      <4>1. left[c] \in 1..MaxChunks
        BY <1>2, <1>4, <2>1, <3>1 DEF InStep
      <4>2. /\ Sent(left[c]) \in 1..left[c]
            /\ s = IF Sent(left[c]) = left[c] THEN "AwaitingReady" ELSE "StreamingAssets"
        BY <4>1, SentExactly DEF Streamed
      <4>3. out'[c] = out[c] \o ms
        BY <1>9, <2>3, <3>1
      <4> HIDE DEF s, ms
      <4>4. \A b \in 1..left[c] :
              InStep(cli[c], IF b = left[c] THEN "AwaitingReady" ELSE "StreamingAssets", net[c],
                     out[c] \o Data(b), left[c] - b, need[c])
        BY <1>2, <1>4, <2>1, <3>1, AssetsInStep
      <4>5. InStep(cli[c], s, net[c], out'[c], left'[c], need[c])
        BY <2>1, <4>2, <4>3, <4>4 DEF ms
      <4> QED BY <1>7, <2>3, <3>1, <4>5
    <3>2. CASE ~Alive(c)
      BY <1>8, <2>1, <2>3, <3>2 DEF Handshaking
    <3> QED BY <3>1, <3>2
  <2> HIDE DEF s, ms
  <2> QED BY <1>10, <2>1, <2>2, <2>3
<1>12. CASE VisitOnly(c, late)
  <2>1. Conclude(c, srv[c], <<>>, late) /\ UNCHANGED left
    BY <1>12 DEF VisitOnly
  <2>2. CASE why'[c] = "Timeout"
    BY <1>6, <2>2 DEF Bad
  <2>3. CASE srv'[c] = srv[c] /\ out' = SendTo(c, <<>>) /\ UNCHANGED why
    <3>1. CASE Alive(c)
      <4>1. out'[c] = out[c]
        BY <1>2, <1>9, <2>3, <3>1, ConcatEmptySeq
      <4> QED BY <1>4, <1>7, <2>1, <2>3, <3>1, <4>1
    <3>2. CASE ~Alive(c)
      BY <1>4, <1>8, <2>3, <3>2
    <3> QED BY <3>1, <3>2
  <2> QED BY <1>5, <1>10, <2>1, <2>2, <2>3
<1>13. CASE PumpRefused(c) \/ VerdictRefused(c)
  <2>1. why'[c] \in {"PackChanged", "AuthFailed"}
    BY <1>1, <1>13 DEF PumpRefused, VerdictRefused, Refuse, Blame
  <2> QED BY <1>6, <2>1 DEF Bad
<1>14. CASE VerdictVerified(c)
  <2>1. /\ srv[c] = "VerifyingAuth" /\ srv'[c] = "AwaitingAssetManifestRequest"
        /\ out' = SendTo(c, <<Msg("AuthResult")>>) /\ UNCHANGED <<left, why>>
    BY <1>1, <1>14 DEF VerdictVerified, Admit, Advance
  <2>2. CASE Alive(c)
    <3>1. out'[c] = out[c] \o <<Msg("AuthResult")>>
      BY <1>9, <2>1, <2>2
    <3>2. InStep(cli[c], "AwaitingAssetManifestRequest", net[c], out'[c], left[c], need[c])
      BY <1>2, <1>4, <2>1, <2>2, <3>1, ServerInStep, ZenonT(60)
    <3> QED BY <1>7, <2>1, <2>2, <3>2
  <2>3. CASE ~Alive(c)
    BY <1>8, <2>1, <2>3
  <2> QED BY <2>2, <2>3
<1> QED BY <1>11, <1>12, <1>13, <1>14 DEF SweepOne

LEMMA ActKeepsHonest ==
  ASSUME TypeInv, NEW c \in Conns \ Strays, HonestOne(c), why[c] = "none",
         ClientStep(c) \/ LoseServer(c) \/ GiveUp(c)
  PROVE  HonestOne(c)'
<1> DEFINE up == inbox[c] \o net[c]
<1>1. /\ inbox \in [Conns -> Seq(Messages)] /\ net \in [Conns -> Seq(Messages)]
      /\ out \in [Conns -> Seq(Messages)] /\ srv \in [Conns -> ServerStates]
      /\ cli \in [Conns -> ClientStates]
      /\ left \in [Conns -> 0..MaxChunks] /\ need \in [Conns -> 0..MaxChunks]
      /\ DOMAIN why = Conns /\ MaxChunks \in Nat
  BY JoinHandshakeAssumption DEF TypeInv, TypeOK, QueuesOK
<1>2. /\ left[c] \in Nat /\ need[c] \in Nat /\ need[c] \in 0..MaxChunks
      /\ out[c] \in Seq(Messages) /\ up \in Seq(Messages)
      /\ inbox[c] \in Seq(Messages) /\ net[c] \in Seq(Messages)
  BY <1>1, ConcatProperties
<1>3. UNCHANGED <<inbox, open, srv, left>>
  BY DEF ClientStep, Connect, Start, OnServerInfo, OnChallenge, SignedIn, OnAuthResult,
         OnAssetManifest, OnAssetData, OnJoinAccept, OnRoster, OnOtherFrame, Stray,
         LoseServer, GiveUp, serverVars
<1>4. /\ Alive(c) => InStep(cli[c], srv[c], up, out[c], left[c], need[c])
      /\ ~Alive(c) => Winding(srv[c], inbox[c], net[c])
  BY DEF HonestOne
<1>5. ~Stray(c)
  BY DEF Stray
<1>6. ASSUME NEW type, Receive(c, type)
      PROVE  c \in open /\ out[c] # <<>> /\ Head(out[c]).type = type /\ out'[c] = Tail(out[c])
  BY <1>1, <1>6 DEF Receive, Reads
<1>7. CASE c \notin open
  <2>1. ASSUME NEW ms, Send(c, ms) PROVE net'[c] = net[c]
    BY <1>1, <1>7, <2>1 DEF Send
  <2>2. ~OnServerInfo(c) /\ ~OnChallenge(c) /\ ~OnAuthResult(c) /\ ~OnAssetManifest(c)
        /\ ~OnAssetData(c) /\ ~OnJoinAccept(c) /\ ~OnRoster(c) /\ ~OnOtherFrame(c)
    BY <1>6, <1>7 DEF OnServerInfo, OnChallenge, OnAuthResult, OnAssetManifest, OnAssetData,
                      OnJoinAccept, OnRoster, OnOtherFrame
  <2>3. net'[c] = net[c] /\ UNCHANGED why
    BY <1>1, <1>5, <1>7, <2>1, <2>2 DEF ClientStep, Connect, Start, SignedIn, LoseServer, GiveUp
  <2>4. ~Alive(c) /\ ~Alive(c)'
    BY <1>3, <1>7 DEF Alive
  <2> QED BY <1>3, <1>4, <2>3, <2>4 DEF HonestOne, Bad
<1>8. CASE c \in open /\ cli[c] = "Gone"
  <2>1. ASSUME NEW type, Receive(c, type) PROVE FALSE
    BY <1>8, <2>1 DEF Receive, Reads
  <2> QED BY <1>5, <1>8, <2>1 DEF ClientStep, Connect, Start, OnServerInfo, OnChallenge, SignedIn,
             OnAuthResult, OnAssetManifest, OnAssetData, OnJoinAccept, OnRoster, OnOtherFrame,
             LoseServer, GiveUp
<1>9. CASE Alive(c)
  <2>1. c \in open /\ InStep(cli[c], srv[c], up, out[c], left[c], need[c])
    BY <1>4, <1>9 DEF Alive
  <2>2. ASSUME UNCHANGED why, cli'[c] # "Gone",
               InStep(cli'[c], srv[c], inbox[c] \o net'[c], out'[c], left[c], need'[c])
        PROVE  HonestOne(c)'
    <3>1. Alive(c)'
      BY <1>3, <2>1, <2>2 DEF Alive
    <3> QED BY <1>3, <2>2, <3>1 DEF HonestOne, Bad
  <2>3. ASSUME NEW k, Become(c, k) PROVE cli'[c] = k
    BY <1>1, <2>3 DEF Become
  <2>4. ASSUME NEW ms \in Seq(Messages), Send(c, ms) PROVE inbox[c] \o net'[c] = up \o ms
    <3>1. net'[c] = net[c] \o ms
      BY <1>1, <2>1, <2>4 DEF Send
    <3>2. inbox[c] \o (net[c] \o ms) = (inbox[c] \o net[c]) \o ms
      <4>1. \A s, t, r \in Seq(Messages) : (s \o t) \o r = s \o (t \o r)
        BY ConcatAssociative
      <4> QED BY <1>2, <2>4, <4>1, ZenonT(60)
    <3> QED BY <3>1, <3>2, Zenon
  <2>5. ASSUME UNCHANGED net PROVE inbox[c] \o net'[c] = up
    BY <2>5
  <2>6. \A t \in PlainTypes : <<Msg(t)>> \in Seq(Messages)
    BY PlainQueues
  <2> HIDE DEF up
  <2>7. CASE Connect(c)
    <3>1. /\ cli[c] = "Offline" /\ cli'[c] = "Dialing" /\ UNCHANGED <<out, need, why>>
          /\ Send(c, <<Msg("connected")>>)
      BY <2>3, <2>7 DEF Connect
    <3>2. inbox[c] \o net'[c] = up \o <<Msg("connected")>>
      BY <2>4, <2>6, <3>1 DEF PlainTypes
    <3>3. InStep("Dialing", srv[c], up \o <<Msg("connected")>>, out[c], left[c], need[c])
      BY <1>2, <2>1, <3>1, ClientInStep
    <3> QED BY <2>2, <3>1, <3>2, <3>3
  <2>8. CASE Start(c)
    <3>1. /\ cli[c] = "Dialing" /\ cli'[c] = "Connecting" /\ UNCHANGED <<out, need, why>>
          /\ Send(c, <<Msg("Hello")>>)
      BY <2>3, <2>8 DEF Start
    <3>2. inbox[c] \o net'[c] = up \o <<Msg("Hello")>>
      BY <2>4, <2>6, <3>1 DEF PlainTypes
    <3>3. InStep("Connecting", srv[c], up \o <<Msg("Hello")>>, out[c], left[c], need[c])
      BY <1>2, <2>1, <3>1, ClientInStep
    <3> QED BY <2>2, <3>1, <3>2, <3>3
  <2>9. CASE OnServerInfo(c)
    <3>1. /\ cli[c] = "Connecting" /\ cli'[c] = "AwaitingChallenge" /\ UNCHANGED <<net, need, why>>
          /\ out[c] # <<>> /\ out'[c] = Tail(out[c])
      BY <1>6, <2>3, <2>9 DEF OnServerInfo
    <3>2. InStep("AwaitingChallenge", srv[c], up, Tail(out[c]), left[c], need[c])
      BY <1>2, <2>1, <3>1, ClientInStep
    <3> QED BY <2>2, <2>5, <3>1, <3>2
  <2>10. CASE OnChallenge(c)
    <3>1. /\ cli[c] = "AwaitingChallenge" /\ cli'[c] = "SigningIn" /\ UNCHANGED <<net, need, why>>
          /\ out[c] # <<>> /\ out'[c] = Tail(out[c])
      BY <1>6, <2>3, <2>10 DEF OnChallenge
    <3>2. InStep("SigningIn", srv[c], up, Tail(out[c]), left[c], need[c])
      BY <1>2, <2>1, <3>1, ClientInStep
    <3> QED BY <2>2, <2>5, <3>1, <3>2
  <2>11. CASE SignedIn(c)
    <3>1. /\ cli[c] = "SigningIn" /\ cli'[c] = "Authenticating" /\ UNCHANGED <<out, need, why>>
          /\ Send(c, <<Msg("Auth")>>)
      BY <2>3, <2>11 DEF SignedIn
    <3>2. inbox[c] \o net'[c] = up \o <<Msg("Auth")>>
      BY <2>4, <2>6, <3>1 DEF PlainTypes
    <3>3. InStep("Authenticating", srv[c], up \o <<Msg("Auth")>>, out[c], left[c], need[c])
      BY <1>2, <2>1, <3>1, ClientInStep
    <3> QED BY <2>2, <3>1, <3>2, <3>3
  <2>12. CASE OnAuthResult(c)
    <3>1. /\ cli[c] = "Authenticating" /\ cli'[c] = "AwaitingAssetManifest"
          /\ UNCHANGED <<need, why>> /\ Send(c, <<Msg("AssetManifestRequest")>>)
          /\ out[c] # <<>> /\ out'[c] = Tail(out[c])
      BY <1>6, <2>3, <2>12 DEF OnAuthResult
    <3>2. inbox[c] \o net'[c] = up \o <<Msg("AssetManifestRequest")>>
      BY <2>4, <2>6, <3>1 DEF PlainTypes
    <3>3. InStep("AwaitingAssetManifest", srv[c], up \o <<Msg("AssetManifestRequest")>>,
                 Tail(out[c]), left[c], need[c])
      BY <1>2, <2>1, <3>1, ClientInStep
    <3> QED BY <2>2, <3>1, <3>2, <3>3
  <2>13. CASE OnAssetManifest(c)
    <3>1. PICK m \in 0..MaxChunks :
            /\ need' = [need EXCEPT ![c] = m]
            /\ Become(c, IF m = 0 THEN "Syncing" ELSE "SyncingAssets")
            /\ Send(c, <<Request(m)>> \o (IF m = 0 THEN <<Msg("Ready")>> ELSE <<>>))
      BY <2>13 DEF OnAssetManifest, Request
    <3>2. <<Request(m)>> \o (IF m = 0 THEN <<Msg("Ready")>> ELSE <<>>) \in Seq(Messages)
      <4>1. /\ <<Request(m)>> \in Seq(Messages)
            /\ (IF m = 0 THEN <<Msg("Ready")>> ELSE <<>>) \in Seq(Messages)
        BY MessagesOK, ShortQueues DEF PlainTypes, Request
      <4> QED BY <4>1, ConcatProperties
    <3>3. inbox[c] \o net'[c]
            = up \o (<<Request(m)>> \o (IF m = 0 THEN <<Msg("Ready")>> ELSE <<>>))
      BY <2>4, <3>1, <3>2
    <3>4. /\ cli[c] = "AwaitingAssetManifest" /\ out[c] # <<>> /\ out'[c] = Tail(out[c])
          /\ need'[c] = m /\ m \in Nat /\ UNCHANGED why
          /\ cli'[c] = IF m = 0 THEN "Syncing" ELSE "SyncingAssets"
      BY <1>1, <1>6, <2>3, <2>13, <3>1 DEF OnAssetManifest
    <3>5. InStep(IF m = 0 THEN "Syncing" ELSE "SyncingAssets", srv[c],
                 up \o (<<Request(m)>> \o (IF m = 0 THEN <<Msg("Ready")>> ELSE <<>>)),
                 Tail(out[c]), left[c], m)
      BY <1>2, <2>1, <3>4, RequestInStep
    <3> QED BY <2>2, <3>3, <3>4, <3>5
  <2>14. CASE OnAssetData(c)
    <3>1. /\ cli[c] = "SyncingAssets" /\ out[c] # <<>> /\ out'[c] = Tail(out[c])
          /\ need'[c] = need[c] - 1 /\ UNCHANGED why
      BY <1>1, <1>6, <2>14 DEF OnAssetData
    <3>2. CASE need[c] > 1
      <4>1. cli'[c] = "SyncingAssets" /\ inbox[c] \o net'[c] = up
        BY <2>5, <2>14, <3>1, <3>2 DEF OnAssetData
      <4> QED BY <1>2, <2>1, <2>2, <3>1, <3>2, <4>1, RequestInStep
    <3>3. CASE ~(need[c] > 1)
      <4>1. cli'[c] = "Syncing" /\ inbox[c] \o net'[c] = up \o <<Msg("Ready")>>
        BY <2>3, <2>4, <2>6, <2>14, <3>3 DEF OnAssetData, PlainTypes
      <4> QED BY <1>2, <2>1, <2>2, <3>1, <3>3, <4>1, RequestInStep
    <3> QED BY <3>2, <3>3
  <2>15. CASE OnJoinAccept(c) \/ OnRoster(c)
    <3>1. /\ cli[c] \in {"Syncing", "Joined"} /\ cli'[c] = "Joined"
          /\ UNCHANGED <<net, need, why>>
      BY <2>3, <2>15 DEF OnJoinAccept, OnRoster
    <3>2. InStep("Joined", srv[c], up, out'[c], left[c], need[c])
      BY <1>2, <2>1, <3>1, ClientInStep
    <3> QED BY <2>2, <2>5, <3>1, <3>2
  <2>16. CASE OnOtherFrame(c)
    <3>1. PICK type :
            /\ Receive(c, type)
            /\ cli[c] \in DOMAIN Expects => type # Expects[cli[c]]
            /\ cli[c] = "Syncing" => UNCHANGED <<cli, why>>
      BY <2>16 DEF OnOtherFrame
    <3>2. cli[c] \in {"Syncing", "Joined"}
      BY <1>2, <1>6, <2>1, <3>1, DownIsDue
    <3>3. cli[c] = "Syncing" /\ UNCHANGED <<cli, why, net, need>>
      BY <2>16, <3>1, <3>2 DEF OnOtherFrame, Expects
    <3>4. InStep("Syncing", srv[c], up, out'[c], left[c], need[c])
      BY <1>2, <2>1, <3>3, ClientInStep
    <3> QED BY <2>2, <2>5, <3>3, <3>4
  <2>17. CASE LoseServer(c)
    BY <2>1, <2>17 DEF LoseServer
  <2>18. CASE GiveUp(c)
    <3>1. cli'[c] = "Gone" /\ net'[c] = Closing /\ UNCHANGED why
      BY <1>1, <2>1, <2>3, <2>18 DEF GiveUp, Closing
    <3>2. Winding(srv[c], inbox[c], Closing)
      BY <1>2, <2>1, UpWinds DEF up
    <3>3. ~Alive(c)'
      BY <3>1 DEF Alive
    <3> QED BY <1>3, <3>1, <3>2, <3>3 DEF HonestOne, Bad
  <2> QED BY <1>5, <2>7, <2>8, <2>9, <2>10, <2>11, <2>12, <2>13, <2>14, <2>15, <2>16, <2>17,
             <2>18 DEF ClientStep
<1> QED BY <1>7, <1>8, <1>9 DEF Alive

-----------------------------------------------------------------------------
(* All steps *)

\* The poll moves what has arrived into the inboxes, which were empty: what is on its way to
\* the server is the same as before.
LEMMA PollKeepsHonest ==
  ASSUME TypeInv, SessionInv, HonestInv, Poll
  PROVE  HonestInv'
<1> SUFFICES ASSUME NEW c \in Conns \ Strays PROVE HonestOne(c)'
  BY DEF HonestInv
<1>1. net[c] \in Seq(Messages) /\ inbox[c] = <<>> /\ inbox'[c] = net[c] /\ net'[c] = <<>>
  BY DEF TypeInv, QueuesOK, SessionInv, PhaseInv, Poll
<1>2. inbox[c] \o net[c] = net[c] /\ inbox'[c] \o net'[c] = net[c]
  BY <1>1, ConcatEmptySeq
<1>3. HonestOne(c) /\ UNCHANGED <<out, open, srv, left, cli, need, why>>
  BY DEF HonestInv, Poll, clientVars
<1>4. Alive(c)' <=> Alive(c)
  BY <1>3 DEF Alive
<1>5. Winding(srv[c], inbox[c], net[c]) => Winding(srv[c], net[c], <<>>)
  BY <1>1 DEF Winding
<1> QED BY <1>1, <1>2, <1>3, <1>4, <1>5 DEF HonestOne

LEMMA EndTickKeepsHonest ==
  ASSUME TypeInv, HonestInv, EndTick
  PROVE  HonestInv'
<1> SUFFICES ASSUME NEW c \in Conns \ Strays PROVE HonestOne(c)'
  BY DEF HonestInv
<1>1. Kept(c) \/ Dropped(c)
  BY DEF EndTick, Drop, Kept, Dropped, Closing
<1>2. Apart(c)
  BY <1>1 DEF Apart, EndTick, clientVars
<1> QED BY <1>2, ApartKeepsHonest DEF HonestInv

LEMMA HonestInit == Init => HonestInv
<1> SUFFICES ASSUME Init, NEW c \in Conns \ Strays PROVE HonestOne(c)
  BY DEF HonestInv
<1>1. inbox[c] \o net[c] = <<>>
  <2>1. <<>> \in Seq(Messages)
    BY EmptySeq
  <2> QED BY <2>1, ConcatEmptySeq DEF Init
<1>2. InStep(cli[c], srv[c], inbox[c] \o net[c], out[c], left[c], need[c])
  BY <1>1 DEF Init, InStep
<1> QED BY <1>2 DEF Init, HonestOne, Alive, Bad

LEMMA HonestStep == TypeInv /\ SessionInv /\ HonestInv /\ [Next]_vars => HonestInv'
<1> SUFFICES ASSUME TypeInv, SessionInv, HonestInv, [Next]_vars PROVE HonestInv'
  OBVIOUS
<1>1. ASSUME NEW c \in Conns, NEW late \in BOOLEAN,
             HandleOne(c) \/ SweepOne(c, late) \/ ClientStep(c) \/ LoseServer(c) \/ GiveUp(c),
             NEW d \in Conns \ Strays
      PROVE  HonestOne(d)'
  <2>1. HonestOne(d)
    BY DEF HonestInv
  <2>2. CASE d # c
    <3>1. Apart(d)
      BY <1>1, <2>2, HandleApart, SweepApart, ActApart
    <3> QED BY <2>1, <3>1, ApartKeepsHonest
  <2>3. CASE d = c /\ why[c] # "none"
    <3>1. why'[c] = why[c]
      BY <1>1, <2>3, WhySticks
    <3> QED BY <2>1, <2>3, <3>1 DEF HonestOne
  <2>4. CASE d = c /\ why[c] = "none"
    BY <1>1, <2>1, <2>4, HandleKeepsHonest, SweepKeepsHonest, ActKeepsHonest
  <2> QED BY <2>2, <2>3, <2>4
<1>2. ASSUME NEW c \in Conns, HandleOne(c) PROVE HonestInv'
  BY <1>1, <1>2 DEF HonestInv
<1>3. ASSUME NEW c \in Conns, NEW late \in BOOLEAN, SweepOne(c, late) PROVE HonestInv'
  BY <1>1, <1>3 DEF HonestInv
<1>4. ASSUME NEW c \in Conns, ClientStep(c) \/ LoseServer(c) \/ GiveUp(c) PROVE HonestInv'
  BY <1>1, <1>4 DEF HonestInv
<1>5. CASE UNCHANGED vars
  BY <1>5 DEF vars, serverVars, clientVars, HonestInv, HonestOne, Alive
<1> QED BY <1>2, <1>3, <1>4, <1>5, PollKeepsHonest, EndTickKeepsHonest DEF Next, ServerStep

\* Both ends of a connection whose client follows the protocol stay in step until one of them
\* closes it for a reason of its own.
THEOREM HonestyFollows == Spec => []HonestInv
BY HonestInit, HonestStep, TypeCorrect, SessionsFollow, PTL DEF Spec

\* A client that follows the protocol is never told that it broke it, and never sees a frame
\* that it does not expect.
THEOREM HonestAreNeverRejected == Spec => []HonestNeverRejected
<1>1. HonestInv => HonestNeverRejected
  BY DEF HonestInv, HonestOne, HonestNeverRejected, Bad
<1> QED BY <1>1, HonestyFollows, PTL

-----------------------------------------------------------------------------
(* Rosters: what a client in game is going to believe once it has read all  *)
(* that is on its way to it is what the server knows.                       *)

\* A frame settles whether d is in game, and says that it is.
Mentions(m, d) == m.type = "PlayerList" \/ (m.type \in {"PlayerJoin", "PlayerLeave"} /\ d \in m.arg)
SaysIn(m, d) == m.type \in {"PlayerList", "PlayerJoin"} /\ d \in m.arg

\* Who believes the roster r and still has to read s will believe that d is in game: the
\* last frame that mentions d says so, or none does and d is in the roster.
Knows(s, r, d) ==
  \/ \E i \in DOMAIN s : SaysIn(s[i], d) /\ \A j \in DOMAIN s : j > i => ~Mentions(s[j], d)
  \/ d \in r /\ \A j \in DOMAIN s : ~Mentions(s[j], d)

\* A JoinAccept with the PlayerList behind it is still to be read.
Announced(s) == \E i \in DOMAIN s : i > 1 /\ s[i].type = "PlayerList" /\ s[i - 1].type = "JoinAccept"

\* The frames that only players in game are sent.
GameTypes == RosterTypes \union {"JoinAccept"}

RosterOne(c) ==
  Reads(c) =>
    IF srv[c] = "Playing"
    THEN /\ \A d \in Conns : Knows(out[c], roster[c], d) <=> d \in Playing \ {c}
         /\ cli[c] = "Joined" \/ Announced(out[c])
    ELSE T(out[c]) \cap GameTypes = {} /\ cli[c] # "Joined"
RosterInv == \A c \in Conns : RosterOne(c)

\* Who says that d is in game mentions d; and who has nothing left to read is done.
LEMMA KnowsEmpty == \A r, d : Knows(<<>>, r, d) <=> d \in r
BY DEF Knows

\* One more frame decides, if it mentions d.
LEMMA KnowsAppend ==
  ASSUME NEW S, NEW s \in Seq(S), NEW m \in S, NEW r, NEW d
  PROVE  Knows(Append(s, m), r, d) <=> IF Mentions(m, d) THEN SaysIn(m, d) ELSE Knows(s, r, d)
<1> DEFINE t == Append(s, m)
<1>1. /\ Len(s) \in Nat /\ DOMAIN s = 1..Len(s) /\ DOMAIN t = 1..(Len(s) + 1)
      /\ \A i \in 1..Len(s) : t[i] = s[i]
      /\ t[Len(s) + 1] = m
  BY AppendProperties, LenProperties
<1> HIDE DEF t
<1>2. CASE Mentions(m, d)
  <2>1. Len(s) + 1 \in DOMAIN t /\ Mentions(t[Len(s) + 1], d)
    BY <1>1, <1>2
  <2>2. ASSUME NEW i \in DOMAIN t, \A j \in DOMAIN t : j > i => ~Mentions(t[j], d)
        PROVE  i = Len(s) + 1
    BY <1>1, <2>1, <2>2
  <2>3. SaysIn(m, d) => Knows(t, r, d)
    BY <1>1, <2>1 DEF Knows
  <2>4. Knows(t, r, d) => SaysIn(m, d)
    BY <1>1, <2>1, <2>2 DEF Knows
  <2> QED BY <1>2, <2>3, <2>4 DEF t
<1>3. CASE ~Mentions(m, d)
  <2>1. ~SaysIn(m, d)
    BY <1>3 DEF Mentions, SaysIn
  <2>2. ASSUME Knows(t, r, d) PROVE Knows(s, r, d)
    <3>1. CASE d \in r /\ \A j \in DOMAIN t : ~Mentions(t[j], d)
      BY <1>1, <3>1 DEF Knows
    <3>2. CASE \E i \in DOMAIN t : SaysIn(t[i], d) /\ \A j \in DOMAIN t : j > i => ~Mentions(t[j], d)
      <4>1. PICK i \in DOMAIN t : SaysIn(t[i], d) /\ \A j \in DOMAIN t : j > i => ~Mentions(t[j], d)
        BY <3>2
      <4>2. i \in DOMAIN s /\ SaysIn(s[i], d)
        BY <1>1, <2>1, <4>1
      <4>3. \A j \in DOMAIN s : j > i => ~Mentions(s[j], d)
        BY <1>1, <4>1
      <4> QED BY <4>2, <4>3 DEF Knows
    <3> QED BY <2>2, <3>1, <3>2 DEF Knows
  <2>3. ASSUME Knows(s, r, d) PROVE Knows(t, r, d)
    <3>0. \A j \in DOMAIN t : j = Len(s) + 1 \/ (j \in DOMAIN s /\ t[j] = s[j])
      BY <1>1
    <3>1. CASE d \in r /\ \A j \in DOMAIN s : ~Mentions(s[j], d)
      <4>1. \A j \in DOMAIN t : ~Mentions(t[j], d)
        BY <1>1, <1>3, <3>0, <3>1
      <4> QED BY <3>1, <4>1 DEF Knows
    <3>2. CASE \E i \in DOMAIN s : SaysIn(s[i], d) /\ \A j \in DOMAIN s : j > i => ~Mentions(s[j], d)
      <4>1. PICK i \in DOMAIN s : SaysIn(s[i], d) /\ \A j \in DOMAIN s : j > i => ~Mentions(s[j], d)
        BY <3>2
      <4>2. i \in DOMAIN t /\ SaysIn(t[i], d)
        BY <1>1, <4>1
      <4>3. \A j \in DOMAIN t : j > i => ~Mentions(t[j], d)
        BY <1>1, <1>3, <3>0, <4>1
      <4> QED BY <4>2, <4>3 DEF Knows
    <3> QED BY <2>3, <3>1, <3>2 DEF Knows
  <2> QED BY <1>3, <2>2, <2>3 DEF t
<1> QED BY <1>2, <1>3

\* Reading a frame and believing it changes nothing about what will be believed.
LEMMA KnowsTail ==
  ASSUME NEW S, NEW s \in Seq(S), s # <<>>, NEW r, NEW q, NEW d,
         d \in q <=> IF Mentions(Head(s), d) THEN SaysIn(Head(s), d) ELSE d \in r
  PROVE  Knows(Tail(s), q, d) <=> Knows(s, r, d)
<1> DEFINE t == Tail(s)
<1>1. /\ Len(s) \in Nat \ {0} /\ DOMAIN s = 1..Len(s) /\ DOMAIN t = 1..(Len(s) - 1)
      /\ \A i \in 1..(Len(s) - 1) : t[i] = s[i + 1]
      /\ s[1] = Head(s)
  <2>1. Len(s) \in Nat \ {0} /\ Len(t) = Len(s) - 1 /\ t \in Seq(S)
    BY HeadTailProperties, LenProperties, EmptySeq
  <2> QED BY <2>1, HeadTailProperties, LenProperties
<1> HIDE DEF t
<1>2. /\ 1 \in DOMAIN s
      /\ \A j \in DOMAIN s : j = 1 \/ (j - 1 \in DOMAIN t /\ t[j - 1] = s[j] /\ j > 1)
      /\ \A j \in DOMAIN t : j + 1 \in DOMAIN s /\ t[j] = s[j + 1]
  BY <1>1
<1>3. SaysIn(Head(s), d) => Mentions(Head(s), d)
  BY DEF Mentions, SaysIn
<1>4. ASSUME Knows(t, q, d) PROVE Knows(s, r, d)
  <2>1. CASE d \in q /\ \A j \in DOMAIN t : ~Mentions(t[j], d)
    <3>1. \A j \in DOMAIN s : j > 1 => ~Mentions(s[j], d)
      BY <1>2, <2>1
    <3>2. CASE Mentions(Head(s), d)
      BY <1>1, <1>2, <2>1, <3>1, <3>2 DEF Knows
    <3>3. CASE ~Mentions(Head(s), d)
      <4>1. \A j \in DOMAIN s : ~Mentions(s[j], d)
        BY <1>1, <1>2, <3>1, <3>3
      <4> QED BY <2>1, <3>3, <4>1 DEF Knows
    <3> QED BY <3>2, <3>3
  <2>2. CASE \E i \in DOMAIN t : SaysIn(t[i], d) /\ \A j \in DOMAIN t : j > i => ~Mentions(t[j], d)
    <3>1. PICK i \in DOMAIN t : SaysIn(t[i], d) /\ \A j \in DOMAIN t : j > i => ~Mentions(t[j], d)
      BY <2>2
    <3>2. i + 1 \in DOMAIN s /\ SaysIn(s[i + 1], d)
      BY <1>2, <3>1
    <3>3. \A j \in DOMAIN s : j > i + 1 => ~Mentions(s[j], d)
      BY <1>1, <1>2, <3>1
    <3> QED BY <3>2, <3>3 DEF Knows
  <2> QED BY <1>4, <2>1, <2>2 DEF Knows
<1>5. ASSUME Knows(s, r, d) PROVE Knows(t, q, d)
  <2>1. CASE d \in r /\ \A j \in DOMAIN s : ~Mentions(s[j], d)
    BY <1>1, <1>2, <2>1 DEF Knows
  <2>2. CASE \E i \in DOMAIN s : SaysIn(s[i], d) /\ \A j \in DOMAIN s : j > i => ~Mentions(s[j], d)
    <3>1. PICK i \in DOMAIN s : SaysIn(s[i], d) /\ \A j \in DOMAIN s : j > i => ~Mentions(s[j], d)
      BY <2>2
    <3>2. CASE i = 1
      <4>1. d \in q
        BY <1>1, <1>3, <3>1, <3>2
      <4>2. \A j \in DOMAIN t : ~Mentions(t[j], d)
        BY <1>1, <1>2, <3>1, <3>2
      <4> QED BY <4>1, <4>2 DEF Knows
    <3>3. CASE i # 1
      <4>1. i - 1 \in DOMAIN t /\ SaysIn(t[i - 1], d)
        BY <1>2, <3>1, <3>3
      <4>2. \A j \in DOMAIN t : j > i - 1 => ~Mentions(t[j], d)
        BY <1>1, <1>2, <3>1
      <4> QED BY <4>1, <4>2 DEF Knows
    <3> QED BY <3>2, <3>3
  <2> QED BY <1>5, <2>1, <2>2 DEF Knows
<1> QED BY <1>4, <1>5 DEF t

\* What is in front of a PlayerList is forgotten with it.
LEMMA KnowsBehind ==
  ASSUME NEW S, NEW s \in Seq(S), Announced(s), Head(s).type # "JoinAccept", NEW r, NEW d
  PROVE  /\ s # <<>> /\ Announced(Tail(s))
         /\ Knows(Tail(s), r, d) <=> Knows(s, r, d)
<1> DEFINE t == Tail(s)
<1>0. s # <<>>
  BY DEF Announced
<1>1. /\ Len(s) \in Nat \ {0} /\ DOMAIN s = 1..Len(s) /\ DOMAIN t = 1..(Len(s) - 1)
      /\ \A i \in 1..(Len(s) - 1) : t[i] = s[i + 1]
      /\ s[1] = Head(s)
  <2>1. Len(s) \in Nat \ {0} /\ Len(t) = Len(s) - 1 /\ t \in Seq(S)
    BY <1>0, HeadTailProperties, LenProperties, EmptySeq
  <2> QED BY <1>0, <2>1, HeadTailProperties, LenProperties
<1> HIDE DEF t
<1>2. /\ \A j \in DOMAIN s : j = 1 \/ (j - 1 \in DOMAIN t /\ t[j - 1] = s[j] /\ j > 1)
      /\ \A j \in DOMAIN t : j + 1 \in DOMAIN s /\ t[j] = s[j + 1]
  BY <1>1
<1>3. PICK p \in DOMAIN s : p > 1 /\ s[p].type = "PlayerList" /\ s[p - 1].type = "JoinAccept"
  BY DEF Announced
<1>4. p \in Nat /\ p > 2
  BY <1>1, <1>3
<1>5. /\ p - 1 \in DOMAIN t /\ t[p - 1].type = "PlayerList"
      /\ (p - 1) - 1 \in DOMAIN t /\ t[(p - 1) - 1] = s[p - 1]
  BY <1>1, <1>2, <1>3, <1>4
<1>6. Announced(t)
  BY <1>3, <1>4, <1>5 DEF Announced
<1>7. Mentions(s[p], d) /\ Mentions(t[p - 1], d)
  BY <1>3, <1>5 DEF Mentions
<1>8. ASSUME Knows(t, r, d) PROVE Knows(s, r, d)
  <2>1. PICK i \in DOMAIN t : SaysIn(t[i], d) /\ \A j \in DOMAIN t : j > i => ~Mentions(t[j], d)
    BY <1>5, <1>7, <1>8 DEF Knows
  <2>2. i + 1 \in DOMAIN s /\ SaysIn(s[i + 1], d)
    BY <1>2, <2>1
  <2>3. \A j \in DOMAIN s : j > i + 1 => ~Mentions(s[j], d)
    BY <1>1, <1>2, <2>1
  <2> QED BY <2>2, <2>3 DEF Knows
<1>9. ASSUME Knows(s, r, d) PROVE Knows(t, r, d)
  <2>1. PICK i \in DOMAIN s : SaysIn(s[i], d) /\ \A j \in DOMAIN s : j > i => ~Mentions(s[j], d)
    BY <1>7, <1>9 DEF Knows
  <2>2. i # 1
    BY <1>1, <1>3, <1>7, <2>1
  <2>3. i - 1 \in DOMAIN t /\ SaysIn(t[i - 1], d)
    BY <1>2, <2>1, <2>2
  <2>4. \A j \in DOMAIN t : j > i - 1 => ~Mentions(t[j], d)
    BY <1>1, <1>2, <2>1
  <2> QED BY <2>3, <2>4 DEF Knows
<1> QED BY <1>0, <1>6, <1>8, <1>9 DEF t

\* Announcements stay when something is put behind them, or when the head is no JoinAccept.
LEMMA AnnouncedAppend ==
  ASSUME NEW S, NEW s \in Seq(S), NEW m \in S, Announced(s)
  PROVE  Announced(Append(s, m))
<1>1. /\ Len(s) \in Nat /\ DOMAIN s = 1..Len(s) /\ DOMAIN Append(s, m) = 1..(Len(s) + 1)
      /\ \A i \in 1..Len(s) : Append(s, m)[i] = s[i]
  BY AppendProperties, LenProperties
<1>2. PICK p \in DOMAIN s : p > 1 /\ s[p].type = "PlayerList" /\ s[p - 1].type = "JoinAccept"
  BY DEF Announced
<1>3. p - 1 \in DOMAIN s /\ p \in DOMAIN Append(s, m)
  BY <1>1, <1>2
<1> QED BY <1>1, <1>2, <1>3 DEF Announced

-----------------------------------------------------------------------------
(* Steps that say nothing about who is in game *)

\* Connection c is where it was, and is sent nothing that only players are sent.
Quiet(c) ==
  /\ srv'[c] = "Playing" <=> srv[c] = "Playing"
  /\ Reads(c)' => Reads(c)
  /\ roster'[c] = roster[c] /\ (cli'[c] = "Joined" <=> cli[c] = "Joined")
  /\ \/ out'[c] = out[c]
     \/ srv[c] # "Playing" /\ \E types : OutGrows(c, types) /\ types \cap GameTypes = {}

LEMMA QuietKeeps ==
  ASSUME \A c \in Conns : Quiet(c), RosterInv
  PROVE  RosterInv'
<1>1. Playing' = Playing
  BY DEF Playing, Quiet
<1> SUFFICES ASSUME NEW c \in Conns PROVE RosterOne(c)'
  BY DEF RosterInv
<1>2. RosterOne(c) /\ Quiet(c)
  BY DEF RosterInv
<1> HIDE DEF Playing
<1>3. CASE srv[c] = "Playing"
  <2>1. Reads(c)' => /\ \A d \in Conns : Knows(out[c], roster[c], d) <=> d \in Playing \ {c}
                     /\ cli[c] = "Joined" \/ Announced(out[c])
    BY <1>2, <1>3 DEF RosterOne, Quiet
  <2>2. out'[c] = out[c] /\ roster'[c] = roster[c] /\ (cli'[c] = "Joined" <=> cli[c] = "Joined")
        /\ srv'[c] = "Playing"
    BY <1>2, <1>3 DEF Quiet
  <2> QED BY <1>1, <2>1, <2>2 DEF RosterOne
<1>4. CASE srv[c] # "Playing"
  <2>1. Reads(c)' => T(out[c]) \cap GameTypes = {} /\ cli[c] # "Joined"
    BY <1>2, <1>4 DEF RosterOne, Quiet
  <2>2. T(out[c]) \cap GameTypes = {} => T(out'[c]) \cap GameTypes = {}
    BY <1>2 DEF Quiet, OutGrows
  <2> QED BY <1>2, <1>4, <2>1, <2>2 DEF RosterOne, Quiet
<1> QED BY <1>3, <1>4

\* What SendTo does for that.
LEMMA QuietSend ==
  ASSUME TypeInv, NEW c \in Conns, srv[c] # "Playing", NEW ms \in Seq(Messages),
         T(ms) \cap GameTypes = {}, out' = SendTo(c, ms), NEW d \in Conns
  PROVE  \/ out'[d] = out[d]
         \/ srv[d] # "Playing" /\ \E types : OutGrows(d, types) /\ types \cap GameTypes = {}
<1>1. out \in [Conns -> Seq(Messages)]
  BY DEF TypeInv, QueuesOK
<1>2. /\ d # c => SendTo(c, ms)[d] = out[d]
      /\ T(SendTo(c, ms)[c]) \subseteq T(out[c]) \union T(ms)
  BY <1>1, SendToOK
<1>3. d = c => OutGrows(d, T(ms))
  BY <1>2 DEF OutGrows
<1> QED BY <1>2, <1>3

\* The server hears a connection that neither enters nor leaves the game.
LEMMA HandleQuiet ==
  ASSUME TypeInv, SessionInv, NEW c \in Conns, HandleOne(c),
         ~OnReady(c), ~(Forget(c) /\ srv[c] = "Playing"), NEW d \in Conns
  PROVE  Quiet(d)
<1>1. /\ inbox \in [Conns -> Seq(Messages)] /\ out \in [Conns -> Seq(Messages)]
      /\ srv \in [Conns -> ServerStates]
  BY DEF TypeInv, TypeOK, QueuesOK
<1>2. UNCHANGED <<cli, roster>> /\ open' \subseteq open
  <2>1. Handled(c)
    BY HandleEffect
  <2> QED BY <2>1 DEF Handled, OthersKept, HandleOne, Accept, Forget, OnHello, OnAuth,
             OnAssetManifestRequest, OnAssetRequest, OnReady, OnUnexpected, BypassHandshake,
             clientVars
<1>3. Reads(d)' => Reads(d)
  BY <1>2 DEF Reads
<1> DEFINE Still == \/ out'[d] = out[d]
                    \/ srv[d] # "Playing"
                       /\ \E types : OutGrows(d, types) /\ types \cap GameTypes = {}
<1>4. ASSUME srv[c] # "Playing", NEW s, s # "Playing", srv' = [srv EXCEPT ![c] = s]
      PROVE  srv'[d] = "Playing" <=> srv[d] = "Playing"
  BY <1>1, <1>4
<1>5. /\ \A t \in PlainTypes : <<Msg(t)>> \in Seq(Messages) /\ T(<<Msg(t)>>) = {t}
      /\ \A t, u \in PlainTypes : /\ <<Msg(t), Msg(u)>> \in Seq(Messages)
                                  /\ T(<<Msg(t), Msg(u)>>) = {t, u}
  BY PlainQueues
<1>6. ASSUME srv[c] # "Playing", NEW t \in PlainTypes \ {"JoinAccept"}, out' = SendTo(c, <<Msg(t)>>)
      PROVE  Still
  <2>1. t \notin GameTypes
    BY DEF PlainTypes, GameTypes, RosterTypes
  <2>2. <<Msg(t)>> \in Seq(Messages) /\ T(<<Msg(t)>>) \cap GameTypes = {}
    BY <1>5, <2>1
  <2> QED BY <1>6, <2>2, QuietSend
<1>7. ASSUME srv[c] # "Playing", NEW t \in PlainTypes \ {"JoinAccept"},
             NEW u \in PlainTypes \ {"JoinAccept"}, out' = SendTo(c, <<Msg(t), Msg(u)>>)
      PROVE  Still
  <2>1. <<Msg(t), Msg(u)>> \in Seq(Messages) /\ T(<<Msg(t), Msg(u)>>) = {t, u}
    BY <1>5
  <2>2. {t, u} \cap GameTypes = {}
    BY DEF PlainTypes, GameTypes, RosterTypes
  <2> QED BY <1>7, <2>1, <2>2, QuietSend
<1> HIDE DEF Still
<1>8. ASSUME UNCHANGED out PROVE Still
  BY <1>8 DEF Still
<1>9. ASSUME srv'[d] = "Playing" <=> srv[d] = "Playing", Still PROVE Quiet(d)
  BY <1>2, <1>3, <1>9 DEF Quiet, Still
<1>10. ASSUME srv[c] # "Playing", NEW reason, Fail(c, reason) PROVE Quiet(d)
  <2>1. srv' = [srv EXCEPT ![c] = "Closed"] /\ out' = SendTo(c, <<Msg("Disconnect")>>)
    BY <1>10 DEF Fail
  <2>2. Still
    BY <1>6, <1>10, <2>1 DEF PlainTypes
  <2> QED BY <1>4, <1>9, <1>10, <2>1, <2>2
<1>11. ASSUME srv[c] # "Playing", NEW s, s # "Playing", NEW t \in PlainTypes \ {"JoinAccept"},
              Advance(c, s, <<Msg(t)>>)
       PROVE  Quiet(d)
  BY <1>4, <1>6, <1>9, <1>11 DEF Advance
<1>12. ASSUME srv[c] # "Playing", NEW s, s # "Playing", srv' = [srv EXCEPT ![c] = s], UNCHANGED out
       PROVE  Quiet(d)
  BY <1>4, <1>8, <1>9, <1>12
<1>13. CASE Accept(c)
  <2>1. "connected" \in T(inbox[c])
    <3>1. T(inbox[c]) = {Head(inbox[c]).type} \union T(Tail(inbox[c]))
      BY <1>1, <1>13, TypesHeadTail DEF Accept, Polled
    <3> QED BY <1>13, <3>1 DEF Accept, Polled
  <2>2. srv[c] = "none"
    BY <2>1 DEF SessionInv, FreshInv, FreshOne, Fresh, Pending
  <2> QED BY <1>12, <1>13, <2>2 DEF Accept
<1>14. CASE Forget(c)
  BY <1>12, <1>14 DEF Forget
<1>15. CASE OnHello(c)
  <2>1. srv[c] # "Playing"
    BY <1>15 DEF OnHello
  <2>2. CASE Advance(c, "AwaitingAuth", <<Msg("ServerInfo"), Msg("Challenge")>>)
    <3>1. srv' = [srv EXCEPT ![c] = "AwaitingAuth"]
          /\ out' = SendTo(c, <<Msg("ServerInfo"), Msg("Challenge")>>)
      BY <2>2 DEF Advance
    <3>2. Still
      BY <1>7, <2>1, <3>1 DEF PlainTypes
    <3> QED BY <1>4, <1>9, <2>1, <3>1, <3>2
  <2> QED BY <1>10, <1>15, <2>1, <2>2 DEF OnHello
<1>16. CASE OnAuth(c)
  <2>1. srv[c] # "Playing"
    BY <1>16 DEF OnAuth
  <2>2. CASE Refuse(c)
    <3>1. srv' = [srv EXCEPT ![c] = "Closed"]
          /\ out' = SendTo(c, <<Msg("AuthRefused"), Msg("Disconnect")>>)
      BY <2>2 DEF Refuse
    <3>2. Still
      BY <1>7, <2>1, <3>1 DEF PlainTypes
    <3> QED BY <1>4, <1>9, <2>1, <3>1, <3>2
  <2>3. CASE Admit(c)
    BY <1>11, <2>1, <2>3 DEF Admit, PlainTypes
  <2>4. CASE srv' = [srv EXCEPT ![c] = "VerifyingAuth"] /\ UNCHANGED out
    BY <1>12, <2>1, <2>4
  <2> QED BY <1>10, <1>16, <2>1, <2>2, <2>3, <2>4 DEF OnAuth
<1>17. CASE OnAssetManifestRequest(c)
  BY <1>11, <1>17 DEF OnAssetManifestRequest, PlainTypes
<1>18. CASE OnAssetRequest(c)
  <2>1. srv[c] # "Playing" /\ UNCHANGED out
        /\ \E s \in {"AwaitingReady", "StreamingAssets"} : srv' = [srv EXCEPT ![c] = s]
    BY <1>18 DEF OnAssetRequest
  <2> QED BY <1>12, <2>1
<1>19. CASE OnUnexpected(c)
  <2>1. srv[c] # "Playing" /\ Fail(c, "BadHandshake")
    BY <1>19 DEF OnUnexpected, Handshaking
  <2> QED BY <1>10, <2>1
<1>20. CASE BypassHandshake(c)
  BY <1>8, <1>9, <1>20 DEF BypassHandshake
<1> QED BY <1>13, <1>14, <1>15, <1>16, <1>17, <1>18, <1>19, <1>20 DEF HandleOne

\* The sweep visits connections that are not in game.
LEMMA SweepQuiet ==
  ASSUME TypeInv, NEW c \in Conns, NEW late \in BOOLEAN, SweepOne(c, late), NEW d \in Conns
  PROVE  Quiet(d)
<1>1. /\ out \in [Conns -> Seq(Messages)] /\ srv \in [Conns -> ServerStates]
      /\ left \in [Conns -> 0..MaxChunks]
  BY DEF TypeInv, TypeOK, QueuesOK
<1>2. UNCHANGED <<cli, roster, open>> /\ srv[c] # "Playing"
  BY DEF SweepOne, Sweeping, Unswept, Handshaking, clientVars
<1>3. Reads(d)' => Reads(d)
  BY <1>2 DEF Reads
<1>4. ASSUME NEW s, s # "Playing", srv' = [srv EXCEPT ![c] = s], NEW ms \in Seq(Messages),
             T(ms) \cap GameTypes = {}, out' = SendTo(c, ms)
      PROVE  Quiet(d)
  <2>1. srv'[d] = "Playing" <=> srv[d] = "Playing"
    BY <1>1, <1>2, <1>4
  <2>2. \/ out'[d] = out[d]
        \/ srv[d] # "Playing" /\ \E types : OutGrows(d, types) /\ types \cap GameTypes = {}
    BY <1>2, <1>4, QuietSend
  <2> QED BY <1>2, <1>3, <2>1, <2>2 DEF Quiet
<1>5. /\ <<Msg("Disconnect")>> \in Seq(Messages) /\ T(<<Msg("Disconnect")>>) = {"Disconnect"}
      /\ <<Msg("AuthResult")>> \in Seq(Messages) /\ T(<<Msg("AuthResult")>>) = {"AuthResult"}
      /\ <<Msg("AuthRefused"), Msg("Disconnect")>> \in Seq(Messages)
      /\ T(<<Msg("AuthRefused"), Msg("Disconnect")>>) = {"AuthRefused", "Disconnect"}
  BY PlainQueues DEF PlainTypes
<1>6. ASSUME NEW s, s # "Playing", NEW ms \in Seq(Messages), T(ms) \subseteq {"AssetData"},
             Conclude(c, s, ms, late)
      PROVE  Quiet(d)
  <2>1. /\ ms \o <<Msg("Disconnect")>> \in Seq(Messages)
        /\ T(ms \o <<Msg("Disconnect")>>) = T(ms) \union {"Disconnect"}
    BY <1>5, <1>6, TypesConcat
  <2>2. /\ T(ms) \cap GameTypes = {} /\ T(ms \o <<Msg("Disconnect")>>) \cap GameTypes = {}
    BY <1>6, <2>1 DEF GameTypes, RosterTypes
  <2>3. \/ srv' = [srv EXCEPT ![c] = "Closed"] /\ out' = SendTo(c, ms \o <<Msg("Disconnect")>>)
        \/ srv' = [srv EXCEPT ![c] = s] /\ out' = SendTo(c, ms)
    BY <1>6 DEF Conclude, Advance
  <2> QED BY <1>4, <1>6, <2>1, <2>2, <2>3
<1>7. CASE PumpAssets(c, late)
  <2> DEFINE ms == [i \in 1..Sent(left[c]) |-> Msg("AssetData")]
  <2>1. ms \in Seq(Messages) /\ T(ms) \subseteq {"AssetData"}
    BY <1>1, SentOK
  <2>2. Conclude(c, Streamed(left[c]), ms, late) /\ Streamed(left[c]) # "Playing"
    BY <1>7 DEF PumpAssets, Streamed
  <2> HIDE DEF ms
  <2> QED BY <1>6, <2>1, <2>2
<1>8. CASE VisitOnly(c, late)
  <2>1. <<>> \in Seq(Messages) /\ T(<<>>) \subseteq {"AssetData"}
    BY TypesEmpty, EmptySeq
  <2>2. Conclude(c, srv[c], <<>>, late)
    BY <1>8 DEF VisitOnly
  <2> QED BY <1>2, <1>6, <2>1, <2>2
<1>9. CASE PumpRefused(c)
  BY <1>4, <1>5, <1>9 DEF PumpRefused, GameTypes, RosterTypes
<1>10. CASE VerdictRefused(c)
  BY <1>4, <1>5, <1>10 DEF VerdictRefused, Refuse, GameTypes, RosterTypes
<1>11. CASE VerdictVerified(c)
  BY <1>4, <1>5, <1>11 DEF VerdictVerified, Admit, Advance, GameTypes, RosterTypes
<1> QED BY <1>7, <1>8, <1>9, <1>10, <1>11 DEF SweepOne

-----------------------------------------------------------------------------
(* Entering and leaving the game *)

\* A player's client reads a PlayerJoin or a PlayerLeave of c after everything it is sent.
LEMMA ToldOf ==
  ASSUME TypeInv, NEW c \in Conns, NEW d \in Conns, d # c, srv[d] = "Playing", srv'[d] = "Playing",
         RosterOne(d), NEW type \in {"PlayerJoin", "PlayerLeave"},
         out'[d] = IF Reads(d) THEN Append(out[d], MsgOf(type, {c})) ELSE out[d],
         Reads(d)' => Reads(d), UNCHANGED <<roster, cli>>,
         Playing' = IF type = "PlayerJoin" THEN Playing \union {c} ELSE Playing \ {c}
  PROVE  RosterOne(d)'
<1> SUFFICES ASSUME Reads(d)
    PROVE  /\ \A x \in Conns : Knows(out'[d], roster'[d], x) <=> x \in Playing' \ {d}
           /\ cli'[d] = "Joined" \/ Announced(out'[d])
  BY DEF RosterOne
<1> DEFINE m == MsgOf(type, {c})
<1>1. /\ out[d] \in Seq(Messages) /\ m \in Messages /\ m.type = type /\ m.arg = {c}
      /\ out'[d] = Append(out[d], m)
  BY MessagesOK DEF TypeInv, QueuesOK, MsgOf, RosterTypes
<1>2. /\ \A x \in Conns : Knows(out[d], roster[d], x) <=> x \in Playing \ {d}
      /\ cli[d] = "Joined" \/ Announced(out[d])
  BY DEF RosterOne
<1> HIDE DEF m, Playing
<1>3. ASSUME NEW x \in Conns PROVE Knows(out'[d], roster'[d], x) <=> x \in Playing' \ {d}
  <2>1. Knows(out'[d], roster'[d], x)
          <=> IF Mentions(m, x) THEN SaysIn(m, x) ELSE Knows(out[d], roster[d], x)
    BY <1>1, KnowsAppend
  <2>2. (Mentions(m, x) <=> x = c) /\ (SaysIn(m, x) <=> x = c /\ type = "PlayerJoin")
    BY <1>1 DEF Mentions, SaysIn
  <2> QED BY <1>2, <2>1, <2>2
<1>4. cli'[d] = "Joined" \/ Announced(out'[d])
  BY <1>1, <1>2, AnnouncedAppend
<1> QED BY <1>3, <1>4

\* Nothing changes for who is not in game.
LEMMA NotTold ==
  ASSUME NEW d \in Conns, srv[d] # "Playing", srv'[d] # "Playing", RosterOne(d),
         out'[d] = out[d], Reads(d)' => Reads(d), UNCHANGED cli
  PROVE  RosterOne(d)'
BY DEF RosterOne

LEMMA ReadyKeepsRoster ==
  ASSUME TypeInv, RosterInv, NEW c \in Conns, OnReady(c)
  PROVE  RosterInv'
<1> SUFFICES ASSUME NEW d \in Conns PROVE RosterOne(d)'
  BY DEF RosterInv
<1>1. /\ out[d] \in Seq(Messages) /\ RosterOne(d)
      /\ srv \in [Conns -> ServerStates] /\ srv[c] = "AwaitingReady"
      /\ srv' = [srv EXCEPT ![c] = "Playing"]
      /\ UNCHANGED <<roster, cli, open>>
      /\ out'[d] = IF ~Reads(d) THEN out[d]
                   ELSE IF d = c THEN out[d] \o <<Msg("JoinAccept"), MsgOf("PlayerList", Playing)>>
                   ELSE IF d \in Playing THEN Append(out[d], MsgOf("PlayerJoin", {c})) ELSE out[d]
  BY DEF TypeInv, TypeOK, QueuesOK, OnReady, clientVars, RosterInv
<1>2. Reads(d)' <=> Reads(d)
  BY <1>1 DEF Reads
<1>3. /\ Playing' = Playing \union {c} /\ c \notin Playing /\ Playing \in SUBSET Conns
      /\ d \in Playing <=> srv[d] = "Playing"
      /\ d # c => srv'[d] = srv[d]
  BY <1>1 DEF Playing
<1> HIDE DEF Playing
<1>4. CASE d # c /\ d \in Playing
  BY <1>1, <1>2, <1>3, <1>4, ToldOf
<1>5. CASE d # c /\ d \notin Playing
  BY <1>1, <1>2, <1>3, <1>5, NotTold
<1>6. CASE d = c
  <2> SUFFICES ASSUME Reads(c)
      PROVE  /\ \A x \in Conns : Knows(out'[c], roster'[c], x) <=> x \in Playing' \ {c}
             /\ Announced(out'[c])
    BY <1>1, <1>2, <1>6 DEF RosterOne
  <2> DEFINE accept == Msg("JoinAccept")
             list == MsgOf("PlayerList", Playing)
             s == Append(out[c], accept)
  <2>1. /\ accept \in Messages /\ accept.type = "JoinAccept"
        /\ list \in Messages /\ list.type = "PlayerList" /\ list.arg = Playing
    BY <1>3, MessagesOK DEF Msg, MsgOf, PlainTypes, RosterTypes
  <2>2. out'[c] = out[c] \o <<accept, list>>
    BY <1>1, <1>6
  <2> HIDE DEF accept, list
  <2>3. s \in Seq(Messages) /\ out'[c] = Append(s, list)
    BY <1>1, <1>6, <2>1, <2>2
  <2>4. /\ Len(s) \in Nat \ {0} /\ s[Len(s)] = accept
        /\ DOMAIN out'[c] = 1..(Len(s) + 1)
        /\ out'[c][Len(s)] = s[Len(s)] /\ out'[c][Len(s) + 1] = list
    <3>1. Len(out[c]) \in Nat /\ Len(s) = Len(out[c]) + 1 /\ s[Len(out[c]) + 1] = accept
      BY <1>1, <1>6, <2>1, AppendProperties, LenProperties
    <3>2. /\ Len(s) \in Nat \ {0} /\ s[Len(s)] = accept
      BY <3>1
    <3> HIDE DEF s
    <3> QED BY <2>1, <2>3, <3>2, AppendProperties, LenProperties
  <2> HIDE DEF s
  <2>5. Announced(out'[c])
    <3>1. /\ Len(s) + 1 \in DOMAIN out'[c] /\ Len(s) + 1 > 1 /\ (Len(s) + 1) - 1 = Len(s)
          /\ out'[c][Len(s) + 1].type = "PlayerList" /\ out'[c][Len(s)].type = "JoinAccept"
      BY <2>1, <2>4
    <3> QED BY <3>1 DEF Announced
  <2>6. ASSUME NEW x \in Conns PROVE Knows(out'[c], roster'[c], x) <=> x \in Playing' \ {c}
    <3>1. Mentions(list, x) /\ (SaysIn(list, x) <=> x \in Playing)
      BY <2>1 DEF Mentions, SaysIn
    <3>2. Knows(Append(s, list), roster'[c], x) <=> SaysIn(list, x)
      BY <2>1, <2>3, <3>1, KnowsAppend
    <3> QED BY <1>3, <2>3, <3>1, <3>2
  <2> QED BY <2>5, <2>6
<1> QED BY <1>4, <1>5, <1>6

LEMMA ForgetKeepsRoster ==
  ASSUME TypeInv, RosterInv, NEW c \in Conns, Forget(c), srv[c] = "Playing"
  PROVE  RosterInv'
<1> SUFFICES ASSUME NEW d \in Conns PROVE RosterOne(d)'
  BY DEF RosterInv
<1>1. /\ RosterOne(d) /\ srv \in [Conns -> ServerStates]
      /\ srv' = [srv EXCEPT ![c] = "none"] /\ open' = open \ {c}
      /\ UNCHANGED <<roster, cli>>
      /\ out'[d] = IF d \in Playing \ {c} /\ Reads(d)
                   THEN Append(out[d], MsgOf("PlayerLeave", {c})) ELSE out[d]
  BY DEF TypeInv, TypeOK, Forget, LeaveAudience, clientVars, RosterInv
<1>2. (Reads(d)' => Reads(d)) /\ ~Reads(c)'
  BY <1>1 DEF Reads
<1>3. /\ Playing' = Playing \ {c}
      /\ d \in Playing <=> srv[d] = "Playing"
      /\ d # c => srv'[d] = srv[d]
  BY <1>1 DEF Playing
<1> HIDE DEF Playing
<1>4. CASE d # c /\ d \in Playing
  BY <1>1, <1>2, <1>3, <1>4, ToldOf
<1>5. CASE d # c /\ d \notin Playing
  BY <1>1, <1>2, <1>3, <1>5, NotTold
<1>6. CASE d = c
  BY <1>2, <1>6 DEF RosterOne
<1> QED BY <1>4, <1>5, <1>6

-----------------------------------------------------------------------------
(* The client *)

\* A client that is not yet in game takes a frame that it was sent before the JoinAccept.
LEMMA SkipKeepsRoster ==
  ASSUME TypeInv, NEW c \in Conns, RosterOne(c), NEW type, type # "JoinAccept", Receive(c, type),
         cli[c] # "Joined", cli'[c] # "Joined", UNCHANGED <<srv, roster>>
  PROVE  RosterOne(c)'
<1>1. /\ out[c] \in Seq(Messages) /\ out[c] # <<>> /\ Reads(c)
      /\ Head(out[c]).type = type /\ out'[c] = Tail(out[c])
      /\ T(out'[c]) \subseteq T(out[c])
  <2>1. out \in [Conns -> Seq(Messages)]
    BY DEF TypeInv, QueuesOK
  <2>2. T(out[c]) = {type} \union T(out'[c])
    BY <2>1, ReceiveOK
  <2> QED BY <2>1, <2>2 DEF Receive
<1>2. Playing' = Playing
  BY DEF Playing
<1> HIDE DEF Playing
<1>3. CASE srv[c] = "Playing"
  <2>1. /\ \A d \in Conns : Knows(out[c], roster[c], d) <=> d \in Playing \ {c}
        /\ Announced(out[c])
    BY <1>1, <1>3 DEF RosterOne
  <2>2. Announced(Tail(out[c]))
        /\ \A d : Knows(Tail(out[c]), roster[c], d) <=> Knows(out[c], roster[c], d)
    BY <1>1, <2>1, KnowsBehind
  <2> QED BY <1>1, <1>2, <1>3, <2>1, <2>2 DEF RosterOne
<1>4. CASE srv[c] # "Playing"
  BY <1>1, <1>4 DEF RosterOne
<1> QED BY <1>3, <1>4

LEMMA AcceptKeepsRoster ==
  ASSUME TypeInv, NEW c \in Conns, RosterOne(c), OnJoinAccept(c)
  PROVE  RosterOne(c)'
<1>1. /\ out \in [Conns -> Seq(Messages)] /\ cli \in [Conns -> ClientStates]
      /\ Receive(c, "JoinAccept") /\ cli' = [cli EXCEPT ![c] = "Joined"]
      /\ UNCHANGED <<srv, roster>>
  BY DEF TypeInv, TypeOK, QueuesOK, OnJoinAccept, Become, serverVars
<1>2. /\ out[c] \in Seq(Messages) /\ out[c] # <<>> /\ Reads(c)
      /\ Head(out[c]).type = "JoinAccept" /\ out'[c] = Tail(out[c])
      /\ "JoinAccept" \in T(out[c])
  <2>1. T(out[c]) = {"JoinAccept"} \union T(out'[c])
    BY <1>1, ReceiveOK
  <2> QED BY <1>1, <2>1 DEF Receive
<1>3. srv[c] = "Playing" /\ \A d \in Conns : Knows(out[c], roster[c], d) <=> d \in Playing \ {c}
  BY <1>2 DEF RosterOne, GameTypes
<1>4. \A d : Knows(Tail(out[c]), roster[c], d) <=> Knows(out[c], roster[c], d)
  <2>1. \A d : ~Mentions(Head(out[c]), d)
    BY <1>2 DEF Mentions
  <2> QED BY <1>2, <2>1, KnowsTail
<1>5. Playing' = Playing
  BY <1>1 DEF Playing
<1>6. cli'[c] = "Joined"
  BY <1>1
<1> HIDE DEF Playing
<1> QED BY <1>1, <1>2, <1>3, <1>4, <1>5, <1>6 DEF RosterOne

LEMMA OnRosterKeepsRoster ==
  ASSUME TypeInv, NEW c \in Conns, RosterOne(c), OnRoster(c)
  PROVE  RosterOne(c)'
<1>1. /\ out \in [Conns -> Seq(Messages)] /\ DOMAIN roster = Conns
      /\ cli[c] = "Joined" /\ UNCHANGED <<srv, cli>>
  BY DEF TypeInv, TypeOK, QueuesOK, OnRoster, serverVars
<1>2. PICK type \in {"PlayerList", "PlayerJoin", "PlayerLeave"} :
        /\ Receive(c, type)
        /\ roster' = [roster EXCEPT ![c] =
                        IF type = "PlayerList" THEN Head(out[c]).arg
                        ELSE IF type = "PlayerJoin" THEN @ \union Head(out[c]).arg
                        ELSE @ \ Head(out[c]).arg]
  BY DEF OnRoster
<1>3. /\ out[c] \in Seq(Messages) /\ out[c] # <<>> /\ Reads(c)
      /\ Head(out[c]).type = type /\ out'[c] = Tail(out[c])
  BY <1>1, <1>2 DEF Receive
<1>4. srv[c] = "Playing" /\ \A d \in Conns : Knows(out[c], roster[c], d) <=> d \in Playing \ {c}
  BY <1>1, <1>3 DEF RosterOne
<1>5. ASSUME NEW d PROVE Knows(Tail(out[c]), roster'[c], d) <=> Knows(out[c], roster[c], d)
  <2>1. roster'[c] = IF type = "PlayerList" THEN Head(out[c]).arg
                     ELSE IF type = "PlayerJoin" THEN roster[c] \union Head(out[c]).arg
                     ELSE roster[c] \ Head(out[c]).arg
    BY <1>1, <1>2
  <2>2. d \in roster'[c] <=> IF Mentions(Head(out[c]), d) THEN SaysIn(Head(out[c]), d)
                             ELSE d \in roster[c]
    BY <1>2, <1>3, <2>1 DEF Mentions, SaysIn
  <2> QED BY <1>3, <2>2, KnowsTail
<1>6. Playing' = Playing
  BY <1>1 DEF Playing
<1> HIDE DEF Playing
<1> QED BY <1>1, <1>3, <1>4, <1>5, <1>6 DEF RosterOne

\* A client's own step.
LEMMA ActKeepsRoster ==
  ASSUME TypeInv, RosterInv, NEW c \in Conns, ClientStep(c) \/ LoseServer(c) \/ GiveUp(c)
  PROVE  RosterInv'
<1>1. /\ out \in [Conns -> Seq(Messages)] /\ cli \in [Conns -> ClientStates]
      /\ DOMAIN roster = Conns /\ RosterOne(c)
  BY DEF TypeInv, TypeOK, QueuesOK, RosterInv
<1>2. UNCHANGED <<srv, open>>
  BY DEF ClientStep, Connect, Start, OnServerInfo, OnChallenge, SignedIn, OnAuthResult,
         OnAssetManifest, OnAssetData, OnJoinAccept, OnRoster, OnOtherFrame, Stray,
         LoseServer, GiveUp, serverVars
<1>3. Playing' = Playing
  BY <1>2 DEF Playing
<1>4. ASSUME NEW d \in Conns \ {c} PROVE RosterOne(d)'
  <2>1. out'[d] = out[d] /\ cli'[d] = cli[d]
    BY ActEffect DEF Acted
  <2>2. roster'[d] = roster[d]
    BY <1>1 DEF ClientStep, Connect, Start, OnServerInfo, OnChallenge, SignedIn, OnAuthResult,
                OnAssetManifest, OnAssetData, OnJoinAccept, OnRoster, OnOtherFrame, Stray,
                LoseServer, GiveUp
  <2>3. RosterOne(d)
    BY DEF RosterInv
  <2> HIDE DEF Playing
  <2> QED BY <1>2, <1>3, <2>1, <2>2, <2>3 DEF RosterOne, Reads
<1>5. ASSUME ~Reads(c)' PROVE RosterOne(c)'
  BY <1>5 DEF RosterOne
<1>6. ASSUME NEW s, Become(c, s) PROVE cli'[c] = s
  BY <1>1, <1>6 DEF Become
<1>7. RosterOne(c)'
  <2>1. CASE LoseServer(c) \/ GiveUp(c)
    BY <1>5, <1>6, <2>1 DEF LoseServer, GiveUp, Reads
  <2>2. CASE Connect(c) \/ Start(c) \/ SignedIn(c) \/ Stray(c)
    <3>1. /\ UNCHANGED <<out, roster>>
          /\ cli'[c] = cli[c] \/ (cli[c] # "Joined" /\ cli'[c] # "Joined")
          /\ cli[c] \notin {"Failed", "Gone"}
      BY <1>6, <2>2 DEF Connect, Start, SignedIn, Stray
    <3> HIDE DEF Playing
    <3> QED BY <1>1, <1>2, <1>3, <3>1 DEF RosterOne, Reads
  <2>3. CASE OnServerInfo(c) \/ OnChallenge(c) \/ OnAuthResult(c) \/ OnAssetManifest(c)
             \/ OnAssetData(c)
    <3>1. PICK type \in {"ServerInfo", "Challenge", "AuthResult", "AssetManifest", "AssetData"} :
            Receive(c, type)
      BY <2>3 DEF OnServerInfo, OnChallenge, OnAuthResult, OnAssetManifest, OnAssetData
    <3>2. UNCHANGED roster /\ cli[c] # "Joined" /\ cli'[c] # "Joined"
      BY <1>6, <2>3 DEF OnServerInfo, OnChallenge, OnAuthResult, OnAssetManifest, OnAssetData
    <3> QED BY <1>1, <1>2, <3>1, <3>2, SkipKeepsRoster
  <2>4. CASE OnJoinAccept(c)
    BY <1>1, <2>4, AcceptKeepsRoster
  <2>5. CASE OnRoster(c)
    BY <1>1, <2>5, OnRosterKeepsRoster
  <2>6. CASE OnOtherFrame(c)
    <3>1. CASE cli[c] = "Syncing"
      <4>1. PICK type : Receive(c, type) /\ type # "JoinAccept" /\ UNCHANGED <<cli, roster>>
        BY <2>6, <3>1 DEF OnOtherFrame, Expects
      <4> QED BY <1>1, <1>2, <3>1, <4>1, SkipKeepsRoster
    <3>2. CASE cli[c] # "Syncing"
      BY <1>5, <1>6, <2>6, <3>2 DEF OnOtherFrame, Reads
    <3> QED BY <3>1, <3>2
  <2> QED BY <2>1, <2>2, <2>3, <2>4, <2>5, <2>6 DEF ClientStep
<1> QED BY <1>4, <1>7 DEF RosterInv

-----------------------------------------------------------------------------
LEMMA RosterInit == Init => RosterInv
<1> SUFFICES ASSUME Init, NEW c \in Conns PROVE RosterOne(c)
  BY DEF RosterInv
<1> QED BY TypesEmpty DEF Init, RosterOne

LEMMA RosterStep == TypeInv /\ SessionInv /\ RosterInv /\ [Next]_vars => RosterInv'
<1> SUFFICES ASSUME TypeInv, SessionInv, RosterInv, [Next]_vars PROVE RosterInv'
  OBVIOUS
<1>1. ASSUME NEW c \in Conns, HandleOne(c) PROVE RosterInv'
  <2>1. CASE OnReady(c)
    BY <2>1, ReadyKeepsRoster
  <2>2. CASE Forget(c) /\ srv[c] = "Playing"
    BY <2>2, ForgetKeepsRoster
  <2>3. CASE ~OnReady(c) /\ ~(Forget(c) /\ srv[c] = "Playing")
    <3>1. \A d \in Conns : Quiet(d)
      BY <1>1, <2>3, HandleQuiet
    <3> QED BY <3>1, QuietKeeps
  <2> QED BY <2>1, <2>2, <2>3
<1>2. ASSUME NEW c \in Conns, NEW late \in BOOLEAN, SweepOne(c, late) PROVE RosterInv'
  <2>1. \A d \in Conns : Quiet(d)
    BY <1>2, SweepQuiet
  <2> QED BY <2>1, QuietKeeps
<1>3. ASSUME NEW c \in Conns, ClientStep(c) \/ LoseServer(c) \/ GiveUp(c) PROVE RosterInv'
  BY <1>3, ActKeepsRoster
<1>4. CASE Poll \/ EndTick \/ UNCHANGED vars
  <2>1. UNCHANGED <<out, srv, cli, roster>> /\ open' \subseteq open
    BY <1>4 DEF Poll, EndTick, Drop, vars, serverVars, clientVars
  <2>2. \A d \in Conns : Quiet(d)
    BY <2>1 DEF Quiet, Reads
  <2> QED BY <2>2, QuietKeeps
<1> QED BY <1>1, <1>2, <1>3, <1>4 DEF Next, ServerStep

\* What a client in game has been told, read or not, is who else is in game.
THEOREM RostersFollow == Spec => []RosterInv
BY RosterInit, RosterStep, TypeCorrect, SessionsFollow, PTL DEF Spec

\* A client in game that has read its frames knows exactly who else is.
THEOREM RostersAreTrue == Spec => []RosterIsTrue
<1>1. ASSUME TypeInv, RosterInv PROVE RosterIsTrue
  <2> SUFFICES ASSUME NEW c \in Playing, Reads(c), out[c] = <<>> PROVE roster[c] = Playing \ {c}
    BY DEF RosterIsTrue
  <2>1. c \in Conns /\ srv[c] = "Playing" /\ Playing \subseteq Conns
    BY DEF Playing
  <2>2. roster[c] \subseteq Conns /\ RosterOne(c)
    BY <1>1, <2>1 DEF TypeInv, TypeOK, RosterInv
  <2>3. \A d \in Conns : d \in roster[c] <=> d \in Playing \ {c}
    BY <2>1, <2>2, KnowsEmpty DEF RosterOne
  <2> QED BY <2>1, <2>2, <2>3
<1> QED BY <1>1, TypeCorrect, RostersFollow, PTL

=============================================================================
