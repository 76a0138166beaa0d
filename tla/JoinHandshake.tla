---------------------------- MODULE JoinHandshake ----------------------------
(***************************************************************************)
(* The join handshake between ServerSession and its ClientSessions, on a   *)
(* server that authenticates players (auth_mode external): ServerHandshake *)
(* and ClientHandshake as two state machines per connection, a reliable    *)
(* ordered stream each way, and the server's tick, which                   *)
(*   Poll       takes everything that has arrived (system_network_io),     *)
(*   handles it, one message after the other,                              *)
(*   SweepOne   visits every connection still in its handshake: streams    *)
(*              assets, asks for the sign-in verdict, applies the timeout  *)
(*              (system_handshake_timeouts),                               *)
(*   EndTick    kicks older sessions of the accounts just verified and     *)
(*              closes what the sweep decided to drop.                     *)
(* Clients run between any two of these steps.  A connection is used once: *)
(* a player who comes back has a new one of the same account.              *)
(***************************************************************************)
EXTENDS Naturals, Sequences, FiniteSets, SequencesExt, FiniteSetsExt

CONSTANTS
  Conns,         \* connections
  Strays,        \* connections whose client may send one frame out of turn
  Account(_),    \* the (issuer, subject) a connection signs in with
  Outcomes,      \* verdicts a sign-in can get: "verified", "refused", "unavailable"
  VerdictTimes,  \* "inline": known when the token arrives; "later": at a later tick
  MaxPlayers,    \* config_.max_players
  MaxChunks,     \* bound: asset chunks a client can be missing
  AssetBudget,   \* kAssetSendBudgetPerTick
  PackChanges    \* whether a listed asset file may change on disk

ASSUME JoinHandshakeAssumption ==
  /\ IsFiniteSet(Conns) /\ Strays \subseteq Conns
  /\ Outcomes \subseteq {"verified", "refused", "unavailable"}
  /\ VerdictTimes \subseteq {"inline", "later"}
  /\ MaxPlayers \in Nat /\ MaxChunks \in Nat
  /\ AssetBudget \in Nat \ {0}
  /\ PackChanges \in BOOLEAN

VARIABLES
  phase,      \* "between" ticks or in a "tick"
  inbox,      \* per connection, the events this tick's poll returned
  net,        \* per connection, what travels to the server
  out,        \* per connection, what travels to the client
  open,       \* connections the server has not closed
  srv,        \* server state of a connection; "none" when not in conns_
  signed,     \* connections whose handshake holds a verified login
  name,       \* the in-game name given: 1 is "alex", n is "alex#n", 0 none
  left,       \* asset chunks the server still has to stream
  swept,      \* connections this tick's sweep has visited
  verified,   \* connections the sweep found verified
  dropping,   \* connections the sweep decided to drop
  cli,        \* client state of a connection
  need,       \* asset chunks the client still waits for
  roster,     \* the other players a client believes are in game
  strayed,    \* connections that have sent it
  why         \* why a connection was refused or failed, for the properties

serverVars == <<phase, inbox, open, srv, signed, name, left, swept, verified, dropping>>
clientVars == <<cli, need, roster, strayed>>
sweepVars == <<swept, verified, dropping>>
vars == <<serverVars, net, out, clientVars, why>>

-----------------------------------------------------------------------------
Handshaking == {"AwaitingHello", "AwaitingAuth", "VerifyingAuth",
                "AwaitingAssetManifestRequest", "AwaitingAssetRequest",
                "StreamingAssets", "AwaitingReady"}
ServerStates == Handshaking \union {"none", "Playing", "Closed"}

ClientStates == {"Offline", "Dialing", "Connecting", "AwaitingChallenge", "SigningIn",
                 "Authenticating", "AwaitingAssetManifest", "SyncingAssets", "Syncing",
                 "Joined", "Failed", "Gone"}

Playing == {c \in Conns : srv[c] = "Playing"}

Msg(type) == [type |-> type, arg |-> {}]
MsgOf(type, arg) == [type |-> type, arg |-> arg]

\* transport send(): nothing goes out on a connection that has been closed,
\* and a client that failed or left reads no more.
Reads(c) == c \in open /\ cli[c] \notin {"Failed", "Gone"}

SendTo(c, ms) == [out EXCEPT ![c] = IF Reads(c) THEN @ \o ms ELSE @]

\* transport close() of the connections cs: what they sent and was not yet
\* polled is lost, and the next poll reports the disconnect.
Drop(cs) ==
  /\ open' = open \ cs
  /\ net' = [c \in Conns |-> IF c \in cs \intersect open THEN <<Msg("closed")>> ELSE net[c]]

Blame(c, reason) == why' = [why EXCEPT ![c] = IF @ = "none" THEN reason ELSE @]

Init ==
  /\ phase = "between"
  /\ inbox = [c \in Conns |-> <<>>]
  /\ net = [c \in Conns |-> <<>>]
  /\ out = [c \in Conns |-> <<>>]
  /\ open = Conns
  /\ srv = [c \in Conns |-> "none"]
  /\ signed = {}
  /\ name = [c \in Conns |-> 0]
  /\ left = [c \in Conns |-> 0]
  /\ swept = {} /\ verified = {} /\ dropping = {}
  /\ cli = [c \in Conns |-> "Offline"]
  /\ need = [c \in Conns |-> 0]
  /\ roster = [c \in Conns |-> {}]
  /\ strayed = {}
  /\ why = [c \in Conns |-> "none"]

-----------------------------------------------------------------------------
(* The server's poll *)

Poll ==
  /\ phase = "between"
  /\ phase' = "tick"
  /\ inbox' = net
  /\ net' = [c \in Conns |-> <<>>]
  /\ UNCHANGED <<out, open, srv, signed, name, left, sweepVars, clientVars, why>>

\* The next polled event of connection c is of this type.
Polled(c, type) == phase = "tick" /\ inbox[c] # <<>> /\ Head(inbox[c]).type = type

Consume(c) == inbox' = [inbox EXCEPT ![c] = Tail(@)]

\* kConnected
Accept(c) ==
  /\ Polled(c, "connected") /\ Consume(c)
  /\ srv' = [srv EXCEPT ![c] = "AwaitingHello"]
  /\ UNCHANGED <<phase, net, out, open, signed, name, left, sweepVars, clientVars, why>>

\* (mutant) connections the server itself closed leave without a word
LeaveAudience_open(c) == IF c \in open THEN Playing \ {c} ELSE {}

\* Who is told that c left.
LeaveAudience(c) == Playing \ {c}

\* kDisconnected: conns_.erase, and the other players are told.
Forget(c) ==
  /\ Polled(c, "closed") /\ Consume(c)
  /\ out' = IF srv[c] = "Playing"
            THEN [d \in Conns |-> IF d \in LeaveAudience(c) /\ Reads(d)
                                  THEN Append(out[d], MsgOf("PlayerLeave", {c})) ELSE out[d]]
            ELSE out
  /\ srv' = [srv EXCEPT ![c] = "none"]
  /\ signed' = signed \ {c}
  /\ name' = [name EXCEPT ![c] = 0]
  /\ left' = [left EXCEPT ![c] = 0]
  /\ open' = open \ {c}
  /\ UNCHANGED <<phase, net, sweepVars, clientVars, why>>

-----------------------------------------------------------------------------
(* Server: ServerHandshake::on_frame, one action per state *)

\* fail(): tell the client why and close.
Fail(c, reason) ==
  /\ srv' = [srv EXCEPT ![c] = "Closed"]
  /\ out' = SendTo(c, <<Msg("Disconnect")>>)
  /\ Drop({c})
  /\ Blame(c, reason)
  /\ UNCHANGED <<signed, name, left>>

\* A frame the state accepts: go to state s and send ms.
Advance(c, s, ms) ==
  /\ srv' = [srv EXCEPT ![c] = s]
  /\ out' = SendTo(c, ms)

OnHello(c) ==
  /\ Polled(c, "Hello") /\ srv[c] = "AwaitingHello" /\ Consume(c)
  /\ \/ /\ Advance(c, "AwaitingAuth", <<Msg("ServerInfo"), Msg("Challenge")>>)
        /\ UNCHANGED <<net, open, signed, name, left, why>>
     \/ "unavailable" \in Outcomes /\ Fail(c, "AuthFailed")
  /\ UNCHANGED <<phase, sweepVars, clientVars>>

\* (mutant) only players in game hold their name
Taken_playing(c, n) == \E d \in Playing : Account(d) # Account(c) /\ name[d] = n

\* resolve_name's taken(): somebody else's connection goes by this name.
\* Sessions of the same account are skipped, they are about to be kicked.
Taken(c, n) == \E d \in Conns : ~(d \in signed /\ Account(d) = Account(c)) /\ name[d] = n

\* alex, else the first free alex#n.
FreshName(c) == CHOOSE n \in 1..(Cardinality(Conns) + 1) :
                  ~Taken(c, n) /\ \A m \in 1..(n - 1) : Taken(c, m)

\* (mutant) only sessions already in game are kicked
Duplicates_playing(c) == {d \in Playing \ {c} : Account(d) = Account(c)}

\* kick_duplicate_login: the other verified sessions of c's account.
Duplicates(c) == {d \in signed \ {c} : Account(d) = Account(c)}

\* finish_external_auth of a verified login.
Admit(c) ==
  /\ signed' = signed \union {c}
  /\ name' = [name EXCEPT ![c] = FreshName(c)]
  /\ Advance(c, "AwaitingAssetManifestRequest", <<Msg("AuthResult")>>)

\* finish_auth of a refusal: the verifier's, the pack's veto, or an outage.
Refuse(c) ==
  /\ srv' = [srv EXCEPT ![c] = "Closed"]
  /\ out' = SendTo(c, <<Msg("AuthRefused"), Msg("Disconnect")>>)
  /\ Blame(c, "AuthFailed")
  /\ UNCHANGED <<signed, name, left>>

\* current_player_count() < max_players
HasRoom == Cardinality(Playing) < MaxPlayers

OnAuth(c) ==
  /\ Polled(c, "Auth") /\ srv[c] = "AwaitingAuth" /\ Consume(c)
  /\ \/ ~HasRoom /\ Fail(c, "ServerFull")
     \/ HasRoom /\ "unavailable" \in Outcomes /\ Fail(c, "AuthFailed")
     \/ /\ HasRoom /\ "later" \in VerdictTimes
        /\ srv' = [srv EXCEPT ![c] = "VerifyingAuth"]
        /\ UNCHANGED <<net, out, open, signed, name, left, why>>
     \/ /\ HasRoom /\ "inline" \in VerdictTimes /\ "refused" \in Outcomes
        /\ Refuse(c) /\ Drop({c})
     \/ /\ HasRoom /\ "inline" \in VerdictTimes /\ "verified" \in Outcomes
        /\ Admit(c) /\ Drop(Duplicates(c))
        /\ UNCHANGED <<left, why>>
  /\ UNCHANGED <<phase, sweepVars, clientVars>>

OnAssetManifestRequest(c) ==
  /\ Polled(c, "AssetManifestRequest") /\ srv[c] = "AwaitingAssetManifestRequest" /\ Consume(c)
  /\ Advance(c, "AwaitingAssetRequest", <<Msg("AssetManifest")>>)
  /\ UNCHANGED <<phase, net, open, signed, name, left, sweepVars, clientVars, why>>

OnAssetRequest(c) ==
  /\ Polled(c, "AssetRequest") /\ srv[c] = "AwaitingAssetRequest" /\ Consume(c)
  /\ LET n == Cardinality(Head(inbox[c]).arg) IN
       /\ left' = [left EXCEPT ![c] = n]
       /\ srv' = [srv EXCEPT ![c] = IF n = 0 THEN "AwaitingReady" ELSE "StreamingAssets"]
  /\ UNCHANGED <<phase, net, out, open, signed, name, sweepVars, clientVars, why>>

\* The client enters the game; the players learn of each other.
OnReady(c) ==
  /\ Polled(c, "Ready") /\ srv[c] = "AwaitingReady" /\ Consume(c)
  /\ srv' = [srv EXCEPT ![c] = "Playing"]
  /\ out' = [d \in Conns |->
       IF ~Reads(d) THEN out[d]
       ELSE IF d = c THEN out[d] \o <<Msg("JoinAccept"), MsgOf("PlayerList", Playing)>>
       ELSE IF d \in Playing THEN Append(out[d], MsgOf("PlayerJoin", {c})) ELSE out[d]]
  /\ UNCHANGED <<phase, net, open, signed, name, left, sweepVars, clientVars, why>>

Accepts == [AwaitingHello |-> "Hello", AwaitingAuth |-> "Auth",
            AwaitingAssetManifestRequest |-> "AssetManifestRequest",
            AwaitingAssetRequest |-> "AssetRequest", AwaitingReady |-> "Ready"]

\* Any other frame of a handshake in progress is a protocol violation.
OnUnexpected(c) ==
  /\ phase = "tick" /\ inbox[c] # <<>> /\ Head(inbox[c]).type \notin {"connected", "closed"}
  /\ srv[c] \in Handshaking \union {"Closed"}
  /\ srv[c] \in DOMAIN Accepts => Accepts[srv[c]] # Head(inbox[c]).type
  /\ Consume(c)
  /\ Fail(c, "BadHandshake")
  /\ UNCHANGED <<phase, sweepVars, clientVars>>

\* A frame of a player in game is gameplay, one of a forgotten connection is
\* nobody's: neither reaches the handshake.
BypassHandshake(c) ==
  /\ phase = "tick" /\ inbox[c] # <<>> /\ Head(inbox[c]).type \notin {"connected", "closed"}
  /\ srv[c] \in {"none", "Playing"}
  /\ Consume(c)
  /\ UNCHANGED <<phase, net, out, open, srv, signed, name, left, sweepVars, clientVars, why>>

HandleOne(c) ==
  \/ Accept(c) \/ Forget(c)
  \/ OnHello(c) \/ OnAuth(c) \/ OnAssetManifestRequest(c) \/ OnAssetRequest(c)
  \/ OnReady(c) \/ OnUnexpected(c) \/ BypassHandshake(c)

-----------------------------------------------------------------------------
(* Server: system_handshake_timeouts *)

\* (mutant) only connections that have work to do are visited
Unswept_busy == {c \in Conns : srv[c] \in {"StreamingAssets", "VerifyingAuth"} /\ c \notin swept}

\* Connections not in game that this tick has still to visit.
Unswept == {c \in Conns : srv[c] \in Handshaking \union {"Closed"} /\ c \notin swept}

Sweeping(c) ==
  /\ phase = "tick" /\ \A d \in Conns : inbox[d] = <<>>
  /\ c \in Unswept
  /\ swept' = swept \union {c}

\* Chunks one call of pump_assets sends when n are left.
Sent(n) == Min({n, AssetBudget})

\* (mutant) notices that the stream is finished only on the next call
Streamed_nextCall(n) == IF n < AssetBudget THEN "AwaitingReady" ELSE "StreamingAssets"

\* pump_assets leaves the state with the last chunk it queues; n are left.
Streamed(n) == IF n <= AssetBudget THEN "AwaitingReady" ELSE "StreamingAssets"

\* The end of one visit: connection c is in state s, ms goes out and, when the
\* connection's age exceeds its deadline, on_timeout() acts and it is dropped.
\* Ages are not counted: any visit may find the connection too old.
Conclude(c, s, ms, late) ==
  /\ IF late /\ s \in Handshaking
     THEN /\ srv' = [srv EXCEPT ![c] = "Closed"]
          /\ out' = SendTo(c, ms \o <<Msg("Disconnect")>>)
          /\ Blame(c, "Timeout")
     ELSE Advance(c, s, ms) /\ UNCHANGED why
  /\ dropping' = IF late THEN dropping \union {c} ELSE dropping

PumpAssets(c, late) ==
  /\ srv[c] = "StreamingAssets"
  /\ LET n == left[c] IN
       /\ left' = [left EXCEPT ![c] = n - Sent(n)]
       /\ Conclude(c, Streamed(n), [i \in 1..Sent(n) |-> Msg("AssetData")], late)
  /\ UNCHANGED <<signed, name, verified>>

\* The bytes on disk are no longer those of the manifest; the client is told
\* kProtocolError, though it asked for what it was offered.
PumpRefused(c) ==
  /\ srv[c] = "StreamingAssets" /\ PackChanges
  /\ srv' = [srv EXCEPT ![c] = "Closed"]
  /\ out' = SendTo(c, <<Msg("Disconnect")>>)
  /\ dropping' = dropping \union {c}
  /\ Blame(c, "PackChanged")
  /\ UNCHANGED <<left, signed, name, verified>>

\* poll_auth: the verdict has arrived.
VerdictRefused(c) ==
  /\ srv[c] = "VerifyingAuth" /\ "refused" \in Outcomes
  /\ Refuse(c)
  /\ dropping' = dropping \union {c}
  /\ UNCHANGED verified

VerdictVerified(c) ==
  /\ srv[c] = "VerifyingAuth" /\ "verified" \in Outcomes
  /\ Admit(c)
  /\ verified' = verified \union {c}
  /\ UNCHANGED <<left, dropping, why>>

\* Nothing to do but look at the clock.
VisitOnly(c, late) ==
  /\ srv[c] # "StreamingAssets"
  /\ Conclude(c, srv[c], <<>>, late)
  /\ UNCHANGED <<left, signed, name, verified>>

SweepOne(c, late) ==
  /\ Sweeping(c)
  /\ \/ PumpAssets(c, late) \/ VisitOnly(c, late)
     \/ ~late /\ (PumpRefused(c) \/ VerdictRefused(c) \/ VerdictVerified(c))
  /\ UNCHANGED <<phase, inbox, net, open, clientVars>>

EndTick ==
  /\ phase = "tick" /\ Unswept = {} /\ \A c \in Conns : inbox[c] = <<>>
  /\ phase' = "between"
  /\ Drop((UNION {Duplicates(c) : c \in verified}) \union dropping)
  /\ swept' = {} /\ verified' = {} /\ dropping' = {}
  /\ UNCHANGED <<inbox, out, srv, signed, name, left, clientVars, why>>

-----------------------------------------------------------------------------
(* Client: ClientSession::tick and ClientHandshake::on_frame *)

Send(c, ms) == net' = [net EXCEPT ![c] = IF c \in open THEN @ \o ms ELSE @]

Become(c, s) == cli' = [cli EXCEPT ![c] = s]

Connect(c) ==
  /\ cli[c] = "Offline"
  /\ Become(c, "Dialing") /\ Send(c, <<Msg("connected")>>)
  /\ UNCHANGED <<serverVars, out, need, roster, strayed, why>>

\* The client's own kConnected: start().
Start(c) ==
  /\ cli[c] = "Dialing"
  /\ Become(c, "Connecting") /\ Send(c, <<Msg("Hello")>>)
  /\ UNCHANGED <<serverVars, out, need, roster, strayed, why>>

\* The next frame client c reads is of this type.
Receive(c, type) ==
  /\ Reads(c) /\ out[c] # <<>> /\ Head(out[c]).type = type
  /\ out' = [out EXCEPT ![c] = Tail(@)]

OnServerInfo(c) ==
  /\ cli[c] = "Connecting" /\ Receive(c, "ServerInfo")
  /\ Become(c, "AwaitingChallenge")
  /\ UNCHANGED <<serverVars, net, need, roster, strayed, why>>

OnChallenge(c) ==
  /\ cli[c] = "AwaitingChallenge" /\ Receive(c, "Challenge")
  /\ Become(c, "SigningIn")
  /\ UNCHANGED <<serverVars, net, need, roster, strayed, why>>

\* poll(): the sign-in in the browser is done; cancelling it is GiveUp.
SignedIn(c) ==
  /\ cli[c] = "SigningIn"
  /\ Become(c, "Authenticating") /\ Send(c, <<Msg("Auth")>>)
  /\ UNCHANGED <<serverVars, out, need, roster, strayed, why>>

OnAuthResult(c) ==
  /\ cli[c] = "Authenticating" /\ Receive(c, "AuthResult")
  /\ Become(c, "AwaitingAssetManifest") /\ Send(c, <<Msg("AssetManifestRequest")>>)
  /\ UNCHANGED <<serverVars, need, roster, strayed, why>>

\* The cache misses some chunks' worth of assets, or none.
OnAssetManifest(c) ==
  /\ cli[c] = "AwaitingAssetManifest" /\ Receive(c, "AssetManifest")
  /\ \E n \in 0..MaxChunks :
       /\ need' = [need EXCEPT ![c] = n]
       /\ Become(c, IF n = 0 THEN "Syncing" ELSE "SyncingAssets")
       /\ Send(c, <<MsgOf("AssetRequest", 1..n)>> \o (IF n = 0 THEN <<Msg("Ready")>> ELSE <<>>))
  /\ UNCHANGED <<serverVars, roster, strayed, why>>

OnAssetData(c) ==
  /\ cli[c] = "SyncingAssets" /\ Receive(c, "AssetData")
  /\ need' = [need EXCEPT ![c] = @ - 1]
  /\ IF need[c] > 1 THEN UNCHANGED <<cli, net>>
     ELSE Become(c, "Syncing") /\ Send(c, <<Msg("Ready")>>)
  /\ UNCHANGED <<serverVars, roster, strayed, why>>

OnJoinAccept(c) ==
  /\ cli[c] = "Syncing" /\ Receive(c, "JoinAccept")
  /\ Become(c, "Joined")
  /\ UNCHANGED <<serverVars, net, need, roster, strayed, why>>

\* apply_gameplay_frame: the roster frames.
OnRoster(c) ==
  /\ cli[c] = "Joined"
  /\ \E type \in {"PlayerList", "PlayerJoin", "PlayerLeave"} :
       /\ Receive(c, type)
       /\ LET who == Head(out[c]).arg IN
            roster' = [roster EXCEPT ![c] =
              IF type = "PlayerList" THEN who
              ELSE IF type = "PlayerJoin" THEN @ \union who ELSE @ \ who]
  /\ UNCHANGED <<serverVars, net, cli, need, strayed, why>>

Expects == [Connecting |-> "ServerInfo", AwaitingChallenge |-> "Challenge",
            Authenticating |-> "AuthResult", AwaitingAssetManifest |-> "AssetManifest",
            SyncingAssets |-> "AssetData", Syncing |-> "JoinAccept"]

\* Any other frame ends the join, except while syncing, when it is held back
\* as early gameplay, even a Disconnect.
OnOtherFrame(c) ==
  /\ cli[c] \in (DOMAIN Expects) \union {"Dialing", "SigningIn"}
  /\ \E type \in {"ServerInfo", "Challenge", "AuthResult", "AuthRefused", "AssetManifest",
                   "AssetData", "JoinAccept", "PlayerList", "PlayerJoin", "PlayerLeave",
                   "Disconnect"} :
       /\ Receive(c, type)
       /\ cli[c] \in DOMAIN Expects => type # Expects[cli[c]]
       /\ IF cli[c] = "Syncing" THEN UNCHANGED <<cli, why>>
          ELSE /\ Become(c, "Failed")
               /\ IF type \in {"Disconnect", "AuthRefused"} THEN UNCHANGED why
                  ELSE Blame(c, "unexpected frame")
  /\ UNCHANGED <<serverVars, net, need, roster, strayed>>

\* The client learns that the server closed; frames not yet read are lost.
LoseServer(c) ==
  /\ c \notin open /\ cli[c] \notin {"Offline", "Failed", "Gone"}
  /\ Become(c, "Failed")
  /\ out' = [out EXCEPT ![c] = <<>>]
  /\ UNCHANGED <<serverVars, net, need, roster, strayed, why>>

\* Quit, crash, cancel, lost link, or the end of a failed join.
GiveUp(c) ==
  /\ cli[c] \notin {"Offline", "Gone"}
  /\ Become(c, "Gone")
  /\ net' = [net EXCEPT ![c] = IF c \in open THEN <<Msg("closed")>> ELSE @]
  /\ out' = [out EXCEPT ![c] = <<>>]
  /\ UNCHANGED <<serverVars, need, roster, strayed, why>>

\* A client of another build or with a fault sends a Ready too many.
Stray(c) ==
  /\ c \in Strays \ strayed /\ cli[c] \notin {"Offline", "Dialing", "Failed", "Gone"}
  /\ strayed' = strayed \union {c}
  /\ Send(c, <<Msg("Ready")>>)
  /\ UNCHANGED <<serverVars, out, cli, need, roster, why>>

ClientStep(c) ==
  \/ Connect(c) \/ Start(c) \/ OnServerInfo(c) \/ OnChallenge(c) \/ SignedIn(c)
  \/ OnAuthResult(c) \/ OnAssetManifest(c) \/ OnAssetData(c) \/ OnJoinAccept(c)
  \/ OnRoster(c) \/ OnOtherFrame(c) \/ Stray(c)

-----------------------------------------------------------------------------
ServerStep ==
  Poll \/ EndTick \/ \E c \in Conns : HandleOne(c) \/ SweepOne(c, FALSE) \/ SweepOne(c, TRUE)

Next ==
  \/ ServerStep
  \/ \E c \in Conns : ClientStep(c) \/ LoseServer(c) \/ GiveUp(c)

Spec == Init /\ [][Next]_vars

\* The server's one thread ticks forever, and a connection that stays in its handshake
\* grows old: tick after tick its age increases and is reset at most once.
\* Nothing is assumed of the clients nor of the verifier.
Fairness ==
  /\ WF_vars(ServerStep)
  /\ \A c \in Conns : SF_vars(SweepOne(c, TRUE))

FairSpec == Spec /\ Fairness

-----------------------------------------------------------------------------
\* Peers, sessions, the queues between them and the roster hold what session.hpp
\* and handshake.hpp declare; a sweep verifies and drops only peers it has visited.
TypeOK ==
  /\ phase \in {"between", "tick"}
  /\ open \subseteq Conns /\ signed \subseteq Conns
  /\ srv \in [Conns -> ServerStates]
  /\ cli \in [Conns -> ClientStates]
  /\ name \in [Conns -> 0..(Cardinality(Conns) + 1)]
  /\ left \in [Conns -> 0..MaxChunks]
  /\ need \in [Conns -> 0..MaxChunks]
  /\ roster \in [Conns -> SUBSET Conns]
  /\ swept \subseteq Conns /\ verified \subseteq swept /\ dropping \subseteq swept
  /\ why \in [Conns -> {"none", "BadHandshake", "PackChanged", "ServerFull", "AuthFailed",
                        "Timeout", "unexpected frame"}]

\* A client that follows the protocol is never told it broke it, and never
\* sees a frame it does not expect, however its frames fall into the
\* server's ticks and the stream's send budget, and whatever others do, except
\* by pump_assets about a file that changed on the server's disk.
HonestNeverRejected ==
  \A c \in Conns \ Strays : why[c] \notin {"BadHandshake", "unexpected frame"}

\* Two connections of different accounts never go by the same name, from the
\* moment resolve_name gives it, in the middle of a handshake, to the disconnect.
UniqueNames ==
  \A c, d \in Conns : Account(c) # Account(d) /\ name[c] # 0 => name[c] # name[d]

\* An account is never in game twice: the older session is out of conns_
\* before the newer one, verified while the older was anywhere in its own
\* handshake, gets to play.
OneSessionPerAccount ==
  \A c, d \in Playing : Account(c) = Account(d) => c = d

\* Both: no two players are taken for each other, and none plays against themself.
SessionsAreUnique == UniqueNames /\ OneSessionPerAccount

\* A client in game that has read its frames (S2CPlayerList, PlayerJoin and
\* PlayerLeave) knows exactly who else is.
RosterIsTrue ==
  \A c \in Playing :
    Reads(c) /\ cli[c] = "Joined" /\ out[c] = <<>> => roster[c] = Playing \ {c}

\* A kick is a close without any other blame by the server while the client was
\* still there.
Kicked == {c \in signed \ open : why[c] = "none"}

\* Whoever is kicked as "signed in elsewhere" leaves a newer session of the
\* account behind: kick_duplicate_login never refuses the newcomer.
KickLeavesNewcomer ==
  [][\A c \in Kicked' \ Kicked :
       \E d \in signed' \intersect open' : d # c /\ Account(d) = Account(c)]_vars

\* Every handshake ends, in game or not at all, whatever the client does:
\* system_handshake_timeouts gets to each of them.
HandshakeEnds ==
  \A c \in Conns : srv[c] \in Handshaking \union {"Closed"} ~> srv[c] \in {"Playing", "none"}
=============================================================================
