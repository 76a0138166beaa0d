------------------------------- MODULE ClientShell -------------------------------
(* The client around the game: its menus, the attempts to connect, to a world of   *)
(* its own (Singleplayer) or to a server (RemoteConnection), signing in, and the   *)
(* loading screen (ClientApp::frame, begin_connect, enter_playing; main).  Of a    *)
(* session only its handshake's status is here.  `client` is a pointer into one of *)
(* two objects that come and go.                                                   *)
EXTENDS Integers

CONSTANTS
  TickBudget,      \* ticks that joining one's own world may take
  Expected,        \* chunks that the loading screen waits for
  MaxAttempts      \* bound: attempts to connect

VARIABLES
  state,           \* AppState, or "ended"
  single,          \* connecting_singleplayer
  sp, remote,      \* the status of the two sessions, "none" without, "empty" if not even tried
  client,          \* ClientApp::client: "null", "sp" or "remote"
  signIn,          \* whose ticket sign_in answers, "none" without
  ticks,           \* connect_ticks
  late,            \* connect_deadline is over
  uploaded, stalled, hard,   \* chunks on the GPU; loading_deadline, loading_hard_deadline over
  played,          \* history: the session that was joined when the game began
  attempts

sessionVars == <<single, sp, remote, client, signIn>>
clockVars == <<ticks, late, stalled, hard>>
vars == <<state, sessionVars, clockVars, uploaded, played, attempts>>

Statuses == {"connecting", "signing", "syncing", "joined", "failed"}

\* The session of this attempt.
Current == IF single THEN sp ELSE remote

\* What a tick may make of it, by what the server sends or a connection that breaks.
After(status) ==
  CASE status = "connecting" -> Statuses
    [] status = "signing" -> {"signing", "syncing", "failed"}
    [] status = "syncing" -> {"syncing", "joined", "failed"}
    [] status = "joined" -> {"joined", "failed"}
    [] OTHER -> {status}

\* A session is ticked; the other one is not there.
Tick(status) ==
  IF single THEN sp' = status /\ UNCHANGED remote ELSE remote' = status /\ UNCHANGED sp

Init ==
  /\ state = "menu"
  /\ single = FALSE /\ sp = "none" /\ remote = "none" /\ client = "null" /\ signIn = "none"
  /\ ticks = 0 /\ late = FALSE /\ uploaded = 0 /\ stalled = FALSE /\ hard = FALSE
  /\ played = "none" /\ attempts = 0

-----------------------------------------------------------------------------
\* (mutant) the pointer is left where it was
Forgotten_kept == client

\* The pointer when the sessions go.
Forgotten == "null"

\* A connection to a server, whose address may be bad.
Dial(can) == remote' = (IF can THEN "connecting" ELSE "empty") /\ sp' = "none"

\* A world of one's own, its server and a client of it; a saved world that was made with other
\* blocks is refused, and the world is dropped again.
OwnWorld(can) == sp' = (IF can THEN "connecting" ELSE "none") /\ remote' = "none"

\* What answers the sign-in, should the server ask for one, is made for each session.
InstallSignIn(own, can) == signIn' = IF ~can THEN "none" ELSE IF own THEN "sp" ELSE "remote"

\* An attempt starts afresh, with what was there before gone.
BeginConnect(own) ==
  /\ attempts < MaxAttempts
  /\ attempts' = attempts + 1
  /\ single' = own /\ client' = Forgotten /\ ticks' = 0 /\ late' = FALSE
  /\ \E can \in BOOLEAN :
       /\ IF own THEN OwnWorld(can) ELSE Dial(can)
       /\ InstallSignIn(own, can)
       /\ state' = IF can THEN "connecting" ELSE "error"
  /\ UNCHANGED <<uploaded, stalled, hard, played>>

Goes(to) == state' = to /\ UNCHANGED <<sessionVars, clockVars, uploaded, played, attempts>>

Menu ==
  /\ state = "menu"
  /\ \/ \E own \in BOOLEAN : BeginConnect(own)
     \/ Goes("settings") \/ Goes("ended")

Settings == state = "settings" /\ (Goes("menu") \/ Goes("keybindings"))
Keybindings == state = "keybindings" /\ Goes("settings")
Error == state = "error" /\ Goes("menu")

\* The player calls the attempt off; what answers its sign-in goes only with that screen.
Cancel(ticket) ==
  /\ sp' = "none" /\ remote' = "none" /\ client' = Forgotten /\ signIn' = ticket
  /\ state' = "menu"
  /\ UNCHANGED <<single, clockVars, uploaded, played, attempts>>

EnterPlaying ==
  /\ client' = IF single THEN "sp" ELSE "remote"
  /\ state' = "loading"
  /\ uploaded' = 0 /\ stalled' = FALSE /\ hard' = FALSE
  /\ played' = IF single THEN "sp" ELSE "remote"

\* (mutant) one's own world may take any time
Over_remote(n) == ~single /\ late

\* The attempt has taken too long.
Over(n) == IF single THEN n >= TickBudget ELSE late

\* The player of one's own world signs in, for as long as it takes: this is looked at before the
\* tick, and no tick counts.
SigningIn(status) ==
  /\ state = "connecting" /\ single /\ sp = "signing"
  /\ Tick(status)
  /\ ticks' = 0
  /\ UNCHANGED <<state, single, client, signIn, late, stalled, hard, uploaded, played, attempts>>

\* Any other frame of an attempt: the session is ticked and then looked at.
Connecting(status) ==
  LET n == IF single THEN ticks + 1 ELSE ticks
      over == status = "failed" \/ Over(n)
  IN  /\ state = "connecting" /\ ~(single /\ sp = "signing")
      /\ Tick(status)
      /\ ticks' = n
      /\ IF status = "joined" THEN EnterPlaying
         ELSE /\ client' = IF single THEN "sp" ELSE "remote"
              /\ state' = IF over THEN "error" ELSE state
              /\ UNCHANGED <<uploaded, played, stalled, hard>>
      /\ UNCHANGED <<single, signIn, late, attempts>>

Attempt ==
  state = "connecting" /\ \E status \in After(Current) : SigningIn(status) \/ Connecting(status)

\* Part of the frames above: the screens they draw have a button.
CallOff ==
  /\ state = "connecting" /\ Current \notin {"joined", "failed"}
  /\ Cancel(IF Current = "signing" THEN "none" ELSE signIn)

\* While the world comes in, the session is ticked whatever its status, and what reaches the
\* screen pushes the stall deadline on.
Loading ==
  /\ state = "loading"
  /\ \E status \in After(Current) : Tick(status)
  /\ \E n \in uploaded .. Expected :
       /\ uploaded' = n
       /\ stalled' = (stalled /\ n = uploaded)
       /\ state' = IF n >= Expected \/ stalled' \/ hard THEN "playing" ELSE "loading"
  /\ UNCHANGED <<single, client, signIn, ticks, late, hard, played, attempts>>

\* Time passes: the clocks run out.  While a player signs in to a server each frame pushes the
\* deadline on (draw_sign_in).
Clock ==
  \/ /\ state = "connecting" /\ ~single /\ ~late /\ Current # "signing"
     /\ late' = TRUE
     /\ UNCHANGED <<ticks, stalled, hard>>
     /\ UNCHANGED <<state, sessionVars, uploaded, played, attempts>>
  \/ /\ state = "loading" /\ ~(stalled /\ hard)
     /\ \/ stalled' = TRUE /\ UNCHANGED hard
        \/ hard' = TRUE /\ stalled' = TRUE
     /\ UNCHANGED <<ticks, late>>
     /\ UNCHANGED <<state, sessionVars, uploaded, played, attempts>>

\* The game goes on until the window is closed, whatever becomes of the session.
Playing ==
  /\ state = "playing"
  /\ \E status \in After(Current) : Tick(status)
  /\ UNCHANGED <<state, single, client, signIn, clockVars, uploaded, played, attempts>>

CloseWindow == state # "ended" /\ Goes("ended")

Frame == Attempt \/ Loading

Next ==
  \/ Menu \/ Settings \/ Keybindings \/ Error
  \/ Frame \/ CallOff \/ Clock \/ Playing \/ CloseWindow

\* What waits for the player's sign-in goes on.
SignInAnswered ==
  \E status \in After("signing") \ {"signing"} :
    SigningIn(status) \/ (Current = "signing" /\ Connecting(status))

\* Frames come and clocks run; a sign-in is answered or the server times it out
\* (auth_timeout_seconds), and a dead connection is noticed.
Fairness == WF_vars(Frame) /\ WF_vars(Clock) /\ WF_vars(SignInAnswered)

Spec == Init /\ [][Next]_vars /\ Fairness

-----------------------------------------------------------------------------
TypeOK ==
  /\ sp \in Statuses \cup {"none"} /\ remote \in Statuses \cup {"none", "empty"}
  /\ client \in {"null", "sp", "remote"} /\ signIn \in {"none", "sp", "remote"}
  /\ ticks \in 0 .. TickBudget /\ uploaded \in 0 .. Expected

Here(session) == session \notin {"none", "empty"}

\* The pointer to the session points at one that is there and, in the game, at the one that
\* joined; there is one session at most, and what answers its sign-in is there as long as it is
\* (ClientApp::begin_connect, frame, draw_sign_in, enter_playing).
SessionsLive ==
  /\ client = "sp" => Here(sp)
  /\ client = "remote" => Here(remote)
  /\ ~(Here(sp) /\ Here(remote))
  /\ Here(sp) => signIn = "sp"
  /\ Here(remote) => signIn = "remote"
  /\ state \in {"loading", "playing"} => client # "null" /\ client = played
  /\ state = "connecting" => Here(Current)

\* Every attempt to connect ends, in the game, in an error or in the menu, however silent the
\* server, and the loading screen ends (connect_deadline, loading_hard_deadline).
AttemptsEnd == state \in {"connecting", "loading"} ~> state \notin {"connecting", "loading"}
=============================================================================
