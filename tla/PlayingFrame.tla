------------------------------ MODULE PlayingFrame ------------------------------
(* A frame of the client while the game is played (ClientApp::frame, kPlaying):    *)
(* the screens of the pack (UiRuntime), the chat box, and who has the mouse.  The  *)
(* scripts of the pack run where the code calls them: to lay out the HUD or a      *)
(* screen, on a widget of either, and when the screen closes.  Each does one thing *)
(* at a time.                                                                      *)
EXTENDS Integers, Sequences

CONSTANTS
  Screens,         \* names of screens that the server opens
  Defined,         \* those the pack has defined
  None,            \* no screen
  MaxOpens         \* bound: screens opened

VARIABLES
  pc,              \* "input", "hud", "layout" or "screen"
  asked,           \* ClientSession::pending_open_ui_
  name,            \* UiRuntime's current_name
  layout,          \* what the last layout left: whether it has widgets, a close handler
                   \* and a wish to capture the mouse on closing
  hud,             \* current_widget_is_hud
  request,         \* capture_request
  chat,            \* chat_open
  captured, pending, suppress,   \* mouse_captured, pending_capture_, suppress_primary_
  down,            \* the left button
  cmd,             \* what the last input tells the server of the left button: the bit of
                   \* its buttons and that of its keybinds
  pressedOn,       \* history: what the button was pressed on
  wished,          \* history: the pack wants the mouse captured, and nothing came between
  opened,          \* history: the screens opened so far, and how each of them ended: "amiss"
                   \* is a close by the HUD, or by the layout of the HUD or the screen after a
                   \* click on the HUD, and one whose handler closes again
  events           \* history: the name under which the server got to know of each end

uiVars == <<name, layout, hud, request, opened, events>>
mouseVars == <<captured, pending, suppress, down, cmd, pressedOn, wished>>
vars == <<pc, asked, uiVars, chat, mouseVars>>

Empty == [widgets |-> FALSE, handler |-> FALSE, capture |-> FALSE]
Requests == {"none", "capture", "release"}

Init ==
  /\ pc = "input" /\ asked = None /\ name = None /\ layout = Empty /\ hud = FALSE
  /\ request = "none" /\ chat = FALSE /\ captured = FALSE /\ pending = FALSE /\ suppress = FALSE
  /\ down = FALSE /\ cmd = [button |-> FALSE, keybind |-> FALSE]
  /\ pressedOn = "nothing" /\ wished = FALSE /\ opened = <<>> /\ events = <<>>

-----------------------------------------------------------------------------
(* The screens.                                                                *)

\* Opening over another screen drops that one without a word; its wish to capture stays.
Open(screen) ==
  IF screen \in Defined
  THEN /\ name' = screen
       /\ layout' = [Empty EXCEPT !.capture = layout.capture]
       /\ opened' = Append([i \in DOMAIN opened |->
                              IF opened[i].end = "open" THEN [opened[i] EXCEPT !.end = "replaced"]
                              ELSE opened[i]],
                           [screen |-> screen, end |-> "open"])
       /\ events' = Append(events, <<>>)
  ELSE UNCHANGED <<name, layout, opened, events>>

\* Under which name the server hears of it: that of the screen, unless the last widget that was
\* touched is of the HUD.
Sender(ofHud) == IF ofHud THEN "hud" ELSE name

\* The screen's own wish first, then the caller's, then what the close handler asks for.  One
\* that closes again, by mistake, goes through all of it before the name is cleared.
Close(left, wish, handler, ofHud, end) ==
  LET own == IF left.capture THEN "capture" ELSE request
      wanted == IF wish = "none" THEN own ELSE wish
      sender == Sender(ofHud)
      last == Len(opened)
      again == left.handler /\ handler = "again"
  IN  /\ name # None
      /\ request' = IF left.handler /\ handler \in {"capture", "release"} THEN handler
                    ELSE IF again /\ left.capture THEN "capture" ELSE wanted
      /\ events' = [events EXCEPT ![last] = @ \o IF again THEN <<sender, sender>> ELSE <<sender>>]
      /\ opened' = [opened EXCEPT ![last].end = IF again THEN "amiss" ELSE end]
      /\ name' = None /\ layout' = Empty

\* What a close handler may do: nothing, ask for the mouse or close again.
Handlers == Requests \cup {"again"}

\* What a script may do besides: ask for the mouse, or close the screen.
Call(ofHud, end) ==
  \/ \E r \in Requests \ {"none"} :
       request' = r /\ UNCHANGED <<name, layout, opened, events>>
  \/ \E wish \in Requests, h \in Handlers : Close(layout, wish, h, ofHud, end)

\* How a close from a layout ends: nothing takes the flag of the last click back.
FromLayout == IF hud THEN "amiss" ELSE "closed"

-----------------------------------------------------------------------------
(* The steps of a frame.                                                       *)

ServerOpens(screen) ==
  /\ pc = "input" /\ Len(opened) + (IF asked = None THEN 0 ELSE 1) < MaxOpens
  /\ asked' = screen
  /\ UNCHANGED <<pc, uiVars, chat, mouseVars>>

\* The chat box: Escape drops what is typed, Enter sends it or opens the box.
Chatting(key, screenOpen) ==
  CASE chat -> key \notin {"escape", "enter"}
    [] OTHER -> key = "enter" /\ ~screenOpen

\* (mutant) a request is looked at in one frame only
Waits_now(key, wish) == key \notin {"tab", "escape"} /\ wish = "capture"

\* Whether a capture waits, after the latest request was taken: as long as something needs the
\* cursor, unless the player or the pack calls it off.
Waits(key, wish) ==
  key \notin {"tab", "escape"} /\ (wish = "capture" \/ (wish = "none" /\ pending))

\* (mutant) the button is held back only if it goes down in the same frame
Held_pressed(before, after, landed) == after /\ (landed /\ ~before)

\* Whether the button is held back: from a capture that the pack asked for until it is up.
Held(before, after, landed) == after /\ (landed \/ suppress)

\* What is sent of the button: with the mouse captured, a bit of the buttons, which the frame may
\* hold back, and that of the engine's keybind of the same button.
InputCmd(has, button, held) == [button |-> has /\ button /\ ~held, keybind |-> has /\ button]

\* Keys and button, as they are at the start of a frame, become the mouse's state and the
\* input command; a capture waits while something needs the cursor.
Input(key, button) ==
  LET screenOpen == name' # None
      chatting == Chatting(key, screenOpen)
      busy == screenOpen \/ chatting
      waits == Waits(key, request)
      release == key \in {"tab", "escape"} \/ request = "release"
      landed == ~busy /\ waits /\ ~captured
      clicked == ~busy /\ ~release /\ ~waits /\ button /\ ~down
      has == ~busy /\ ~release /\ (captured \/ landed \/ clicked)
      held == Held(down, button, landed)
      free == captured \/ (name = None /\ ~chatting)
  IN  /\ pc = "input"
      /\ IF asked = None THEN UNCHANGED <<name, layout, opened, events>> ELSE Open(asked)
      /\ asked' = None
      /\ chat' = chatting
      /\ request' = "none"
      /\ captured' = has
      /\ pending' = (waits /\ busy)
      /\ suppress' = held
      /\ down' = button
      /\ cmd' = InputCmd(has, button, held)
      /\ pressedOn' = CASE ~button -> "nothing"
                        [] button /\ ~down -> IF free THEN "game" ELSE "screen"
                        [] OTHER -> pressedOn
      /\ wished' = (~release /\ ~has /\ (request = "capture" \/ wished))
      /\ pc' = "hud"
      /\ UNCHANGED hud

\* A click, a change or a choice in the HUD; it may close the screen beneath.
HudCallback ==
  /\ pc = "hud"
  /\ Call(TRUE, "amiss")
  /\ hud' = TRUE
  /\ UNCHANGED <<pc, asked, chat, mouseVars>>

\* The layout of the HUD may do it too.
HudLayout ==
  /\ pc = "hud"
  /\ Call(hud, FromLayout)
  /\ UNCHANGED <<pc, asked, hud, chat, mouseVars>>

ToLayout ==
  /\ pc = "hud"
  /\ pc' = IF name = None THEN "input" ELSE "layout"
  /\ UNCHANGED <<asked, uiVars, chat, mouseVars>>

\* What the screen's function leaves; an error leaves all as it was.
Layouts == [widgets : {TRUE}, handler : BOOLEAN, capture : BOOLEAN] \cup {layout}

Layout ==
  /\ pc = "layout"
  /\ layout' \in Layouts
  /\ pc' = "screen"
  /\ UNCHANGED <<asked, name, hud, request, opened, events, chat, mouseVars>>

\* The function asks to be closed, which is done once it has returned.
LayoutCloses ==
  /\ pc = "layout"
  /\ \E left \in Layouts, wish \in Requests, h \in Handlers :
       Close(left, wish, h, hud, FromLayout)
  /\ pc' = "input"
  /\ UNCHANGED <<asked, hud, chat, mouseVars>>

\* (mutant) the flag of the HUD is left alone
Origin_kept == hud

\* A widget of a screen is none of the HUD.
Origin == FALSE

\* A click, a change or a choice in the screen: only while its widgets are there.
Callback ==
  /\ pc = "screen" /\ layout.widgets
  /\ hud' = Origin
  /\ \/ Call(Origin, "closed")
     \/ UNCHANGED <<name, layout, request, opened, events>>
  /\ UNCHANGED <<pc, asked, chat, mouseVars>>

EndFrame ==
  /\ pc = "screen"
  /\ pc' = "input"
  /\ UNCHANGED <<asked, uiVars, chat, mouseVars>>

Next ==
  \/ \E screen \in Screens : ServerOpens(screen)
  \/ \E key \in {"none", "enter", "escape", "tab"}, button \in BOOLEAN : Input(key, button)
  \/ HudCallback \/ HudLayout \/ ToLayout \/ Layout \/ LayoutCloses \/ Callback \/ EndFrame

Spec == Init /\ [][Next]_vars

-----------------------------------------------------------------------------
TypeOK ==
  /\ name \in Defined \cup {None} /\ asked \in Screens \cup {None}
  /\ request \in Requests /\ pressedOn \in {"nothing", "game", "screen"}
  /\ name = None => ~layout.widgets
  /\ pending => ~captured

\* The server is told of the end of each screen, unless another screen took its place, and once
\* and under the screen's name, unless it was closed amiss (UiRuntime::Impl::do_close,
\* evaluate_frame, run_callback).
EndsAreTold ==
  \A i \in DOMAIN opened :
    /\ events[i] = <<>> <=> opened[i].end \in {"open", "replaced"}
    /\ opened[i].end = "closed" => events[i] = <<opened[i].screen>>

\* A press of the button that was made on a screen never reaches the server as a button of the
\* game, even if the screen closes and the mouse is captured under it (suppress_primary_).
PunchIsMeant == pressedOn = "screen" => ~cmd.button

\* docs/lua-api.md:649 says so of all that is sent, "the click that closed the screen is not
\* sent as an attack/break"; the keybind of the same button is sent (sample_input_cmd).
NoPunchAtAll == pressedOn = "screen" => ~cmd.button /\ ~cmd.keybind

\* A capture that the pack asked for waits until neither a screen nor the chat box needs the
\* cursor, and is done then, unless it is called off (ClientApp::frame, take_capture_request).
CaptureIsKept ==
  [][pc = "input" /\ pc' = "hud" /\ wished' => name' # None \/ chat']_vars
=============================================================================
