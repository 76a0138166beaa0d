------------------------------ MODULE Automation ------------------------------
(* The automation channel of a development build: a harness sends requests, a   *)
(* reader thread queues them, and the loop of the client or the server answers  *)
(* them between its frames, at once or when what they ask for has happened      *)
(* (automation::Host, TcpChannel, ClientAutomationEndpoint).  A request is its   *)
(* number; 0 is a line that does not parse.                                      *)
EXTENDS Integers, Sequences, Functions

CONSTANTS
  MaxClients,   \* bound: harnesses that attach, one after the other
  MaxRequests,  \* bound: requests sent
  MaxFrames     \* bound: frames a request may ask for

AutomationBounds == MaxClients \in Nat \ {0} /\ MaxRequests \in Nat /\ MaxFrames \in Nat

Requests == 1..MaxRequests
Kinds == {"now", "wait", "step", "act", "quit"}
Half == MaxRequests + 1   \* the beginning of a line, its sender gone

VARIABLES
  tcp, manual,    \* options: the transport, and --automation-clock
  attached,       \* harnesses so far
  present,        \* is the last one still there?
  stream,         \* lines it has sent, up to the reader
  line,           \* the reader has the beginning of a line
  queue, eof,     \* Host::Shared
  pc,             \* the loop: pump, dispatch, frame, over
  batch, sawEof,  \* pump()'s copies of the queue and of eof ...
  idle,           \* ... and whether the queue was empty
  waits, steps,   \* waits_, in whatever order, and steps_
  tasks,          \* the endpoint's actions that take frames, in whatever order
  playing,        \* has the client a session?
  quit_,
  asked,          \* history: what each request was
  answers,        \* history: how often each was answered
  swallowed,      \* history: requests that became part of another's line
  frames          \* history: while the clock was manual, frames run for each step, or (0) for none

harness == <<tcp, manual, attached, present, asked>>
reader == <<stream, line, queue, eof, swallowed>>
host == <<pc, batch, sawEof, idle, waits, steps, tasks, playing, quit_, answers, frames>>
vars == <<harness, reader, host>>

Sent == 1..Len(asked)
Owed(promises) == {p.id : p \in promises}

TypeOK ==
  /\ tcp \in BOOLEAN /\ manual \in BOOLEAN
  /\ attached \in 0..MaxClients /\ present \in BOOLEAN
  /\ Range(stream) \subseteq Requests \union {Half} /\ line \in BOOLEAN
  /\ Range(queue) \union Range(batch) \subseteq 0..MaxRequests
  /\ eof \in BOOLEAN /\ sawEof \in BOOLEAN /\ idle \in BOOLEAN
  /\ pc \in {"pump", "dispatch", "frame", "over"}
  /\ waits \subseteq [id : Requests, late : BOOLEAN]
  /\ Range(steps) \subseteq [id : Requests, remaining : 1..MaxFrames]
  /\ tasks \subseteq [id : Requests, left : 1..MaxFrames]
  /\ playing \in BOOLEAN /\ quit_ \in BOOLEAN
  /\ Range(asked) \subseteq [kind : Kinds, frames : 1..MaxFrames]
  /\ answers \in [Requests -> 0..1] /\ swallowed \subseteq Requests
  /\ frames \in [Requests \union {0} -> Nat]

Init ==
  /\ tcp \in BOOLEAN /\ manual \in BOOLEAN
  /\ attached = (IF tcp THEN 0 ELSE 1) /\ present = ~tcp
  /\ stream = <<>> /\ line = FALSE /\ queue = <<>> /\ eof = FALSE
  /\ pc = "pump" /\ batch = <<>> /\ sawEof = FALSE /\ idle = FALSE
  /\ waits = {} /\ steps = <<>> /\ tasks = {}
  /\ playing = TRUE /\ quit_ = FALSE
  /\ asked = <<>> /\ answers = [r \in Requests |-> 0] /\ swallowed = {}
  /\ frames = [r \in Requests \union {0} |-> 0]

-----------------------------------------------------------------------------
(* The harness *)

Ask(kind, n) ==
  /\ present /\ Len(asked) < MaxRequests
  /\ kind \in {"step", "act"} \/ n = 1
  /\ asked' = Append(asked, [kind |-> kind, frames |-> n])
  /\ stream' = Append(stream, Len(asked) + 1)
  /\ UNCHANGED <<tcp, manual, attached, present, line, queue, eof, swallowed, host>>

\* It goes, perhaps in the middle of a line.
Leave ==
  /\ present /\ present' = FALSE
  /\ stream' \in {stream, Append(stream, Half)}
  /\ UNCHANGED <<tcp, manual, attached, asked, line, queue, eof, swallowed, host>>

-----------------------------------------------------------------------------
(* The reader thread *)

\* accept_and_authenticate, once read_some has seen the end of the last connection.
Accept ==
  /\ tcp /\ ~present /\ stream = <<>> /\ attached < MaxClients
  /\ present' = TRUE /\ attached' = attached + 1
  /\ UNCHANGED <<tcp, manual, asked, reader, host>>

\* One getline.  Over TCP the stream goes on with the next connection's bytes, so the
\* beginning of a line joins the next one; over stdio the end of input ends the line.
Read ==
  /\ stream # <<>> /\ stream' = Tail(stream)
  /\ LET l == Head(stream)
     IN \/ /\ l = Half /\ tcp /\ line' = TRUE
           /\ UNCHANGED <<queue, swallowed>>
        \/ /\ (l = Half /\ ~tcp) \/ (l # Half /\ line)
           /\ queue' = Append(queue, 0) /\ line' = FALSE
           /\ swallowed' = swallowed \union ({l} \ {Half})
        \/ /\ l # Half /\ ~line
           /\ queue' = Append(queue, l)
           /\ UNCHANGED <<line, swallowed>>
  /\ UNCHANGED <<eof, harness, host>>

\* The end of input, after the last line.
EndOfInput ==
  /\ ~tcp /\ ~present /\ stream = <<>> /\ ~eof
  /\ eof' = TRUE
  /\ UNCHANGED <<stream, line, queue, swallowed, harness, host>>

-----------------------------------------------------------------------------
(* The loop: Host::pump *)

Answer(ids) == answers' = [r \in Requests |-> answers[r] + (IF r \in ids THEN 1 ELSE 0)]

\* Under the mutex: the queue and eof together.
Pump ==
  /\ pc = "pump" /\ pc' = "dispatch"
  /\ batch' = queue /\ queue' = <<>>
  /\ sawEof' = eof /\ idle' = (queue = <<>>)
  /\ UNCHANGED <<stream, line, eof, swallowed, waits, steps, tasks, playing, quit_, answers,
                 frames, harness>>

\* dispatch: what is not answered is owed, by wait_for, step or an action.
Dispatch ==
  /\ pc = "dispatch" /\ batch # <<>> /\ batch' = Tail(batch)
  /\ LET id == Head(batch)
         req == asked[id]
         Now == /\ Answer({id}) /\ UNCHANGED <<waits, steps, tasks, quit_>>
         Later == UNCHANGED <<answers, quit_>>
     IN \/ id = 0 /\ UNCHANGED <<waits, steps, tasks, quit_, answers>>
        \/ /\ id # 0
           /\ \/ req.kind = "now" /\ Now
              \/ /\ req.kind = "quit" /\ quit_' = TRUE
                 /\ Answer({id}) /\ UNCHANGED <<waits, steps, tasks>>
              \/ /\ req.kind = "wait"
                 /\ \/ Now
                    \/ /\ \E late \in BOOLEAN : waits' = waits \union {[id |-> id, late |-> late]}
                       /\ Later /\ UNCHANGED <<steps, tasks>>
              \/ /\ req.kind = "step"
                 /\ \/ ~manual /\ Now
                    \/ /\ manual
                       /\ steps' = Append(steps, [id |-> id, remaining |-> req.frames])
                       /\ Later /\ UNCHANGED <<waits, tasks>>
              \/ /\ req.kind = "act"
                 /\ \/ ~playing /\ Now
                    \/ /\ playing
                       /\ tasks' = tasks \union {[id |-> id, left |-> req.frames]}
                       /\ Later /\ UNCHANGED <<waits, steps>>
  /\ UNCHANGED <<pc, sawEof, idle, playing, frames, reader, harness>>

\* A wait's deadline passes.
Expire ==
  /\ \E w \in waits : ~w.late /\ waits' = (waits \ {w}) \union {[w EXCEPT !.late = TRUE]}
  /\ pc # "over"
  /\ UNCHANGED <<pc, batch, sawEof, idle, steps, tasks, playing, quit_, answers, frames,
                 reader, harness>>

\* (mutant) the flag is looked at again
Ended_now == eof

\* What pump() decides with: the eof that belongs to the batch.
Ended == sawEof

\* evaluate_waits, in which any predicate may hold by now, and the end of pump().
EvaluateWaits ==
  /\ pc = "dispatch" /\ batch = <<>>
  /\ \E done \in SUBSET Owed(waits) :
       /\ Owed({w \in waits : w.late}) \subseteq done
       /\ Answer(done)
       /\ waits' = {w \in waits : w.id \notin done}
  /\ quit_' = (quit_ \/ (Ended /\ idle))
  /\ pc' = IF quit_' THEN "over" ELSE "frame"
  /\ UNCHANGED <<batch, sawEof, idle, steps, tasks, playing, frames, reader, harness>>

-----------------------------------------------------------------------------
(* The loop: a frame *)

\* (mutant) the manual clock never lets a frame run
FrameAllowed_manual == ~manual

\* frame_allowed
FrameAllowed == ~manual \/ steps # <<>>

\* (mutant) every step counts the frame
Spent_all(list) == [i \in DOMAIN list |-> [list[i] EXCEPT !.remaining = @ - 1]]

\* frame_done: only the first step's frames run, and it is popped after its last.
Spent(list) ==
  IF list = <<>> THEN list ELSE [list EXCEPT ![1].remaining = @ - 1]

Done(list) == list # <<>> /\ Head(list).remaining = 0
First == IF steps = <<>> THEN 0 ELSE Head(steps).id

NoFrame ==
  /\ pc = "frame" /\ ~FrameAllowed /\ pc' = "pump"
  /\ UNCHANGED <<batch, sawEof, idle, waits, steps, tasks, playing, quit_, answers, frames,
                 reader, harness>>

\* begin_frame, ClientApp::frame, end_frame and frame_done.  An action ends when it is done,
\* when it fails, when its frames are used up, or when there is no session any more.
Frame ==
  /\ pc = "frame" /\ FrameAllowed
  /\ playing' \in BOOLEAN
  /\ \E ended \in SUBSET Owed(tasks) :
       /\ Owed({a \in tasks : a.left = 1 \/ ~playing'}) \subseteq ended
       /\ tasks' = {[a EXCEPT !.left = @ - 1] : a \in {b \in tasks : b.id \notin ended}}
       /\ \/ /\ pc' = "pump"
             /\ LET list == Spent(steps)
                IN /\ Answer(ended \union (IF Done(list) THEN {First} ELSE {}))
                   /\ steps' = IF Done(list) THEN Tail(list) ELSE list
             /\ frames' = IF manual THEN [frames EXCEPT ![First] = @ + 1] ELSE frames
          \/ /\ pc' = "over"   \* the player closed the game
             /\ Answer(ended) /\ UNCHANGED <<steps, frames>>
  /\ UNCHANGED <<batch, sawEof, idle, waits, quit_, reader, harness>>

-----------------------------------------------------------------------------
Loop == Pump \/ Dispatch \/ EvaluateWaits \/ NoFrame \/ Frame
Next ==
  \/ \E kind \in Kinds, n \in 1..MaxFrames : Ask(kind, n)
  \/ Leave \/ Accept \/ Read \/ EndOfInput \/ Expire \/ Loop

Spec == Init /\ [][Next]_vars /\ WF_vars(Loop) /\ WF_vars(Read) /\ WF_vars(Expire)

-----------------------------------------------------------------------------
Where ==
  [wire |-> Range(stream), queue |-> Range(queue), batch |-> Range(batch), wait |-> Owed(waits),
   step |-> Owed(Range(steps)), act |-> Owed(tasks), swallowed |-> swallowed,
   answered |-> {r \in Sent : answers[r] = 1}]

\* A request that was sent is at every moment in exactly one place: on its way, owed by the
\* one that will answer it, or answered; and the end of input ends the program only after
\* the last line before it was dispatched (Host::pump).
NoRequestLost ==
  /\ \A r \in Sent : \E p \in DOMAIN Where : \A q \in DOMAIN Where : r \in Where[q] <=> p = q
  /\ quit_ => \/ queue = <<>> /\ stream = <<>>
              \/ \E r \in Sent : asked[r].kind = "quit" /\ answers[r] = 1

\* On the manual clock a frame runs only for a step, and each step is answered after just
\* the frames it asked for (Host::frame_done).
StepsAreExact ==
  manual => /\ frames[0] = 0
            /\ \A i \in DOMAIN steps :
                 frames[steps[i].id] = asked[steps[i].id].frames - steps[i].remaining
            /\ \A r \in Sent : asked[r].kind = "step" /\ answers[r] = 1
                               => frames[r] = asked[r].frames

\* Every request is answered in the end, unless the program ends: a wait by its deadline, an
\* action by its own, or by the frames a manual clock has still to run for it.
RequestsAreAnswered ==
  \A r \in Requests :
    (r \in Sent /\ ~(manual /\ asked[r].kind = "act"))
      ~> (answers[r] = 1 \/ r \in swallowed \/ pc = "over")
=============================================================================
