------------------------------ MODULE ScriptHost ------------------------------
(* The server's pack runtime calling scripts that call it back: PackRuntime's  *)
(* dispatch of ticks, entities and timers, and the bindings a script may use   *)
(* while it runs.  The C++ call stack is a variable: a frame keeps what its    *)
(* function holds on to while a script runs.                                   *)
EXTENDS Integers, Sequences, FiniteSets, SequencesExt

CONSTANTS
  CatchUp,      \* kMaxTimerCatchUpFires
  Health,       \* of every kind of entity
  DyingToo,     \* does a script that runs in an on_death turn on the dying entity?
  MaxIds,       \* bound: entities ever spawned
  MaxTimers,    \* bound: timers at a time
  MaxHandlers,  \* bound: vb.on("tick") handlers
  MaxCalls      \* bound: bindings used in one tick, of which the code has none

Ids == 1..MaxIds
Least == -2     \* bound: how far a timer is known to be behind

VARIABLES
  entities,     \* id -> health
  script_entities, next_script_entity_id_,   \* the session's
  timers,
  handlers,     \* number of vb.on("tick") handlers
  frames,       \* the call stack, the innermost last
  calls,        \* bindings used in this tick
  buried,       \* history: ids whose on_death has been called
  broken        \* an element was used after it was moved or erased: undefined behaviour

world == <<entities, script_entities, next_script_entity_id_>>
vars == <<world, timers, handlers, frames, calls, buried, broken>>

Timer == [remaining : Least..2, period : 0..1, repeating : BOOLEAN, cancelled : BOOLEAN]
Frame == [fn : {"fire", "entities", "timers", "timer", "fired", "hit", "despawn", "script"},
          id : 0..MaxIds, at : Nat, to : Nat, ids : SUBSET Ids, dt : 1..2, stale : BOOLEAN]

TypeOK ==
  /\ DOMAIN entities \subseteq Ids /\ \A i \in DOMAIN entities : entities[i] \in 0..Health
  /\ script_entities \subseteq Ids /\ next_script_entity_id_ \in 1..(MaxIds + 1)
  /\ Len(timers) <= MaxTimers /\ \A k \in DOMAIN timers : timers[k] \in Timer
  /\ handlers \in 0..MaxHandlers
  /\ \A k \in DOMAIN frames : frames[k] \in Frame
  /\ calls \in 0..MaxCalls
  /\ buried \subseteq Ids /\ broken \in BOOLEAN

Init ==
  /\ entities = <<>> /\ script_entities = {} /\ next_script_entity_id_ = 1
  /\ timers = <<>> /\ handlers = 1 /\ frames = <<>> /\ calls = 0
  /\ buried = {} /\ broken = FALSE

-----------------------------------------------------------------------------
(* Frames *)

NewFrame(fn) == [fn |-> fn, id |-> 0, at |-> 1, to |-> 0, ids |-> {}, dt |-> 1, stale |-> FALSE]
Script(id) == [NewFrame("script") EXCEPT !.id = id]
Top == Last(frames)
Replaced(fs) == Front(frames) \o fs

\* A C++ function calls a script: a protected call, with the function under it on the stack.
CallScript(fs) == frames' = fs

Quiet == UNCHANGED <<world, timers, handlers, calls, buried, broken>>
Broken == broken' = TRUE /\ frames' = <<>>
          /\ UNCHANGED <<world, timers, handlers, calls, buried>>

Running(fn) == frames # <<>> /\ Top.fn = fn /\ ~broken

-----------------------------------------------------------------------------
(* dispatch_tick *)

\* fire("tick"): the loop keeps the vector's first end.
DispatchTick ==
  /\ frames = <<>> /\ ~broken
  /\ \E dt \in 1..2 : frames' = <<[NewFrame("fire") EXCEPT !.to = handlers, !.dt = dt]>>
  /\ calls' = 0 /\ UNCHANGED <<world, timers, handlers, buried, broken>>

Fire ==
  /\ Running("fire")
  /\ \/ Top.at > 1 /\ Top.stale /\ Broken
     \/ /\ ~(Top.at > 1 /\ Top.stale) /\ Top.at <= Top.to /\ Quiet
        /\ CallScript(Replaced(<<[Top EXCEPT !.at = @ + 1], Script(0)>>))
     \/ /\ ~Top.stale /\ Top.at > Top.to /\ Quiet
        /\ frames' = Replaced(<<[NewFrame("entities") EXCEPT !.ids = DOMAIN entities,
                                                            !.dt = Top.dt]>>)

\* dispatch_entity_tick goes over a copy of the ids.
Ticked(ids) == ids \intersect DOMAIN entities

EntityTick ==
  /\ Running("entities") /\ Quiet
  /\ \/ \E id \in Ticked(Top.ids) :
          CallScript(Replaced(<<[Top EXCEPT !.ids = @ \ {id}], Script(id)>>))
     \/ /\ Ticked(Top.ids) = {}
        /\ frames' = Replaced(<<[NewFrame("timers") EXCEPT !.to = Len(timers), !.dt = Top.dt]>>)

\* The loop over the timers: count one down, then the inner loop that fires it.
CountDown ==
  /\ Running("timers") /\ ~Top.stale /\ Top.at <= Top.to
  /\ LET left == timers[Top.at].remaining - Top.dt
     IN timers' = [timers EXCEPT ![Top.at].remaining = IF left < Least THEN Least ELSE left]
  /\ frames' = Replaced(<<[Top EXCEPT !.at = @ + 1],
                          [NewFrame("timer") EXCEPT !.to = Top.at, !.at = 0]>>)
  /\ UNCHANGED <<world, handlers, calls, buried, broken>>

\* After a stall a timer fires several times, but not for ever.
Due_uncapped(t, fires) == t.remaining <= 0 /\ ~t.cancelled

Due(t, fires) == t.remaining <= 0 /\ ~t.cancelled /\ fires < CatchUp

FireTimer ==
  /\ Running("timer") /\ Quiet
  /\ \/ /\ Due(timers[Top.to], Top.at)
        /\ CallScript(Replaced(<<[Top EXCEPT !.fn = "fired"], Script(0)>>))
     \/ /\ ~Due(timers[Top.to], Top.at)
        /\ frames' = Front(frames)

\* Back from the call: the timer is looked at again, through the loop's reference.
Fired ==
  /\ Running("fired")
  /\ \/ Top.stale /\ Broken
     \/ /\ ~Top.stale
        /\ timers' = [timers EXCEPT ![Top.to] =
                        IF @.repeating THEN [@ EXCEPT !.remaining = @ + timers[Top.to].period]
                        ELSE [@ EXCEPT !.cancelled = TRUE]]
        /\ frames' = Replaced(<<[Top EXCEPT !.fn = "timer",
                                            !.at = IF @ < CatchUp THEN @ + 1 ELSE @]>>)
        /\ UNCHANGED <<world, handlers, calls, buried, broken>>

EndTick ==
  /\ Running("timers") /\ Top.at > Top.to
  /\ timers' = SelectSeq(timers, LAMBDA t : ~t.cancelled)
  /\ frames' = <<>>
  /\ UNCHANGED <<world, handlers, calls, buried, broken>>

-----------------------------------------------------------------------------
(* Entities: dispatch_entity_hit and despawn_entity around their callbacks *)

Without(id) == [i \in DOMAIN entities \ {id} |-> entities[i]]

\* despawn_entity up to the call of on_death, on top of the frames fs.
Dies(fs, id) ==
  /\ CallScript(fs \o <<[NewFrame("despawn") EXCEPT !.id = id], Script(id)>>)
  /\ buried' = buried \union {id}

\* on_death is back: the iterator found before it is erased.
Despawn ==
  /\ Running("despawn")
  /\ \/ Top.id \notin DOMAIN entities /\ Broken
     \/ /\ Top.id \in DOMAIN entities
        /\ entities' = Without(Top.id) /\ script_entities' = script_entities \ {Top.id}
        /\ frames' = Front(frames)
        /\ UNCHANGED <<next_script_entity_id_, timers, handlers, calls, buried, broken>>

\* on_hit is back: the entity is looked up anew, it may be gone.
StillThere_assumed(id) == TRUE

StillThere(id) == id \in DOMAIN entities

Hit ==
  /\ Running("hit")
  /\ LET id == Top.id
         left == IF id \in DOMAIN entities /\ entities[id] > 1 THEN entities[id] - 1 ELSE 0
     IN \/ /\ StillThere(id) /\ left > 0 /\ entities' = [entities EXCEPT ![id] = left]
           /\ frames' = Front(frames) /\ UNCHANGED buried
        \/ /\ StillThere(id) /\ left = 0
           /\ entities' = [i \in DOMAIN entities |-> IF i = id THEN 0 ELSE entities[i]]
           /\ Dies(Front(frames), id)
        \/ /\ ~StillThere(id) /\ frames' = Front(frames) /\ UNCHANGED <<entities, buried>>
  /\ UNCHANGED <<script_entities, next_script_entity_id_, timers, handlers, calls, broken>>

-----------------------------------------------------------------------------
(* What a running script may do *)

Binding == Running("script") /\ calls < MaxCalls /\ calls' = calls + 1

\* Scripts keep their entities' tables for as long as they like.
Handles == 1..(next_script_entity_id_ - 1)
Dying == {frames[k].id : k \in {j \in DOMAIN frames : frames[j].fn = "despawn"}}
Usable(id) == DyingToo \/ id \notin Dying

\* on_death of the entity has been called; while it runs, what a script does to the dying
\* entity it does to one that is still there.
Told(id) == id \in buried /\ ~(DyingToo /\ id \in Dying)

\* vb.world.spawn, with on_spawn.
Spawn ==
  /\ Binding /\ next_script_entity_id_ <= MaxIds
  /\ LET id == next_script_entity_id_
     IN /\ entities' = [i \in DOMAIN entities \union {id} |->
                          IF i = id THEN Health ELSE entities[i]]
        /\ script_entities' = script_entities \union {id} /\ next_script_entity_id_' = id + 1
        /\ CallScript(Append(frames, Script(id)))
  /\ UNCHANGED <<timers, handlers, buried, broken>>

Damage(id) ==
  /\ Binding /\ Usable(id)
  /\ IF id \in DOMAIN entities
     THEN CallScript(frames \o <<[NewFrame("hit") EXCEPT !.id = id], Script(id)>>)
     ELSE UNCHANGED frames
  /\ UNCHANGED <<world, timers, handlers, buried, broken>>

RemoveEntity(id) ==
  /\ Binding /\ Usable(id)
  /\ IF id \in DOMAIN entities THEN Dies(frames, id) ELSE UNCHANGED <<frames, buried>>
  /\ UNCHANGED <<world, timers, handlers, broken>>

SetHealth(id, value) ==
  /\ Binding /\ Usable(id) /\ id \in DOMAIN entities
  /\ entities' = [entities EXCEPT ![id] = value]
  /\ IF value = 0 THEN Dies(frames, id) ELSE UNCHANGED <<frames, buried>>
  /\ UNCHANGED <<script_entities, next_script_entity_id_, timers, handlers, broken>>

\* push_back may move the elements away from under a loop over them.
Moved(fns) == [k \in DOMAIN frames |-> IF frames[k].fn \in fns
                                       THEN [frames[k] EXCEPT !.stale = TRUE] ELSE frames[k]]

\* vb.after, vb.every.
AddTimer ==
  /\ Binding /\ Len(timers) < MaxTimers
  /\ \E period \in 0..1, repeating \in BOOLEAN :
       timers' = Append(timers, [remaining |-> period, period |-> period,
                                 repeating |-> repeating, cancelled |-> FALSE])
  /\ frames' \in {frames, Moved({"timers", "timer", "fired"})}
  /\ UNCHANGED <<world, handlers, buried, broken>>

\* vb.on("tick").
On ==
  /\ Binding /\ handlers < MaxHandlers /\ handlers' = handlers + 1
  /\ frames' \in {frames, Moved({"fire"})}
  /\ UNCHANGED <<world, timers, buried, broken>>

\* A script ends, or fails, also because the hook has counted instruction_budget instructions:
\* the error is logged by the function that called it.
Return ==
  /\ Running("script") /\ frames' = Front(frames)
  /\ UNCHANGED <<world, timers, handlers, calls, buried, broken>>

UseBinding ==
  \/ Spawn \/ AddTimer \/ On
  \/ \E id \in Handles : Damage(id) \/ RemoveEntity(id) \/ \E v \in 0..Health : SetHealth(id, v)

Step == \/ Fire \/ EntityTick \/ CountDown \/ FireTimer \/ Fired \/ EndTick \/ Hit \/ Despawn
        \/ UseBinding \/ Return

Next == DispatchTick \/ Step

Spec == Init /\ [][Next]_vars
FairSpec == Spec /\ WF_vars(Step)

-----------------------------------------------------------------------------
\* "a handler may spawn/remove entities (including itself) mid-iteration": however callbacks
\* nest, a script is only called for an entity that is there and has not been told its death,
\* and on_death is called once; unless a script run by on_death turns on the dying entity
\* itself, and then at most until that on_death is over.
CallLives ==
  LET called == Last(frames')
  IN Len(frames') > Len(frames) /\ called.fn = "script" /\ called.id # 0
     => called.id \in DOMAIN entities' /\ ~Told(called.id)
CallsTheLiving == [][CallLives]_vars

\* Between ticks the runtime's entities are the session's, and no dead one is left in either.
NoGhostEntity ==
  frames = <<>> /\ ~broken => script_entities = DOMAIN entities /\ buried \intersect DOMAIN entities = {}

\* However timers are set and entities die, a tick comes to its end.
TickEnds == frames # <<>> ~> frames = <<>>

\* No function goes on with what a script has moved or erased.  False: a timer set while a
\* timer fires (vb.after in a vb.after), a handler added by a handler.
NothingDangles == ~broken
=============================================================================
