------------------------------- MODULE Gameplay -------------------------------
(* One tick of ServerSession after another, as far as players, their health,   *)
(* the items they drop and the blocks they hold a tool to are concerned, with   *)
(* the pack's scripts called from most of its systems, and the server's loop    *)
(* that hands joins, changed logins and leaves to the PackRuntime afterwards.   *)
EXTENDS Integers, Sequences, FiniteSets, SequencesExt, FiniteSetsExt

CONSTANTS
  Players,     \* net ids, each used once
  None,
  Heals,       \* what a player_death handler may heal to
  MaxHealth, MaxHunger,
  MaxDamage,   \* of the block that takes several hits
  MaxStack,    \* of an item
  MaxActs,     \* bound: what players and scripts do in all, and meals missed
  MaxDrops     \* bound: drops ever spawned

GameBounds ==
  /\ IsFiniteSet(Players) /\ Heals \subseteq 0..MaxHealth
  /\ MaxHealth \in Nat /\ MaxHunger \in Nat /\ MaxDamage \in Nat \ {0} /\ MaxStack \in Nat \ {0}
  /\ MaxActs \in Nat /\ MaxDrops \in Nat

Spots == {"spawn", "field", "pond"}   \* the pond is a region
Causes == {"script", "hunger", "void"}
Phases == <<"network", "hunger", "respawn", "script", "drops", "hold", "regions", "host">>

VARIABLES
  phase, todo,        \* the system that runs, and the players it has still to visit
  stage,              \* of each player: out, playing, gone
  at, falling,        \* where, and whether below the void
  health, hunger, death_cause,
  drops,              \* ItemDropSystem: id -> spot and count
  next_id,
  hold, contributors, \* BlockDamageSystem: the damage of the one block there is
  region_occupancy,
  joins, login_changes, leaves,
  logins,             \* PackRuntime: players whose login it has
  inventories,        \* stacks of the one item
  credited,           \* the player the last finished hold was credited to
  acts, minted        \* what was done; history: items made and not destroyed

session == <<stage, at, falling, health, hunger, death_cause>>
items == <<drops, next_id, inventories, minted>>
block == <<hold, contributors, credited>>
queues == <<joins, login_changes, leaves, logins>>
vars == <<phase, todo, session, items, block, region_occupancy, queues, acts>>

Playing == {p \in Players : stage[p] = "playing"}

\* The sums of the first n, for each n; and of all.
Sums(s) == LET sum[n \in 0..Len(s)] == IF n = 0 THEN 0 ELSE sum[n - 1] + s[n] IN sum
Sum(s) == Sums(s)[Len(s)]

\* What these drops are worth.
Worth(ds) == Sum([d \in 1..MaxDrops |-> IF d \in ds THEN drops[d].count ELSE 0])

TypeOK ==
  /\ phase \in ToSet(Phases) /\ todo \subseteq Players
  /\ stage \in [Players -> {"out", "playing", "gone"}]
  /\ at \in [Players -> Spots] /\ falling \subseteq Players
  /\ health \in [Players -> 0..MaxHealth] /\ hunger \in [Players -> 0..MaxHunger]
  /\ death_cause \in [Players -> Causes \union {None}]
  /\ next_id \in 1..(MaxDrops + 1) /\ DOMAIN drops \subseteq 1..MaxDrops
  /\ \A d \in DOMAIN drops : drops[d].at \in Spots /\ drops[d].count \in 1..MaxStack
  /\ hold \in 0..MaxDamage /\ \A i \in DOMAIN contributors : contributors[i] \in Players
  /\ credited \in Players \union {None} /\ region_occupancy \subseteq Players
  /\ ToSet(joins) \union ToSet(login_changes) \union ToSet(leaves) \union logins \subseteq Players
  /\ \A p \in Players : \A i \in DOMAIN inventories[p] : inventories[p][i] \in 1..MaxStack
  /\ acts \in 0..MaxActs /\ minted \in Nat

Init ==
  /\ phase = "network" /\ todo = {}
  /\ stage = [p \in Players |-> "out"] /\ at = [p \in Players |-> "spawn"] /\ falling = {}
  /\ health = [p \in Players |-> MaxHealth] /\ hunger = [p \in Players |-> MaxHunger]
  /\ death_cause = [p \in Players |-> None]
  /\ drops = <<>> /\ next_id = 1 /\ hold = 0 /\ contributors = <<>> /\ credited = None
  /\ region_occupancy = {} /\ joins = <<>> /\ login_changes = <<>> /\ leaves = <<>> /\ logins = {}
  /\ inventories = [p \in Players |-> <<>>] /\ acts = 0 /\ minted = 0

-----------------------------------------------------------------------------
(* The order of the systems *)

PerPlayer == {"hunger", "respawn", "regions"}

\* The queues are drained before the host begins another tick.
NextPhase ==
  /\ todo = {} /\ phase \notin {"drops", "hold"}
  /\ phase = "host" => joins = <<>> /\ login_changes = <<>> /\ leaves = <<>>
  /\ LET k == CHOOSE j \in DOMAIN Phases : Phases[j] = phase
     IN phase' = Phases[(k % Len(Phases)) + 1]
  /\ todo' = IF phase' \in PerPlayer THEN Playing ELSE {}
  /\ UNCHANGED <<session, items, block, region_occupancy, queues, acts>>

Act == acts < MaxActs /\ acts' = acts + 1

-----------------------------------------------------------------------------
(* system_network_io *)

Join(p) ==
  /\ phase = "network" /\ stage[p] = "out"
  /\ stage' = [stage EXCEPT ![p] = "playing"] /\ joins' = Append(joins, p)
  /\ UNCHANGED <<phase, todo, at, falling, health, hunger, death_cause, items, block,
                 region_occupancy, login_changes, leaves, logins, acts>>

\* stop, and remove_player: a player who has left holds no tool to any block.  Each is there once.
Holders(s, p) == RemoveFirst(s, p)

Leave(p) ==
  /\ phase = "network" /\ stage[p] = "playing"
  /\ stage' = [stage EXCEPT ![p] = "gone"] /\ leaves' = Append(leaves, p)
  /\ contributors' = Holders(contributors, p)
  /\ region_occupancy' = region_occupancy \ {p}
  /\ UNCHANGED <<phase, todo, at, falling, health, hunger, death_cause, items, hold, credited,
                 joins, login_changes, logins, acts>>

Move(p) ==
  /\ Act /\ phase = "network" /\ stage[p] = "playing"
  /\ \/ \E s \in Spots \ {at[p]} : at' = [at EXCEPT ![p] = s] /\ UNCHANGED falling
     \/ falling' = falling \union {p} /\ p \notin falling /\ UNCHANGED at
  /\ UNCHANGED <<phase, todo, stage, health, hunger, death_cause, items, block, region_occupancy,
                 queues>>

\* handle_block_break_begin, handle_block_break_stop: the block is in the field.
BreakBegin(p) ==
  /\ Act /\ phase = "network" /\ stage[p] = "playing" /\ at[p] = "field"
  /\ p \notin ToSet(contributors) /\ contributors' = Append(contributors, p)
  /\ UNCHANGED <<phase, todo, session, items, hold, credited, region_occupancy, queues>>

BreakStop(p) ==
  /\ Act /\ phase = "network" /\ p \in ToSet(contributors)
  /\ contributors' = Holders(contributors, p)
  /\ UNCHANGED <<phase, todo, session, items, hold, credited, region_occupancy, queues>>

\* system_reauth: the account has other claims now.
LoginChanges(p) ==
  /\ Act /\ phase = "network" /\ stage[p] = "playing" /\ p \notin ToSet(joins) \union ToSet(login_changes)
  /\ login_changes' = Append(login_changes, p)
  /\ UNCHANGED <<phase, todo, session, items, block, region_occupancy, joins, leaves, logins>>

-----------------------------------------------------------------------------
(* Health *)

\* apply_damage: a player at 0 awaits the respawn, and its cause of death stays.
Hurt(p, amount, cause) ==
  IF health[p] = 0 THEN UNCHANGED <<health, death_cause>>
  ELSE /\ health' = [health EXCEPT ![p] = Max({0, @ - amount})]
       /\ death_cause' = [death_cause EXCEPT ![p] = IF health'[p] = 0 THEN cause ELSE @]

Hunger(p) ==
  /\ phase = "hunger" /\ p \in todo /\ todo' = todo \ {p}
  /\ \/ hunger' = [hunger EXCEPT ![p] = Max({0, @ - 1})] /\ Act
     \/ UNCHANGED <<hunger, acts>>
  /\ IF hunger'[p] = 0 THEN Hurt(p, 1, "hunger") ELSE UNCHANGED <<health, death_cause>>
  /\ UNCHANGED <<phase, stage, at, falling, items, block, region_occupancy, queues>>

\* spawn_item_drop, of each stack of ns, at s.
Dropped(s, ns) ==
  [d \in DOMAIN drops \union next_id..(next_id + Len(ns) - 1) |->
     IF d < next_id THEN drops[d] ELSE [at |-> s, count |-> ns[d - next_id + 1]]]

\* drop_all_items, where the player died.
DropAll(p) ==
  /\ next_id + Len(inventories[p]) <= MaxDrops + 1
  /\ drops' = Dropped(at[p], inventories[p]) /\ next_id' = next_id + Len(inventories[p])
  /\ inventories' = [inventories EXCEPT ![p] = <<>>] /\ UNCHANGED minted

\* check_respawns: nobody to be respawned, or dead, of the void too.
Alive(p) ==
  /\ phase = "respawn" /\ p \in todo /\ health[p] > 0 /\ p \notin falling
  /\ todo' = todo \ {p}
  /\ UNCHANGED <<phase, session, items, block, region_occupancy, queues, acts>>

Respawn(p) ==
  /\ phase = "respawn" /\ p \in todo /\ (health[p] = 0 \/ p \in falling)
  /\ todo' = todo \ {p}
  /\ DropAll(p) \/ UNCHANGED items
  /\ \E h \in Heals, s \in {"spawn", "field"} :
       health' = [health EXCEPT ![p] = h] /\ at' = [at EXCEPT ![p] = s]
  /\ hunger' = [hunger EXCEPT ![p] = MaxHunger]
  /\ falling' = falling \ {p} /\ death_cause' = [death_cause EXCEPT ![p] = None]
  /\ UNCHANGED <<phase, stage, block, region_occupancy, queues, acts>>

-----------------------------------------------------------------------------
(* Scripts, in any handler: of chat, edits and inputs, of deaths, ticks, holds, regions, leaves *)

Scripted == phase \in {"network", "respawn", "script", "hold", "regions", "host"}

\* give_item: onto the stacks there are, then a new one.
Stacked(s, n) ==
  LET room == Sums([i \in DOMAIN s |-> MaxStack - s[i]])
      rest == n - room[Len(s)]
      filled == [i \in DOMAIN s |-> s[i] + Max({0, Min({MaxStack - s[i], n - room[i - 1]})})]
  IN IF rest > 0 THEN Append(filled, rest) ELSE filled

Give(p, n) ==
  /\ inventories' = [inventories EXCEPT ![p] = Stacked(@, n)] /\ minted' = minted + n
  /\ UNCHANGED <<session, drops, next_id, contributors>>

\* take: all or nothing; the first stacks go, and something of the next.
Taken(s, n) ==
  LET gone == CHOOSE k \in 0..Len(s) :
                Sums(s)[k] <= n /\ (k < Len(s) => n < Sums(s)[k + 1])
  IN [i \in 1..(Len(s) - gone) |-> IF i = 1 THEN Sums(s)[gone + 1] - n ELSE s[gone + i]]

Take(p, n) ==
  /\ Sum(inventories[p]) >= n
  /\ inventories' = [inventories EXCEPT ![p] = Taken(@, n)] /\ minted' = minted - n
  /\ UNCHANGED <<session, drops, next_id, contributors>>

SpawnDrop(s, n) ==
  /\ next_id <= MaxDrops
  /\ drops' = Dropped(s, <<n>>) /\ next_id' = next_id + 1 /\ minted' = minted + n
  /\ UNCHANGED <<session, inventories, contributors>>

Damage(p, n) ==
  /\ Hurt(p, n, "script")
  /\ UNCHANGED <<stage, at, falling, hunger, items, contributors>>

\* teleport_player; the drops are then looked for at the new place.
Teleport(p, s) ==
  /\ s # at[p] /\ at' = [at EXCEPT ![p] = s] /\ falling' = falling \ {p}
  /\ UNCHANGED <<stage, health, hunger, death_cause, items, contributors>>

Script ==
  /\ Scripted /\ Act
  /\ \E p \in Playing, n \in 1..MaxStack, s \in Spots :
       Give(p, n) \/ Take(p, n) \/ SpawnDrop(s, n) \/ Damage(p, n) \/ Teleport(p, s)
  /\ UNCHANGED <<phase, todo, hold, credited, region_occupancy, queues>>

-----------------------------------------------------------------------------
(* update_item_drops *)

\* A player in reach of a drop: of several the one the positions' list has first, be it the
\* nearest (item_drops.hpp:110) or not.
Reach(d) == {p \in Playing : at[p] = drops[d].at}

Takers_all(d) == {Reach(d)}

Takers(d) == {{p} : p \in Reach(d)}

\* ItemDropSystem::tick, and the credits, one drop after the other; the old vanish.  Every drop
\* in reach is taken.
Collect(who, old) ==
  LET credit[d \in 0..MaxDrops] ==
        IF d = 0 THEN inventories
        ELSE [p \in Players |-> IF d \in DOMAIN who /\ p \in who[d]
                                THEN Stacked(credit[d - 1][p], drops[d].count)
                                ELSE credit[d - 1][p]]
  IN /\ drops' = [d \in DOMAIN drops \ (DOMAIN who \union old) |-> drops[d]]
     /\ inventories' = credit[MaxDrops]
     /\ minted' = minted - Worth(old)

UpdateDrops ==
  /\ phase = "drops"
  /\ LET near == {d \in DOMAIN drops : Reach(d) # {}}
     IN \E who \in [near -> SUBSET Players], old \in SUBSET (DOMAIN drops \ near) :
          (\A d \in near : who[d] \in Takers(d)) /\ Collect(who, old)
  /\ phase' = "hold"
  /\ UNCHANGED <<todo, session, next_id, block, region_occupancy, queues, acts>>

-----------------------------------------------------------------------------
(* update_block_damage, with a pack's policy: each holder may add to the damage, and what   *)
(* nobody holds may heal.  A block whose damage is full is broken in the name of the first   *)
(* holder, and the damage forgotten, whether or not the edit was let through.                *)

UpdateHold ==
  /\ phase = "hold" /\ phase' = "regions" /\ todo' = Playing
  /\ \E delta \in 0..Len(contributors), heal \in 0..1 :
       LET left == IF contributors = <<>> THEN Max({0, hold - heal})
                   ELSE Min({MaxDamage, hold + delta})
       IN IF left = MaxDamage
          THEN /\ hold' = 0 /\ contributors' = <<>>
               /\ credited' = IF contributors = <<>> THEN None ELSE Head(contributors)
          ELSE hold' = left /\ UNCHANGED <<contributors, credited>>
  /\ UNCHANGED <<session, items, region_occupancy, queues, acts>>

-----------------------------------------------------------------------------
(* update_region_occupancy *)

Occupancy(p) ==
  /\ phase = "regions" /\ p \in todo /\ todo' = todo \ {p}
  /\ region_occupancy' = IF at[p] = "pond" THEN region_occupancy \union {p}
                         ELSE region_occupancy \ {p}
  /\ UNCHANGED <<phase, session, items, block, queues, acts>>

-----------------------------------------------------------------------------
(* The server's loop after the tick: joins, then changed logins, then leaves *)

HostJoin ==
  /\ phase = "host" /\ joins # <<>>
  /\ joins' = Tail(joins) /\ logins' = logins \union {Head(joins)}
  /\ UNCHANGED <<phase, todo, session, items, block, region_occupancy, login_changes, leaves, acts>>

MayTellChange == joins = <<>>

HostLoginChanged ==
  /\ phase = "host" /\ MayTellChange /\ login_changes # <<>>
  /\ login_changes' = Tail(login_changes) /\ logins' = logins \union {Head(login_changes)}
  /\ UNCHANGED <<phase, todo, session, items, block, region_occupancy, joins, leaves, acts>>

\* player_leave is fired while the name, the login and the inventory are there.
MayTellLeave_early == TRUE

MayTellLeave == joins = <<>> /\ login_changes = <<>>

HostLeave ==
  /\ phase = "host" /\ MayTellLeave /\ leaves # <<>>
  /\ leaves' = Tail(leaves) /\ logins' = logins \ {Head(leaves)}
  /\ inventories' = [inventories EXCEPT ![Head(leaves)] = <<>>]
  /\ minted' = minted - Sum(inventories[Head(leaves)])
  /\ UNCHANGED <<phase, todo, session, drops, next_id, block, region_occupancy, joins,
                 login_changes, acts>>

Network(p) == Join(p) \/ Leave(p) \/ Move(p) \/ BreakBegin(p) \/ BreakStop(p) \/ LoginChanges(p)
Next ==
  \/ NextPhase \/ Script \/ UpdateDrops \/ UpdateHold
  \/ HostJoin \/ HostLoginChanged \/ HostLeave
  \/ \E p \in Players : Network(p) \/ Hunger(p) \/ Alive(p) \/ Respawn(p) \/ Occupancy(p)

Spec == Init /\ [][Next]_vars

-----------------------------------------------------------------------------
\* Items are neither doubled nor lost between the stacks of the players and the drops: not by
\* two players in reach of one drop, a drop that expires as it is picked up, or a death.
ItemsConserved ==
  minted = Worth(DOMAIN drops)
           + Sum([i \in 1..Cardinality(Players) |-> Sum(inventories[SetToSeq(Players)[i]])])

\* "fires once per respawn - health reaching 0, for any cause" (lua-api.md): a player at 0 has
\* a cause of death to report, that of the hit that killed, and one who is not has none.
\* False when a handler heals to 0.
DeathHasCause == \A p \in Playing : health[p] = 0 <=> death_cause[p] # None

\* "Kept until after player_leave": a player's login is there from the first callback to the
\* last and no longer, though joins, changes and leaves come to the runtime by three queues.
LoginsFollow ==
  \A p \in Players :
    p \in logins <=> (stage[p] = "playing" \/ p \in ToSet(leaves)) /\ p \notin ToSet(joins)

\* A block held to the end is broken in the name of a player who is in the game, with a place
\* from where it can be reached.
CreditedToHolder == [][credited' # credited => stage[credited'] = "playing"]_vars
=============================================================================
