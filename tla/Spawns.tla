------------------------------- MODULE Spawns --------------------------------
(***************************************************************************)
(* The life cycle of the mobs of a map (game_core/src/ecs/systems/         *)
(* spawn.rs and combat.rs): an entry of the spawn table becomes mobs when  *)
(* a player comes near, loses the untouched ones when everybody is far,    *)
(* and makes dead ones anew when their time has passed; and what each      *)
(* client shows, which it knows from ADD and DEL packets only.             *)
(*                                                                         *)
(* All entries are in one place and mobs stay there, so the distance to a  *)
(* player is one of four zones.  The queue of a player keeps the order of  *)
(* the events, so what they do to the client is done at once.  Ids of mobs *)
(* are fresh; the model reuses those that nobody knows any more.           *)
(***************************************************************************)
EXTENDS Integers, FiniteSets

CONSTANTS
  Players, Nobody,
  Gone,         \* a target whose entity has left the world
  Entries,      \* of the spawn table
  Groups,       \* those that /mob of a game master adds: SpawnKind::Group
  Aggressive,   \* those whose mobs attack on sight
  Count, Time,  \* of each entry: copies, and updates until a dead one comes back; 0 for never
  Vids,
  MaxHp,
  MaxEvents     \* bound: what players and game masters do, all together

ASSUME EntriesAssumption ==
  /\ Entries \subseteq Nat /\ IsFiniteSet(Entries) /\ Groups \subseteq Entries /\ Aggressive \subseteq Entries
  /\ Count \in [Entries -> Nat \ {0}] /\ Time \in [Entries -> Nat]
ASSUME NamesAssumption ==
  /\ Nobody \notin Players /\ Gone \notin Players /\ Nobody # Gone /\ Nobody \notin Entries
ASSUME BoundsAssumption ==
  Vids \subseteq Nat /\ IsFiniteSet(Vids) /\ MaxHp \in Nat \ {0} /\ MaxEvents \in Nat

VARIABLES
  zone,    \* where each player is, seen from the entries
  mob,     \* the entities of NpcIndex: entry, hp, Aggro.target and SpawnSeen
  due,     \* RespawnQueue: updates until the entry is filled up
  corpses, \* RespawnQueue: copies that died since it was
  thinned, \* entries that have lost a copy by distance while another one stayed
  made,    \* the groups that exist
  shown,   \* the mobs that each client shows
  blind,   \* mobs a client was not told of, because it came back before the world had noticed
  ghosts,  \* mobs a client shows that somebody else has killed
  spent

view == <<shown, blind, ghosts>>
vars == <<zone, mob, due, corpses, thinned, made, view, spent>>

\* close: within aggressive_sight; view: SPAWN_VIEW; edge: DESPAWN_RADIUS.
Zones == {"close", "view", "edge", "far"}
Near == {"close", "view"}
Idle == -1
Never == -2
NoMob == [entry |-> Nobody, hp |-> 0, hunts |-> Nobody, seen |-> {}]
Mobs == [entry : Entries, hp : 1 .. MaxHp, hunts : Players \cup {Nobody, Gone},
         seen : SUBSET Players] \cup {NoMob}

InWorld(p, z) == z[p] # "out"
Viewers(z) == {p \in Players : z[p] \in Near}
Alive(e) == {v \in Vids : mob[v].entry = e}
Exists(v) == mob[v] # NoMob
Untouched(m) == m.hp = MaxHp /\ m.hunts = Nobody
Spend == spent < MaxEvents /\ spent' = spent + 1

\* The ids of the next n mobs: those that are not in the world and that no client shows.
Fresh == {v \in Vids : ~Exists(v) /\ \A p \in Players : v \notin shown[p]}
Rank(v) == Cardinality({w \in Fresh : w < v})
NextIds(n) == {v \in Fresh : Rank(v) < n}

-----------------------------------------------------------------------------
Init ==
  /\ zone = [p \in Players |-> "out"] /\ mob = [v \in Vids |-> NoMob]
  /\ due = [e \in Entries |-> Idle] /\ corpses = [e \in Entries |-> 0] /\ made = {} /\ thinned = {}
  /\ shown = [p \in Players |-> {}] /\ blind = [p \in Players |-> {}]
  /\ ghosts = [p \in Players |-> {}] /\ spent = 0

-----------------------------------------------------------------------------
\* The update of the world

\* The clock: deadlines come nearer.
Later(e) == IF due[e] > 0 THEN due[e] - 1 ELSE due[e]

\* variant: the entry is filled with all of its copies
MissingAll(e) ==
  IF Later(e) = Idle THEN (IF Alive(e) = {} THEN Count[e] ELSE 0)
  ELSE IF Later(e) = 0 THEN Count[e] ELSE 0

\* variant: an entry with living copies is left alone
MissingIfEmpty(e) ==
  IF Alive(e) # {} THEN 0 ELSE IF Later(e) \in {Idle, 0} THEN Count[e] ELSE 0

\* How many copies the entry lacks: all of them if none lives, the dead ones when it is due,
\* and none before.
Missing(e) ==
  IF Later(e) = Idle THEN (IF Alive(e) = {} THEN Count[e] ELSE 0)
  ELSE IF Later(e) = 0 THEN Count[e] - Cardinality(Alive(e)) ELSE 0

\* The entries that are looked at: groups never, and nothing while nobody is near.
Served(z) == IF Viewers(z) = {} THEN {} ELSE Entries \ Groups

\* The copies that some entries lack, and how many those are.
Lacking(S) == UNION {{e} \X (1 .. Missing(e)) : e \in S}
Total(S) == Cardinality(Lacking(S))

\* The new mobs of an entry: the next ids, one entry after the other.
Born(e, z) ==
  LET before == Total({f \in Served(z) : f < e})
  IN IF e \in Served(z) THEN {v \in Fresh : Rank(v) - before \in 0 .. Missing(e) - 1} ELSE {}
Births(z) == [e \in Entries |-> Born(e, z)]

\* variant: a mob that exists is sent to one of those that have come into view
SentToFirst(v, z) ==
  LET fresh == Viewers(z) \ mob[v].seen
  IN IF fresh = {} \/ mob[v].entry \in Groups THEN {} ELSE {CHOOSE p \in fresh : TRUE}

\* Who is sent an ADD for a mob that exists: those in view that were not in view before.  The
\* entry of a group makes no packet (entry_spawns), and still the mob counts them as sent.
Sent(v, z) == IF mob[v].entry \in Groups THEN {} ELSE Viewers(z) \ mob[v].seen

\* An untouched mob that is far from everybody is removed; that is no death.
Despawns(v, z) ==
  /\ Exists(v) /\ Untouched(mob[v])
  /\ \A p \in Players : InWorld(p, z) => z[p] = "far"

\* variant: only those who see the mob are told
DespawnTellsViewers(p, z) == p \in Viewers(z)

\* Everybody on the map is told.
DespawnTells(p, z) == InWorld(p, z)

\* SpawnSeen after the update: without anybody on the map it is not looked at.
Seen(v, z) == IF \E p \in Players : InWorld(p, z) THEN Viewers(z) ELSE mob[v].seen

\* What becomes of the mobs: made, kept, removed.
After(v, z, births) ==
  IF \E e \in Entries : v \in births[e]
  THEN [entry |-> CHOOSE e \in Entries : v \in births[e], hp |-> MaxHp, hunts |-> Nobody,
        seen |-> Viewers(z)]
  ELSE IF ~Exists(v) \/ Despawns(v, z) THEN NoMob
  ELSE [mob[v] EXCEPT !.seen = Seen(v, z)]

\* chase_attack_system gives up a target that has left or is too far away; then
\* aggro_detect_system gives the aggressive mobs without target the nearest player.
Keeps(m, z) == m.hunts \in Players /\ z[m.hunts] = "close"
Hunting(m, z, nearest) ==
  IF m = NoMob THEN m
  ELSE [m EXCEPT !.hunts = IF Keeps(m, z) THEN @
                           ELSE IF m.entry \in Aggressive THEN nearest ELSE Nobody]
Close(z) == {p \in Players : z[p] = "close"}
Nearest(z) == IF Close(z) = {} THEN {Nobody} ELSE Close(z)

\* One run of the schedule with the players at z; known is what their clients show before it.
Update(z, known) ==
  LET births == Births(z)
      born == UNION {births[e] : e \in Entries}
      removed == {v \in Vids : Despawns(v, z)}
      filled == {e \in Served(z) : Later(e) = 0}
  IN
    /\ Cardinality(Fresh) >= Total(Served(z))
    /\ \E p \in Nearest(z) : mob' = [v \in Vids |-> Hunting(After(v, z, births), z, p)]
    /\ due' = [e \in Entries |-> IF e \in filled THEN Idle ELSE Later(e)]
    /\ corpses' = [e \in Entries |-> IF e \in filled THEN 0 ELSE corpses[e]]
    /\ thinned' = {e \in Entries : \/ Alive(e) \cap removed # {} /\ ~(Alive(e) \subseteq removed)
                                   \/ e \in thinned /\ births[e] = {}}
    /\ shown' = [p \in Players |->
                   (known[p] \cup (IF p \in Viewers(z) THEN born ELSE {})
                    \cup {v \in Vids : Exists(v) /\ p \in Sent(v, z)})
                   \ (IF DespawnTells(p, z) THEN removed ELSE {})]

\* Every 500 ms.
Tick ==
  /\ Update(zone, shown)
  /\ blind' = [p \in Players |-> IF p \in Viewers(zone) THEN blind[p] \cap {v \in Vids : mob'[v] # NoMob}
                                 ELSE {}]
  /\ UNCHANGED <<zone, made, ghosts, spent>>

-----------------------------------------------------------------------------
\* Intents

\* A player enters with a new client, and the world is updated at once.  Mobs that remember the
\* player from before do not send themselves again.
Join(p, at) ==
  /\ ~InWorld(p, zone) /\ Spend /\ zone' = [zone EXCEPT ![p] = at]
  /\ Update(zone', [shown EXCEPT ![p] = {}])
  /\ blind' = [blind EXCEPT ![p] = IF at \in Near THEN {v \in Vids : Exists(v) /\ p \in mob[v].seen}
                                   ELSE {}]
  /\ UNCHANGED <<made, ghosts>>

\* leave_player: the entity goes, and those that hunt it find out at the next update.
Leave(p) ==
  /\ InWorld(p, zone) /\ zone' = [zone EXCEPT ![p] = "out"]
  /\ mob' = [v \in Vids |-> IF Exists(v) /\ mob[v].hunts = p THEN [mob[v] EXCEPT !.hunts = Gone]
                             ELSE mob[v]]
  /\ shown' = [shown EXCEPT ![p] = {}] /\ blind' = [blind EXCEPT ![p] = {}]
  /\ ghosts' = [ghosts EXCEPT ![p] = {}]
  /\ UNCHANGED <<due, corpses, thinned, made, spent>>

Move(p, to) ==
  /\ InWorld(p, zone) /\ zone[p] # to /\ Spend /\ zone' = [zone EXCEPT ![p] = to]
  /\ UNCHANGED <<mob, due, corpses, thinned, made, view>>

\* remove_npc: every death sets the deadline of the whole entry anew.
Bury(v) ==
  LET e == mob[v].entry IN
    /\ mob' = [mob EXCEPT ![v] = NoMob]
    /\ due' = [due EXCEPT ![e] = IF Time[e] = 0 THEN Never ELSE Time[e]]
    /\ corpses' = [corpses EXCEPT ![e] = @ + 1]

Struck(m, p) == [m EXCEPT !.hp = @ - 1, !.hunts = p]
\* A blow, of a weapon or a skill, that leaves the mob alive and angry.
Strike(p, v) ==
  /\ zone[p] = "close" /\ Exists(v) /\ mob[v].hp > 1 /\ Spend
  /\ mob' = [mob EXCEPT ![v] = Struck(@, p)]
  /\ UNCHANGED <<zone, due, corpses, thinned, made, view>>

\* The last blow: only the client of the killer is told.
Kill(p, v) ==
  /\ zone[p] = "close" /\ Exists(v) /\ mob[v].hp = 1 /\ Spend
  /\ Bury(v)
  /\ shown' = [shown EXCEPT ![p] = @ \ {v}]
  /\ ghosts' = [q \in Players |-> IF q # p /\ v \in shown[q] THEN ghosts[q] \cup {v} ELSE ghosts[q]]
  /\ blind' = [q \in Players |-> blind[q] \ {v}]
  /\ UNCHANGED <<zone, thinned, made>>

\* /kill and /purge: everybody on the map is told.
GmKill(v) ==
  /\ Exists(v) /\ Spend /\ Bury(v)
  /\ shown' = [q \in Players |-> shown[q] \ {v}] /\ blind' = [q \in Players |-> blind[q] \ {v}]
  /\ UNCHANGED <<zone, thinned, made, ghosts>>

\* /mob: a group, whose mobs the game master alone is ever told of.
GmSpawn(p, e) ==
  /\ InWorld(p, zone) /\ zone[p] \in Near /\ e \in Groups \ made /\ Spend
  /\ made' = made \cup {e} /\ Cardinality(Fresh) >= Count[e]
  /\ mob' = [v \in Vids |-> IF v \in NextIds(Count[e])
                             THEN [entry |-> e, hp |-> MaxHp, hunts |-> Nobody, seen |-> {p}]
                             ELSE mob[v]]
  /\ shown' = [shown EXCEPT ![p] = @ \cup NextIds(Count[e])]
  /\ UNCHANGED <<zone, due, corpses, thinned, blind, ghosts>>

-----------------------------------------------------------------------------
Play(p) == \/ Leave(p)
           \/ \E z \in Zones : Join(p, z) \/ Move(p, z)
           \/ \E v \in Vids : Strike(p, v) \/ Kill(p, v)
           \/ \E e \in Groups : GmSpawn(p, e)
Next == Tick \/ (\E v \in Vids : GmKill(v)) \/ (\E p \in Players : Play(p))

Spec == Init /\ [][Next]_vars
\* The timer of the channel's loop fires as long as the channel runs.
FairSpec == Spec /\ WF_vars(Tick)

-----------------------------------------------------------------------------
TypeOK ==
  /\ zone \in [Players -> Zones \cup {"out"}] /\ mob \in [Vids -> Mobs]
  /\ due \in [Entries -> Nat \cup {Idle, Never}] /\ \A e \in Entries : due[e] <= Time[e]
  /\ corpses \in [Entries -> Nat]
  /\ made \subseteq Groups /\ thinned \subseteq Entries
  /\ shown \in [Players -> SUBSET Vids] /\ blind \in [Players -> SUBSET Vids]
  /\ ghosts \in [Players -> SUBSET Vids] /\ spent \in 0 .. MaxEvents

\* However kills, returns and updates interleave, an entry never has more mobs than copies.
AliveWithinCount == \A e \in Entries : Cardinality(Alive(e)) <= Count[e]

\* A mob of the spawn table that counts a player among those who have been sent it is on that
\* player's screen, unless the client is new and the mob remembers the one before.  (Not so the
\* mobs of /mob: they count everybody in view, and only the game master was sent them.)
SeenIsShown ==
  \A p \in Players, v \in Vids :
    InWorld(p, zone) /\ Exists(v) /\ mob[v].entry \notin Groups /\ p \in mob[v].seen
    => v \in shown[p] \cup blind[p]

\* A client shows no mob that is gone, unless somebody else has killed it.
NoPhantoms ==
  \A p \in Players : InWorld(p, zone) => \A v \in shown[p] : Exists(v) \/ v \in ghosts[p]

\* While players stay near and leave the mobs alone, every entry with a time is complete in the
\* end, unless it was thinned.
RespawnsComeBack ==
  <>[](Viewers(zone) # {}) =>
    \A e \in Entries \ Groups :
      Time[e] > 0 => <>[](Cardinality(Alive(e)) = Count[e] \/ e \in thinned)

\* What the comments say (spawn.rs:42, and of the mobs of /mob spawn.rs:392): every view is sent
\* the mobs in it, and again after it was left.
ViewsAreComplete ==
  [][Tick => \A p \in Players, v \in Vids :
               p \in Viewers(zone) /\ Exists(v) /\ mob'[v] # NoMob => v \in shown'[p]]_vars
=============================================================================
