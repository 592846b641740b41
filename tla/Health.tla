------------------------------- MODULE Health --------------------------------
(***************************************************************************)
(* The health and the mana of the players of a channel, which exist twice: *)
(* in the components Hp and Mp of the world task, where hits land and      *)
(* skills are paid, and in the row of each session, which the client sees, *)
(* which is saved, and which decides who is dead (game_core/src/ecs/       *)
(* systems/combat.rs and skill.rs; server_realms/src/channel/events.rs,    *)
(* items.rs, script.rs, party.rs).                                         *)
(*                                                                         *)
(* Neither side reads the other.  The world tells a session what it took   *)
(* ("hit", "cost") and the session subtracts it again; a session tells the *)
(* world the absolute value it has after a potion or a revival (SetHp,     *)
(* SetMp).  Both queues are FIFO; they cross each other.  What a hit needs *)
(* besides the health of the two (range, cooldown, PvP mode, party) is     *)
(* left open.                                                              *)
(***************************************************************************)
EXTENDS Integers, Sequences, FiniteSets

CONSTANTS
  Players,
  MaxHp, MaxMp,   \* compute_max_points()
  Saved,          \* the rows that earlier sessions have left, below zero maybe
  Dose,           \* what a potion restores
  MaxDamage,      \* bound: the most a hit takes
  Costs,          \* what skills take: mp, and hp too if USE_HP_AS_COST is set
  MaxBuff,        \* bound: how far buffs raise the maximum of the health
  MaxEvents       \* bound: hits of mobs, buffs and requests, all together

ASSUME LimitsAssumption ==
  /\ MaxHp \in Nat \ {0} /\ MaxMp \in Nat /\ Dose \in Nat /\ MaxDamage \in Nat
  /\ MaxBuff \in Nat /\ MaxEvents \in Nat
ASSUME CostsAssumption == Costs \subseteq [hp : Nat, mp : Nat]
ASSUME SavedAssumption ==
  /\ Saved \in [Players -> [hp : Int, mp : Int]]
  /\ \A p \in Players : Saved[p].hp <= MaxHp /\ Saved[p].mp <= MaxMp

VARIABLES
  body,     \* Hp and Mp of the entities of the world
  intents,  \* the queue of the world task
  routed,   \* the world sends to the queue of the player's present session
  up,       \* the player has a session in the game
  row,      \* hp and mp of Session.row, kept by the save when the session ends
  events,   \* the queue of each session
  told,     \* the client has got GC_DEAD and no revival since
  excuses,  \* what happened to a player that the code does not defend against
  spent

vars == <<body, intents, routed, up, row, events, told, excuses, spent>>

Damages == 1 .. MaxDamage
NoBody == [hp |-> 0, mp |-> 0, max |-> 0]
Bodies == [hp : Int, mp : Int, max : Nat \ {0}] \cup {NoBody}
Row == [hp : Int, mp : Int]
Full == [hp |-> MaxHp, mp |-> MaxMp]
Requests == [by : Players, kind : {"attack"}, victim : Players]
            \cup [by : Players, kind : {"skill", "leave"}]
            \cup [by : Players, kind : {"setHp", "setMp"}, to : Int]
            \cup [by : Players, kind : {"join"}, row : Row]
Hits == [kind : {"hit"}, damage : Nat]
Payments == [kind : {"cost"}, cost : Costs]
Events == Hits \cup Payments

\* crossed: a value set by the session and a loss told by the world passed each other;
\* healed: the party's heal; buffed: a skill raised the maximum; paid: the last health went into
\* a skill; entered: the session began dead.
Drifts == {"crossed", "healed", "buffed"}
Excuses == Drifts \cup {"paid", "entered"}

Least0(n) == IF n > 0 THEN n ELSE 0
Lesser(m, n) == IF m < n THEN m ELSE n
Spend == spent < MaxEvents /\ spent' = spent + 1
Dead(p) == row[p].hp <= 0
InWorld(p) == body[p] # NoBody

\* Is a value of p on its way to the world?
Setting(p) == \E i \in 1 .. Len(intents) :
                intents[i].by = p /\ intents[i].kind \in {"setHp", "setMp"}
\* Nothing of what the code leaves open has moved the two copies of p apart.
Synced(p) == excuses[p] \cap Drifts = {}
Whole(r) == r.hp >= 0 /\ r.mp >= 0

-----------------------------------------------------------------------------
Init ==
  /\ body = [p \in Players |-> NoBody] /\ intents = <<>>
  /\ routed = [p \in Players |-> FALSE] /\ up = [p \in Players |-> FALSE]
  /\ row = Saved /\ events = [p \in Players |-> <<>>]
  /\ told = [p \in Players |-> FALSE] /\ excuses = [p \in Players |-> {}] /\ spent = 0

-----------------------------------------------------------------------------
\* Sessions: requests

\* The session joins the world with the row it has loaded, dead or not.
Enter(p) ==
  /\ ~up[p] /\ Spend /\ up' = [up EXCEPT ![p] = TRUE]
  /\ intents' = Append(intents, [by |-> p, kind |-> "join", row |-> row[p]])
  /\ told' = [told EXCEPT ![p] = FALSE]
  /\ excuses' = [excuses EXCEPT ![p] = IF Dead(p) THEN {"entered"} ELSE {}]
  /\ UNCHANGED <<body, routed, row, events>>

\* The connection ends: the guard sends Leave, and what the world still has to tell is lost.
Disconnect(p) ==
  /\ up[p] /\ up' = [up EXCEPT ![p] = FALSE]
  /\ intents' = Append(intents, [by |-> p, kind |-> "leave"])
  /\ routed' = [routed EXCEPT ![p] = FALSE] /\ events' = [events EXCEPT ![p] = <<>>]
  /\ UNCHANGED <<body, row, told, excuses, spent>>

AskAttack(p, v) ==
  /\ up[p] /\ p # v /\ Spend
  /\ intents' = Append(intents, [by |-> p, kind |-> "attack", victim |-> v])
  /\ UNCHANGED <<body, routed, up, row, events, told, excuses>>

AskSkill(p) ==
  /\ up[p] /\ Spend /\ intents' = Append(intents, [by |-> p, kind |-> "skill"])
  /\ UNCHANGED <<body, routed, up, row, events, told, excuses>>

\* The row takes new values, and the world is told them: the copies agree again, unless losses
\* wait in the queue of the session.
SetRow(p, new, ends) ==
  /\ row' = [row EXCEPT ![p] = new]
  /\ intents' = intents \o << [by |-> p, kind |-> "setHp", to |-> new.hp],
                              [by |-> p, kind |-> "setMp", to |-> new.mp] >>
  /\ excuses' = [excuses EXCEPT ![p] = (@ \ (Drifts \cup ends))
                                        \cup (IF events[p] = <<>> THEN {} ELSE {"crossed"})]

\* handle_use: a potion restores health or mana up to the maximum; nobody asks who is dead.
Potion(p) ==
  /\ up[p] /\ Spend
  /\ \/ row[p].hp < MaxHp /\ SetRow(p, [row[p] EXCEPT !.hp = Lesser(@ + Dose, MaxHp)], {})
     \/ row[p].mp < MaxMp /\ SetRow(p, [row[p] EXCEPT !.mp = Lesser(@ + Dose, MaxMp)], {})
  /\ UNCHANGED <<body, routed, up, events, told>>

\* The answer to the dialogue of death, /restart_here and /restart_town.
Revive(p) ==
  /\ up[p] /\ Dead(p) /\ Spend
  /\ SetRow(p, Full, {"paid", "entered"}) /\ told' = [told EXCEPT ![p] = FALSE]
  /\ UNCHANGED <<body, routed, up, events>>

\* PartyMsg::HealFull: the row is filled, and the world is not told.
HealFull(p) ==
  /\ up[p] /\ Spend /\ row' = [row EXCEPT ![p] = Full]
  /\ excuses' = [excuses EXCEPT ![p] = @ \cup {"healed"}]
  /\ UNCHANGED <<body, intents, routed, up, events, told>>

-----------------------------------------------------------------------------
\* Sessions: what the world tells them

\* variant: a hit that leaves nothing does not say so
HandleHitQuietly(p) ==
  /\ up[p] /\ events[p] # <<>> /\ Head(events[p]).kind = "hit"
  /\ events' = [events EXCEPT ![p] = Tail(@)]
  /\ LET hp == row[p].hp - Head(events[p]).damage IN
       /\ row' = [row EXCEPT ![p].hp = Least0(hp)]
       /\ told' = [told EXCEPT ![p] = @ \/ hp < 0]
  /\ UNCHANGED <<body, intents, routed, up, excuses, spent>>

\* MobAttack, PvPVictimHit and SplashVictimHit: death is decided by the row.
HandleHit(p) ==
  /\ up[p] /\ events[p] # <<>> /\ Head(events[p]).kind = "hit"
  /\ events' = [events EXCEPT ![p] = Tail(@)]
  /\ LET hp == row[p].hp - Head(events[p]).damage IN
       /\ row' = [row EXCEPT ![p].hp = Least0(hp)]
       /\ told' = [told EXCEPT ![p] = @ \/ hp <= 0]
  /\ UNCHANGED <<body, intents, routed, up, excuses, spent>>

\* SkillResult and SplashResult: what the skill cost, with no floor and no death.
HandleCost(p) ==
  /\ up[p] /\ events[p] # <<>> /\ Head(events[p]).kind = "cost"
  /\ events' = [events EXCEPT ![p] = Tail(@)]
  /\ LET c == Head(events[p]).cost
         left == row[p].hp - c.hp
     IN /\ row' = [row EXCEPT ![p] = [hp |-> left, mp |-> @.mp - c.mp]]
        /\ excuses' = [excuses EXCEPT ![p] =
                         IF ~Dead(p) /\ left <= 0 THEN @ \cup {"paid"} ELSE @]
  /\ UNCHANGED <<body, intents, routed, up, told, spent>>

-----------------------------------------------------------------------------
\* The world

\* What the world tells each player; a player whose route is gone is not told.  A loss that is
\* told while a value of the session is on its way crosses it.
Tell(news) ==
  /\ events' = [q \in Players |-> IF routed[q] THEN events[q] \o news[q] ELSE events[q]]
  /\ excuses' = [q \in Players |->
                   IF routed[q] /\ news[q] # <<>> /\ Setting(q) THEN excuses[q] \cup {"crossed"} ELSE excuses[q]]
Quiet == UNCHANGED <<events, excuses>>

Take(kind) == intents # <<>> /\ Head(intents).kind = kind /\ intents' = Tail(intents)

\* The route is that of the session that joins: of no use if the session is gone by now.
Joins(p, queue) == \E i \in 1 .. Len(queue) : queue[i].by = p /\ queue[i].kind = "join"

WorldJoin ==
  /\ Take("join")
  /\ LET i == Head(intents) IN
       /\ body' = [body EXCEPT ![i.by] = [hp |-> i.row.hp, mp |-> i.row.mp, max |-> MaxHp]]
       /\ routed' = [routed EXCEPT ![i.by] = up[i.by] /\ ~Joins(i.by, intents')]
  /\ Quiet /\ UNCHANGED <<up, row, told, spent>>

WorldLeave ==
  /\ Take("leave") /\ body' = [body EXCEPT ![Head(intents).by] = NoBody]
  /\ Quiet /\ UNCHANGED <<routed, up, row, told, spent>>

\* variant: a value for the dead is dropped
WorldSetAlive ==
  /\ (Take("setHp") \/ Take("setMp"))
  /\ LET i == Head(intents) IN
       body' = IF ~InWorld(i.by) \/ body[i.by].hp <= 0 THEN body
               ELSE IF i.kind = "setHp" THEN [body EXCEPT ![i.by].hp = i.to]
               ELSE [body EXCEPT ![i.by].mp = i.to]
  /\ Quiet /\ UNCHANGED <<routed, up, row, told, spent>>

\* set_player_hp and set_player_mp: whatever the world has, the value replaces it.
WorldSet ==
  /\ (Take("setHp") \/ Take("setMp"))
  /\ LET i == Head(intents) IN
       body' = IF ~InWorld(i.by) THEN body
               ELSE IF i.kind = "setHp" THEN [body EXCEPT ![i.by].hp = i.to]
               ELSE [body EXCEPT ![i.by].mp = i.to]
  /\ Quiet /\ UNCHANGED <<routed, up, row, told, spent>>

Hit(d) == << [kind |-> "hit", damage |-> d] >>
NoNews == [q \in Players |-> <<>>]
Hurt(b, d) == [b EXCEPT !.hp = Least0(@ - d)]

\* The dead neither attack nor are attacked by players (battle_is_attackable).
Attackable(p, v) == p # v /\ InWorld(p) /\ InWorld(v) /\ body[p].hp > 0 /\ body[v].hp > 0

WorldAttack(d) ==
  /\ Take("attack")
  /\ LET p == Head(intents).by
         v == Head(intents).victim
     IN /\ Attackable(p, v)
        /\ body' = [body EXCEPT ![v] = Hurt(@, d)]
        /\ Tell([NoNews EXCEPT ![v] = Hit(d)])
  /\ UNCHANGED <<routed, up, row, told, spent>>

\* An attack or a skill that the world refuses has no effect and no answer.
WorldRefuse ==
  /\ (Take("attack") \/ Take("skill"))
  /\ Quiet /\ UNCHANGED <<body, routed, up, row, told, spent>>

\* variant: the cost is compared with the maximum, not with what is left
AffordsOnce(p, c) == InWorld(p) /\ c.mp <= MaxMp /\ c.hp <= body[p].max

\* The world's own copy decides what a skill may cost, and somebody with no more than that pays.
\* A pool that the skill does not take from is not looked at, and yet Paid lifts it to zero.
Affords(p, c) ==
  InWorld(p) /\ (c.mp > 0 => c.mp <= body[p].mp) /\ (c.hp > 0 => c.hp <= body[p].hp)
Paid(b, c) == [hp |-> Least0(b.hp - c.hp), mp |-> Least0(b.mp - c.mp), max |-> b.max]
Cost(c) == IF c.hp > 0 \/ c.mp > 0 THEN << [kind |-> "cost", cost |-> c] >> ELSE <<>>

\* A skill on a mob, or one that does no more than cost.
WorldSkill(c) ==
  /\ Take("skill")
  /\ LET p == Head(intents).by IN
       /\ Affords(p, c)
       /\ body' = [body EXCEPT ![p] = Paid(@, c)]
       /\ Tell([NoNews EXCEPT ![p] = Cost(c)])
  /\ UNCHANGED <<routed, up, row, told, spent>>

\* A splash: the cost is paid before the gate is evaluated for each player around.
WorldSplash(c, victims, d) ==
  /\ Take("skill") /\ victims # {}
  /\ LET p == Head(intents).by IN
       /\ Affords(p, c) /\ Paid(body[p], c).hp > 0
       /\ \A v \in victims : Attackable(p, v)
       /\ body' = [q \in Players |-> IF q = p THEN Paid(body[q], c)
                                     ELSE IF q \in victims THEN Hurt(body[q], d) ELSE body[q]]
       /\ Tell([q \in Players |-> IF q = p THEN Cost(c)
                                  ELSE IF q \in victims THEN Hit(d) ELSE <<>>])
  /\ UNCHANGED <<routed, up, row, told, spent>>

Raised(b) == [hp |-> b.hp + 1, mp |-> b.mp, max |-> b.max + 1]
Lowered(b) == [hp |-> Lesser(b.hp, b.max - 1), mp |-> b.mp, max |-> b.max - 1]

\* A buff of the maximum: the world raises the maximum and what is left; the sessions hear of
\* the cost and of the icon.
WorldBuff(c, targets) ==
  /\ Take("skill") /\ targets # {}
  /\ LET p == Head(intents).by IN
       /\ Affords(p, c)
       /\ \A q \in targets : InWorld(q) /\ body[q].max < MaxHp + MaxBuff
       /\ LET paid == [body EXCEPT ![p] = Paid(@, c)] IN
            body' = [q \in Players |-> IF q \in targets THEN Raised(paid[q]) ELSE paid[q]]
       /\ events' = [events EXCEPT ![p] = IF routed[p] THEN @ \o Cost(c) ELSE @]
       /\ excuses' = [q \in Players |->
                        excuses[q]
                        \cup (IF routed[q] /\ q \in targets THEN {"buffed"} ELSE {})
                        \cup (IF routed[q] /\ q = p /\ Cost(c) # <<>> /\ Setting(q)
                              THEN {"crossed"} ELSE {})]
  /\ UNCHANGED <<routed, up, row, told, spent>>

\* affects_system: a buff ends, and what is left is cut to the maximum.
Expire(p) ==
  /\ InWorld(p) /\ body[p].max > MaxHp
  /\ body' = [body EXCEPT ![p] = Lowered(@)]
  /\ UNCHANGED <<intents, routed, up, row, events, told, excuses, spent>>

\* chase_attack_system: mobs go on hitting the dead.
MobHit(p, d) ==
  /\ InWorld(p) /\ Spend /\ body' = [body EXCEPT ![p] = Hurt(@, d)]
  /\ Tell([NoNews EXCEPT ![p] = Hit(d)])
  /\ UNCHANGED <<intents, routed, up, row, told>>

-----------------------------------------------------------------------------
World ==
  \/ WorldJoin \/ WorldLeave \/ WorldSet \/ WorldRefuse
  \/ \E d \in Damages : WorldAttack(d)
  \/ \E c \in Costs : \/ WorldSkill(c)
                      \/ \E vs \in SUBSET Players, d \in Damages : WorldSplash(c, vs, d)
                      \/ \E ts \in SUBSET Players : WorldBuff(c, ts)
Hear(p) == HandleHit(p) \/ HandleCost(p)
Ask(p) == \/ Enter(p) \/ Disconnect(p) \/ AskSkill(p) \/ Potion(p) \/ Revive(p) \/ HealFull(p)
          \/ \E v \in Players : AskAttack(p, v)
Tick(p) == Expire(p) \/ \E d \in Damages : MobHit(p, d)

Next == World \/ \E p \in Players : Ask(p) \/ Hear(p) \/ Tick(p)

Spec == Init /\ [][Next]_vars
\* The world task serves its queue, and every session its own, as long as they run.
Fairness == WF_vars(World) /\ \A p \in Players : WF_vars(Hear(p))
FairSpec == Spec /\ Fairness

-----------------------------------------------------------------------------
TypeOK ==
  /\ body \in [Players -> Bodies] /\ intents \in Seq(Requests)
  /\ routed \in [Players -> BOOLEAN] /\ up \in [Players -> BOOLEAN]
  /\ row \in [Players -> Row] /\ events \in [Players -> Seq(Events)]
  /\ told \in [Players -> BOOLEAN] /\ excuses \in [Players -> SUBSET Excuses]
  /\ spent \in 0 .. MaxEvents
  /\ \A p \in Players : body[p].hp <= body[p].max /\ row[p].hp <= MaxHp /\ row[p].mp <= MaxMp

\* The world has the value of the row, or zero for a value below zero: SetHp, SetMp and the join
\* bring such values into the world, and a hit or a skill that costs nothing of that pool
\* leaves them at zero there (process_skill), but not in the row.
Mirrors(value, n) == value \in {n, Least0(n)}

\* When nothing of a player is on its way, the world has the health and the mana of its row
\* (zero, maybe, for what the row has below zero), unless a value crossed a loss, the party
\* healed it or a buff raised it; and the next potion or revival ends such a difference.
CopiesAgree ==
  \A p \in Players :
    (/\ up[p] /\ Synced(p) /\ events[p] = <<>>
     /\ \A i \in 1 .. Len(intents) : intents[i].by = p => intents[i].kind \in {"attack", "skill"})
    => InWorld(p) /\ Mirrors(body[p].hp, row[p].hp) /\ Mirrors(body[p].mp, row[p].mp)

\* The world lets nobody pay with what the row does not have: the session subtracts costs
\* without a floor, and still no row goes below zero (process_skill against SkillResult).
CostsAreCovered ==
  [][\A p \in Players : up[p] /\ Synced(p) /\ Whole(row[p]) => Whole(row'[p])]_vars

\* Whoever has a dead row has been told, by GC_DEAD, unless the session began like that or the
\* last of its health went into a skill.
DeathIsTold ==
  \A p \in Players : up[p] /\ Dead(p) => told[p] \/ excuses[p] \cap {"paid", "entered"} # {}

\* A player whom the world holds for dead is told so, or is alive again, or leaves.
DeathReachesClient ==
  \A p \in Players :
    (up[p] /\ routed[p] /\ InWorld(p) /\ body[p].hp <= 0 /\ Synced(p)) ~>
    (\/ told[p] \/ excuses[p] \cap {"paid", "entered"} # {} \/ ~up[p] \/ ~Synced(p)
     \/ body[p].hp > 0)

\* What the comments say: after GC_DEAD only the revival brings a player back.
DeadUntilRevived == \A p \in Players : up[p] /\ told[p] => Dead(p)

\* What the comments say: health that the world does not know of would be cosmetic.
HealingIsReal ==
  \A p \in Players :
    (/\ up[p] /\ excuses[p] \subseteq {"healed", "paid", "entered"} /\ events[p] = <<>>
     /\ \A i \in 1 .. Len(intents) : intents[i].by = p => intents[i].kind \in {"attack", "skill"})
    => body[p].hp = row[p].hp
=============================================================================
