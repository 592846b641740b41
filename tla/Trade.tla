-------------------------------- MODULE Trade --------------------------------
(***************************************************************************)
(* The exchange between two players (game_core/src/trade.rs,               *)
(* game_core/src/ecs/systems/social.rs, server_realms/src/channel/         *)
(* trade.rs).  The world task keeps the two offers and the two accepts; the *)
(* session of the last player to accept writes the exchange to PostgreSQL, *)
(* one unit after another; then the world tells both sessions to change    *)
(* their memory.                                                           *)
(*                                                                         *)
(* A thing is what a player would call an item; its row changes id when it *)
(* is traded.  Gold and the saves of the players go through the batcher of *)
(* WalPipeline, reduced here to a queue that every unit flushes.           *)
(***************************************************************************)
EXTENDS Naturals, Sequences, FiniteSets, FiniteSetsExt, SequencesExt

CONSTANTS
  Sessions,    \* the players
  NoSession,   \* the partner of a player who is not trading
  Things,      \* number of things in the game
  StartGold,   \* the gold of each player at the start
  GoldMax,     \* GOLD_MAX
  OfferLimit,  \* EXCHANGE_ITEM_MAX_NUM
  MaxRows,     \* bound: ids of player.item
  MaxQueue,    \* bound: intents waiting when a player asks for something new
  MaxEvents    \* bound: requests to trade or to accept, saves, losses, failures and
               \* disconnections, all together

ASSUME SessionsAssumption == NoSession \notin Sessions /\ IsFiniteSet(Sessions)
ASSUME LimitsAssumption == /\ {Things, GoldMax, OfferLimit, MaxRows, MaxQueue, MaxEvents} \subseteq Nat
                           /\ StartGold \in [Sessions -> 0 .. GoldMax]
                           /\ Things <= MaxRows

VARIABLES
  \* world
  intents,  \* the queue into the world (intent_rx)
  players,  \* the players in the world
  routes,   \* the players whose event queue still has a receiver
  pair,     \* trades: the partner of each player
  side,     \* its TradeSide
  \* sessions
  at,       \* where each session is in its handler
  events,   \* Commit and Done events it has not handled
  plan,     \* the plan it commits
  seen,     \* the gold of its partner that it read in PostgreSQL
  todo,     \* the units it has still to run
  hand,     \* the received items it has still to place
  gain,     \* the gold it will have after a Done
  gold, bag, \* the gold and the items in memory
  \* PostgreSQL and the queue of the batcher
  rows, dbGold, saves,
  \* bookkeeping of the model
  excuses,  \* what has happened that the code does not defend against
  lost,     \* the things that left the hands of their player
  spent     \* the part of MaxEvents that is used

trading  == <<pair, side>>
world    == <<intents, players, routes, trading>>
handler  == <<at, plan, seen, todo, hand, gain>>
memory   == <<gold, bag>>
pg       == <<rows, dbGold, saves>>
ghosts   == <<excuses, lost>>
vars == <<world, events, handler, memory, pg, ghosts, spent>>

Ids    == 1 .. MaxRows
Amount == 0 .. GoldMax
Item   == [id : Ids, thing : 1 .. Things]
NoRow  == [owner |-> NoSession, thing |-> 0]
NoSide == [items |-> {}, gold |-> 0, accept |-> FALSE]

\* TradeCommitPlan, as its executor sees it: what it gives and pays, what it gets.
Plans == [partner : Sessions, gives : SUBSET Item, pays : Amount,
          gets : SUBSET Item, isPaid : Amount]
NoPlan == [partner |-> NoSession, gives |-> {}, pays |-> 0, gets |-> {}, isPaid |-> 0]
\* ItemExchange: its materials and gold, or its result.
Units == [kind : {"take", "give"}, owner : Sessions, items : SUBSET Item,
          pre : Amount, post : Amount]
\* TradeEvent::Commit and TradeEvent::Done; the others only inform the client.
Commits == [kind : {"commit"}, plan : Plans]
Dones == [kind : {"done"}, gold : Amount, received : SUBSET Item, delivered : SUBSET Item]
Intents == [kind : {"start", "item", "del", "gold", "accept", "cancel",
                    "commitOk", "commitFail", "leave", "join"},
            by : Sessions, to : Sessions \cup {NoSession},
            item : Item \cup {NoRow}, gold : Amount]

Excuses == {"stale", "sameId", "failed", "echo", "changed"}

IdsOf(items) == {i.id : i \in items}
ThingsOf(items) == {i.thing : i \in items}
OwnedRows(s) == {[id |-> i, thing |-> rows[i].thing] : i \in {j \in Ids : rows[j].owner = s}}

-----------------------------------------------------------------------------
\* The things start in the bag of one player or another, with ids of the range.
Init ==
  /\ intents = <<>> /\ players = Sessions /\ routes = Sessions
  /\ pair = [s \in Sessions |-> NoSession]
  /\ side = [s \in Sessions |-> NoSide]
  /\ at = [s \in Sessions |-> "idle"]
  /\ events = [s \in Sessions |-> <<>>]
  /\ plan = [s \in Sessions |-> NoPlan]
  /\ seen = [s \in Sessions |-> 0]
  /\ todo = [s \in Sessions |-> <<>>]
  /\ hand = [s \in Sessions |-> {}]
  /\ gain = [s \in Sessions |-> 0]
  /\ gold = StartGold /\ dbGold = StartGold
  /\ \E holder \in [1 .. Things -> Sessions] :
       /\ rows = [i \in Ids |-> IF i <= Things THEN [owner |-> holder[i], thing |-> i] ELSE NoRow]
       /\ bag = [s \in Sessions |->
                   {[id |-> i, thing |-> i] : i \in {j \in 1 .. Things : holder[j] = s}}]
  /\ saves = <<>>
  /\ excuses = {} /\ lost = {} /\ spent = 0

-----------------------------------------------------------------------------
\* Sessions: what a player asks for (CG_EXCHANGE), in an idle session

Intent(kind, s, to, item, n) == [kind |-> kind, by |-> s, to |-> to, item |-> item, gold |-> n]
Send(m) == intents' = Append(intents, m)
SendOnly(kind, s) == Send(Intent(kind, s, NoSession, NoRow, 0))

Spend == spent < MaxEvents /\ spent' = spent + 1

Free(s) == at[s] = "idle" /\ Len(intents) < MaxQueue

AskStart(s) ==
  /\ Free(s) /\ Spend
  /\ \E t \in Sessions \ {s} : Send(Intent("start", s, t, NoRow, 0))
  /\ UNCHANGED <<players, routes, trading, events, handler, memory, pg, ghosts>>

\* The row of the item goes with the intent, as it is in memory now.
AskItem(s) ==
  /\ Free(s)
  /\ \E i \in bag[s] : Send(Intent("item", s, NoSession, i, 0))
  /\ UNCHANGED <<players, routes, trading, events, handler, memory, pg, ghosts, spent>>

AskDel(s) ==
  /\ Free(s)
  /\ \E i \in bag[s] : Send(Intent("del", s, NoSession, i, 0))
  /\ UNCHANGED <<players, routes, trading, events, handler, memory, pg, ghosts, spent>>

\* Gold is offered only if the memory of the session has it.
AskGold(s) ==
  /\ Free(s)
  /\ \E n \in 1 .. gold[s] : Send(Intent("gold", s, NoSession, NoRow, n))
  /\ UNCHANGED <<players, routes, trading, events, handler, memory, pg, ghosts, spent>>

AskAccept(s) ==
  /\ Free(s) /\ Spend
  /\ SendOnly("accept", s)
  /\ UNCHANGED <<players, routes, trading, events, handler, memory, pg, ghosts>>

AskCancel(s) ==
  /\ Free(s)
  /\ SendOnly("cancel", s)
  /\ UNCHANGED <<players, routes, trading, events, handler, memory, pg, ghosts, spent>>

\* Meanwhile the player's row is saved, as it is in memory ...
SaveOf(s) == saves' = Append(saves, [by |-> s, gold |-> gold[s]])

Save(s) ==
  /\ at[s] = "idle" /\ Spend
  /\ SaveOf(s)
  /\ UNCHANGED <<world, events, handler, memory, rows, dbGold, ghosts>>

\* ... and an item, offered or not, is dropped, sold or used.
Lose(s) ==
  /\ at[s] = "idle" /\ Spend
  /\ \E i \in bag[s] :
       /\ bag' = [bag EXCEPT ![s] = @ \ {i}]
       /\ rows' = [rows EXCEPT ![i.id] = NoRow]
       /\ lost' = lost \cup {i.thing}
       /\ excuses' = IF i \in OwnedRows(s) THEN excuses ELSE excuses \cup {"stale"}
  /\ UNCHANGED <<world, events, handler, gold, dbGold, saves>>

-----------------------------------------------------------------------------
\* The world task takes one intent at a time (handle_trade)

Takes(kind) == /\ intents # <<>> /\ Head(intents).kind = kind
               /\ intents' = Tail(intents)
By == Head(intents).by
Partner == pair[By]

\* A new pair, unless one of the two is busy or absent; or too far or at a shop.
WorldStart ==
  /\ Takes("start")
  /\ LET t == Head(intents).to
     IN  \/ /\ pair[By] = NoSession /\ pair[t] = NoSession /\ {By, t} \subseteq players
            /\ pair' = [pair EXCEPT ![By] = t, ![t] = By]
            /\ side' = [side EXCEPT ![By] = NoSide, ![t] = NoSide]
         \/ UNCHANGED trading
  /\ UNCHANGED <<players, routes, events, handler, memory, pg, ghosts, spent>>

\* Any change of an offer withdraws both accepts (reset_accepts).
Offer(newItems, newGold) ==
  side' = [side EXCEPT ![By] = [items |-> newItems, gold |-> newGold, accept |-> FALSE],
                       ![Partner].accept = FALSE]

\* add_item: an item is offered once, and no more than OfferLimit of them.
WorldItem ==
  /\ Takes("item")
  /\ LET i == Head(intents).item
     IN  IF /\ Partner # NoSession
            /\ i.id \notin IdsOf(side[By].items)
            /\ Cardinality(side[By].items) < OfferLimit
         THEN Offer(side[By].items \cup {i}, side[By].gold)
         ELSE UNCHANGED side
  /\ UNCHANGED <<players, routes, pair, events, handler, memory, pg, ghosts, spent>>

WorldDel ==
  /\ Takes("del")
  /\ IF Partner # NoSession /\ Head(intents).item \in side[By].items
     THEN Offer(side[By].items \ {Head(intents).item}, side[By].gold)
     ELSE UNCHANGED side
  /\ UNCHANGED <<players, routes, pair, events, handler, memory, pg, ghosts, spent>>

\* variant: the accepts stay
WorldGoldKeepsAccepts ==
  /\ Takes("gold")
  /\ IF Partner # NoSession /\ side[By].gold = 0
     THEN side' = [side EXCEPT ![By].gold = Head(intents).gold]
     ELSE UNCHANGED side
  /\ UNCHANGED <<players, routes, pair, events, handler, memory, pg, ghosts, spent>>

\* add_gold: once only.
WorldGold ==
  /\ Takes("gold")
  /\ IF Partner # NoSession /\ side[By].gold = 0
     THEN Offer(side[By].items, Head(intents).gold)
     ELSE UNCHANGED side
  /\ UNCHANGED <<players, routes, pair, events, handler, memory, pg, ghosts, spent>>

\* route_events: the event of a closed connection goes nowhere.
Tell(queues, s, e) == IF s \in routes THEN [queues EXCEPT ![s] = Append(@, e)] ELSE queues

\* trade_accept: when both have accepted, the last one is sent the plan.  The pair
\* stays, with its offers and its accepts, until the session has answered.
WorldAccept ==
  /\ Takes("accept")
  /\ IF Partner = NoSession
     THEN UNCHANGED <<side, events>>
     ELSE /\ side' = [side EXCEPT ![By].accept = TRUE]
          /\ events' = IF side[Partner].accept
                       THEN Tell(events, By,
                              [kind |-> "commit",
                               plan |-> [partner |-> Partner,
                                         gives |-> side[By].items, pays |-> side[By].gold,
                                         gets |-> side[Partner].items,
                                         isPaid |-> side[Partner].gold]])
                       ELSE events
  /\ UNCHANGED <<players, routes, pair, handler, memory, pg, ghosts, spent>>

\* trades.remove of both keys.
Release(s) ==
  IF pair[s] = NoSession
  THEN UNCHANGED trading
  ELSE /\ pair' = [pair EXCEPT ![s] = NoSession, ![pair[s]] = NoSession]
       /\ side' = [side EXCEPT ![s] = NoSide, ![pair[s]] = NoSide]

\* trade_cancel, whether the player or the commit asks for it.
WorldCancel ==
  /\ Takes("cancel") \/ Takes("commitFail")
  /\ Release(By)
  /\ UNCHANGED <<players, routes, events, handler, memory, pg, ghosts, spent>>

\* CommitOk: whatever pair the executor is in now, each side of it is told that it
\* has received what the other offers, and the pair is released.
WorldCommitOk ==
  /\ Takes("commitOk")
  /\ IF Partner = NoSession
     THEN UNCHANGED <<events, excuses>>
     ELSE LET Done(s) == [kind |-> "done", gold |-> side[pair[s]].gold,
                          received |-> side[pair[s]].items, delivered |-> side[s].items]
          IN  /\ events' = Tell(Tell(events, By, Done(By)), Partner, Done(Partner))
              /\ excuses' = IF side[By].accept /\ side[Partner].accept
                            THEN excuses ELSE excuses \cup {"changed"}
  /\ Release(By)
  /\ UNCHANGED <<players, routes, handler, memory, pg, lost, spent>>

\* variant: leave_player forgets the key of the other player
WorldLeaveForgets ==
  /\ Takes("leave")
  /\ players' = players \ {By}
  /\ pair' = [pair EXCEPT ![By] = NoSession]
  /\ side' = [side EXCEPT ![By] = NoSide]
  /\ UNCHANGED <<routes, events, handler, memory, pg, ghosts, spent>>

\* leave_player: the pair goes for both.
WorldLeave ==
  /\ Takes("leave")
  /\ players' = players \ {By}
  /\ Release(By)
  /\ UNCHANGED <<routes, events, handler, memory, pg, ghosts, spent>>

\* Intent::Join: the route of the new connection replaces the old one.
WorldJoin ==
  /\ Takes("join")
  /\ players' = players \cup {By}
  /\ routes' = routes \cup {By}
  /\ UNCHANGED <<trading, events, handler, memory, pg, ghosts, spent>>

-----------------------------------------------------------------------------
\* Sessions: the commit (apply_commit)

\* trade_gold_posts: both can pay, and neither would own more than GoldMax.
PostsAreValid(p, mine, other) ==
  /\ p.pays <= mine /\ p.isPaid <= other
  /\ mine - p.pays + p.isPaid <= GoldMax
  /\ other - p.isPaid + p.pays <= GoldMax

NextEvent(s, kind) == /\ at[s] = "idle" /\ events[s] # <<>> /\ Head(events[s]).kind = kind
                      /\ events' = [events EXCEPT ![s] = Tail(@)]

\* The plan is refused if an offered item is no longer in memory or the gold that
\* the session has in memory, and its partner in PostgreSQL, does not allow it.
Acceptable(s, p) == p.gives \subseteq bag[s] /\ PostsAreValid(p, gold[s], dbGold[p.partner])

\* variant: the gold of the two sides is not checked
TakeCommitUnchecked(s) ==
  /\ NextEvent(s, "commit")
  /\ LET p == Head(events[s]).plan
     IN  /\ p.gives \subseteq bag[s]
         /\ plan' = [plan EXCEPT ![s] = p]
         /\ seen' = [seen EXCEPT ![s] = dbGold[p.partner]]
  /\ at' = [at EXCEPT ![s] = "ids"]
  /\ UNCHANGED <<world, todo, hand, gain, memory, pg, ghosts, spent>>

TakeCommit(s) ==
  /\ NextEvent(s, "commit")
  /\ LET p == Head(events[s]).plan
     IN  /\ Acceptable(s, p)
         /\ plan' = [plan EXCEPT ![s] = p]
         /\ seen' = [seen EXCEPT ![s] = dbGold[p.partner]]
  /\ at' = [at EXCEPT ![s] = "ids"]
  /\ UNCHANGED <<world, todo, hand, gain, memory, pg, ghosts, spent>>

\* variant: the refusal is not reported
RefuseCommitSilently(s) ==
  /\ NextEvent(s, "commit")
  /\ ~Acceptable(s, Head(events[s]).plan)
  /\ UNCHANGED <<world, handler, memory, pg, ghosts, spent>>

RefuseCommit(s) ==
  /\ NextEvent(s, "commit")
  /\ ~Acceptable(s, Head(events[s]).plan)
  /\ SendOnly("commitFail", s)
  /\ UNCHANGED <<players, routes, trading, handler, memory, pg, ghosts, spent>>

\* The materials and the gold of one side.
TakeUnit(owner, items, pre, pays) ==
  IF items = {} /\ pays = 0 THEN <<>>
  ELSE <<[kind |-> "take", owner |-> owner, items |-> items, pre |-> pre, post |-> pre - pays]>>

\* One unit for each item that owner receives, with the ids from first on.
GiveUnits(owner, items, first) ==
  LET inOrder == SetToSeq(items)
  IN  [n \in DOMAIN inOrder |->
         [kind |-> "give", owner |-> owner, pre |-> 0, post |-> 0,
          items |-> {[id |-> first + n - 1, thing |-> inOrder[n].thing]}]]

\* variant: the partner's unit is left out when it pays nothing
UnitsForget(s, p, first) ==
  TakeUnit(s, p.gives, gold[s], p.pays)
  \o (IF p.isPaid = 0 THEN <<>> ELSE TakeUnit(p.partner, p.gets, seen[s], p.isPaid))
  \o GiveUnits(p.partner, p.gives, first)
  \o GiveUnits(s, p.gets, first + Cardinality(p.gives))

\* build_commit_units: what each side hands over, then what each receives.
CommitUnits(s, p, first) ==
  TakeUnit(s, p.gives, gold[s], p.pays)
  \o TakeUnit(p.partner, p.gets, seen[s], p.isPaid)
  \o GiveUnits(p.partner, p.gives, first)
  \o GiveUnits(s, p.gets, first + Cardinality(p.gives))

\* The new ids follow the largest that is in PostgreSQL now (max_id_in_range).
NextId == LET used == {i \in Ids : rows[i] # NoRow}
          IN  IF used = {} THEN 1 ELSE Max(used) + 1

\* Both sides offer one thing: a row that one of them counts on is gone.
OfferedTwice(p) == IF ThingsOf(p.gives) \cap ThingsOf(p.gets) = {} THEN {} ELSE {"stale"}

AllocateIds(s) ==
  /\ at[s] = "ids"
  /\ NextId + Cardinality(plan[s].gives) + Cardinality(plan[s].gets) - 1 <= MaxRows
  /\ todo' = [todo EXCEPT ![s] = CommitUnits(s, plan[s], NextId)]
  /\ at' = [at EXCEPT ![s] = "units"]
  /\ plan' = [plan EXCEPT ![s] = NoPlan]
  /\ seen' = [seen EXCEPT ![s] = 0]
  /\ excuses' = excuses \cup OfferedTwice(plan[s])
  /\ UNCHANGED <<world, events, hand, gain, memory, pg, lost, spent>>

\* The gold of every player once the first n saves of the queue are written.
AfterSaves(n) ==
  [s \in Sessions |->
     LET mine == {k \in 1 .. n : saves[k].by = s}
     IN  IF mine = {} THEN dbGold[s] ELSE saves[Max(mine)].gold]

ThingOf(items, id) == (CHOOSE i \in items : i.id = id).thing

\* exchange: the saves that were pushed earlier are written, then the statements
\* of the unit, each guarded by the row or the gold it expects.
RunUnit(u) ==
  LET before == AfterSaves(Len(saves))
  IN  /\ saves' = <<>>
      /\ IF u.kind = "take"
         THEN /\ rows' = [i \in Ids |-> IF i \in IdsOf(u.items) THEN NoRow ELSE rows[i]]
              /\ dbGold' = [before EXCEPT ![u.owner] = IF @ = u.pre THEN u.post ELSE @]
         ELSE /\ rows' = [i \in Ids |->
                           IF i \in IdsOf(u.items)
                           THEN [owner |-> u.owner, thing |-> ThingOf(u.items, i)]
                           ELSE rows[i]]
              /\ dbGold' = before

\* A unit takes a row that its owner has not, or gives a row an id in use.
Unforeseen(u) ==
  IF u.kind = "take"
  THEN IF \A i \in u.items : rows[i.id] = [owner |-> u.owner, thing |-> i.thing]
       THEN {} ELSE {"stale"}
  ELSE IF \A i \in u.items : rows[i.id] = NoRow THEN {} ELSE {"sameId"}

Unit(s) ==
  /\ at[s] = "units" /\ todo[s] # <<>>
  /\ RunUnit(Head(todo[s]))
  /\ excuses' = excuses \cup Unforeseen(Head(todo[s]))
  /\ todo' = [todo EXCEPT ![s] = Tail(@)]
  /\ UNCHANGED <<world, events, at, plan, seen, hand, gain, memory, lost, spent>>

\* The things that left PostgreSQL and have not come back yet.
Between(units) ==
  LET thingsOf(kind) ==
        UNION {ThingsOf(units[n].items) : n \in {k \in DOMAIN units : units[k].kind = kind}}
  IN  thingsOf("give") \ thingsOf("take")

\* The batch of a unit fails, with the last saves that went before it, or only the
\* answer to its commit is lost.  The units that remain are not run.
UnitFails(s) ==
  /\ at[s] = "units" /\ todo[s] # <<>> /\ Spend
  /\ \/ /\ RunUnit(Head(todo[s]))
        /\ excuses' = excuses \cup Unforeseen(Head(todo[s]))
                             \cup (IF Between(Tail(todo[s])) = {} THEN {} ELSE {"failed"})
     \/ /\ \E n \in 0 .. Len(saves) : dbGold' = AfterSaves(n)
        /\ saves' = <<>>
        /\ excuses' = excuses \cup (IF Between(todo[s]) = {} THEN {} ELSE {"failed"})
        /\ UNCHANGED rows
  /\ todo' = [todo EXCEPT ![s] = <<>>]
  /\ at' = [at EXCEPT ![s] = "idle"]
  /\ SendOnly("commitFail", s)
  /\ UNCHANGED <<players, routes, trading, events, plan, seen, hand, gain, memory,
                 lost>>

CommitDone(s) ==
  /\ at[s] = "units" /\ todo[s] = <<>>
  /\ at' = [at EXCEPT ![s] = "idle"]
  /\ SendOnly("commitOk", s)
  /\ UNCHANGED <<players, routes, trading, events, plan, seen, todo, hand, gain, memory, pg,
                 ghosts, spent>>

\* The batcher's interval passes: the oldest save is written.
WriteSave ==
  /\ saves # <<>>
  /\ dbGold' = AfterSaves(1)
  /\ saves' = Tail(saves)
  /\ UNCHANGED <<world, events, handler, memory, rows, ghosts, spent>>

-----------------------------------------------------------------------------
\* Sessions: the end of a trade (apply_done)

\* The delivered items leave the memory, and the gold the other side offered is
\* added to what the session has ...
TakeDone(s) ==
  /\ NextEvent(s, "done")
  /\ LET e == Head(events[s])
     IN  /\ gold[s] + e.gold <= GoldMax
         /\ bag' = [bag EXCEPT ![s] = {i \in @ : i.id \notin IdsOf(e.delivered)}]
         /\ hand' = [hand EXCEPT ![s] = e.received]
         /\ gain' = [gain EXCEPT ![s] = gold[s] + e.gold]
  /\ at' = [at EXCEPT ![s] = "place"]
  /\ UNCHANGED <<world, plan, seen, todo, gold, pg, ghosts, spent>>

\* ... each received item is written with the id it was offered with ...
PlaceItem(s) ==
  /\ at[s] = "place"
  /\ \E i \in hand[s] :
       /\ rows' = [rows EXCEPT ![i.id] = [owner |-> s, thing |-> i.thing]]
       /\ bag' = [bag EXCEPT ![s] = @ \cup {i}]
       /\ hand' = [hand EXCEPT ![s] = @ \ {i}]
       /\ excuses' = excuses \cup {"echo"}
  /\ UNCHANGED <<world, events, at, plan, seen, todo, gain, gold, dbGold, saves,
                 lost, spent>>

\* ... and the gold is changed at last.
PlaceGold(s) ==
  /\ at[s] = "place" /\ hand[s] = {}
  /\ gold' = [gold EXCEPT ![s] = gain[s]]
  /\ gain' = [gain EXCEPT ![s] = 0]
  /\ at' = [at EXCEPT ![s] = "idle"]
  /\ UNCHANGED <<world, events, plan, seen, todo, hand, bag, pg, ghosts, spent>>

-----------------------------------------------------------------------------
\* The connection ends, with a save and the Leave of its guard

Hangup(s) ==
  /\ at' = [at EXCEPT ![s] = "gone"]
  /\ plan' = [plan EXCEPT ![s] = NoPlan]
  /\ seen' = [seen EXCEPT ![s] = 0]
  /\ hand' = [hand EXCEPT ![s] = {}]
  /\ gain' = [gain EXCEPT ![s] = 0]
  /\ events' = [events EXCEPT ![s] = <<>>]
  /\ routes' = routes \ {s}
  /\ SaveOf(s)
  /\ SendOnly("leave", s)
  /\ UNCHANGED <<players, trading, todo, memory, rows, dbGold, ghosts>>

\* The player leaves, or an answer cannot be sent or a query fails in a handler.
Disconnect(s) ==
  /\ at[s] \in {"idle", "ids", "place"}
  /\ Spend
  /\ Hangup(s)

\* The gold of a Done does not fit: the handler ends, and the connection with it.
DoneOverflows(s) ==
  /\ at[s] = "idle" /\ events[s] # <<>> /\ Head(events[s]).kind = "done"
  /\ gold[s] + Head(events[s]).gold > GoldMax
  /\ Hangup(s)
  /\ UNCHANGED spent

\* The player enters again, with what PostgreSQL has.
Enter(s) ==
  /\ at[s] = "gone"
  /\ at' = [at EXCEPT ![s] = "idle"]
  /\ gold' = [gold EXCEPT ![s] = dbGold[s]]
  /\ bag' = [bag EXCEPT ![s] = OwnedRows(s)]
  /\ SendOnly("join", s)
  /\ UNCHANGED <<players, routes, trading, events, plan, seen, todo, hand, gain, pg, ghosts,
                 spent>>

-----------------------------------------------------------------------------
World == \/ WorldStart \/ WorldItem \/ WorldDel \/ WorldGold \/ WorldAccept
         \/ WorldCancel \/ WorldCommitOk \/ WorldLeave \/ WorldJoin

\* What a session does without being asked.
Handle(s) == \/ TakeCommit(s) \/ RefuseCommit(s) \/ AllocateIds(s)
             \/ Unit(s) \/ CommitDone(s)
             \/ TakeDone(s) \/ PlaceItem(s) \/ PlaceGold(s) \/ DoneOverflows(s)

Ask(s) == \/ AskStart(s) \/ AskItem(s) \/ AskDel(s) \/ AskGold(s) \/ AskAccept(s)
          \/ AskCancel(s) \/ Save(s) \/ Lose(s)

Next == \/ World \/ WriteSave
        \/ \E s \in Sessions : \/ Handle(s) \/ Ask(s) \/ UnitFails(s)
                               \/ Disconnect(s) \/ Enter(s)

Spec == Init /\ [][Next]_vars

\* The world task and the tasks of the connections are polled.
FairSpec == Spec /\ WF_vars(World) /\ \A s \in Sessions : WF_vars(Handle(s))
-----------------------------------------------------------------------------
\* Properties

\* Every variable has its type; no gold is ever out of 0 .. GoldMax.
TypeOK ==
  /\ intents \in Seq(Intents) /\ players \subseteq Sessions /\ routes \subseteq Sessions
  /\ pair \in [Sessions -> Sessions \cup {NoSession}]
  /\ side \in [Sessions -> [items : SUBSET Item, gold : Amount, accept : BOOLEAN]]
  /\ at \in [Sessions -> {"idle", "ids", "units", "place", "gone"}]
  /\ events \in [Sessions -> Seq(Commits \cup Dones)]
  /\ plan \in [Sessions -> Plans \cup {NoPlan}] /\ seen \in [Sessions -> Amount]
  /\ todo \in [Sessions -> Seq(Units)] /\ hand \in [Sessions -> SUBSET Item]
  /\ gain \in [Sessions -> Amount]
  /\ gold \in [Sessions -> Amount] /\ bag \in [Sessions -> SUBSET Item]
  /\ rows \in [Ids -> [owner : Sessions, thing : 1 .. Things] \cup {NoRow}]
  /\ dbGold \in [Sessions -> Amount] /\ saves \in Seq([by : Sessions, gold : Amount])
  /\ excuses \subseteq Excuses /\ lost \subseteq 1 .. Things /\ spent \in 0 .. MaxEvents

\* Whoever starts, cancels, fails or leaves, a player trades with at most one
\* other, who trades with him and is in the world, and a player who does not
\* trade offers nothing (trade_start, trade_cancel, leave_player).
PairsAreMutual ==
  \A s \in Sessions : IF pair[s] = NoSession
                      THEN side[s] = NoSide
                      ELSE pair[s] # s /\ pair[pair[s]] = s /\ s \in players

\* Every request in the queue names what its handler relies on.
RequestsAreFormed ==
  \A n \in DOMAIN intents :
    /\ intents[n].kind = "start" => intents[n].to \in Sessions \ {intents[n].by}
    /\ intents[n].kind \in {"item", "del"} => intents[n].item \in Item

\* What the types of the units rest on: from the check of a plan until its units are
\* built both sides can pay with the gold the session has and has read.
CommitsAreCovered ==
  \A s \in Sessions :
    at[s] = "ids" => plan[s] \in Plans /\ PostsAreValid(plan[s], gold[s], seen[s])

\* The inductive invariant behind the types and the pairs.
IInv == TypeOK /\ PairsAreMutual /\ RequestsAreFormed /\ CommitsAreCovered

\* While a pair lasts, no offer changes under an accept: whoever changes one, both
\* accepts are gone (reset_accepts).
AcceptMeansUnchanged ==
  [][\A s \in Sessions :
       /\ pair[s] # NoSession /\ pair'[s] = pair[s]
       /\ side'[s].items # side[s].items \/ side'[s].gold # side[s].gold
       => ~side'[s].accept /\ ~side'[pair[s]].accept]_vars

\* The rows of a thing, one for each session that is between taking it and giving
\* it included.
Copies(t) == Cardinality({i \in Ids : rows[i].thing = t})
             + Cardinality({s \in Sessions : t \in Between(todo[s])})

\* The units of the commits move every row from one owner to the other: until the
\* sessions place what they are told they received, a thing has exactly one row, or
\* is on its way, unless a row was used that its owner no longer had, one thing was
\* offered by both sides, two sessions chose the same ids, or units were left undone
\* after a failure (build_commit_units, apply_commit).
CommitConservesThings ==
  LET undefended == excuses \ {"changed"}
  IN  /\ undefended = {} =>
           \A t \in 1 .. Things : Copies(t) = IF t \in lost THEN 0 ELSE 1
      /\ undefended = {"failed"} => \A t \in 1 .. Things : Copies(t) <= 1

\* A pair that has accepted does not stay so for ever: it is released, or an offer
\* changes (commit_fail, apply_commit, LeaveGuard).
HasAccepted(p) == \A s \in p : pair[s] \in p /\ side[s].accept
CommitSettles ==
  \A p \in {q \in SUBSET Sessions : Cardinality(q) = 2} : HasAccepted(p) ~> ~HasAccepted(p)

\* What the documentation says

\* A trade is carried out only on offers that both sides have accepted.
DoneOnlyIfAccepted ==
  [][\A s \in Sessions :
       Len(events'[s]) > Len(events[s]) /\ events'[s][Len(events'[s])].kind = "done"
       => side[s].accept /\ side[pair[s]].accept]_vars

\* A trade of offers that both sides have accepted multiplies neither gold nor
\* things in PostgreSQL: the rows that are placed are those of the commit.
TradeConservesWealth ==
  "changed" \notin excuses =>
    /\ MapThenSumSet(LAMBDA s : dbGold[s], Sessions)
         <= MapThenSumSet(LAMBDA s : StartGold[s], Sessions)
    /\ \A t \in 1 .. Things : Copies(t) <= 1
=============================================================================
