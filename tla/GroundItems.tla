----------------------------- MODULE GroundItems -----------------------------
(***************************************************************************)
(* The items of a channel, between three places that are never written     *)
(* together: the inventories in the memory of the sessions, the ground in  *)
(* the world task, and the rows of player.item in PostgreSQL               *)
(* (server_realms/src/channel/items.rs, events.rs, quest.rs, gm.rs;        *)
(* game_core/src/ecs/systems/items.rs; database/src/item.rs).              *)
(*                                                                         *)
(* Every item is of one stackable vnum.  A session runs one handler at a   *)
(* time; a handler gives way to the other sessions and to the world at     *)
(* each statement of PostgreSQL, and a send or a statement that fails ends *)
(* the connection there.  What a session has in hand (left) is in no place.*)
(***************************************************************************)
EXTENDS Naturals, Sequences, FiniteSets, FiniteSetsExt, Functions

CONSTANTS
  Sessions,    \* the players
  NoSession,   \* the owner of no row, the receiver of nothing
  Cells,       \* INVENTORY_MAX_NUM
  StackLimit,  \* ITEM_COUNT_LIMIT
  MaxRows,     \* bound: ids of player.item
  MaxDrops,    \* bound: items put on the ground
  MaxGifts,    \* bound: rewards of quests and of game masters
  MaxMoves,    \* bound: splits and merges
  MaxQueue,    \* bound: intents waiting when a player asks for something new
  MaxCuts      \* bound: connections cut in the middle of a handler

ASSUME SessionsAssumption == IsFiniteSet(Sessions) /\ NoSession \notin Sessions
ASSUME CapacityAssumption == Cells \in Nat \ {0} /\ StackLimit \in Nat \ {0}
ASSUME BoundsAssumption == {MaxRows, MaxDrops, MaxGifts, MaxMoves, MaxQueue, MaxCuts} \subseteq Nat

VARIABLES
  \* sessions
  at,       \* where each session is in its handler
  left,     \* pieces it still has to place
  vid,      \* the ground item it is picking up, 0 for none
  row,      \* the row its handler is about to write, 0 for none
  inv,      \* Session::inventory: the count of each row, 0 for no row
  pending,  \* Session::pending_pickups
  events,   \* the queue from the world (event_rx)
  \* world
  intents,  \* the queue into the world (intent_rx)
  ground,   \* the count of each vid of ItemIndex, 0 for none
  nextVid,  \* VidAlloc::item
  \* PostgreSQL
  rows,     \* player.item
  \* bookkeeping of the model
  created,  \* pieces that mobs, quests and game masters brought into the game
  takers,   \* the sessions that took pieces of each vid
  stored,   \* the pieces of each vid written to PostgreSQL, at most StackLimit
  excuses,  \* what has happened that the code does not defend against
  gifts, moves, cuts

handler == <<at, left, vid, row>>
world   == <<intents, ground, nextVid>>
ghosts  == <<created, takers, stored, excuses>>
bounds  == <<gifts, moves, cuts>>
vars == <<handler, inv, pending, events, world, rows, ghosts, bounds>>

Ids  == 1 .. MaxRows
Vids == 1 .. MaxDrops
Counts == 0 .. StackLimit
NoRow == [owner |-> NoSession, count |-> 0]

\* ItemIntent and the ItemEvent::PickupResult it gives rise to.
Intents == [kind : {"drop", "pickup", "remove"}, by : Sessions \cup {NoSession},
            vid : 0 .. MaxDrops, count : Counts]
Results == [vid : Vids, count : Counts]

Excuses == {"raced", "sameRow", "cut", "full"}

Stacks(s) == {i \in Ids : inv[s][i] > 0}
HasFreeCell(s) == Cardinality(Stacks(s)) < Cells
Room(s) == {i \in Stacks(s) : inv[s][i] < StackLimit}
Lesser(m, n) == IF m < n THEN m ELSE n

-----------------------------------------------------------------------------
Init ==
  /\ at = [s \in Sessions |-> "idle"]
  /\ left = [s \in Sessions |-> 0]
  /\ vid = [s \in Sessions |-> 0]
  /\ row = [s \in Sessions |-> 0]
  /\ inv = [s \in Sessions |-> [i \in Ids |-> 0]]
  /\ pending = [s \in Sessions |-> {}]
  /\ events = [s \in Sessions |-> <<>>]
  /\ intents = <<>> /\ ground = [v \in Vids |-> 0] /\ nextVid = 1
  /\ rows = [i \in Ids |-> NoRow]
  /\ created = 0 /\ takers = [v \in Vids |-> {}] /\ stored = [v \in Vids |-> 0]
  /\ excuses = {} /\ gifts = 0 /\ moves = 0 /\ cuts = 0

-----------------------------------------------------------------------------
\* PostgreSQL

\* ItemRepo::upsert: whoever holds the id, the row becomes s's.
Upsert(s, i, n) == rows' = [rows EXCEPT ![i] = [owner |-> s, count |-> n]]

\* ItemRepo::delete, by id alone.
Delete(i) == rows' = [rows EXCEPT ![i] = NoRow]

\* The last piece of a stack deletes its row.
Store(s, i, n) == IF n = 0 THEN Delete(i) ELSE Upsert(s, i, n)

\* ItemRepo::max_id_in_range, plus one.
NextId == LET used == {i \in Ids : rows[i] # NoRow}
          IN  IF used = {} THEN 1 ELSE Max(used) + 1

-----------------------------------------------------------------------------
\* Sessions: the handlers start in an idle session

Send(kind, s, v, n) ==
  intents' = Append(intents, [kind |-> kind, by |-> s, vid |-> v, count |-> n])

MayDrop == /\ Len(intents) < MaxQueue
           /\ nextVid + Cardinality({i \in DOMAIN intents : intents[i].kind = "drop"})
                <= MaxDrops

\* apply_kill: a mob leaves one piece on the ground.
KillDrop(s) ==
  /\ at[s] = "idle" /\ MayDrop
  /\ Send("drop", s, 0, 1)
  /\ created' = created + 1
  /\ UNCHANGED <<handler, inv, pending, events, ground, nextVid, rows, takers, stored,
                 excuses, bounds>>

\* drop_item: the intent goes first, then the pieces leave the inventory ...
DropItem(s) ==
  /\ at[s] = "idle" /\ MayDrop
  /\ \E i \in Stacks(s), want \in 1 .. StackLimit :
       /\ want <= inv[s][i]
       /\ Send("drop", s, 0, want)
       /\ inv' = [inv EXCEPT ![s][i] = @ - want]
       /\ row' = [row EXCEPT ![s] = i]
  /\ at' = [at EXCEPT ![s] = "store"]
  /\ UNCHANGED <<left, vid, pending, events, ground, nextVid, rows, ghosts, bounds>>

\* ... and the row is deleted or updated.
StoreRow(s) ==
  /\ at[s] = "store"
  /\ Store(s, row[s], inv[s][row[s]])
  /\ at' = [at EXCEPT ![s] = "idle"]
  /\ row' = [row EXCEPT ![s] = 0]
  /\ UNCHANGED <<left, vid, inv, pending, events, world, ghosts, bounds>>

\* variant: the pickup in progress is not remembered
PickupUnguarded(s) ==
  /\ at[s] = "idle" /\ Len(intents) < MaxQueue
  /\ \E v \in Vids : /\ v < nextVid
                     /\ pending' = [pending EXCEPT ![s] = @ \cup {v}]
                     /\ Send("pickup", s, v, 0)
  /\ UNCHANGED <<handler, inv, events, ground, nextVid, rows, ghosts, bounds>>

\* handle_pickup: one question at a time about the same vid.
Pickup(s) ==
  /\ at[s] = "idle" /\ Len(intents) < MaxQueue
  /\ \E v \in Vids : /\ v < nextVid /\ v \notin pending[s]
                     /\ pending' = [pending EXCEPT ![s] = @ \cup {v}]
                     /\ Send("pickup", s, v, 0)
  /\ UNCHANGED <<handler, inv, events, ground, nextVid, rows, ghosts, bounds>>

\* handle_move, onto an empty cell: a part of the stack gets a row of its own.
Split(s) ==
  /\ at[s] = "idle" /\ moves < MaxMoves /\ HasFreeCell(s)
  /\ \E i \in Stacks(s), want \in 1 .. StackLimit :
       /\ want < inv[s][i]
       /\ inv' = [inv EXCEPT ![s][i] = @ - want]
       /\ Upsert(s, i, inv[s][i] - want)
       /\ left' = [left EXCEPT ![s] = want]
  /\ at' = [at EXCEPT ![s] = "newRow"]
  /\ moves' = moves + 1
  /\ UNCHANGED <<vid, row, pending, events, world, ghosts, gifts, cuts>>

\* A bag after n pieces of stack i went onto stack j.
Moved(bag, i, j, n) ==
  [k \in Ids |-> IF k = i THEN bag[k] - n ELSE IF k = j THEN bag[k] + n ELSE bag[k]]

\* handle_move, onto another stack: the destination is written first ...
Merge(s) ==
  /\ at[s] = "idle" /\ moves < MaxMoves
  /\ \E i \in Stacks(s), j \in Room(s), want \in 1 .. StackLimit :
       LET add == Lesser(want, StackLimit - inv[s][j])
       IN  /\ i # j /\ want <= inv[s][i]
           /\ inv' = [inv EXCEPT ![s] = Moved(inv[s], i, j, add)]
           /\ Upsert(s, j, inv[s][j] + add)
           /\ row' = [row EXCEPT ![s] = i]
  /\ at' = [at EXCEPT ![s] = "store"]
  /\ moves' = moves + 1
  /\ UNCHANGED <<left, vid, pending, events, world, ghosts, gifts, cuts>>

\* give_item of a quest stacks what it can; a game master's takes a new row.
Give(s) ==
  /\ at[s] = "idle" /\ gifts < MaxGifts
  /\ \E n \in 1 .. StackLimit :
       /\ left' = [left EXCEPT ![s] = n]
       /\ created' = created + n
  /\ \/ at' = [at EXCEPT ![s] = "stack"]
     \/ HasFreeCell(s) /\ at' = [at EXCEPT ![s] = "newRow"]
  /\ gifts' = gifts + 1
  /\ UNCHANGED <<vid, row, inv, pending, events, world, rows, takers, stored, excuses,
                 moves, cuts>>

-----------------------------------------------------------------------------
\* Sessions: the answer to a pickup

\* The vid is free to be asked for again.  Nothing there, too far or too heavy:
\* the item stays.
PickupRefused(s) ==
  /\ at[s] = "idle" /\ events[s] # <<>>
  /\ pending' = [pending EXCEPT ![s] = @ \ {Head(events[s]).vid}]
  /\ events' = [events EXCEPT ![s] = Tail(@)]
  /\ UNCHANGED <<handler, inv, world, rows, ghosts, bounds>>

\* Another session has this item in hand, or took pieces of it before.
Contended(s, v) == takers[v] \ {s} # {} \/ \E t \in Sessions \ {s} : vid[t] = v

TakeInHand(s, e) ==
  /\ at[s] = "idle" /\ e.count > 0
  /\ at' = [at EXCEPT ![s] = "stack"]
  /\ left' = [left EXCEPT ![s] = e.count]
  /\ vid' = [vid EXCEPT ![s] = e.vid]
  /\ events' = [events EXCEPT ![s] = Tail(@)]
  /\ excuses' = IF Contended(s, e.vid) THEN excuses \cup {"raced"} ELSE excuses
  /\ UNCHANGED <<row, inv, world, rows, created, takers, stored, bounds>>

\* variant: the vid stays pending
TakeForgets(s) ==
  /\ events[s] # <<>> /\ TakeInHand(s, Head(events[s]))
  /\ UNCHANGED pending

\* The session takes what the world said was there when it was asked.
Take(s) ==
  /\ events[s] # <<>> /\ TakeInHand(s, Head(events[s]))
  /\ pending' = [pending EXCEPT ![s] = @ \ {Head(events[s]).vid}]

\* Pieces of the vid in hand reach the inventory of s and PostgreSQL.
Taken(s, n) ==
  IF vid[s] = 0
  THEN UNCHANGED <<takers, stored>>
  ELSE /\ takers' = [takers EXCEPT ![vid[s]] = @ \cup {s}]
       /\ stored' = [stored EXCEPT ![vid[s]] = Lesser(@ + n, StackLimit)]

\* variant: a stack takes everything
StackOverfills(s) ==
  /\ at[s] = "stack" /\ left[s] > 0 /\ Room(s) # {}
  /\ LET i == Min(Room(s))
     IN  /\ inv' = [inv EXCEPT ![s][i] = @ + left[s]]
         /\ Upsert(s, i, inv[s][i] + left[s])
         /\ left' = [left EXCEPT ![s] = 0]
         /\ Taken(s, left[s])
  /\ UNCHANGED <<at, vid, row, pending, events, world, created, excuses, bounds>>

\* Each stack with room takes what fits, in memory and in its row.
Stack(s) ==
  /\ at[s] = "stack" /\ left[s] > 0 /\ Room(s) # {}
  /\ LET i == Min(Room(s))
         add == Lesser(StackLimit - inv[s][i], left[s])
     IN  /\ inv' = [inv EXCEPT ![s][i] = @ + add]
         /\ Upsert(s, i, inv[s][i] + add)
         /\ left' = [left EXCEPT ![s] = @ - add]
         /\ Taken(s, add)
  /\ UNCHANGED <<at, vid, row, pending, events, world, created, excuses, bounds>>

Done(s) ==
  /\ at' = [at EXCEPT ![s] = "idle"]
  /\ left' = [left EXCEPT ![s] = 0]
  /\ vid' = [vid EXCEPT ![s] = 0]
  /\ row' = [row EXCEPT ![s] = 0]

\* Every piece found a stack: the ground item is removed.
StackDone(s) ==
  /\ at[s] = "stack" /\ left[s] = 0
  /\ IF vid[s] = 0 THEN UNCHANGED intents ELSE Send("remove", s, vid[s], 0)
  /\ Done(s)
  /\ UNCHANGED <<inv, pending, events, ground, nextVid, rows, ghosts, bounds>>

\* variant: the item leaves the ground although it does not fit
NoCellRemoves(s) ==
  /\ at[s] = "stack" /\ left[s] > 0 /\ Room(s) = {} /\ ~HasFreeCell(s)
  /\ IF vid[s] = 0 THEN UNCHANGED intents ELSE Send("remove", s, vid[s], 0)
  /\ excuses' = excuses \cup {"full"}
  /\ Done(s)
  /\ UNCHANGED <<inv, pending, events, ground, nextVid, rows, created, takers, stored, bounds>>

\* The inventory is full: the item stays on the ground, with the count it had,
\* and the rest of a quest's reward is gone.
NoCell(s) ==
  /\ at[s] = "stack" /\ left[s] > 0 /\ Room(s) = {} /\ ~HasFreeCell(s)
  /\ excuses' = IF vid[s] = 0 \/ takers[vid[s]] # {} THEN excuses \cup {"full"} ELSE excuses
  /\ Done(s)
  /\ UNCHANGED <<inv, pending, events, world, rows, created, takers, stored, bounds>>

\* The rest goes to a new row, whose id is read now ...
AllocateId(s) ==
  /\ \/ at[s] = "stack" /\ left[s] > 0 /\ Room(s) = {} /\ HasFreeCell(s)
     \/ at[s] = "newRow"
  /\ NextId \in Ids
  /\ row' = [row EXCEPT ![s] = NextId]
  /\ at' = [at EXCEPT ![s] = "insert"]
  /\ UNCHANGED <<left, vid, inv, pending, events, world, rows, ghosts, bounds>>

\* variant: the new row never reaches PostgreSQL
InsertInMemory(s) ==
  /\ at[s] = "insert"
  /\ inv' = [inv EXCEPT ![s][row[s]] = left[s]]
  /\ IF vid[s] = 0 THEN UNCHANGED intents ELSE Send("remove", s, vid[s], 0)
  /\ Done(s)
  /\ UNCHANGED <<pending, events, ground, nextVid, rows, ghosts, bounds>>

\* ... and written here, after which the ground item is removed.
Insert(s) ==
  /\ at[s] = "insert"
  /\ Upsert(s, row[s], left[s])
  /\ inv' = [inv EXCEPT ![s][row[s]] = left[s]]
  /\ IF vid[s] = 0 THEN UNCHANGED intents ELSE Send("remove", s, vid[s], 0)
  /\ Taken(s, left[s])
  /\ excuses' = IF rows[row[s]] = NoRow THEN excuses ELSE excuses \cup {"sameRow"}
  /\ Done(s)
  /\ UNCHANGED <<pending, events, ground, nextVid, created, bounds>>

-----------------------------------------------------------------------------
\* The connection ends

\* The answers to the questions of a closed connection have no receiver.
Orphaned(q, s) ==
  [i \in DOMAIN q |-> IF q[i].by = s THEN [q[i] EXCEPT !.by = NoSession] ELSE q[i]]

\* The player leaves, or a send or a statement fails inside a handler; what the
\* handler had not yet written is forgotten.
Disconnect(s) ==
  /\ at[s] # "gone"
  /\ IF at[s] = "idle"
     THEN UNCHANGED <<excuses, cuts>>
     ELSE cuts < MaxCuts /\ cuts' = cuts + 1 /\ excuses' = excuses \cup {"cut"}
  /\ at' = [at EXCEPT ![s] = "gone"]
  /\ left' = [left EXCEPT ![s] = 0]
  /\ vid' = [vid EXCEPT ![s] = 0]
  /\ row' = [row EXCEPT ![s] = 0]
  /\ inv' = [inv EXCEPT ![s] = [i \in Ids |-> 0]]
  /\ pending' = [pending EXCEPT ![s] = {}]
  /\ events' = [events EXCEPT ![s] = <<>>]
  /\ intents' = Orphaned(intents, s)
  /\ UNCHANGED <<ground, nextVid, rows, created, takers, stored, gifts, moves>>

OwnedRows(s) == [i \in Ids |-> IF rows[i].owner = s THEN rows[i].count ELSE 0]

\* The player enters: load_by_owner reads its rows.
Enter(s) ==
  /\ at[s] = "gone"
  /\ at' = [at EXCEPT ![s] = "idle"]
  /\ inv' = [inv EXCEPT ![s] = OwnedRows(s)]
  /\ UNCHANGED <<left, vid, row, pending, events, world, rows, ghosts, bounds>>

-----------------------------------------------------------------------------
\* The world task takes one intent at a time

\* process_drop: a new vid appears on the ground.
WorldDrop ==
  /\ intents # <<>> /\ Head(intents).kind = "drop"
  /\ ground' = [ground EXCEPT ![nextVid] = Head(intents).count]
  /\ nextVid' = nextVid + 1
  /\ intents' = Tail(intents)
  /\ UNCHANGED <<handler, inv, pending, events, rows, ghosts, bounds>>

\* process_pickup: the answer is the item as it is now; the item stays.
WorldPickup ==
  /\ intents # <<>> /\ Head(intents).kind = "pickup"
  /\ LET q == Head(intents)
     IN  events' = IF q.by = NoSession THEN events
                   ELSE [events EXCEPT ![q.by] =
                           Append(@, [vid |-> q.vid, count |-> ground[q.vid]])]
  /\ intents' = Tail(intents)
  /\ UNCHANGED <<handler, inv, pending, ground, nextVid, rows, ghosts, bounds>>

\* remove_item, which a second removal does not disturb.
WorldRemove ==
  /\ intents # <<>> /\ Head(intents).kind = "remove"
  /\ ground' = [ground EXCEPT ![Head(intents).vid] = 0]
  /\ intents' = Tail(intents)
  /\ UNCHANGED <<handler, inv, pending, events, nextVid, rows, ghosts, bounds>>

-----------------------------------------------------------------------------
World == WorldDrop \/ WorldPickup \/ WorldRemove

\* The steps that finish what a session has begun or been told.
Handle(s) == \/ StoreRow(s) \/ PickupRefused(s) \/ Take(s)
             \/ Stack(s) \/ StackDone(s) \/ NoCell(s) \/ AllocateId(s) \/ Insert(s)

Ask(s) == KillDrop(s) \/ DropItem(s) \/ Pickup(s) \/ Split(s) \/ Merge(s) \/ Give(s)

Next == World \/ \E s \in Sessions : Handle(s) \/ Ask(s) \/ Disconnect(s) \/ Enter(s)

Spec == Init /\ [][Next]_vars

\* The world task and the task of every connection are polled.
FairSpec == Spec /\ WF_vars(World) /\ \A s \in Sessions : WF_vars(Handle(s))
-----------------------------------------------------------------------------
\* Properties

\* Every variable has its type.
TypeOK ==
  /\ at \in [Sessions -> {"idle", "store", "stack", "newRow", "insert", "gone"}]
  /\ left \in [Sessions -> Counts]
  /\ vid \in [Sessions -> 0 .. MaxDrops]
  /\ row \in [Sessions -> 0 .. MaxRows]
  /\ inv \in [Sessions -> [Ids -> Counts]]
  /\ pending \in [Sessions -> SUBSET Vids]
  /\ events \in [Sessions -> Seq(Results)]
  /\ intents \in Seq(Intents)
  /\ ground \in [Vids -> Counts] /\ nextVid \in 1 .. MaxDrops + 1
  /\ rows \in [Ids -> [owner : Sessions \cup {NoSession}, count : Counts]]
  /\ created \in Nat /\ takers \in [Vids -> SUBSET Sessions] /\ stored \in [Vids -> Nat]
  /\ excuses \subseteq Excuses
  /\ gifts \in 0 .. MaxGifts /\ moves \in 0 .. MaxMoves /\ cuts \in 0 .. MaxCuts

\* A ground item counts until a session has it in hand or has asked to remove it.
Claimed(v) == \/ \E s \in Sessions : vid[s] = v
              \/ \E i \in DOMAIN intents : intents[i].kind = "remove" /\ intents[i].vid = v

OfThePlayers == [s \in Sessions |-> IF at[s] = "gone" THEN SumFunction(OwnedRows(s))
                                    ELSE SumFunction(inv[s]) + left[s]]
OnTheGround == [v \in Vids |-> IF Claimed(v) THEN 0 ELSE ground[v]]
Falling == [i \in DOMAIN intents |-> IF intents[i].kind = "drop" THEN intents[i].count ELSE 0]
Pieces == SumFunction(OfThePlayers) + SumFunction(OnTheGround) + SumFunction(Falling)

\* Pieces appear only when a mob, a quest or a game master creates them and never
\* vanish, unless one of the four things happened that the code leaves open: two
\* sessions had the same ground item in hand, two sessions wrote the same row id, a
\* connection was cut inside a handler, or a stack was topped up from an item
\* that then did not fit (handle_pickup, PickupResult, drop_item, handle_move).
PiecesConserved == excuses = {} => Pieces = created

\* Unless two sessions wrote the same row id or a handler was cut, PostgreSQL
\* holds exactly the inventory of every session that is between two handlers.
RowsMatchInventory ==
  excuses \cap {"sameRow", "cut"} = {} =>
    \A s \in Sessions : at[s] = "idle" => inv[s] = OwnedRows(s)

\* Whatever is raced or cut, an item leaves the ground only after all its pieces
\* were written to player.item.
LeavesGroundStored ==
  [][\A v \in Vids : ground[v] > 0 /\ ground'[v] = 0 => stored[v] >= ground[v]]_vars

\* A pickup does not stay pending for ever: the vid can be asked for again.
PickupAnswered ==
  \A s \in Sessions, v \in Vids : v \in pending[s] ~> v \notin pending[s]

\* What the documentation says

\* An item belongs to one writer at a time, so it is never duplicated.
PiecesNeverMultiply == Pieces <= created
=============================================================================
