# Formal models of the reforge game server

TLA+ models of the parts of `source/reforge` that several tasks, threads, a file
system and PostgreSQL change together: the durable write pipeline, the items of a
channel and their trade, the entry of a connection and the list of characters, the
party, the safebox, the health of players in a fight and the life cycle of mobs.
TLC checks them on small instances; theorems about each of them are proved with TLAPS
for every value of their constants. `PROJECT.json` maps every definition to the lines
it stands for and lists the runs, the variants ("mutants") that each property rejects,
the hazards and the findings. Paths below are relative to `source/reforge`.

## The system

A *realm* process authenticates; a *channel* process runs the game. The channel
is one task for the world (`game_core::ecs::WorldSim`, driven by
`server_realms/src/channel/mod.rs`), one task per connection (a `Session`), and
one worker (`Batcher`) that writes to PostgreSQL. The tasks share no game state:

- sessions send **intents** to the world over one unbounded queue; the world
  answers with **events**, routed by player to one unbounded queue per connection;
- sessions write to PostgreSQL **directly** (rows of `player.item`) or **push
  mutations** to the batcher (the player's row, exchanges), and may await a **flush**;
- the batcher writes each batch to a `*.wal` file, then to PostgreSQL in one
  transaction with an audit row per mutation, then deletes the file. At start
  the channel replays the files that are left before it serves anyone.

| Component | State it keeps | Operations | What makes it hard | What makes it correct |
|---|---|---|---|---|
| Durable write pipeline (`database/src/wal.rs`, `game_core/src/world.rs`) | queue, batch, files, audit, rows | push, flush, persist, apply, delete, replay | crashes between any two steps, failed or half-answered transactions, a batch shared by all sessions | nothing on disk is lost or undone; flush is a barrier; replay applies once |
| Item economy (`channel/items.rs`, `events.rs`, `quest.rs`, `gm.rs`, `ecs/systems/items.rs`, `database/src/item.rs`) | inventory in memory, ground, rows | drop, pickup, stack, split, merge, reward, leave, enter | three places never written together; statements awaited in mid-handler | pieces are conserved; memory agrees with the rows; nothing leaves the ground unstored |
| Player trade (`game_core/src/trade.rs`, `ecs/systems/social.rs`, `channel/trade.rs`) | pair, offers, accepts, plan, units | start, offer, accept, cancel, commit, done | one session writes the rows of two players, unit by unit, while both go on | nothing is traded without two accepts; items and gold are conserved; no pair is stuck |
| NPC shops (`channel/shop.rs`) | shops open per session | buy, sell | gold and item in one unit through the batcher | same unit contract as the pipeline |
| Channel task and sessions (`channel/mod.rs`, `session.rs`, `game.rs`, `entry.rs`, `database/src/player.rs`) | logins, routes, phase of a connection, the list of characters | login, create, delete, rename, choose, select, enter, save, leave | old and new connection of one player overlap; handlers of several statements without a transaction | one session per character; the list is the rows; a reload sees the last save |
| Authentication realm (`server_realms/src/auth.rs`) | login keys | login, hand-over | realm and channel are different processes | the channel checks the credentials again |
| Party (`channel/party.rs`) | three registries behind locks, outboxes, `party_id` cached by sessions and world | invite, answer, kick, leave, role, disband, disconnect | handlers of several sessions between the locks; peers that vanish | parties are well formed, nobody is in two, caches come to agree |
| Guild, messenger, chat, emotions | registries of peers | say, invite | the same as the party | registries name only present peers |
| Safebox (`channel/safebox.rs`, `database/src/safebox.rs`) | second store of items and gold, owned by the account | open, check in and out, move, stack, gold, size | two stores, one or two statements a handler, deletion by `owner_id` | memory is the rows; items and gold are kept |
| Network (`framer`, `handshake`, `connection`) | buffers, phases | read, write, keepalive | partial frames | framing does not depend on how bytes arrive |
| Combat, skills (`ecs/systems/combat.rs`, `skill.rs`, `channel/events.rs`, `script.rs`) | health and mana, in the world and in each session | hit, cast, buff, heal, die, revive | two copies, two queues that cross, absolute values against losses | the copies agree when nothing is on its way; the dead are told |
| Spawns and mobs (`ecs/systems/spawn.rs`) | entities of an entry, deadlines, who was sent what | materialise, show, despawn, die, return | deaths, distances and deadlines between two updates | no entry exceeds its copies; a client shows what is there; the dead come back |
| Movement, maps, dungeons | positions, instances | move, tick | geometry | formulas equal to the original |
| Quests and their language | compiled scripts, per-player state | parse, run | an interpreter | parity with the original scripts |
| Wire protocol, SQL proxy, tools, scripts | none of the game | encode, translate, administer | layouts | golden tests |

## Modules

| Module | Models |
|---|---|
| `DurableWrites` | abstract: a mutation is unborn, pending, durable, committed or lost; which changes are allowed |
| `WalPipeline` | the batcher's worker, `WalSink`, `PgMutationSink`, `replay_wal`, crashes and errors, and the sessions that push and flush; refines `DurableWrites` |
| `WalPipelineProofs` | theorems about `WalPipeline` |
| `GroundItems` | the ground of the world task, the inventories of the sessions and the rows of `player.item` |
| `Trade` | the two offers in the world, the commit in the session of the last to accept, the events that end a trade, the saves in the batcher's queue |
| `TradeProofs` | theorems about `Trade` |
| `SessionEntry` | a connection from its login to the last guard: the registry of logins, the handlers of the list of characters statement by statement, load, play, save, Join and Leave |
| `Party` | the parties of a channel, lock by lock, and the outboxes between sessions |
| `Safebox` | the box of an account beside the inventories of its characters, statement by statement |
| `Health` | health and mana in the world and in the sessions, and the two queues between them |
| `Spawns` | entries, mobs, aggro, deaths and returns, and what each client shows |
| `GroundItemsProofs`, `PartyProofs`, `SessionEntryProofs`, `HealthProofs`, `SafeboxProofs`, `SpawnsProofs` | theorems about those modules |
| `MC*` | constants and symmetry for TLC |

### WalPipeline

`worker` is the position of `Batcher::spawn`: `recv` (waiting), `collect` (the
loop with its timeout), `persist`, `apply`, `remove` (the three steps of
`WalSink::apply`). Each step is an action; each may fail (`PersistFail`,
`ApplyFail`, `RemoveFail`), `PersistFail` leaving any prefix with possibly half a
line, `ApplyFail` covering both a transaction that did not happen and one whose
answer was lost. `Crash` clears everything volatile in any state and starts a
replay (`ReplayApply`, `ReplayRemove`, `ReplayTorn`, `ReplayFail`, `ReplayDone`).
A mutation is a save, or the gold or row statement of an exchange with its guard;
the value a statement writes is the number of the mutation. `ideal` is what the
database would be if every audited mutation had been applied exactly once.

### GroundItems

`at` is where a session is in its handler: every `await` on PostgreSQL is a point
where other sessions and the world run. Counts matter, other attributes do not:
every item is of one stackable kind. Ids are allocated as the code does, by one
statement that reads the maximum and another that writes. The invariants hold
except after four events, recorded in `excuses`, which the code leaves open:
*raced* (two sessions had the same ground item in hand), *sameRow* (two sessions
wrote one id), *cut* (a connection ended inside a handler), *full* (a stack was
topped up from an item that then did not fit). Each event is in the model, and
each is needed: without any one of them as an exception the invariants fail.

### Trade

`pair` and `side` are the world's map of pairs and their offers. The session that
accepts last receives the plan, checks it (`TakeCommit` or `RefuseCommit`), reads
the largest id (`AllocateIds`), runs the units (`Unit`, `UnitFails`) and answers.
The world then sends `Done` to both, who change their memory item by item
(`TakeDone`, `PlaceItem`, `PlaceGold`). A *thing* is what players call an item;
trading changes the id of its row, never the thing. Saves wait in a queue that
each unit flushes first. `excuses` records: *stale* (a row was used that its
owner no longer had: the partner's side is not checked again, and a repeated
accept sends the same plan twice; or both sides offered one thing, one of them by a row
that was gone), *sameId* (a commit took an id that was in use by then; not met with one thing),
*failed* (units were left undone), *echo* (a received row was written with its
old id), *changed* (`Done` was sent for offers that were not accepted).

### SessionEntry

`at` is where the handler of a connection is; a phase such as `create.slot` or
`delete.row` is the `await` of one SQL statement, which happens, fails, or happens
without its answer being seen (`Results`). What a player does in the game is one
number, the version of its row: `Play` raises it, `Close` saves it, `Commit` is the
batcher. `Crash` empties the registries and replays some prefix of the queue. The
invariants hold except after: *orphan* (a character that no slot points to),
*dangling* (a slot without character), *half* (an empire written, its characters not
moved), *stale* (a character was loaded while its last save was still queued: the
save at the end of a session is pushed, the next login reads PostgreSQL), *unsaved*
(the last position was not safe, so `game::run` saved nothing), *crash*, *mapless* (a
`Join` for a map without spawn files makes no entity). The channel checks the
password again and does not use the key of the authentication realm. The guards are
fields of `Session` and are dropped in the order of their declaration: the
`LeaveGuard` before the `ChannelLoginGuard`, which is what keeps the `Leave` of a
session before the `Join` of the next one. The place of a character and the items,
quests and affects that a deletion removes are not in the model.

### Party

`peers`, `invites` and `parties` are three mutexes; an action is what one session does
under one of them. A player has connections one after another, and `at`, `job` and `mail`
are of each of them: `job` is what its handler, or the guard that ends it, carries from
one lock to the next, `mail` what it has still to send. `inbox` is the outbox as its owner
sees it, `mine` the `Session.party_id` and `known` the party the world uses for its pvp
gate; these are of the connection a player has now.

The fields of a `Session` are dropped in order, the `ChannelLoginGuard` (session.rs:220)
before the `PartyPeerGuard` (session.rs:323), so the login is free while the party guard
has not run. `Register` therefore waits for nothing but that no connection of the player
is in the game: the guard of the last one (`Unlist`, `Uninvite`, `FindParty`, then
`Disband` or `RemoveMember`, `Gone`) may run at any time beside the new session. It knows
its player by the vid only, so it may take the peer, the invitations or the seat of the new
session. What comes of it: a connected player can be missing in `sessions()`, so that
nobody can invite him, and a seat he took after coming back can be taken from him, of which
he is told. No property says that this does not happen; `MembersAreConnected` and
`CachesAgree` hold in spite of it.

Excuses: *ghost* (a party was created for a leader whose connection had ended after the
answer looked him up), *double* (created for a leader who had entered another party: the
answer looks for the guest in the parties, not for the leader), *crossed* (a message
arrived after a later change). Also seen while modelling: the guest of an answer never
tells the world its party; expired invitations are removed only by an answer, and until
then silently block the next invitation of the same pair; a member that is not the leader
and disconnects from a party of two leaves a party of one; the decision to disband after a
kick uses the count read before; and, the id of a party being that of its leader, a
handler with an old id may disband a later party of the same leader, though a comment
(party.rs:357) has ids not used again while it lives.

### Safebox

A handler changes memory and writes one or two rows; an error ends the connection. The
gold of the character goes through the batcher, that of the box is written at once.
`DELETE` of a character and its items is one step here. `Height` is how many rows of
the grid an item takes, `Refused` the items with a flag that keeps them out of a safebox.

A stack onto a stack finds its target by an index, removes the source if nothing is left of
it, and uses the index again: if the source was before the target, it now names the item
behind it, or none. The order of the items of a box is left open, so after such a removal
`Named` lets the index name the target, any other item of the box, or nothing. The second
statement then writes the target's new count to the item that is named (`StackDst`), or
the task of the connection panics (`StackPanics`): its row of the source is deleted, and
neither the box is closed nor the character saved.

Excuses: *torn* (half of a stack was moved), *shifted* (the index named another item or
none), *wiped* (a deletion took items of a box), *boxless* (gold put in a box without a row), *unwritten*,
*shrunk* (the box was made smaller), *crash*, *stale* (a character was loaded before its
last save). `MemoryIsTheRows` needs one of them: while a box is open, the deletion of
another account's character with the number of the box's account takes the rows under
it, and the window goes on showing the items.

### Health

`body` is the components of the world task, `row` the memory of a session; `intents`
and `events` are the two queues. The world tells losses, the sessions subtract them
again; a session tells absolute values after a potion or a revival. The conditions of
the pvp gate, ranges and cooldowns are left open, so any hit may happen. Excuses, per
player: *crossed*, *healed* (the heal of a party changes the row only), *buffed*,
*paid* (the last health went into a
skill, for which no GC_DEAD is sent), *entered* (the session began dead). A skill is
refused only for a pool that it takes from, and then lifts both pools of the world to zero
at least (`Affords`, `Paid`); a row can be below zero after a value and a cost crossed, since the
session subtracts without a floor. So the world may have zero where the
row has less, and `CopiesAgree` says just that (`Mirrors`). `Saved` is what was stored
before the first session, and may be below zero too. Potions work
on the dead, and mobs go on hitting them, in the code and in the model.

### Spawns

`Tick` is one update of the systems of `spawn.rs`. All entries are in one place and
mobs stay there, so a player's position is one of four zones. `shown` is what the
client drew from the ADD and DEL packets; `mob[v].seen` is `SpawnSeen`. Ids of mobs are
reused when nobody knows them any more, which keeps the state space finite; the code
counts up. Excuses: *blind* (the mob remembers the client that was there before a
relog, because `SpawnSeen` is not cleaned while nobody is on the map), *ghosts* (after a
kill only the killer gets the DEL), *thinned* (a copy despawned beside a hurt one and
is not made again until the entry is empty). A mob of a group that `/mob` makes is sent to
the game master only: the update marks it as sent to everybody in view, but the entry it
copies is a group, for which `entry_spawns` makes no packet (`Sent`), although the comments
at spawn.rs:305 and 392 say that the others see it within a second. `SeenIsShown` is
therefore about the mobs of the spawn table. Each later death of an entry sets the
deadline of the whole entry anew; an entry whose time is 0 does not come back.

## Runs

| Run | Shows |
|---|---|
| `wal` | types; a flush answers only when its unit is on disk, committed or lost for good; files are atomic; without errors commits follow pushes and replays repeat nothing; the refinement of `DurableWrites`; every flush is answered and nothing pushed stays in memory |
| `wal_stale_replay` | counterexample: a file left by an error is replayed over newer values |
| `ground_safety` | pieces are conserved and rows match inventories, up to the four events |
| `ground_liveness` | a bag that fills up and a connection that is cut: an item leaves the ground only stored, and pickups never stay pending |
| `trade` | pairs are mutual; types, so that no gold falls below zero or passes the limit; accepts fall with every change; commits conserve things; an accepted pair is released |
| `trade_echo` | counterexample: after a plain trade the item has two rows |
| `party` | parties are well formed, nobody is in two, seats belong to connections, cached ids agree when all is quiet and never stay wrong |
| `entry` | one session holds a character; between handlers the slots are the rows; progress is in the database when nobody plays; the world has the entities of the sessions in the game; logins are freed |
| `safebox` | memory is the rows between handlers, items do not overlap, pieces and gold are kept |
| `safebox_wiped` | counterexample: deleting a character deletes the items of another account's box |
| `health` | the copies agree when nothing is on its way; no cost drives a row below zero; the dead are told, and in the end |
| `spawns` | an entry never exceeds its copies; what `SpawnSeen` says of the mobs of the table is what clients show; no client shows what is gone; the dead come back |

Every property of a passing run has a mutant, a plausible bug in one mapped definition
with which TLC finds the property violated under the same configuration.

**Bounds.** Two sessions, because every interference is between a player and one other
(two exchanges, two hands on one item, a trade and its partner). Three mutations with
`max_batch` 2 fill a batch, split a unit and leave another for the next file; two
crashes let a replay itself be interrupted. Two or three ids of rows let a row be new,
reused, or written by two sessions at once. `Trade` has one thing, so that what
happens to it is the whole of a side; a gold limit equal to the richer player's gold
makes overflow reachable; four events suffice for a start, two accepts and one mishap.
`Party` has four players and a party that three fill, so that an answer can meet another
one's party or a full one, and two connections each, so that one can end and return while
its guard is at work; four events, after each of which every handler, guard and letter it
causes may be anywhere. The inductive invariants of `PartyProofs` were checked as well with
two players, three connections and six events. `Entry` has two connections of one account, because sessions of different
accounts meet nowhere but in the names, two slots and names, and one failure or crash.
`Safebox` has an account of two characters and one of a single one, whose id is the
number of the first account, so that a deletion meets an open box; two stackable items,
one that is two cells high and one that the box refuses, on a grid two cells wide; one
piece of gold; seven events, enough to open, put three items in and stack one on another
while its index goes stale, or to have another account's deletion or a failure cut the way
back. `Health`
has two players with two points of health and a skill that costs mana or both, so that
a death takes two hits or one hit and a skill; one of them begins below zero. `Spawns` has an entry of two aggressive
mobs and one made by a game master, with as many ids as can be known at once.
`MaxEvents`, `MaxFaults`, `MaxConns`, `MaxPid` and `MaxQueue` bound what players and
the environment do; what a handler sends or writes is never held back. Runs may stop
when their budget is spent, so TLC's deadlock check is off in every run.

**Fairness.** Weak fairness of the world, of the worker, of the replay, of the next
step of every handler and of the update of the spawns: tokio polls each ready task and
timer, statements are answered or fail, and no handler waits for another player.
Nothing a player or an operator does is fair, nor is a crash, an error, or the interval
after which a save is written in `Trade`. In `Party` it is enough that some player's task with work
left goes on: what players ask is bounded, and every task ends by itself, so all of them
are done in the end. `GroundSafety`, `Safebox` and the
counterexamples use the specification without fairness.

## Proofs

`WalPipelineProofs` proves, from the assumptions on the constants only:

- `PipelineIsConsistent`: `Spec => []IInv`;
- `TypeCorrect`: `Spec => []TypeOK`;
- `ImplementsLifeCycle`: `Spec => ImplementsDurableWrites`.

`TypeOK` is not inductive: a batch stays within `max_batch` only because the
worker leaves `collect` as soon as it is full, and a file is no longer than the
batch it was written from. `IInv` adds `BatchIsConsistent` (room while
collecting, nothing at `recv`, an idle worker during a replay),
`FilesAreConsistent` (the newest file is the batch being applied; what is about
to be deleted is in the audit) and `NothingUnborn` (no mutation is anywhere
before it is issued). The proof has one lemma per group of actions. The
refinement needs the second conjunct for the deletions: a mutation that loses its
file must be committed, or it would go from durable to lost.

Its second part is what the pipeline promises about order. `OrderInv` says that
queue, batch and files hold mutations in the order in which they were pushed, each
older than the next of these places (`QueueInOrder`, `BatchInOrder`, `FilesInOrder`),
and that nothing pushed since the start is dropped while there is no error; from it
`FilesStayAtomic` and `CommitsFollowPushes`. `BarrierInv` says that a flush, in the
queue or as the one that closed the batch, is behind everything of its unit; from it
`FlushStaysBarrier`.

Its third part is that replays keep the players (`ReplaysKeepPlayers`), whatever crashes
and however often a file is applied again. It needs what a recursive function computes:
`Climb` does an induction over the places of a sequence by taking a least place that
fails, and `RunExists` turns a transaction into the sequence of its intermediate results.
From these, `RunAgain`: a transaction is idempotent when a guarded statement is the last
of its session in it and expects an older gold than it writes (`Orderly`). The code does
not say that batches are like that; it follows from the barrier: a session begins an
exchange only when nothing of its last one is on its way (`UInv`, `IdleCarriesNothing`).
`RInv` adds that without errors there is one file to replay at most (`SingleFile`), and
that a committed one has nothing left to do (`Redone`), which a player who drops an item
past the batcher must not change either (`DropKeeps`).

`TradeProofs` proves, again from the assumptions on the constants only:

- `TradeIsConsistent`: `Spec => []IInv`;
- `TypeCorrect`, `PairsStayMutual`: `TypeOK` and `PairsAreMutual` are invariants;
- `AcceptsFallWithChanges`: `Spec => AcceptMeansUnchanged`;
- `CommitsKeepThings`: `Spec => []CommitConservesThings`.

The `IInv` of `Trade` is the conjunction of `TypeOK`, `PairsAreMutual`,
`RequestsAreFormed` and `CommitsAreCovered`. Types need the last: a unit that
takes gold is well typed only because the plan was checked against the gold the
session has and has read, and neither changes until the units are built. Pairs
need `RequestsAreFormed`: a start in the queue names another player. That new ids
and the last of several saves are well typed rests on lemmas about finite sets
(`InOrder`, `LastSave`).

`CommitConservesThings` rests on `Whereabouts`: only a session that commits has units
left; what is left of them is `Orderly` (units that take come before those that give,
everything taken is given, no two units take one thing, and none gives what another
gives unless a unit took two rows of it); and a thing is in one row or in one session's
hands at most (`OncePlaced`), and somewhere if it is not lost (`Placed`). `CopiesAre`
turns that into the two cardinalities. The attempt to prove it showed that the property
as it was first stated was wrong: after a commit of which only the answer was lost, the
memory of the giver still has the item; if the receiver enters again and both offer it
to each other, the first unit takes the only row, and nothing said so before the second.
That takes eight of the counted events, more than the run has. `AllocateIds` now records
*stale* when both sides offer one thing (`OfferedTwice`).

`GroundItemsProofs` rests on the `IInv` of `GroundItems`: types; `DropsFit` (each drop in
the queue has a vid left) and `FreshIsFree` (a vid not given out has nothing on the
ground); `QueuesSound` (a question is about a vid that was given out, a removal about one
whose pieces are written, and an answer never counts less than the ground has: a vid is
filled once and after that only cleared); `InHand` (what a session has in hand and what
was written make up what the ground has); and `RowsAgree` (memory and `player.item`
agree but for the row the handler is about to write). Theorems: `GroundIsConsistent`,
`GroundTypeCorrect`, `ItemsLeaveStored` (whatever is raced or cut, an item leaves the
ground only after its pieces were written) and `RowsStayInventories`. `SoundStays`,
`SessionKeeps` and `WorldKeeps` say what a step of each actor must show.

`PiecesStay` says that no piece is lost or multiplied, for any finite set of players
(`SessionsAssumption`; a server has finitely many connections). It needs to know who may
still take an item: as long as nothing is excused (`Clean`), `Orderly` holds. An item is
in one hand, whole until its first piece is placed (`OneHand`); one of which pieces were
placed is in hand, about to be removed or gone (`WhoTook`); a session has one question or
answer about an item under way (`OneQuestion`, the point of `pending_pickups`); and who
placed pieces and asks again finds nothing, because his removal is ahead of his question
in the queue (`LateQuestion`). The last is what makes the one queue into the world
necessary. `Even` says that the pieces add up to what was created; the lemmas named
`...Even` say between which two places each step moves them. Underneath are sums over
finite sets and queues, as in `SafeboxProofs`, and `TotalMoves`: a sum does not change
when its values move to other places (the queue loses its head).

`HealthProofs` rests on `HInv`: types, the intents on their way carry possible values, a
maximum is never below `MaxHp`, and `DeathIsTold` itself, which is inductive with them.
Its theorems are `HealthIsConsistent`, `HealthTypeCorrect` and `DeathIsAlwaysTold`.
A second invariant, `CInv`, accounts for what is on its way between the two copies of a
player. While a value of the session is on its way to the world (`OnWay`), no loss is on
its way back, and the last request in the queue that carries a value carries the row's
(`WillBe`). Otherwise (`OnTrail`) there is a trail of rows (`TrailOf`) from the
session's to the world's, one step for each loss in the session's queue, each of which
the row it is taken from can pay. That such a trail exists needs no recursion: a loss
that is told appends to it, one that is heard removes its head. `Presence` relates the
joins and leaves in the queue to the route. Theorems: `CopiesAreAccounted`,
`CopiesStayEqual`, `CostsStayCovered`.

`PartyProofs` rests on `PInv`: types, `JobsAreFormed` (what a handler carries names the
party and player it found under the earlier lock, and a guard that leaves does so for its
own player), `PartiesAreFormed`, that nobody has two seats (`OneParty`),
`MembersAreConnected`, and `NewestIsLive` (only the last connection of a player is in the
game). A seat may be that of an old connection whose guard has still to come by, or, in its
last step, has found it: that is what `MembersAreConnected` says of each connection, and it
is inductive because a guard looks for the player and so finds the seat whosever it is.
Theorems: `PartyIsConsistent`, `PartyTypeCorrect`, `PartiesStayFormed`, `NobodyEntersTwo`,
`SeatsAreConnected`.

`CachesAgree` speaks only of quiet states; `KInv` says why every step leads there. While
nothing has happened that the code does not defend against, every connected player is
`Aware`. If the seat he has is that of an old connection (`Haunted`), its guard is going to
take it and nobody will tell the new session, which needs no telling: it knows of no party,
and no letter is on its way to it (`Blank`). Otherwise a letter that says what the registry
says is on its way to him (`Told`), or is the last in his inbox (`Waiting`), or nothing
waits and his memory, with what his handler is about to write into it, says so (`Settled`).
A letter that arrives would be enough to overtake a newer one, and is then excused as
crossed; so the last one tells the truth. Who leaves, kicks or disbands writes his own
`party_id` from what he read under an earlier lock: `Changing` says in which ways that may
have become wrong, each of which brings him a letter. `Reached` says that no letter is to a
connection still to be opened, so a new session begins without mail (`GoneAreBlank`).
Theorems: `SessionsAreInformed`, `CachesStayEqual`.

`SessionEntryProofs` rests on `SInv`: types, `LoginsAreOwn` (a served connection has an
account, nobody else has the same one, and it is in the registry), `TablesAgree` (a slot
points to no character of another account, ids above `made` are unused), `Own` of every
connection (its handler and its session name characters of its own account only, which
exist while they are played or renamed), and a bound on versions. `OneHolder` follows:
two sessions with one character would be of one account. The proof has a lemma per kind
of step (`StatementKeeps`, `PlayerKeeps`, `VersionsKeep`: what a step of the list, of the
game, of the batcher must show) and one per group of actions.

Three more invariants build on it, each for one of the run's properties:

- `WorldInv`: for every character, the last intent in the queue says whether its session
  is in the world, joins and leaves take turns, and a join comes to a world without its
  entity (`EntityIs`, `LastIs`, `FirstIs`, `TakeTurns`). The queue may hold a leave and
  the join of the next session; `WorldHasThePlayers` speaks only of the empty queue and
  says nothing of what is on its way. Theorem: `WorldKeepsThePlayers`.
- `ProgressInv`: who holds a character has its last version in memory; of one that
  nobody plays the last version is that of its last save in the queue, or of its row
  (`HeldAreLast`, `Settled`); ids that are not inserted have neither (`Unborn`). Theorem:
  `ProgressStays`.
- `ListInv`: a character has one slot at most (`OneSlot`), a slot has a row and a row has
  a slot or a handler that is about to give it one or to delete it (`SlotIsRow`,
  `RowIsShown`), and what a handler checked before it awaited a statement is still true
  when it writes (`Lists`): the slot is free, the name is not taken in the account, the
  character has no slot. `OthersLists` says why: the handlers of other accounts write
  other rows and slots. Theorem: `ListStaysTheRows`.

`SpawnsProofs` rests on `SpInv`: types, `GroupsAreMade` (a group that no game master has
made has no mobs, so that making it cannot exceed its copies), and the three invariants of
the run, which are inductive with those two. The step that needs work is `Tick`, where
mobs are born, despawned and shown in one update: the births take the free vids in order,
and the lemmas on finite sets (`RanksDiffer`, `FewIds`, `BirthsFit`) say that no two get
the same vid and that no entry gets more than it lacks. Theorems: `SpawnsAreConsistent`,
`SpawnsTypeCorrect`, `EntriesStayWithinCount`, `SeenStaysShown`, `NoPhantomsAppear`.

`SafeboxProofs` rests on `SbInv`: types; for every session (`Local`) what its handler
holds (`Formed`), the agreement of memory and rows in the middle of a handler too, but
for the item in flight (`Agrees`), the grid in memory, in the handler and in the rows
(`GridOf`, `TargetFits`, `RowsFit`) and that the box in memory is no larger than its row
(`SizeFits`); and `OneHolder`: no two live sessions have one item, without which one
could write the row of the other. `MemoryIsTheRows` is not inductive alone, because a
failed statement leaves a session that no longer agrees: such a session writes no more
items (`Live`). In the middle of a stack the handler may hold a target that is not the one
it was given; that it is an item of the box, or none, is enough for memory and rows to
agree again after the second statement. `SessionKeeps` says what a step of one session must show so that the
others keep theirs. Theorems: `SafeboxIsConsistent`, `SafeboxTypeCorrect`,
`MemoryStaysTheRows`, `BoxStaysAGrid`.

Its second part is that nothing is lost, for any finite numbers of items and characters
(`FiniteAssumption`). `TInv` adds to `SbInv` that what a handler has in flight is what the
row says (`FlightCounts`) and that the rows of an account, with what it is pouring from
one stack onto another, add up to what it had (`ThingsBalance`). `GInv` does so for gold:
there is an amount for each character, the purse of its session while it plays and what
the table will say when its saves are committed otherwise (`IsWorth`, `Owes`), and these
add up with the gold of the box, in memory while it is open (`GoldBalance`); an open box
without a row is empty (`Rowless`). A panic ends a session without closing the box or saving
the character, so `LInv` adds that nothing is owed then (`Written`): the gold of an open
box is in its row but for the steps of the handler that moves it, and the purse is what the
table will say when the queue is committed. Sums over finite sets are the work underneath: the
library cannot be used with the folds of the community modules here, so `SumsExist`,
`AnyOrder` and `SumsAgree` prove by induction on cardinality that the recursive function
in `MapThenFoldSet` exists, that it does not depend on the order of its choices, and
`TotalChanges`, `TotalOfPart` what becomes of a sum when one value changes. Theorems:
`ThingsStay`, `GoldStaysKept`.

Only model-checked: the liveness properties (fairness and `ENABLED` are outside what the
prover handles). The type invariants of
`GroundItems`, `Party`, `SessionEntry`, `Health`, `Safebox` and `Spawns` are theorems, and
no run lists them.

## Findings

Each is a run whose counterexample contradicts a sentence in the repository, quoted in
`PROJECT.json`:

1. `wal_stale_replay`: replay is not idempotent in result when a file outlives later
   batches.
2. `trade_echo`: the receiver writes the row with the offered id, not the new one. The
   gold of a trade has the same weakness: a payer's memory keeps the gold, and its next
   save writes it back.
3. `safebox_wiped`: the rows of a box carry the number of an account in the column that
   the deletion of a character compares with the number of the character.

Other claims of comments are stated in the modules and refuted by TLC when they are
added to a configuration; they have no run of their own:

| Definition | Claim | What TLC shows |
|---|---|---|
| `WalPipeline.UnitIsAtomic` | pushing without a pause keeps a unit in one transaction | another session's mutations fill the batch in the middle of the unit (`MaxBatch` 3, `PushPause` FALSE, `MaxMutations` 4, no crash) |
| `GroundItems.PiecesNeverMultiply` | an item has one writer at a time | two players are told that a ground item is there before either removes it |
| `Trade.DoneOnlyIfAccepted` | a trade is done only on accepted offers | an offer changes during the commit, and `CommitOk` announces the new one |
| `Party.WorldKnowsMembers` | the pvp gate knows the party of each member | the session of the guest who accepts never sends its party to the world (`MaxConns` 1) |
| `SessionEntry.NamesDiffer` | no two characters have one name | two handlers look the name up before either writes it, in the sessions of two accounts |
| `Health.DeadUntilRevived` | after GC_DEAD only the revival brings a player back | a potion raises the health of a dead row |
| `Health.HealingIsReal` | health the world does not know of does not exist | the heal of a party changes the row and tells the world nothing |
| `Spawns.ViewsAreComplete` | whoever comes into view of a mob is sent it, those of `/mob` too | after a relog `SpawnSeen` still has the player's id; nobody but the game master is sent the mobs of `/mob` |

## Not modelled

- bytes: packets, JSON, uuids, SQL text; their tests are golden files;
- time: intervals, cooldowns, distances; a timeout may fire whenever its queue is empty;
- formulas of damage, experience, prices and drop tables: one value or any value of a
  small set stands for them;
- in the list of characters: the place of a character, and what else a deletion removes;
- in the item economy: use, equip, refine, dragon soul, gold on the ground, weight;
- in trade: display positions, inventory cells, counts within a row, open shops, a crash
  of the process between two units;
- in the party: experience sharing, bonuses of roles, positions on the screen;
- in the safebox: the mall, passwords and the cooldown;
- for mobs: patrol, pursuit, and the resolution of the spawn files;
- the components listed as such in `PROJECT.json`, with the reason.

## Plan

What is left, in order of worth: the guild registry, whose locks are those of the party;
the network framer as a function against a reference definition.
