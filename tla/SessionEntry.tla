----------------------------- MODULE SessionEntry -----------------------------
(***************************************************************************)
(* How a connection of a channel becomes a player of its world and stops   *)
(* being one: the login and its registry, the list of characters (create,  *)
(* delete, rename, choose an empire), the load, the entity of the world,   *)
(* the save and the guards that are dropped at the end                     *)
(* (server_realms/src/channel/entry.rs, session.rs, game.rs;               *)
(* database/src/player.rs; game_core/src/world.rs).                        *)
(*                                                                         *)
(* Every handler of the list is split at its SQL statements, which run     *)
(* outside any transaction and may fail: without effect ("failed") or      *)
(* after it ("unknown", the connection to the database was lost).  Saves   *)
(* go through the queue of the batcher, which WalPipeline models.  What a  *)
(* player does in the game is one number, the version of its row.          *)
(***************************************************************************)
EXTENDS Integers, Sequences, FiniteSets, FiniteSetsExt

CONSTANTS
  Conns,        \* connections, numbered as they are accepted
  Accounts, NoAccount,
  Nobody,       \* a character without entity in the world
  Slots,        \* positions of an account's list
  Names,
  Empires,      \* those a player may choose
  MaxPid,       \* bound: characters ever inserted
  MaxEvents,    \* bound: what players ask, all together
  MaxFaults     \* bound: statements that fail, crashes, saves and entities that are skipped

ASSUME AccountsAssumption == NoAccount \notin Accounts /\ Nobody \notin Conns
ASSUME ConnsAssumption == Conns \subseteq Nat
ASSUME BoundsAssumption == {MaxPid, MaxEvents, MaxFaults} \subseteq Nat
ASSUME EmpiresAssumption == Empires \subseteq Nat \ {0}

VARIABLES
  \* the channel
  logins,   \* channel_logins()
  at,       \* where the handler of each connection is
  who,      \* its account
  op,       \* what its handler holds between two statements
  emp,      \* Session.account_empire
  held,     \* Session.row: the character and the version in memory
  \* the world
  intents,  \* the queue of the world task: Join and Leave
  entity,   \* players: the connection whose Join made the entity of a character
  \* the database
  rows,     \* player.player
  index,    \* player.player_index, its slots
  empire,   \* player.player_index, its empire
  queue,    \* the saves that the batcher has still to commit
  \* bookkeeping of the model
  made,     \* characters inserted
  last,     \* the version each character had last in a session
  excuses,  \* what has happened that the code does not defend against
  spent, faults

channel  == <<logins, at, who, op, emp, held>>
world    == <<intents, entity>>
database == <<rows, index, empire, queue, made>>
book     == <<last, excuses, spent, faults>>
vars == <<channel, world, database, book>>

Pids == 1 .. MaxPid
NoPid == 0
Versions == 0 .. MaxEvents
NoRow == [account |-> NoAccount, name |-> "none", ver |-> 0]
Rows == [account : Accounts, name : Names, ver : Versions] \cup {NoRow}
Saves == [pid : Pids, ver : Versions]
Op(s, n, pid, e) == [slot |-> s, name |-> n, pid |-> pid, empire |-> e]
NoOp == Op(0, "none", NoPid, 0)
Ops == [slot : Slots \cup {0}, name : Names \cup {"none"}, pid : Pids \cup {NoPid},
        empire : Empires \cup {0}]
NoHold == [pid |-> NoPid, ver |-> 0]
Holds == [pid : Pids \cup {NoPid}, ver : Versions]
Intents == [kind : {"join", "leave"}, pid : Pids, conn : Conns]

\* orphan: a character that no slot points to; dangling: a slot without character; half: an
\* empire was written and its answer lost; stale: a row was loaded before its last save;
\* unsaved: the position was not safe, nothing was saved; crash; mapless: a Join failed.
Excuses == {"orphan", "dangling", "half", "stale", "unsaved", "crash", "mapless"}

Before  == {"new"}
Serving == {"login", "select", "create.name", "create.insert", "create.place", "create.slot",
            "create.undo", "delete.gate", "delete.row", "rename.name", "rename.write",
            "empire.index", "empire.move", "loaded", "game"}
Ending  == {"leaving", "unlocking"}
Phases  == Before \cup Serving \cup Ending \cup {"closed"}

Exists(pid) == pid # NoPid /\ rows[pid] # NoRow
NameTaken(name, except) == \E pid \in Pids \ {except} : Exists(pid) /\ rows[pid].name = name
HasCharacters(a) == \E s \in Slots : index[a][s] # NoPid
Spend == spent < MaxEvents /\ spent' = spent + 1
Excuse(cases) == excuses' = excuses \cup cases
Goto(c, phase) == at' = [at EXCEPT ![c] = phase]
Return(c) == Goto(c, "select") /\ op' = [op EXCEPT ![c] = NoOp]

\* The outcome of a statement.
Results == {"ok", "failed", "unknown"}
Fault(r) == faults' = (IF r = "ok" THEN faults ELSE faults + 1) /\ faults' <= MaxFaults
Happens(r) == r # "failed"
\* A step that does not do its work is one of the faults of the bound too.
Skip(works) == Fault(IF works THEN "ok" ELSE "failed")

-----------------------------------------------------------------------------
Init ==
  /\ logins = {} /\ at = [c \in Conns |-> "new"] /\ who = [c \in Conns |-> NoAccount]
  /\ op = [c \in Conns |-> NoOp] /\ emp = [c \in Conns |-> 0]
  /\ held = [c \in Conns |-> NoHold]
  /\ intents = <<>> /\ entity = [pid \in Pids |-> Nobody]
  /\ rows = [pid \in Pids |-> NoRow]
  /\ index = [a \in Accounts |-> [s \in Slots |-> NoPid]]
  /\ empire = [a \in Accounts |-> 0] /\ queue = <<>> /\ made = 0
  /\ last = [pid \in Pids |-> 0] /\ excuses = {} /\ spent = 0 /\ faults = 0

-----------------------------------------------------------------------------
\* Login (login_flow)

Accepted(c) == at[c] = "new" /\ \A d \in Conns : d < c => at[d] # "new"

\* An invalid login, a full channel or a login that is already connected ends it at once.
Refuse(c) ==
  /\ Accepted(c) /\ Goto(c, "closed")
  /\ UNCHANGED <<logins, who, op, emp, held, world, database, book>>

Acquire(c, a) ==
  /\ Accepted(c) /\ a \notin logins
  /\ logins' = logins \cup {a} /\ who' = [who EXCEPT ![c] = a] /\ Goto(c, "login")
  /\ UNCHANGED <<op, emp, held, world, database, book>>

\* variant: the guard of the login lives until the end of the login phase
CredentialsUnlock(c) ==
  /\ at[c] = "login" /\ Goto(c, "select") /\ logins' = logins \ {who[c]}
  /\ emp' = [emp EXCEPT ![c] = empire[who[c]]]
  /\ UNCHANGED <<who, op, held, world, database, book>>

\* The credentials, and the empire as it is read with them.
Credentials(c) ==
  /\ at[c] = "login" /\ Goto(c, "select")
  /\ emp' = [emp EXCEPT ![c] = empire[who[c]]]
  /\ UNCHANGED <<logins, who, op, held, world, database, book>>

\* Wrong credentials or a blocked account; the end of the client or its silence, which the
\* handler sees when it reads the next packet; or an error of a query.
Hangup(c) ==
  /\ at[c] \in {"login", "select", "create.name", "rename.name", "loaded"}
  /\ Goto(c, "unlocking")
  /\ UNCHANGED <<logins, who, op, emp, held, world, database, book>>

-----------------------------------------------------------------------------
\* The list of characters

Ask(c, phase, o) ==
  /\ at[c] = "select" /\ Spend
  /\ Goto(c, phase) /\ op' = [op EXCEPT ![c] = o]
  /\ UNCHANGED <<logins, who, emp, held, world, database, last, excuses, faults>>

AskCreate(c, s, n) ==
  /\ at[c] = "select" /\ index[who[c]][s] = NoPid
  /\ Ask(c, "create.name", Op(s, n, NoPid, 0))

CreateName(c) ==
  /\ at[c] = "create.name"
  /\ IF NameTaken(op[c].name, NoPid) THEN Return(c)
                                     ELSE Goto(c, "create.insert") /\ UNCHANGED op
  /\ UNCHANGED <<logins, who, emp, held, world, database, book>>

CreateInsert(c, r) ==
  LET pid == made + 1 IN
  /\ at[c] = "create.insert" /\ made < MaxPid /\ Fault(r)
  /\ IF Happens(r)
       THEN /\ made' = pid
            /\ rows' = [rows EXCEPT ![pid] = [account |-> who[c], name |-> op[c].name, ver |-> 0]]
       ELSE UNCHANGED <<made, rows>>
  /\ IF r = "ok" THEN Goto(c, "create.place") /\ op' = [op EXCEPT ![c].pid = pid]
                 ELSE Return(c)
  /\ Excuse({e \in {"orphan"} : r = "unknown"})
  /\ UNCHANGED <<logins, who, emp, held, world, index, empire, queue, last, spent>>

\* The map of the new character is a statement of its own: its failure is answered like one
\* of the insertion, and nothing is undone.
CreatePlace(c, r) ==
  /\ at[c] = "create.place" /\ Fault(r)
  /\ IF r = "ok" THEN Goto(c, "create.slot") /\ UNCHANGED op ELSE Return(c)
  /\ Excuse({e \in {"orphan"} : r # "ok"})
  /\ UNCHANGED <<logins, who, emp, held, world, database, last, spent>>

\* variant: a character whose slot could not be written is kept
CreateSlotKeeps(c, r) ==
  /\ at[c] = "create.slot" /\ Fault(r)
  /\ index' = IF Happens(r) THEN [index EXCEPT ![who[c]][op[c].slot] = op[c].pid] ELSE index
  /\ Return(c)
  /\ UNCHANGED <<logins, who, emp, held, world, rows, empire, queue, made, last, excuses, spent>>

CreateSlot(c, r) ==
  /\ at[c] = "create.slot" /\ Fault(r)
  /\ index' = IF Happens(r) THEN [index EXCEPT ![who[c]][op[c].slot] = op[c].pid] ELSE index
  /\ IF r = "ok" THEN Return(c) ELSE Goto(c, "create.undo") /\ UNCHANGED op
  /\ UNCHANGED <<logins, who, emp, held, world, rows, empire, queue, made, last, excuses, spent>>

\* The rollback deletes the character without looking at the slot.
CreateUndo(c, r) ==
  LET listed == index[who[c]][op[c].slot] = op[c].pid IN
  /\ at[c] = "create.undo" /\ Fault(r)
  /\ rows' = IF Happens(r) THEN [rows EXCEPT ![op[c].pid] = NoRow] ELSE rows
  /\ Return(c)
  /\ Excuse({e \in {"orphan"} : ~Happens(r) /\ ~listed}
            \cup {e \in {"dangling"} : Happens(r) /\ listed})
  /\ UNCHANGED <<logins, who, emp, held, world, index, empire, queue, made, last, spent>>

\* The private code is right; a wrong one ends the handler without effect.
AskDelete(c, s) ==
  /\ at[c] = "select" /\ index[who[c]][s] # NoPid
  /\ Ask(c, "delete.gate", Op(s, "none", index[who[c]][s], 0))

DeleteGate(c, r) ==
  LET gate == index[who[c]][op[c].slot] = op[c].pid IN
  /\ at[c] = "delete.gate" /\ Fault(r)
  /\ index' = IF gate /\ Happens(r) THEN [index EXCEPT ![who[c]][op[c].slot] = NoPid] ELSE index
  /\ IF gate /\ r = "ok" THEN Goto(c, "delete.row") /\ UNCHANGED op ELSE Return(c)
  /\ Excuse({e \in {"orphan"} : gate /\ r = "unknown" /\ Exists(op[c].pid)})
  /\ UNCHANGED <<logins, who, emp, held, world, rows, empire, queue, made, last, spent>>

DeleteRow(c, r) ==
  /\ at[c] = "delete.row" /\ Fault(r) /\ Return(c)
  /\ rows' = IF Happens(r) THEN [rows EXCEPT ![op[c].pid] = NoRow] ELSE rows
  /\ Excuse({e \in {"orphan"} : ~Happens(r) /\ Exists(op[c].pid)})
  /\ UNCHANGED <<logins, who, emp, held, world, index, empire, queue, made, last, spent>>

\* The flag change_name of the character is set, and its row exists.
AskRename(c, s, n) ==
  /\ at[c] = "select" /\ Exists(index[who[c]][s])
  /\ Ask(c, "rename.name", Op(s, n, index[who[c]][s], 0))

RenameName(c) ==
  /\ at[c] = "rename.name"
  /\ IF NameTaken(op[c].name, op[c].pid) THEN Return(c)
                                         ELSE Goto(c, "rename.write") /\ UNCHANGED op
  /\ UNCHANGED <<logins, who, emp, held, world, database, book>>

RenameWrite(c, r) ==
  /\ at[c] = "rename.write" /\ Fault(r) /\ Return(c)
  /\ rows' = IF Happens(r) THEN [rows EXCEPT ![op[c].pid].name = op[c].name] ELSE rows
  /\ UNCHANGED <<logins, who, emp, held, world, index, empire, queue, made, last, excuses, spent>>

\* An account with an empire and a character may not choose again: the connection ends.
AskEmpire(c, e) ==
  /\ at[c] = "select" /\ ~(emp[c] > 0 /\ HasCharacters(who[c]))
  /\ Ask(c, "empire.index", Op(0, "none", NoPid, e))

EmpireIndex(c, r) ==
  /\ at[c] = "empire.index" /\ Fault(r)
  /\ empire' = IF Happens(r) THEN [empire EXCEPT ![who[c]] = op[c].empire] ELSE empire
  /\ IF r = "ok" THEN Goto(c, "empire.move") /\ UNCHANGED op ELSE Return(c)
  /\ Excuse({e \in {"half"} : r = "unknown"})
  /\ UNCHANGED <<logins, who, emp, held, world, rows, index, queue, made, last, spent>>

\* The characters are moved to the village; the session remembers the empire only after it.
EmpireMove(c, r) ==
  /\ at[c] = "empire.move" /\ Fault(r) /\ Return(c)
  /\ emp' = IF r = "ok" THEN [emp EXCEPT ![c] = op[c].empire] ELSE emp
  /\ Excuse({e \in {"half"} : r # "ok"})
  /\ UNCHANGED <<logins, who, held, world, database, last, spent>>

-----------------------------------------------------------------------------
\* Into the game and out of it

Pending(pid) == \E i \in DOMAIN queue : queue[i].pid = pid

\* An empty slot, or one without row, ends the connection.
SelectNobody(c, s) ==
  /\ at[c] = "select" /\ ~Exists(index[who[c]][s]) /\ Goto(c, "unlocking")
  /\ UNCHANGED <<logins, who, op, emp, held, world, database, book>>

\* The row is read from the database; a position that is not safe is corrected, and saved.
Select(c, s, corrected) ==
  LET pid == index[who[c]][s]
      row == [pid |-> pid, ver |-> rows[pid].ver]
  IN
  /\ at[c] = "select" /\ Exists(index[who[c]][s]) /\ Goto(c, "loaded")
  /\ held' = [held EXCEPT ![c] = row]
  /\ queue' = IF corrected THEN Append(queue, row) ELSE queue
  /\ Excuse({e \in {"stale"} : Pending(pid)})
  /\ UNCHANGED <<logins, who, op, emp, world, rows, index, empire, made, last, spent, faults>>

EnterGame(c) ==
  /\ at[c] = "loaded" /\ Goto(c, "game")
  /\ intents' = Append(intents, [kind |-> "join", pid |-> held[c].pid, conn |-> c])
  /\ UNCHANGED <<logins, who, op, emp, held, entity, database, book>>

\* Anything that changes the row in memory; most handlers save it at once.
Play(c, saves) ==
  LET row == [pid |-> held[c].pid, ver |-> last[held[c].pid] + 1] IN
  /\ at[c] = "game" /\ Spend
  /\ held' = [held EXCEPT ![c] = row] /\ last' = [last EXCEPT ![row.pid] = row.ver]
  /\ queue' = IF saves THEN Append(queue, row) ELSE queue
  /\ UNCHANGED <<logins, at, who, op, emp, world, rows, index, empire, made, excuses, faults>>

\* variant: the last changes are not saved at the end
CloseUnsaved(c, safe) ==
  /\ at[c] = "game" /\ Goto(c, "leaving")
  /\ UNCHANGED <<logins, who, op, emp, held, world, database, book>>

\* game::run saves at the end, whatever ended it, if the position can be loaded again.
Close(c, safe) ==
  /\ at[c] = "game" /\ Goto(c, "leaving")
  /\ queue' = IF safe THEN Append(queue, held[c]) ELSE queue
  /\ Skip(safe) /\ Excuse({e \in {"unsaved"} : ~safe})
  /\ UNCHANGED <<logins, who, op, emp, held, world, rows, index, empire, made, last, spent>>

\* variant: the login is released before the Leave is sent
LeaveLate(c) ==
  /\ at[c] = "leaving" /\ Goto(c, "unlocking") /\ logins' = logins \ {who[c]}
  /\ UNCHANGED <<who, op, emp, held, world, database, book>>
\* variant: the login stays in the registry
UnlockNever(c) ==
  /\ at[c] = "unlocking" /\ Goto(c, "closed")
  /\ op' = [op EXCEPT ![c] = NoOp] /\ held' = [held EXCEPT ![c] = NoHold]
  /\ emp' = [emp EXCEPT ![c] = 0]
  /\ UNCHANGED <<logins, who, world, database, book>>

\* The fields of a Session are dropped in the order in which they are declared: the
\* LeaveGuard, then the ChannelLoginGuard.
Leave(c) ==
  /\ at[c] = "leaving" /\ Goto(c, "unlocking")
  /\ intents' = Append(intents, [kind |-> "leave", pid |-> held[c].pid, conn |-> c])
  /\ UNCHANGED <<logins, who, op, emp, held, entity, database, book>>

Unlock(c) ==
  /\ at[c] = "unlocking" /\ Goto(c, "closed") /\ logins' = logins \ {who[c]}
  /\ op' = [op EXCEPT ![c] = NoOp] /\ held' = [held EXCEPT ![c] = NoHold]
  /\ who' = [who EXCEPT ![c] = NoAccount] /\ emp' = [emp EXCEPT ![c] = 0]
  /\ UNCHANGED <<world, database, book>>

-----------------------------------------------------------------------------
\* The world task and the batcher

\* A Leave names only the character; a Join for a map without spawn files makes no entity.
WorldStep(built) ==
  /\ intents # <<>> /\ intents' = Tail(intents)
  /\ LET i == Head(intents) IN
       entity' = [entity EXCEPT ![i.pid] =
                    IF i.kind = "leave" THEN Nobody ELSE IF built THEN i.conn ELSE @]
  /\ Skip(built) /\ Excuse({e \in {"mapless"} : Head(intents).kind = "join" /\ ~built})
  /\ UNCHANGED <<channel, database, last, spent>>

\* A save is an UPDATE: without row it changes nothing.
Apply(table, save) == IF table[save.pid] = NoRow THEN table
                      ELSE [table EXCEPT ![save.pid].ver = save.ver]

Commit ==
  /\ queue # <<>> /\ queue' = Tail(queue) /\ rows' = Apply(rows, Head(queue))
  /\ UNCHANGED <<channel, world, index, empire, made, book>>

\* The first n saves of the queue: the last one of each character counts.
Replayed(n) ==
  [pid \in Pids |->
     LET saves == {i \in 1 .. n : queue[i].pid = pid}
     IN  IF saves = {} \/ rows[pid] = NoRow THEN rows[pid]
         ELSE [rows[pid] EXCEPT !.ver = queue[Max(saves)].ver]]

\* The process ends and starts again: the registries are empty, and the saves that had
\* reached the log are replayed before the first connection.
Crash ==
  /\ faults < MaxFaults /\ faults' = faults + 1
  /\ logins' = {} /\ intents' = <<>> /\ entity' = [pid \in Pids |-> Nobody]
  /\ at' = [c \in Conns |-> IF at[c] = "new" THEN "new" ELSE "closed"]
  /\ op' = [c \in Conns |-> NoOp] /\ held' = [c \in Conns |-> NoHold]
  /\ who' = [c \in Conns |-> NoAccount] /\ emp' = [c \in Conns |-> 0]
  /\ \E n \in 0 .. Len(queue) : rows' = Replayed(n)
  /\ queue' = <<>>
  /\ Excuse({"crash"}
            \cup {e \in {"orphan"} : \E c \in Conns : at[c] \in {"create.place", "create.slot",
                                                                 "create.undo", "delete.row"}}
            \cup {e \in {"half"} : \E c \in Conns : at[c] = "empire.move"})
  /\ UNCHANGED <<index, empire, made, last, spent>>

-----------------------------------------------------------------------------
Statement(c) ==
  \E r \in Results :
    \/ CreateInsert(c, r) \/ CreatePlace(c, r) \/ CreateSlot(c, r) \/ CreateUndo(c, r)
    \/ DeleteGate(c, r) \/ DeleteRow(c, r) \/ RenameWrite(c, r)
    \/ EmpireIndex(c, r) \/ EmpireMove(c, r)

Proceed(c) ==
  \/ Credentials(c) \/ CreateName(c) \/ RenameName(c) \/ Statement(c) \/ Leave(c) \/ Unlock(c)

Asks(c) ==
  \/ \E s \in Slots, n \in Names : AskCreate(c, s, n) \/ AskRename(c, s, n)
  \/ \E s \in Slots : AskDelete(c, s) \/ SelectNobody(c, s)
  \/ \E s \in Slots, corrected \in BOOLEAN : Select(c, s, corrected)
  \/ \E e \in Empires : AskEmpire(c, e)
  \/ EnterGame(c)
  \/ \E saves \in BOOLEAN : Play(c, saves)

Connection(c) ==
  \/ Refuse(c) \/ \E a \in Accounts : Acquire(c, a)
  \/ Proceed(c) \/ Asks(c) \/ Hangup(c)
  \/ \E safe \in BOOLEAN : Close(c, safe)

Channel == Commit \/ \E built \in BOOLEAN : WorldStep(built)

Next == (\E c \in Conns : Connection(c)) \/ Channel \/ Crash

Spec == Init /\ [][Next]_vars
\* tokio polls every ready task, and every statement is answered.
FairSpec == Spec /\ WF_vars(Channel) /\ \A c \in Conns : WF_vars(Proceed(c))

-----------------------------------------------------------------------------
TypeOK ==
  /\ logins \subseteq Accounts /\ at \in [Conns -> Phases]
  /\ who \in [Conns -> Accounts \cup {NoAccount}]
  /\ op \in [Conns -> Ops] /\ emp \in [Conns -> Empires \cup {0}]
  /\ held \in [Conns -> Holds]
  /\ intents \in Seq(Intents) /\ entity \in [Pids -> Conns \cup {Nobody}]
  /\ rows \in [Pids -> Rows] /\ index \in [Accounts -> [Slots -> Pids \cup {NoPid}]]
  /\ empire \in [Accounts -> Empires \cup {0}] /\ queue \in Seq(Saves)
  /\ made \in 0 .. MaxPid
  /\ last \in [Pids -> Versions] /\ excuses \subseteq Excuses
  /\ spent \in 0 .. MaxEvents /\ faults \in 0 .. MaxFaults

Busy(a) == \E c \in Conns : who[c] = a /\ at[c] \in Serving \cup Ending
Listed(pid) == {i \in Accounts \X Slots : index[i[1]][i[2]] = pid}

\* A character is in the memory of one session at most, from its load to the last guard, so
\* that two sessions never write the same row (ChannelLoginGuard).
OneHolder ==
  \A c, d \in Conns :
    c # d /\ held[c].pid # NoPid => held[d].pid # held[c].pid

\* Between two handlers of an account, its slots and its characters are the same: a slot
\* points to one of its own rows, and a row is in one slot, whatever statements failed and
\* were undone, except after the failures for which the code has no answer (create_character);
\* and its characters have different names.
ListIsTheRows ==
  /\ \A p, q \in Pids :
       p # q /\ Exists(p) /\ Exists(q) /\ rows[p].account = rows[q].account
         => rows[p].name # rows[q].name
  /\ \A a \in Accounts :
       ~Busy(a) =>
         /\ "dangling" \notin excuses =>
              \A s \in Slots : index[a][s] # NoPid =>
                Exists(index[a][s]) /\ rows[index[a][s]].account = a
         /\ "orphan" \notin excuses =>
              \A pid \in Pids : rows[pid].account = a => Cardinality(Listed(pid)) = 1

Idle(pid) == ~Pending(pid) /\ \A c \in Conns : held[c].pid # pid

\* What a player did is in the database when no session holds its character and the queue
\* has no save of it, if every load came after the save of the session before.
ProgressIsKept ==
  excuses \cap {"stale", "unsaved", "crash"} = {} =>
    \A pid \in Pids : Exists(pid) /\ Idle(pid) => rows[pid].ver = last[pid]

\* When its queue is empty the world has the entity of every session that is in the game,
\* and no other: the Leave of a session comes before the Join of the next one.
WorldHasThePlayers ==
  intents = <<>> =>
    \A pid \in Pids :
      LET inside == {c \in Conns : at[c] \in {"game", "leaving"} /\ held[c].pid = pid} IN
      /\ entity[pid] \in inside \cup {Nobody}
      /\ "mapless" \notin excuses /\ inside # {} => entity[pid] # Nobody

\* A login is free again after its connection has ended, however it ended.
LoginsAreFreed ==
  \A a \in Accounts :
    (a \in logins /\ \A c \in Conns : who[c] = a => at[c] \notin Serving) ~> (a \notin logins)

\* No two characters have one name (player.rs:297, entry.rs:793).
NamesDiffer ==
  \A p, q \in Pids : p # q /\ Exists(p) /\ Exists(q) => rows[p].name # rows[q].name

=============================================================================
