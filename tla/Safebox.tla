-------------------------------- MODULE Safebox --------------------------------
(***************************************************************************)
(* The safebox: a second place for items and gold, which belongs to the    *)
(* account and not to the character (server_realms/src/channel/safebox.rs, *)
(* database/src/safebox.rs, the deletion of a character in                 *)
(* database/src/player.rs).  An account has one session at a time.         *)
(*                                                                         *)
(* A handler changes the memory of the session and writes rows with one or *)
(* two statements, each of which may fail without effect or after it; an   *)
(* error ends the connection.  The gold of the character goes through the  *)
(* batcher, that of the box is written at once.  The ids of accounts and   *)
(* of characters come from two sequences, and may be equal.  Passwords,    *)
(* the cooldown and the cells of the inventory are left out, and so is the *)
(* order of SafeboxState.items: the query has no ORDER BY, and any index   *)
(* may be before any other.                                                *)
(***************************************************************************)
EXTENDS Integers, Sequences, FiniteSets, FiniteSetsExt, SequencesExt

CONSTANTS
  Accounts, Players,   \* their ids
  AccountOf,           \* the account of each character
  Items,               \* ids of rows of player.item
  Height,              \* item_proto.size of each item, in cells
  Stackable,           \* ITEM_FLAG_STACKABLE without the antiflag STACK; all of one vnum
  Refused,             \* items with the antiflag SAFEBOX, and the expansion itself
  Width,               \* GRID_WIDTH
  MaxSize,             \* SAFEBOX_SIZE_MAX
  CountLimit,          \* ITEM_COUNT_LIMIT
  GoldMax,             \* GOLD_MAX
  FirstRows, FirstGold, \* what there is at the beginning
  MaxEvents,           \* bound: what players ask
  MaxFaults            \* bound: statements that fail, and crashes

Ids == Accounts \cup Players
Golds == 0 .. GoldMax
Cells == 0 .. Width * MaxSize
NoRow == [owner |-> 0, window |-> "none", pos |-> 0, count |-> 0]
Rows == [owner : Ids, window : {"bag", "box"}, pos : Cells, count : 1 .. CountLimit] \cup {NoRow}
NoPlayer == 0
Gone == -1            \* the gold of a character that was deleted
NoSafe == [size |-> -1, gold |-> 0]
Safes == [size : 0 .. MaxSize, gold : Golds] \cup {NoSafe}

ASSUME LimitsAssumption ==
  {Width, MaxSize, CountLimit, GoldMax, MaxEvents, MaxFaults} \subseteq Nat
ASSUME IdsAssumption == Accounts \cup Players \subseteq Nat \ {0} /\ Items \subseteq Nat \ {0}
ASSUME FiniteAssumption == IsFiniteSet(Items) /\ IsFiniteSet(Players)
ASSUME OwnersAssumption == AccountOf \in [Players -> Accounts] /\ Height \in [Items -> Nat \ {0}]
ASSUME FirstAssumption ==
  /\ FirstRows \in [Items -> Rows] /\ FirstGold \in [Players -> Golds]
  /\ \A i \in Items : FirstRows[i] # NoRow => FirstRows[i].window = "bag"

VARIABLES
  at,      \* the session of each account, and where its handler is
  play,    \* its character
  mem,     \* Session.inventory and SafeboxState.items: where each item is for it
  box,     \* SafeboxState: size and gold of the open box
  purse,   \* row.gold
  op,      \* what the handler holds between two statements
  rows,    \* player.item
  safe,    \* player.safebox
  gold,    \* player.player, the gold
  queue,   \* saves that the batcher has still to commit
  excuses, spent, faults

session  == <<at, play, mem, box, purse, op>>
database == <<rows, safe, gold, queue>>
vars == <<session, database, excuses, spent, faults>>

NoSpot == [window |-> "none", pos |-> 0, count |-> 0]
Spots == [window : {"bag", "box"}, pos : Cells, count : 1 .. CountLimit] \cup {NoSpot}
Carry(i, pos, n) == [item |-> i, onto |-> 0, pos |-> pos, count |-> n, add |-> 0]
Pour(i, j, n, total) == [item |-> i, onto |-> j, pos |-> 0, count |-> total, add |-> n]
NoOp == Carry(0, 0, 0)
Ops == [item : Items \cup {0}, onto : Items \cup {0}, pos : Cells, count : 0 .. CountLimit,
        add : 0 .. CountLimit]
Saves == [pid : Players, gold : Golds]
Phases == {"off", "game", "checkin", "checkout", "move", "stack.src", "stack.dst", "money",
           "end", "save"}

\* torn: half of a stack was moved; shifted: the second half went to the item behind the one it
\* was for, or to none, because the source was before it; wiped: a deletion took items of a box; boxless: gold was
\* put in a box that has no row; unwritten: the gold of a box was not written; shrunk: a box
\* was made smaller; crash; stale: a character was loaded before its last save.
Excuses == {"torn", "shifted", "wiped", "boxless", "unwritten", "shrunk", "crash", "stale"}

Spend == spent < MaxEvents /\ spent' = spent + 1
Excuse(cases) == excuses' = excuses \cup cases
Goto(a, phase) == at' = [at EXCEPT ![a] = phase]
Results == {"ok", "failed", "unknown"}
Fault(r) == faults' = (IF r = "ok" THEN faults ELSE faults + 1) /\ faults' <= MaxFaults
Happens(r) == r # "failed"

Owned(table, owner, window) == {i \in Items : table[i].owner = owner /\ table[i].window = window}
InBox(a) == {i \in Items : mem[a][i].window = "box"}
SpotOf(row) == [window |-> row.window, pos |-> row.pos, count |-> row.count]

-----------------------------------------------------------------------------
\* The grid: an item covers a vertical strip of it.
Strip(i, pos) == {pos + Width * j : j \in 0 .. Height[i] - 1}
Occupied(a) == UNION {Strip(i, mem[a][i].pos) : i \in InBox(a)}
\* variant: only the first cell of the strip is looked at
FitsCorner(a, i, pos) == pos < Width * box[a].size /\ pos \notin Occupied(a)

Fits(a, i, pos) ==
  /\ \A cell \in Strip(i, pos) : cell < Width * box[a].size
  /\ Strip(i, pos) \cap Occupied(a) = {}

-----------------------------------------------------------------------------
Init ==
  /\ at = [a \in Accounts |-> "off"] /\ play = [a \in Accounts |-> NoPlayer]
  /\ mem = [a \in Accounts |-> [i \in Items |-> NoSpot]]
  /\ box = [a \in Accounts |-> NoSafe] /\ purse = [a \in Accounts |-> 0]
  /\ op = [a \in Accounts |-> NoOp]
  /\ rows = FirstRows /\ safe = [a \in Accounts |-> NoSafe] /\ gold = FirstGold
  /\ queue = <<>> /\ excuses = {} /\ spent = 0 /\ faults = 0

Enter(a, p) ==
  /\ at[a] = "off" /\ AccountOf[p] = a /\ gold[p] # Gone /\ Spend
  /\ Goto(a, "game") /\ play' = [play EXCEPT ![a] = p]
  /\ purse' = [purse EXCEPT ![a] = gold[p]]
  /\ mem' = [mem EXCEPT ![a] = [i \in Items |-> IF i \in Owned(rows, p, "bag")
                                                  THEN SpotOf(rows[i]) ELSE NoSpot]]
  /\ Excuse({e \in {"stale"} : \E k \in DOMAIN queue : queue[k].pid = p})
  /\ UNCHANGED <<box, op, database, faults>>

\* /safebox_password with the right one.
Open(a) ==
  /\ at[a] = "game" /\ box[a] = NoSafe /\ Spend
  /\ box' = [box EXCEPT ![a] = IF safe[a] = NoSafe THEN [size |-> 0, gold |-> 0] ELSE safe[a]]
  /\ mem' = [mem EXCEPT ![a] = [i \in Items |-> IF i \in Owned(rows, a, "box")
                                                  THEN SpotOf(rows[i]) ELSE @[i]]]
  /\ UNCHANGED <<at, play, purse, op, database, excuses, faults>>

\* set_gold is an UPDATE: a box without row keeps nothing.
SetGold(a, r) ==
  safe' = IF safe[a] # NoSafe /\ Happens(r) THEN [safe EXCEPT ![a].gold = box[a].gold] ELSE safe

\* variant: the box is closed without writing its gold
ShutOnly(a, r) ==
  /\ Fault(r) /\ UNCHANGED safe /\ UNCHANGED excuses
  /\ box' = [box EXCEPT ![a] = NoSafe]
  /\ mem' = [mem EXCEPT ![a] = [i \in Items |-> IF i \in InBox(a) THEN NoSpot ELSE @[i]]]

\* safebox::close, whose error is only logged.
Shut(a, r) ==
  /\ Fault(r) /\ SetGold(a, r)
  /\ Excuse({e \in {"unwritten"} : ~Happens(r) /\ safe[a].gold # box[a].gold})
  /\ box' = [box EXCEPT ![a] = NoSafe]
  /\ mem' = [mem EXCEPT ![a] = [i \in Items |-> IF i \in InBox(a) THEN NoSpot ELSE @[i]]]

CloseBox(a, r) ==
  /\ at[a] = "game" /\ box[a] # NoSafe /\ Shut(a, r)
  /\ UNCHANGED <<at, play, purse, op, rows, gold, queue, spent>>

-----------------------------------------------------------------------------
\* Items.  The memory gives the item up, the row is written, and the memory takes it again.

Take(a, i) == mem' = [mem EXCEPT ![a][i] = NoSpot]
Begin(a, phase, o) ==
  /\ Spend /\ Goto(a, phase) /\ op' = [op EXCEPT ![a] = o]
  /\ UNCHANGED <<play, box, purse, database, excuses, faults>>

Checkin(a, i, pos) ==
  /\ at[a] = "game" /\ box[a] # NoSafe /\ mem[a][i].window = "bag"
  /\ i \notin Refused /\ Fits(a, i, pos)
  /\ Take(a, i)
  /\ Begin(a, "checkin", Carry(i, pos, mem[a][i].count))

Checkout(a, i) ==
  /\ at[a] = "game" /\ box[a] # NoSafe /\ i \in InBox(a) /\ Take(a, i)
  /\ Begin(a, "checkout", Carry(i, 0, mem[a][i].count))

\* The item itself still blocks its old cells.
Move(a, i, pos) ==
  /\ at[a] = "game" /\ box[a] # NoSafe /\ i \in InBox(a) /\ pos # mem[a][i].pos
  /\ mem[a][i].pos < Width * box[a].size /\ Fits(a, i, pos)
  /\ Take(a, i)
  /\ Begin(a, "move", Carry(i, pos, mem[a][i].count))

\* variant: the row of a stored item keeps the character as owner
WriteToPlayer(a, row, r) ==
  /\ Fault(r)
  /\ rows' = IF Happens(r) THEN [rows EXCEPT ![op[a].item] = [row EXCEPT !.owner = play[a]]] ELSE rows
  /\ IF r = "ok"
       THEN /\ Goto(a, "game") /\ op' = [op EXCEPT ![a] = NoOp]
            /\ mem' = [mem EXCEPT ![a][op[a].item] = SpotOf(row)]
       ELSE Goto(a, "end") /\ UNCHANGED <<op, mem>>

\* upsert: the row of the item of the handler, and the session's own copy when it succeeds.
Write(a, row, r) ==
  /\ Fault(r)
  /\ rows' = IF Happens(r) THEN [rows EXCEPT ![op[a].item] = row] ELSE rows
  /\ IF r = "ok"
       THEN /\ Goto(a, "game") /\ op' = [op EXCEPT ![a] = NoOp]
            /\ mem' = [mem EXCEPT ![a][op[a].item] = SpotOf(row)]
       ELSE Goto(a, "end") /\ UNCHANGED <<op, mem>>

Row(owner, window, o) == [owner |-> owner, window |-> window, pos |-> o.pos, count |-> o.count]
Save(a) == queue' = Append(queue, [pid |-> play[a], gold |-> purse[a]])

CheckinWrite(a, r) ==
  /\ at[a] = "checkin" /\ Write(a, Row(a, "box", op[a]), r)
  /\ IF r = "ok" THEN Save(a) ELSE UNCHANGED queue
  /\ UNCHANGED <<play, box, purse, safe, gold, excuses, spent>>

CheckoutWrite(a, r) ==
  /\ at[a] = "checkout" /\ Write(a, Row(play[a], "bag", op[a]), r)
  /\ IF r = "ok" THEN Save(a) ELSE UNCHANGED queue
  /\ UNCHANGED <<play, box, purse, safe, gold, excuses, spent>>

MoveWrite(a, r) ==
  /\ at[a] = "move" /\ Write(a, Row(a, "box", op[a]), r)
  /\ UNCHANGED <<play, box, purse, safe, gold, queue, excuses, spent>>

\* Some of one stack, or all of it (want = 0), goes onto another.
Stack(a, i, j, want) ==
  LET add == Min({IF want = 0 THEN mem[a][i].count ELSE want,
                  CountLimit - mem[a][j].count, mem[a][i].count})
  IN
  /\ at[a] = "game" /\ box[a] # NoSafe /\ i # j /\ {i, j} \subseteq InBox(a) \cap Stackable
  /\ \A k \in {i, j} : mem[a][k].pos < Width * box[a].size
  /\ add > 0 /\ UNCHANGED mem
  /\ Begin(a, "stack.src", Pour(i, j, add, mem[a][j].count + add))

\* What the index of the target names after the first statement: when the source was removed
\* and was before the target, the next item of the box, or none (0) if the target was the last.
Named(a, left) == IF left = 0 THEN (InBox(a) \ {op[a].item}) \cup {0} ELSE {op[a].onto}
Shift(a, r) ==
  Excuse({e \in {"torn"} : r = "unknown"} \cup {e \in {"shifted"} : op'[a].onto # op[a].onto})

\* variant: the whole source is deleted
StackSrcAll(a, r) ==
  /\ at[a] = "stack.src" /\ Fault(r)
  /\ rows' = IF Happens(r) THEN [rows EXCEPT ![op[a].item] = NoRow] ELSE rows
  /\ IF r = "ok" THEN /\ Goto(a, "stack.dst") /\ Take(a, op[a].item)
                      /\ \E k \in Named(a, 0) : op' = [op EXCEPT ![a].onto = k]
                 ELSE Goto(a, "end") /\ UNCHANGED <<mem, op>>
  /\ Shift(a, r)
  /\ UNCHANGED <<play, box, purse, safe, gold, queue, spent>>

StackSrc(a, r) ==
  LET i == op[a].item
      left == mem[a][i].count - op[a].add
      spot == IF left = 0 THEN NoSpot ELSE [mem[a][i] EXCEPT !.count = left]
  IN
  /\ at[a] = "stack.src" /\ Fault(r)
  /\ rows' = IF ~Happens(r) THEN rows
             ELSE IF left = 0 THEN [rows EXCEPT ![i] = NoRow]
             ELSE [rows EXCEPT ![i] = Row(a, "box", spot)]
  /\ IF r = "ok" THEN /\ Goto(a, "stack.dst") /\ mem' = [mem EXCEPT ![a][i] = spot]
                      /\ \E k \in Named(a, left) : op' = [op EXCEPT ![a].onto = k]
                 ELSE Goto(a, "end") /\ UNCHANGED <<mem, op>>
  /\ Shift(a, r)
  /\ UNCHANGED <<play, box, purse, safe, gold, queue, spent>>

\* The count of the target, with what was added, becomes that of the item that is named.
StackDst(a, r) ==
  LET k == op[a].onto
      spot == [mem[a][k] EXCEPT !.count = op[a].count]
  IN
  /\ at[a] = "stack.dst" /\ k # 0 /\ Fault(r)
  /\ rows' = IF Happens(r) THEN [rows EXCEPT ![k] = Row(a, "box", spot)] ELSE rows
  /\ IF r = "ok" THEN /\ Goto(a, "game") /\ mem' = [mem EXCEPT ![a][k] = spot]
                      /\ op' = [op EXCEPT ![a] = NoOp]
                 ELSE Goto(a, "end") /\ UNCHANGED <<mem, op>>
  /\ Excuse({e \in {"torn"} : ~Happens(r)})
  /\ UNCHANGED <<play, box, purse, safe, gold, queue, spent>>

\* No item has the index: the task of the connection panics, and closes and saves nothing.
StackPanics(a) ==
  /\ at[a] = "stack.dst" /\ op[a].onto = 0 /\ Goto(a, "off")
  /\ play' = [play EXCEPT ![a] = NoPlayer] /\ purse' = [purse EXCEPT ![a] = 0]
  /\ box' = [box EXCEPT ![a] = NoSafe] /\ op' = [op EXCEPT ![a] = NoOp]
  /\ mem' = [mem EXCEPT ![a] = [i \in Items |-> NoSpot]]
  /\ UNCHANGED <<database, excuses, spent, faults>>

-----------------------------------------------------------------------------
\* Gold, size, password

\* n > 0 is put in the box, n < 0 is taken out of it.
Money(a, n) ==
  /\ at[a] = "game" /\ box[a] # NoSafe /\ n # 0 /\ Spend
  /\ purse[a] - n \in Golds /\ box[a].gold + n \in Golds
  /\ purse' = [purse EXCEPT ![a] = @ - n] /\ box' = [box EXCEPT ![a].gold = @ + n]
  /\ queue' = Append(queue, [pid |-> play[a], gold |-> purse[a] - n])
  /\ Goto(a, "money")
  /\ Excuse({e \in {"boxless"} : safe[a] = NoSafe})
  /\ UNCHANGED <<play, mem, op, rows, safe, gold, faults>>

MoneyWrite(a, r) ==
  /\ at[a] = "money" /\ Fault(r) /\ SetGold(a, r)
  /\ Goto(a, IF r = "ok" THEN "game" ELSE "end")
  /\ UNCHANGED <<play, mem, box, purse, op, rows, gold, queue, excuses, spent>>

\* The command of a game master; the first page creates the row, others only update it.  The
\* box in memory only grows.
SetSize(a, size, r) ==
  /\ at[a] = "game" /\ Spend /\ Fault(r)
  /\ box' = IF box[a] # NoSafe /\ size > box[a].size THEN [box EXCEPT ![a].size = size] ELSE box
  /\ safe' = IF ~Happens(r) \/ (safe[a] # NoSafe /\ size = 1) \/ (safe[a] = NoSafe /\ size # 1)
               THEN safe
             ELSE [safe EXCEPT ![a] = [size |-> size, gold |-> IF @ = NoSafe THEN 0 ELSE @.gold]]
  /\ Excuse({e \in {"shrunk"} : safe'[a].size < Max({safe[a].size, box'[a].size})})
  /\ Goto(a, IF r = "ok" THEN "game" ELSE "end")
  /\ UNCHANGED <<play, mem, purse, op, rows, gold, queue>>

\* A new password for a box that has no row creates it.
ChangePassword(a) ==
  /\ at[a] = "game" /\ safe[a] = NoSafe /\ Spend
  /\ safe' = [safe EXCEPT ![a] = [size |-> 0, gold |-> 0]]
  /\ UNCHANGED <<session, rows, gold, queue, excuses, faults>>

-----------------------------------------------------------------------------
\* The end of a connection, the deletion of a character, the batcher and crashes

Disconnect(a) ==
  /\ at[a] = "game" /\ Goto(a, "end")
  /\ UNCHANGED <<play, mem, box, purse, op, database, excuses, spent, faults>>

End(a, r) ==
  /\ at[a] = "end" /\ Goto(a, "save")
  /\ IF box[a] # NoSafe THEN Shut(a, r)
                        ELSE r = "ok" /\ UNCHANGED <<box, mem, safe, excuses, faults>>
  /\ UNCHANGED <<play, purse, op, rows, gold, queue, spent>>

LastSave(a) ==
  /\ at[a] = "save" /\ Goto(a, "off") /\ Save(a)
  /\ play' = [play EXCEPT ![a] = NoPlayer] /\ purse' = [purse EXCEPT ![a] = 0]
  /\ op' = [op EXCEPT ![a] = NoOp] /\ mem' = [mem EXCEPT ![a] = [i \in Items |-> NoSpot]]
  /\ UNCHANGED <<box, rows, safe, gold, excuses, spent, faults>>

\* PlayerRepo::delete: every row whose owner has this id, whatever its window.
DeletePlayer(a, p) ==
  /\ at[a] = "off" /\ AccountOf[p] = a /\ gold[p] # Gone /\ Spend
  /\ gold' = [gold EXCEPT ![p] = Gone]
  /\ rows' = [i \in Items |-> IF rows[i].owner = p THEN NoRow ELSE rows[i]]
  /\ Excuse({e \in {"wiped"} : Owned(rows, p, "box") # {}})
  /\ UNCHANGED <<session, safe, queue, faults>>

Apply(table, save) == IF table[save.pid] = Gone THEN table ELSE [table EXCEPT ![save.pid] = save.gold]

\* The first n saves.
Applied(n) ==
  LET table[k \in 0 .. n] == IF k = 0 THEN gold ELSE Apply(table[k - 1], queue[k]) IN table[n]

Commit ==
  /\ queue # <<>> /\ queue' = Tail(queue) /\ gold' = Apply(gold, Head(queue))
  /\ UNCHANGED <<session, rows, safe, excuses, spent, faults>>

Crash ==
  /\ faults < MaxFaults /\ faults' = faults + 1
  /\ \E n \in 0 .. Len(queue) : gold' = Applied(n)
  /\ queue' = <<>>
  /\ at' = [a \in Accounts |-> "off"] /\ play' = [a \in Accounts |-> NoPlayer]
  /\ mem' = [a \in Accounts |-> [i \in Items |-> NoSpot]]
  /\ box' = [a \in Accounts |-> NoSafe] /\ purse' = [a \in Accounts |-> 0]
  /\ op' = [a \in Accounts |-> NoOp]
  /\ Excuse({"crash"} \cup {e \in {"torn"} : \E a \in Accounts : at[a] = "stack.dst"})
  /\ UNCHANGED <<rows, safe, spent>>

-----------------------------------------------------------------------------
Statement(a) ==
  \E r \in Results :
    \/ CheckinWrite(a, r) \/ CheckoutWrite(a, r) \/ MoveWrite(a, r)
    \/ StackSrc(a, r) \/ StackDst(a, r) \/ MoneyWrite(a, r) \/ End(a, r)

Asks(a) ==
  \/ \E p \in Players : Enter(a, p) \/ DeletePlayer(a, p)
  \/ Open(a) \/ \E r \in Results : CloseBox(a, r)
  \/ \E i \in Items, pos \in Cells : Checkin(a, i, pos) \/ Move(a, i, pos)
  \/ \E i \in Items : Checkout(a, i)
  \/ \E i, j \in Items, want \in 0 .. CountLimit : Stack(a, i, j, want)
  \/ \E n \in -GoldMax .. GoldMax : Money(a, n)
  \/ \E size \in 0 .. MaxSize, r \in Results : SetSize(a, size, r)
  \/ ChangePassword(a) \/ Disconnect(a)

Next ==
  \/ \E a \in Accounts : Asks(a) \/ Statement(a) \/ StackPanics(a) \/ LastSave(a)
  \/ Commit \/ Crash

Spec == Init /\ [][Next]_vars

-----------------------------------------------------------------------------
TypeOK ==
  /\ at \in [Accounts -> Phases] /\ play \in [Accounts -> Players \cup {NoPlayer}]
  /\ mem \in [Accounts -> [Items -> Spots]] /\ box \in [Accounts -> Safes]
  /\ purse \in [Accounts -> Golds] /\ op \in [Accounts -> Ops]
  /\ rows \in [Items -> Rows] /\ safe \in [Accounts -> Safes]
  /\ gold \in [Players -> Golds \cup {Gone}] /\ queue \in Seq(Saves)
  /\ excuses \subseteq Excuses /\ spent \in 0 .. MaxEvents /\ faults \in 0 .. MaxFaults

CharactersOf(a) == {p \in Players : AccountOf[p] = a}
Whole(a) == \A p \in CharactersOf(a) : gold[p] # Gone
Things(table, a) ==
  FoldFunctionOnSet(LAMBDA row, n : row.count + n, 0, table,
    Owned(table, a, "box") \cup UNION {Owned(table, p, "bag") : p \in CharactersOf(a)})

\* Between two handlers the open box and the inventory are exactly the rows of the account
\* and of its character, so that what a player sees is what a later session will load, whatever
\* statements failed (handle_checkin, handle_checkout, handle_item_move, open); but for rows of
\* the box that the deletion of another account's character took.
MemoryIsTheRows ==
  \A a \in Accounts :
    at[a] = "game" =>
      \A i \in Items :
        /\ mem[a][i].window = "bag" <=> i \in Owned(rows, play[a], "bag")
        /\ box[a] # NoSafe /\ i \in Owned(rows, a, "box") => mem[a][i].window = "box"
        /\ mem[a][i].window = "box" =>
             /\ box[a] # NoSafe
             /\ i \in Owned(rows, a, "box") \/ ("wiped" \in excuses /\ rows[i] = NoRow)
        /\ mem[a][i] # NoSpot /\ rows[i] # NoRow => mem[a][i] = SpotOf(rows[i])

\* No two items of an open box overlap, and each is within the grid unless the box was made
\* smaller than it had been (checkin_gate, strip_fits).
BoxIsAGrid ==
  \A a \in Accounts :
    box[a] # NoSafe =>
      \A i, j \in InBox(a) :
        /\ i # j => Strip(i, mem[a][i].pos) \cap Strip(j, mem[a][j].pos) = {}
        /\ "shrunk" \notin excuses => \A cell \in Strip(i, mem[a][i].pos) : cell < Width * box[a].size

\* An account that deletes no character has as many pieces as it had, in the bags of its
\* characters and in its box, whichever connection ended or failed half way, unless a stack
\* was torn, its second half went to another item, or a deletion took the box.
ThingsAreKept ==
  excuses \cap {"torn", "shifted", "wiped"} = {} =>
    \A a \in Accounts :
      Whole(a) /\ at[a] \notin {"stack.src", "stack.dst"} => Things(rows, a) = Things(FirstRows, a)

\* Its gold too, once it is offline and its saves are written, if its box has a row.
GoldIsKept ==
  excuses \cap {"boxless", "unwritten", "crash", "stale"} = {} /\ queue = <<>> =>
    \A a \in Accounts :
      Whole(a) /\ at[a] = "off" =>
        MapThenSumSet(LAMBDA p : gold[p], CharactersOf(a)) + safe[a].gold
          = MapThenSumSet(LAMBDA p : FirstGold[p], CharactersOf(a))

\* A deletion takes the items of the character (player.rs:369), not those of a safebox, which
\* are of the account (safebox.rs:71).
BoxesOutliveCharacters ==
  [][\A i \in Items :
       (\E p \in Players : gold[p] # Gone /\ gold'[p] = Gone) /\ rows[i].window = "box"
         => rows'[i] = rows[i]]_vars
=============================================================================
