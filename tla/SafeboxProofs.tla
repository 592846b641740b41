---------------------------- MODULE SafeboxProofs -----------------------------
(***************************************************************************)
(* Proofs about Safebox for any accounts, characters, items, sizes and     *)
(* bounds: its type invariant, that between two handlers the memory of a   *)
(* session is the rows of its account, that the items of an open box never *)
(* overlap and never leave the grid, and that no piece of an item and no   *)
(* gold is lost.                                                           *)
(***************************************************************************)
EXTENDS Safebox, TLAPS, WellFoundedInduction, FiniteSetTheorems

-----------------------------------------------------------------------------
(* The invariant: what each session promises, and that no two of them have *)
(* one item                                                                *)

\* A session that has failed or ended writes no row of an item any more.
Flying == {"checkin", "checkout", "move"}
Busy == Flying \cup {"stack.src", "stack.dst", "money"}
Live(a) == at[a] \in Busy \cup {"game"}

InFlight(a, i) == at[a] \in Flying /\ op[a].item = i
Has(a, i) == Live(a) /\ (mem[a][i] # NoSpot \/ InFlight(a, i))

BagRow(a, row) == row.window = "bag" /\ row.owner = play[a]
BoxRow(a, row) == row.window = "box" /\ row.owner = a
Mine(a, i) == BagRow(a, rows[i]) \/ (box[a] # NoSafe /\ BoxRow(a, rows[i]))
Wiped(i) == "wiped" \in excuses /\ rows[i] = NoRow

\* The session and what its handler holds.
Formed(a) ==
  /\ play[a] = NoPlayer <=> at[a] = "off"
  /\ play[a] # NoPlayer => AccountOf[play[a]] = a
  /\ at[a] \in {"off", "save"} => box[a] = NoSafe
  /\ at[a] \in Busy => box[a] # NoSafe
  /\ at[a] \in Flying => /\ op[a].item \in Items /\ op[a].count \in 1 .. CountLimit
                         /\ mem[a][op[a].item] = NoSpot
  /\ at[a] = "stack.src" =>
       /\ op[a].item \in InBox(a) /\ op[a].onto \in InBox(a) /\ op[a].item # op[a].onto
       /\ op[a].add \in 1 .. mem[a][op[a].item].count
       /\ op[a].count = mem[a][op[a].onto].count + op[a].add /\ op[a].count <= CountLimit
  /\ at[a] = "stack.dst" =>
       /\ op[a].onto \in InBox(a) \cup {0} /\ op[a].count \in 1 .. CountLimit
       /\ "shifted" \notin excuses =>
            op[a].onto # 0 /\ op[a].count = mem[a][op[a].onto].count + op[a].add

\* What the session has is what the table has, but for the item in flight and for wiped rows.
AgreesOn(a, i) ==
  /\ Mine(a, i) /\ ~InFlight(a, i) => mem[a][i] = SpotOf(rows[i])
  /\ mem[a][i].window = "bag" => BagRow(a, rows[i])
  /\ mem[a][i].window = "box" => box[a] # NoSafe /\ (BoxRow(a, rows[i]) \/ Wiped(i))
  /\ InFlight(a, i) => Mine(a, i) \/ Wiped(i)
Agrees(a) == Live(a) => \A i \in Items : AgreesOn(a, i)

\* The grid, in memory, in the handler and in the table.
Apart(i, p, j, q) == Strip(i, p) \cap Strip(j, q) = {}
Within(i, p, size) == \A cell \in Strip(i, p) : cell < Width * size
Kept == "shrunk" \notin excuses
GridOf(a) ==
  box[a] # NoSafe =>
    \A i, j \in InBox(a) :
      /\ i # j => Apart(i, mem[a][i].pos, j, mem[a][j].pos)
      /\ Kept => Within(i, mem[a][i].pos, box[a].size)
TargetFits(a) == at[a] \in {"checkin", "move"} => Fits(a, op[a].item, op[a].pos)
SizeFits(a) == Kept /\ box[a] # NoSafe => box[a].size <= safe[a].size \/ box[a].size = 0
RowsFit(a) ==
  \A i, j \in Items :
    BoxRow(a, rows[i]) =>
      /\ BoxRow(a, rows[j]) /\ i # j => Apart(i, rows[i].pos, j, rows[j].pos)
      /\ Kept => Within(i, rows[i].pos, safe[a].size)

Local(a) == Formed(a) /\ Agrees(a) /\ GridOf(a) /\ TargetFits(a) /\ SizeFits(a) /\ RowsFit(a)
OneHolder == \A a, b \in Accounts, i \in Items : Has(a, i) /\ Has(b, i) => a = b

SbInv == TypeOK /\ (\A a \in Accounts : Local(a)) /\ OneHolder

-----------------------------------------------------------------------------
(* What a step of one session must show                                    *)

SameSession(b) == /\ at'[b] = at[b] /\ play'[b] = play[b] /\ mem'[b] = mem[b]
                  /\ box'[b] = box[b] /\ op'[b] = op[b]

\* The rows of the items that a session has are its own.
LEMMA HeldIsMine ==
  ASSUME SbInv, NEW a \in Accounts, NEW i \in Items, Has(a, i)
  PROVE  Mine(a, i) \/ Wiped(i)
<1>1. AgreesOn(a, i)
  BY DEF SbInv, Local, Agrees, Has
<1>2. mem[a][i] \in Spots
  BY DEF SbInv, TypeOK
<1>3. mem[a][i] = NoSpot \/ mem[a][i].window \in {"bag", "box"}
  BY <1>2 DEF Spots
<1> QED
  BY <1>1, <1>3 DEF AgreesOn, Mine, Has

\* Two accounts do not share a row.
LEMMA RowsAreOf ==
  ASSUME NEW a \in Accounts, NEW b \in Accounts, a # b, Formed(a), Formed(b), Live(a), NEW row,
         row = NoRow \/ BagRow(a, row) \/ BoxRow(a, row)
  PROVE  /\ ~BoxRow(b, row)
         /\ Live(b) => ~BagRow(b, row)
<1>1. play[a] # NoPlayer /\ AccountOf[play[a]] = a
  BY DEF Formed, Live, Busy, Flying
<1>2. Live(b) => play[b] # NoPlayer /\ AccountOf[play[b]] = b
  BY DEF Formed, Live, Busy, Flying
<1> QED
  BY <1>1, <1>2 DEF BoxRow, BagRow, NoRow

\* The rows that a session writes are those of items that it has.
WritesOwn(a) ==
  \A i \in Items :
    \/ rows'[i] = rows[i]
    \/ Has(a, i) /\ (rows'[i] = NoRow \/ BagRow(a, rows'[i]) \/ BoxRow(a, rows'[i]))

\* A step of one session leaves the others as they are.
LEMMA OthersStay ==
  ASSUME SbInv, NEW a \in Accounts, NEW b \in Accounts, b # a, SameSession(b),
         safe'[b] = safe[b], excuses \subseteq excuses', WritesOwn(a)
  PROVE  Local(b)' /\ \A i \in Items : Has(b, i)' <=> Has(b, i)
<1>0. Local(a) /\ Local(b)
  BY DEF SbInv
<1>1. ASSUME NEW i \in Items, rows'[i] # rows[i]
      PROVE  /\ ~Has(b, i) /\ ~BoxRow(b, rows[i]) /\ ~BoxRow(b, rows'[i])
             /\ Live(b) => ~BagRow(b, rows[i]) /\ ~BagRow(b, rows'[i])
  <2>1. Has(a, i) /\ Live(a) /\ (rows'[i] = NoRow \/ BagRow(a, rows'[i]) \/ BoxRow(a, rows'[i]))
    BY <1>1 DEF WritesOwn, Has
  <2>2. rows[i] = NoRow \/ BagRow(a, rows[i]) \/ BoxRow(a, rows[i])
    BY <2>1, HeldIsMine DEF Mine, Wiped
  <2>3. ~Has(b, i)
    BY <2>1 DEF SbInv, OneHolder
  <2>4. Formed(a) /\ Formed(b)
    BY <1>0 DEF Local
  <2> QED
    BY <2>1, <2>2, <2>3, <2>4, RowsAreOf
<1>2. Kept' => Kept
  BY DEF Kept
<1>3. \A i \in Items : Has(b, i)' <=> Has(b, i)
  BY DEF Has, Live, InFlight, SameSession
<1>4. InBox(b)' = InBox(b)
  BY DEF InBox, SameSession
<1>5. Formed(b)'
  BY <1>0, <1>4 DEF Local, Formed, SameSession
<1>6. Agrees(b)'
  <2> SUFFICES ASSUME Live(b)', NEW i \in Items PROVE AgreesOn(b, i)'
    BY DEF Agrees
  <2>1. Live(b) /\ AgreesOn(b, i)
    BY <1>0 DEF Local, Agrees, Live, SameSession
  <2>2. CASE rows'[i] = rows[i]
    BY <2>1, <2>2 DEF AgreesOn, Mine, BagRow, BoxRow, InFlight, Wiped, SameSession
  <2>3. CASE rows'[i] # rows[i]
    <3>1. mem[b][i] = NoSpot /\ ~InFlight(b, i)
      BY <1>1, <2>1, <2>3 DEF Has
    <3>2. ~Mine(b, i)'
      BY <1>1, <2>1, <2>3 DEF Mine, BagRow, BoxRow, SameSession
    <3>3. mem'[b][i] = NoSpot /\ ~InFlight(b, i)'
      BY <3>1 DEF InFlight, SameSession
    <3> QED
      BY <3>2, <3>3 DEF AgreesOn, NoSpot
  <2> QED
    BY <2>2, <2>3
<1>7. GridOf(b)'
  BY <1>0, <1>2, <1>4 DEF Local, GridOf, SameSession, Apart, Within
<1>8. TargetFits(b)'
  BY <1>0, <1>4 DEF Local, TargetFits, SameSession, Fits, Occupied
<1>9. SizeFits(b)'
  BY <1>0, <1>2 DEF Local, SizeFits, SameSession
<1>10. RowsFit(b)'
  <2>1. \A i \in Items : BoxRow(b, rows'[i]) => rows'[i] = rows[i]
    BY <1>1
  <2>2. RowsFit(b)
    BY <1>0 DEF Local
  <2>3. \A row : BoxRow(b, row)' <=> BoxRow(b, row)
    BY DEF BoxRow
  <2> QED
    BY <2>1, <2>2, <1>2 DEF RowsFit, BoxRow
<1> QED
  BY <1>3, <1>5, <1>6, <1>7, <1>8, <1>9, <1>10 DEF Local

\* What a session gets, it gets from its rows.
Gets(a, i) == BoxRow(a, rows[i]) \/ (rows[i].window = "bag" /\ rows[i].owner = play'[a])

\* A step of one session keeps the invariant when it keeps it for that session.
LEMMA SessionKeeps ==
  ASSUME SbInv, TypeOK', NEW a \in Accounts,
         \A b \in Accounts \ {a} : SameSession(b) /\ safe'[b] = safe[b],
         excuses \subseteq excuses', WritesOwn(a),
         \A i \in Items : Has(a, i)' => Has(a, i) \/ Gets(a, i),
         Local(a)'
  PROVE  SbInv'
<1>1. \A b \in Accounts \ {a} : Local(b)' /\ \A i \in Items : Has(b, i)' <=> Has(b, i)
  BY OthersStay
<1>2. ASSUME NEW b \in Accounts \ {a}, NEW i \in Items, Has(a, i)', Has(b, i)' PROVE FALSE
  <2>1. Has(b, i) /\ Live(b)
    BY <1>1, <1>2 DEF Has
  <2>2. CASE Has(a, i)
    BY <2>1, <2>2 DEF SbInv, OneHolder
  <2>3. CASE Gets(a, i)
    <3>1. play'[a] # NoPlayer /\ AccountOf[play'[a]] = a
      BY <1>2 DEF Local, Formed, Has, Live, Busy, Flying
    <3>2. play[b] # NoPlayer /\ AccountOf[play[b]] = b
      BY <2>1 DEF SbInv, Local, Formed, Live, Busy, Flying
    <3>3. BagRow(b, rows[i]) \/ BoxRow(b, rows[i]) \/ rows[i] = NoRow
      BY <2>1, HeldIsMine DEF Mine, Wiped
    <3> QED
      BY <2>3, <3>1, <3>2, <3>3 DEF Gets, BagRow, BoxRow, NoRow
  <2> QED
    BY <1>2, <2>2, <2>3
<1>3. \A b \in Accounts : Local(b)'
  BY <1>1
<1>4. OneHolder'
  <2> SUFFICES ASSUME NEW b \in Accounts, NEW c \in Accounts, NEW i \in Items,
                      Has(b, i)', Has(c, i)', b # c
               PROVE  FALSE
    BY DEF OneHolder
  <2>1. CASE b = a
    BY <1>2, <2>1
  <2>2. CASE c = a
    BY <1>2, <2>2
  <2>3. CASE b # a /\ c # a
    BY <1>1, <2>3 DEF SbInv, OneHolder
  <2> QED
    BY <2>1, <2>2, <2>3
<1> QED
  BY <1>3, <1>4 DEF SbInv

-----------------------------------------------------------------------------
(* The grid                                                                *)

\* A strip has the cell it starts with.
LEMMA StripStarts ==
  ASSUME NEW i \in Items, NEW pos \in Nat
  PROVE  pos \in Strip(i, pos)
<1>1. 0 \in 0 .. Height[i] - 1
  BY OwnersAssumption
<1>2. Width \in Nat
  BY LimitsAssumption
<1>3. pos = pos + Width * 0
  BY <1>2
<1> QED
  BY <1>1, <1>3 DEF Strip

\* Nothing fits in a box without a row or without a size.
LEMMA NothingFits ==
  ASSUME NEW i \in Items, NEW pos \in Nat, NEW size \in {0, -1}
  PROVE  ~Within(i, pos, size)
<1>1. Width \in Nat
  BY LimitsAssumption
<1>2. ~(pos < Width * size)
  <2>1. CASE size = 0
    BY <1>1, <2>1
  <2>2. CASE size = -1
    <3>1. Width * (-1) = -Width
      BY <1>1
    <3> QED
      BY <3>1, <1>1, <2>2
  <2> QED
    BY <2>1, <2>2
<1> QED
  BY <1>2, StripStarts DEF Within

\* What is within a box is within a larger one.
LEMMA LargerBox ==
  ASSUME NEW i \in Items, NEW pos \in Nat, NEW m \in Int, NEW n \in Int, m <= n,
         Within(i, pos, m)
  PROVE  Within(i, pos, n)
<1>1. Width \in Nat
  BY LimitsAssumption
<1>2. PICK k \in Nat : n = m + k
  <2>1. n - m \in Nat /\ n = m + (n - m)
    OBVIOUS
  <2> QED
    BY <2>1
<1>3. Width * n = Width * m + Width * k
  BY <1>1, <1>2
<1>4. Width * k \in Nat /\ Width * m \in Int
  BY <1>1
<1>5. \A cell \in Strip(i, pos) : cell \in Int
  <2>1. Height[i] \in Nat
    BY OwnersAssumption
  <2>2. \A j \in 0 .. Height[i] - 1 : pos + Width * j \in Int
    BY <1>1, <2>1
  <2> QED
    BY <2>2 DEF Strip
<1> QED
  BY <1>3, <1>4, <1>5 DEF Within

\* The rows of an account stay a grid when some of them go and its box does not shrink.
LEMMA FewerRowsFit ==
  ASSUME TypeOK, NEW a \in Accounts, RowsFit(a), Kept' => Kept,
         \A i \in Items : BoxRow(a, rows'[i]) => rows'[i] = rows[i],
         Kept' => safe'[a].size \in Int /\ safe[a].size <= safe'[a].size
  PROVE  RowsFit(a)'
<1>1. \A row : BoxRow(a, row)' <=> BoxRow(a, row)
  BY DEF BoxRow
<1>2. \A i \in Items : rows[i].pos \in Nat
  BY DEF TypeOK, Rows, NoRow, Cells
<1>3. safe[a].size \in Int
  BY DEF TypeOK, Safes, NoSafe
<1>4. ASSUME NEW i \in Items, BoxRow(a, rows'[i]), Kept'
      PROVE  Within(i, rows'[i].pos, safe'[a].size)
  <2>1. rows'[i] = rows[i] /\ Kept /\ Within(i, rows[i].pos, safe[a].size)
    BY <1>4 DEF RowsFit
  <2> QED
    BY <2>1, <1>2, <1>3, <1>4, LargerBox
<1> QED
  BY <1>1, <1>4 DEF RowsFit

\* They stay one when a row is written whose strip is clear of the others in memory and within
\* the box.
LEMMA WrittenRowsFit ==
  ASSUME SbInv, NEW a \in Accounts, Live(a), box[a] # NoSafe, UNCHANGED safe,
         excuses \subseteq excuses', NEW i \in Items, NEW row \in Rows,
         \A j \in Items : InFlight(a, j) => j = i,
         \A j \in InBox(a) : j # i => Apart(i, row.pos, j, mem[a][j].pos),
         Kept => Within(i, row.pos, box[a].size),
         rows' = rows \/ rows' = [rows EXCEPT ![i] = row]
  PROVE  RowsFit(a)'
<1>1. TypeOK /\ RowsFit(a) /\ SizeFits(a) /\ Agrees(a) /\ (Kept' => Kept)
  BY DEF SbInv, Local, Kept
<1>2. safe[a].size \in Int /\ box[a].size \in Nat
  BY <1>1 DEF TypeOK, Safes, NoSafe
<1>3. CASE rows' = rows
  BY <1>1, <1>2, <1>3, FewerRowsFit
<1>4. CASE rows' = [rows EXCEPT ![i] = row]
  <2>1. rows'[i] = row /\ \A j \in Items : j # i => rows'[j] = rows[j]
    BY <1>1, <1>4 DEF TypeOK
  <2>2. ASSUME NEW j \in Items, j # i, BoxRow(a, rows[j])
        PROVE  j \in InBox(a) /\ mem[a][j].pos = rows[j].pos
    <3>1. Mine(a, j) /\ ~InFlight(a, j)
      BY <2>2 DEF Mine
    <3>2. mem[a][j] = SpotOf(rows[j])
      BY <3>1, <1>1 DEF Agrees, AgreesOn
    <3> QED
      BY <3>2, <2>2 DEF SpotOf, InBox, BoxRow
  <2>3. ASSUME NEW j \in Items, j # i, BoxRow(a, rows[j])
        PROVE  /\ Apart(i, row.pos, j, rows[j].pos) /\ Apart(j, rows[j].pos, i, row.pos)
    BY <2>2, <2>3 DEF Apart
  <2>4. Kept => Within(i, row.pos, safe[a].size)
    <3>1. row.pos \in Nat
      BY DEF Rows, NoRow, Cells
    <3> QED
      BY <3>1, <1>1, <1>2, LargerBox, NothingFits DEF SizeFits
  <2>5. \A r : BoxRow(a, r)' <=> BoxRow(a, r)
    BY DEF BoxRow
  <2>6. ASSUME NEW j \in Items, NEW k \in Items, BoxRow(a, rows'[j]), BoxRow(a, rows'[k]), j # k
        PROVE  Apart(j, rows'[j].pos, k, rows'[k].pos)
    <3>1. CASE j = i
      BY <2>1, <2>3, <2>6, <3>1
    <3>2. CASE k = i
      BY <2>1, <2>3, <2>6, <3>2
    <3>3. CASE j # i /\ k # i
      BY <2>1, <2>6, <3>3, <1>1 DEF RowsFit
    <3> QED
      BY <3>1, <3>2, <3>3
  <2>7. ASSUME NEW j \in Items, BoxRow(a, rows'[j]), Kept'
        PROVE  Within(j, rows'[j].pos, safe[a].size)
    <3>1. CASE j = i
      BY <2>1, <2>4, <2>7, <3>1, <1>1
    <3>2. CASE j # i
      BY <2>1, <2>7, <3>2, <1>1 DEF RowsFit
    <3> QED
      BY <3>1, <3>2
  <2> QED
    BY <2>5, <2>6, <2>7 DEF RowsFit, Apart, Within
<1> QED
  BY <1>3, <1>4

-----------------------------------------------------------------------------
(* Items: a handler takes one in hand and writes it                        *)

LEMMA Budgets ==
  ASSUME TypeOK
  PROVE  /\ Spend => spent' \in 0 .. MaxEvents
         /\ \A r : Fault(r) => faults' \in 0 .. MaxFaults
         /\ spent' = spent => spent' \in 0 .. MaxEvents
         /\ faults' = faults => faults' \in 0 .. MaxFaults
<1>1. MaxEvents \in Nat /\ MaxFaults \in Nat
  BY LimitsAssumption
<1> QED
  BY <1>1 DEF TypeOK, Spend, Fault

\* A spot that is not empty is in a place and has a count.
LEMMA SpotsAre ==
  ASSUME TypeOK, NEW a \in Accounts, NEW i \in Items
  PROVE  /\ mem[a][i] \in Spots /\ mem[a][i].pos \in Nat /\ mem[a][i].pos \in Cells
         /\ mem[a][i] # NoSpot <=> mem[a][i].window \in {"bag", "box"}
         /\ mem[a][i] # NoSpot => mem[a][i].count \in 1 .. CountLimit
<1>1. mem[a][i] \in Spots
  BY DEF TypeOK
<1>2. 0 \in Cells /\ \A c \in Cells : c \in Nat
  BY LimitsAssumption DEF Cells
<1> QED
  BY <1>1, <1>2 DEF Spots, NoSpot

\* Check in, check out and move begin alike: the memory gives the item up.
LEMMA FlightBegins ==
  ASSUME SbInv, NEW a \in Accounts, NEW i \in Items, NEW pos \in Cells, NEW phase \in Flying,
         at[a] = "game", box[a] # NoSafe, mem[a][i] # NoSpot,
         phase \in {"checkin", "move"} => Fits(a, i, pos),
         Take(a, i),
         Begin(a, phase, Carry(i, pos, mem[a][i].count))
  PROVE  SbInv'
<1> DEFINE o == Carry(i, pos, mem[a][i].count)
<1>0. TypeOK /\ Local(a)
  BY DEF SbInv
<1>1. mem[a][i].count \in 1 .. CountLimit
  BY <1>0, SpotsAre
<1>2. o \in Ops
  BY <1>1, LimitsAssumption DEF Ops, Carry
<1>3. /\ o.item = i /\ o.pos = pos /\ o.count \in 1 .. CountLimit
  BY <1>1 DEF Carry
<1>4. Begin(a, phase, o) /\ op' = [op EXCEPT ![a] = o]
  BY DEF Begin
<1> HIDE DEF o
<1>5. /\ at'[a] = phase /\ op'[a] = o /\ at' \in [Accounts -> Phases] /\ op' \in [Accounts -> Ops]
      /\ \A b \in Accounts \ {a} : at'[b] = at[b] /\ op'[b] = op[b]
  BY <1>0, <1>2, <1>4 DEF TypeOK, Begin, Goto, Phases, Flying
<1>6. /\ UNCHANGED <<play, box, purse, rows, safe, gold, queue, excuses, faults>>
      /\ spent' \in 0 .. MaxEvents
  BY <1>0, <1>4, Budgets DEF Begin, database
<1>7. /\ mem' \in [Accounts -> [Items -> Spots]] /\ mem'[a][i] = NoSpot
      /\ \A j \in Items \ {i} : mem'[a][j] = mem[a][j]
      /\ \A b \in Accounts \ {a} : mem'[b] = mem[b]
  <2>1. NoSpot \in Spots
    BY DEF Spots
  <2> QED
    BY <2>1, <1>0 DEF TypeOK, Take
<1>8. TypeOK'
  BY <1>0, <1>5, <1>6, <1>7 DEF TypeOK
<1>9. WritesOwn(a) /\ \A b \in Accounts \ {a} : SameSession(b) /\ safe'[b] = safe[b]
  BY <1>5, <1>6, <1>7 DEF WritesOwn, SameSession
<1>10. Has(a, i) /\ Live(a) /\ ~(at[a] \in Flying)
  BY DEF Has, Live, Flying
<1>11. \A j \in Items : Has(a, j)' => Has(a, j)
  BY <1>3, <1>5, <1>7, <1>10 DEF Has, InFlight
<1>12. Formed(a)'
  BY <1>0, <1>3, <1>5, <1>6, <1>7 DEF Local, Formed, Flying, Busy
<1>13. Agrees(a)'
  <2> SUFFICES ASSUME NEW j \in Items PROVE AgreesOn(a, j)'
    BY DEF Agrees
  <2>1. AgreesOn(a, j) /\ ~InFlight(a, j)
    BY <1>0, <1>10 DEF Local, Agrees, InFlight
  <2>2. Mine(a, j)' <=> Mine(a, j)
    BY <1>6 DEF Mine, BagRow, BoxRow
  <2>3. Wiped(j)' <=> Wiped(j)
    BY <1>6 DEF Wiped
  <2>4. CASE j = i
    <3>1. Mine(a, j)' \/ Wiped(j)'
      BY <1>10, <2>2, <2>3, <2>4, HeldIsMine
    <3>2. InFlight(a, j)' /\ mem'[a][j] = NoSpot
      BY <1>3, <1>5, <1>7, <2>4 DEF InFlight
    <3> QED
      BY <3>1, <3>2 DEF AgreesOn, NoSpot
  <2>5. CASE j # i
    <3>1. ~InFlight(a, j)' /\ mem'[a][j] = mem[a][j]
      BY <1>3, <1>5, <1>7, <2>5 DEF InFlight
    <3>2. BagRow(a, rows[j])' <=> BagRow(a, rows[j])
      BY <1>6 DEF BagRow
    <3>3. BoxRow(a, rows[j])' <=> BoxRow(a, rows[j])
      BY <1>6 DEF BoxRow
    <3> QED
      BY <3>1, <3>2, <3>3, <2>1, <2>2, <2>3, <1>6 DEF AgreesOn
  <2> QED
    BY <2>4, <2>5
<1>14. InBox(a)' \subseteq InBox(a) \ {i} /\ \A j \in InBox(a)' : mem'[a][j] = mem[a][j]
  BY <1>7 DEF InBox, NoSpot
<1>15. GridOf(a)'
  BY <1>0, <1>6, <1>14 DEF Local, GridOf, Apart, Within, Kept
<1>16. TargetFits(a)'
  <2> SUFFICES ASSUME phase \in {"checkin", "move"} PROVE Fits(a, i, pos)'
    BY <1>3, <1>5 DEF TargetFits
  <2>1. Occupied(a)' \subseteq Occupied(a)
    BY <1>14 DEF Occupied
  <2> QED
    BY <2>1, <1>6 DEF Fits
<1>17. SizeFits(a)' /\ RowsFit(a)'
  BY <1>0, <1>6 DEF Local, SizeFits, RowsFit, Kept, BoxRow, Apart, Within
<1>18. Local(a)'
  BY <1>12, <1>13, <1>15, <1>16, <1>17 DEF Local
<1> QED
  BY <1>6, <1>8, <1>9, <1>11, <1>18, SessionKeeps

\* They end alike: the row is written, or not, and the memory takes the item again.
LEMMA FlightEnds ==
  ASSUME SbInv, NEW a \in Accounts, NEW r, at[a] \in Flying, NEW row,
         \/ at[a] = "checkout" /\ row = Row(play[a], "bag", op[a])
         \/ at[a] \in {"checkin", "move"} /\ row = Row(a, "box", op[a]),
         Write(a, row, r), queue' \in Seq(Saves),
         UNCHANGED <<play, box, purse, safe, gold, excuses, spent>>
  PROVE  SbInv'
<1>0. TypeOK /\ Local(a) /\ Live(a) /\ box[a] # NoSafe
  BY DEF SbInv, Live, Busy, Local, Formed
<1>1. PICK i \in Items : /\ i = op[a].item /\ op[a].count \in 1 .. CountLimit /\ mem[a][i] = NoSpot
                         /\ op[a].pos \in Cells
  <2>1. op[a].pos \in Cells
    BY <1>0 DEF TypeOK, Ops
  <2> QED
    BY <2>1, <1>0 DEF Local, Formed
<1>2. play[a] \in Players /\ play[a] # NoPlayer
  BY <1>0 DEF TypeOK, Local, Formed, Flying
<1>3. /\ row \in Rows /\ row # NoRow /\ row.pos = op[a].pos
      /\ \/ at[a] = "checkout" /\ BagRow(a, row) /\ row.window = "bag"
         \/ at[a] \in {"checkin", "move"} /\ BoxRow(a, row) /\ row.window = "box"
  BY <1>1, <1>2 DEF Row, Rows, Ids, NoRow, BagRow, BoxRow
<1>4. SpotOf(row) \in Spots /\ SpotOf(row).window = row.window /\ SpotOf(row).pos = row.pos
  <2>1. row \in [owner : Ids, window : {"bag", "box"}, pos : Cells, count : 1 .. CountLimit]
    BY <1>3 DEF Rows
  <2> QED
    BY <2>1 DEF SpotOf, Spots
<1>5. rows' = rows \/ rows' = [rows EXCEPT ![i] = row]
  BY <1>1 DEF Write
<1>6. rows' \in [Items -> Rows] /\ \A j \in Items \ {i} : rows'[j] = rows[j]
  BY <1>0, <1>3, <1>5 DEF TypeOK
<1>7. Fits(a, i, row.pos) \/ at[a] = "checkout"
  BY <1>0, <1>1, <1>3 DEF Local, TargetFits
<1>8. \A j \in Items : InFlight(a, j) <=> j = i
  BY <1>1 DEF InFlight
<1>9. Has(a, i) /\ WritesOwn(a)
  <2>1. Has(a, i)
    BY <1>0, <1>8 DEF Has
  <2> QED
    BY <2>1, <1>0, <1>3, <1>5, <1>6 DEF WritesOwn, TypeOK
<1>10. RowsFit(a)'
  <2>1. CASE at[a] = "checkout"
    <3>1. \A j \in Items : BoxRow(a, rows'[j]) => rows'[j] = rows[j]
      BY <2>1, <1>0, <1>3, <1>5, <1>6 DEF BoxRow, TypeOK
    <3>2. safe'[a].size \in Int /\ safe'[a].size = safe[a].size
      BY <1>0 DEF TypeOK, Safes, NoSafe
    <3> QED
      BY <3>1, <3>2, <1>0, FewerRowsFit DEF Local, Kept
  <2>2. CASE at[a] # "checkout"
    <3>1. Fits(a, i, row.pos)
      BY <1>7, <2>2
    <3>2. \A j \in InBox(a) : Apart(i, row.pos, j, mem[a][j].pos)
      BY <3>1 DEF Fits, Occupied, Apart
    <3>3. Within(i, row.pos, box[a].size)
      BY <3>1 DEF Fits, Within
    <3> QED
      BY <3>2, <3>3, <1>0, <1>3, <1>5, <1>8, WrittenRowsFit
  <2> QED
    BY <2>1, <2>2
<1>11. faults' \in 0 .. MaxFaults
  BY <1>0, Budgets DEF Write
<1>12. \A b \in Accounts \ {a} : safe'[b] = safe[b]
  OBVIOUS
<1>13. SizeFits(a)'
  BY <1>0 DEF Local, SizeFits, Kept
<1>14. CASE r = "ok"
  <2>1. /\ at'[a] = "game" /\ at' \in [Accounts -> Phases]
        /\ op' \in [Accounts -> Ops]
        /\ \A b \in Accounts \ {a} : at'[b] = at[b] /\ op'[b] = op[b]
    <3>1. NoOp \in Ops
      BY LimitsAssumption DEF NoOp, Carry, Ops, Cells
    <3> QED
      BY <3>1, <1>0, <1>14 DEF Write, Goto, TypeOK, Phases
  <2>2. /\ mem' \in [Accounts -> [Items -> Spots]] /\ mem'[a][i] = SpotOf(row)
        /\ \A j \in Items \ {i} : mem'[a][j] = mem[a][j]
        /\ \A b \in Accounts \ {a} : mem'[b] = mem[b]
    <3>1. mem' = [mem EXCEPT ![a][i] = SpotOf(row)]
      BY <1>1, <1>14 DEF Write
    <3> QED
      BY <3>1, <1>0, <1>4 DEF TypeOK
  <2>3. rows'[i] = row
    BY <1>0, <1>1, <1>14 DEF Write, Happens, TypeOK
  <2>4. TypeOK'
    BY <1>0, <1>6, <1>11, <2>1, <2>2 DEF TypeOK
  <2>5. \A b \in Accounts \ {a} : SameSession(b)
    BY <2>1, <2>2 DEF SameSession
  <2>6. \A j \in Items : Has(a, j)' => Has(a, j)
    BY <1>0, <1>9, <2>1, <2>2 DEF Has, InFlight, Flying
  <2>7. Formed(a)'
    BY <1>0, <1>2, <2>1 DEF Local, Formed, Flying, Busy
  <2>8. Agrees(a)'
    <3> SUFFICES ASSUME NEW j \in Items PROVE AgreesOn(a, j)'
      BY DEF Agrees
    <3>1. ~InFlight(a, j)'
      BY <2>1 DEF InFlight, Flying
    <3>2. CASE j = i
      BY <1>0, <1>3, <1>4, <2>2, <2>3, <3>1, <3>2 DEF AgreesOn, BagRow, BoxRow
    <3>3. CASE j # i
      <4>1. AgreesOn(a, j) /\ ~InFlight(a, j)
        BY <1>0, <1>8, <3>3 DEF Local, Agrees
      <4>2. mem'[a][j] = mem[a][j] /\ rows'[j] = rows[j]
        BY <1>6, <2>2, <3>3
      <4> QED
        BY <3>1, <4>1, <4>2 DEF AgreesOn, Mine, BagRow, BoxRow, Wiped
    <3> QED
      BY <3>2, <3>3
  <2>9. GridOf(a)'
    <3>1. CASE at[a] = "checkout"
      <4>1. InBox(a)' = InBox(a) /\ i \notin InBox(a)
        BY <1>1, <1>3, <1>4, <2>2, <3>1 DEF InBox, NoSpot
      <4> QED
        BY <4>1, <1>0, <2>2 DEF Local, GridOf, Apart, Within, Kept, InBox
    <3>2. CASE at[a] # "checkout"
      <4>1. Fits(a, i, row.pos)
        BY <1>7, <3>2
      <4>2. InBox(a)' = InBox(a) \cup {i} /\ i \notin InBox(a)
        BY <1>1, <1>3, <1>4, <2>2, <3>2 DEF InBox, NoSpot
      <4>3. \A j \in InBox(a) : Apart(i, row.pos, j, mem[a][j].pos) /\ Apart(j, mem[a][j].pos, i, row.pos)
        BY <4>1 DEF Fits, Occupied, Apart
      <4>4. Within(i, row.pos, box[a].size)
        BY <4>1 DEF Fits, Within
      <4>5. mem'[a][i].pos = row.pos /\ \A j \in InBox(a) : mem'[a][j] = mem[a][j]
        BY <1>4, <2>2, <4>2 DEF InBox
      <4>6. ASSUME NEW j \in InBox(a)', NEW k \in InBox(a)'
            PROVE  /\ j # k => Apart(j, mem'[a][j].pos, k, mem'[a][k].pos)
                   /\ Kept => Within(j, mem'[a][j].pos, box[a].size)
        <5>1. GridOf(a) /\ box[a] # NoSafe
          BY <1>0 DEF Local
        <5>2. CASE j = i
          BY <4>2, <4>3, <4>4, <4>5, <4>6, <5>2
        <5>3. CASE j # i /\ k = i
          BY <4>2, <4>3, <4>5, <4>6, <5>1, <5>3 DEF GridOf
        <5>4. CASE j # i /\ k # i
          BY <4>2, <4>5, <4>6, <5>1, <5>4 DEF GridOf
        <5> QED
          BY <5>2, <5>3, <5>4
      <4> QED
        BY <4>6 DEF GridOf, Apart, Within, Kept
    <3> QED
      BY <3>1, <3>2
  <2>10. TargetFits(a)'
    BY <2>1 DEF TargetFits
  <2>11. Local(a)'
    BY <1>10, <1>13, <2>7, <2>8, <2>9, <2>10 DEF Local
  <2> QED
    BY <1>9, <1>12, <2>4, <2>5, <2>6, <2>11, SessionKeeps
<1>15. CASE r # "ok"
  <2>1. /\ at'[a] = "end" /\ at' \in [Accounts -> Phases] /\ UNCHANGED <<op, mem>>
        /\ \A b \in Accounts \ {a} : at'[b] = at[b]
    BY <1>0, <1>15 DEF Write, Goto, TypeOK, Phases
  <2>2. TypeOK'
    BY <1>0, <1>6, <1>11, <2>1 DEF TypeOK
  <2>3. \A b \in Accounts \ {a} : SameSession(b)
    BY <2>1 DEF SameSession
  <2>4. ~Live(a)'
    BY <2>1 DEF Live, Busy, Flying
  <2>5. Formed(a)'
    BY <1>0, <1>2, <2>1 DEF Local, Formed, Flying, Busy
  <2>6. GridOf(a)'
    BY <1>0, <2>1 DEF Local, GridOf, InBox, Apart, Within, Kept
  <2>7. Local(a)'
    BY <1>10, <1>13, <2>1, <2>4, <2>5, <2>6 DEF Local, Agrees, TargetFits
  <2> QED
    BY <1>9, <1>12, <2>2, <2>3, <2>4, <2>7, SessionKeeps DEF Has
<1> QED
  BY <1>14, <1>15

LEMMA ItemHandlersKeep ==
  ASSUME SbInv, NEW a \in Accounts, NEW i \in Items, NEW pos \in Cells,
         Checkin(a, i, pos) \/ Checkout(a, i) \/ Move(a, i, pos)
  PROVE  SbInv'
<1>1. TypeOK /\ 0 \in Cells
  BY LimitsAssumption DEF SbInv, Cells
<1>4. i \in InBox(a) => mem[a][i] # NoSpot
  BY DEF InBox, NoSpot
<1>5. mem[a][i].window = "bag" => mem[a][i] # NoSpot
  BY DEF NoSpot
<1>6. CASE Checkin(a, i, pos)
  BY <1>5, <1>6, FlightBegins DEF Checkin, Flying
<1>7. CASE Checkout(a, i)
  BY <1>1, <1>4, <1>7, FlightBegins DEF Checkout, Flying
<1>8. CASE Move(a, i, pos)
  BY <1>4, <1>8, FlightBegins DEF Move, Flying
<1> QED
  BY <1>6, <1>7, <1>8

\* What a session saves is a character and an amount.
LEMMA SavesAreSaves ==
  ASSUME SbInv, NEW a \in Accounts, at[a] # "off"
  PROVE  /\ [pid |-> play[a], gold |-> purse[a]] \in Saves
         /\ Save(a) => queue' \in Seq(Saves)
<1>1. play[a] \in Players /\ purse[a] \in Golds /\ queue \in Seq(Saves)
  BY DEF SbInv, TypeOK, Local, Formed
<1>2. [pid |-> play[a], gold |-> purse[a]] \in Saves
  BY <1>1 DEF Saves
<1> QED
  BY <1>1, <1>2 DEF Save

LEMMA ItemWritesKeep ==
  ASSUME SbInv, NEW a \in Accounts, NEW r \in Results,
         CheckinWrite(a, r) \/ CheckoutWrite(a, r) \/ MoveWrite(a, r)
  PROVE  SbInv'
<1>1. at[a] # "off" /\ queue \in Seq(Saves)
  BY DEF CheckinWrite, CheckoutWrite, MoveWrite, SbInv, TypeOK
<1>2. CASE CheckinWrite(a, r)
  <2>1. queue' \in Seq(Saves)
    BY <1>1, <1>2, SavesAreSaves DEF CheckinWrite
  <2> QED
    BY <1>2, <2>1, FlightEnds DEF CheckinWrite, Flying
<1>3. CASE CheckoutWrite(a, r)
  <2>1. queue' \in Seq(Saves)
    BY <1>1, <1>3, SavesAreSaves DEF CheckoutWrite
  <2> QED
    BY <1>3, <2>1, FlightEnds DEF CheckoutWrite, Flying
<1>4. CASE MoveWrite(a, r)
  <2>1. queue' \in Seq(Saves)
    BY <1>1, <1>4 DEF MoveWrite
  <2> QED
    BY <1>4, <2>1, FlightEnds DEF MoveWrite, Flying
<1> QED
  BY <1>2, <1>3, <1>4

-----------------------------------------------------------------------------
(* Steps that change neither the memory nor the rows of items              *)

LEMMA QuietStep ==
  ASSUME SbInv, TypeOK', NEW a \in Accounts,
         \A b \in Accounts \ {a} : SameSession(b) /\ safe'[b] = safe[b],
         excuses \subseteq excuses', UNCHANGED rows, mem'[a] = mem[a], play'[a] = play[a],
         at[a] \notin Flying, at'[a] \notin Flying, Live(a)' => Live(a),
         box'[a] = NoSafe <=> box[a] = NoSafe,
         Formed(a)', GridOf(a)', SizeFits(a)', RowsFit(a)'
  PROVE  SbInv'
<1>1. ~InFlight(a, 0) /\ \A i \in Items : ~InFlight(a, i) /\ ~InFlight(a, i)'
  BY DEF InFlight
<1>2. \A i \in Items : Has(a, i)' => Has(a, i)
  BY <1>1 DEF Has
<1>3. Agrees(a)'
  <2> SUFFICES ASSUME Live(a)', NEW i \in Items PROVE AgreesOn(a, i)'
    BY DEF Agrees
  <2>1. AgreesOn(a, i)
    BY DEF SbInv, Local, Agrees
  <2>2. Mine(a, i)' <=> Mine(a, i)
    BY DEF Mine, BagRow, BoxRow
  <2>3. Wiped(i) => Wiped(i)'
    BY DEF Wiped
  <2> QED
    BY <1>1, <2>1, <2>2, <2>3 DEF AgreesOn, BagRow, BoxRow
<1>4. TargetFits(a)'
  BY DEF TargetFits, Flying
<1>5. Local(a)'
  BY <1>3, <1>4 DEF Local
<1>6. WritesOwn(a)
  BY DEF WritesOwn
<1> QED
  BY <1>2, <1>5, <1>6, SessionKeeps

\* The grid and the sizes stay when they are not touched.
LEMMA GridStays ==
  ASSUME SbInv, NEW a \in Accounts, excuses \subseteq excuses', UNCHANGED rows,
         mem'[a] = mem[a], box'[a] = box[a], safe'[a].size = safe[a].size
  PROVE  GridOf(a)' /\ SizeFits(a)' /\ RowsFit(a)'
<1>1. Kept' => Kept
  BY DEF Kept
<1>2. GridOf(a) /\ SizeFits(a) /\ RowsFit(a)
  BY DEF SbInv, Local
<1>3. GridOf(a)'
  BY <1>1, <1>2 DEF GridOf, InBox, Apart, Within
<1>4. SizeFits(a)'
  BY <1>1, <1>2 DEF SizeFits
<1>5. RowsFit(a)'
  BY <1>1, <1>2 DEF RowsFit, BoxRow, Apart, Within
<1> QED
  BY <1>3, <1>4, <1>5

\* The least of three numbers is one of them.
LEMMA LeastOfThree ==
  ASSUME NEW x \in Int, NEW y \in Int, NEW z \in Int
  PROVE  /\ Min({x, y, z}) \in {x, y, z} /\ Min({x, y, z}) <= x /\ Min({x, y, z}) <= y
         /\ Min({x, y, z}) <= z
<1>1. \E m \in {x, y, z} : \A n \in {x, y, z} : m <= n
  OBVIOUS
<1>2. Min({x, y, z}) \in {x, y, z} /\ \A n \in {x, y, z} : Min({x, y, z}) <= n
  BY <1>1 DEF Min
<1> QED
  BY <1>2

LEMMA StackKeeps ==
  ASSUME SbInv, NEW a \in Accounts, NEW i \in Items, NEW j \in Items, NEW want \in 0 .. CountLimit,
         Stack(a, i, j, want)
  PROVE  SbInv'
<1> DEFINE x == IF want = 0 THEN mem[a][i].count ELSE want
           y == CountLimit - mem[a][j].count
           z == mem[a][i].count
           add == Min({x, y, z})
           total == mem[a][j].count + add
           o == Pour(i, j, add, total)
<1>0. TypeOK /\ Local(a) /\ CountLimit \in Nat
  BY LimitsAssumption DEF SbInv
<1>1. /\ at[a] = "game" /\ box[a] # NoSafe /\ i # j /\ i \in InBox(a) /\ j \in InBox(a)
      /\ add > 0 /\ mem' = mem
      /\ Begin(a, "stack.src", o)
  BY DEF Stack
<1>2. mem[a][i].count \in 1 .. CountLimit /\ mem[a][j].count \in 1 .. CountLimit
  BY <1>0, <1>1, SpotsAre DEF InBox, NoSpot
<1>3. add \in {x, y, z} /\ add <= x /\ add <= y /\ add <= z
  <2>1. x \in Int /\ y \in Int /\ z \in Int
    BY <1>0, <1>2
  <2> HIDE DEF x, y, z
  <2> QED
    BY <2>1, LeastOfThree
<1>4. add \in 1 .. mem[a][i].count /\ mem[a][j].count + add <= CountLimit /\ add \in 0 .. CountLimit
  <2>1. add \in Int
    BY <1>0, <1>2, <1>3
  <2> HIDE DEF add
  <2> QED
    BY <2>1, <1>0, <1>1, <1>2, <1>3
<1> HIDE DEF add
<1>12. total = mem[a][j].count + add /\ total \in 0 .. CountLimit /\ total <= CountLimit
  BY <1>0, <1>2, <1>4
<1> HIDE DEF total
<1>5. o.item = i /\ o.onto = j /\ o.add = add /\ o.count = total /\ o \in Ops
  BY <1>4, <1>12, LimitsAssumption DEF Pour, Ops, Cells
<1> HIDE DEF o
<1>6. /\ at'[a] = "stack.src" /\ at' \in [Accounts -> Phases]
      /\ op'[a] = o /\ op' \in [Accounts -> Ops]
      /\ \A b \in Accounts \ {a} : at'[b] = at[b] /\ op'[b] = op[b]
  BY <1>0, <1>1, <1>5 DEF Begin, Goto, TypeOK, Phases
<1>7. /\ UNCHANGED <<play, box, purse, rows, safe, gold, queue, excuses, faults>>
      /\ spent' \in 0 .. MaxEvents
  BY <1>0, <1>1, Budgets DEF Begin, database
<1>8. TypeOK'
  BY <1>0, <1>1, <1>6, <1>7 DEF TypeOK
<1>9. Formed(a)'
  <2>1. InBox(a)' = InBox(a)
    BY <1>1 DEF InBox
  <2>2. op'[a].item = i /\ op'[a].onto = j /\ op'[a].add = add /\ op'[a].count = total
    BY <1>5, <1>6
  <2> QED
    BY <2>1, <2>2, <1>0, <1>1, <1>4, <1>6, <1>7, <1>12 DEF Local, Formed, Flying, Busy
<1>10. \A b \in Accounts \ {a} : SameSession(b) /\ safe'[b] = safe[b]
  BY <1>1, <1>6, <1>7 DEF SameSession
<1>11. GridOf(a)' /\ SizeFits(a)' /\ RowsFit(a)'
  BY <1>1, <1>7, GridStays
<1> QED
  BY <1>1, <1>6, <1>7, <1>8, <1>9, <1>10, <1>11, QuietStep DEF Live, Busy, Flying

LEMMA DisconnectKeeps ==
  ASSUME SbInv, NEW a \in Accounts, Disconnect(a)
  PROVE  SbInv'
<1>0. TypeOK /\ Local(a)
  BY DEF SbInv
<1>1. /\ at[a] = "game" /\ at'[a] = "end" /\ at' \in [Accounts -> Phases]
      /\ \A b \in Accounts \ {a} : at'[b] = at[b]
  BY <1>0 DEF Disconnect, Goto, TypeOK, Phases
<1>2. UNCHANGED <<play, mem, box, purse, op, rows, safe, gold, queue, excuses, spent, faults>>
  BY DEF Disconnect, database
<1>3. TypeOK'
  BY <1>0, <1>1, <1>2 DEF TypeOK
<1>4. Formed(a)'
  BY <1>0, <1>1, <1>2 DEF Local, Formed, Flying, Busy
<1>5. GridOf(a)' /\ SizeFits(a)' /\ RowsFit(a)'
  BY <1>2, GridStays
<1>6. \A b \in Accounts \ {a} : SameSession(b) /\ safe'[b] = safe[b]
  BY <1>1, <1>2 DEF SameSession
<1> QED
  BY <1>1, <1>2, <1>3, <1>4, <1>5, <1>6, QuietStep DEF Live, Flying, Busy

-----------------------------------------------------------------------------
(* Gold and size                                                           *)

\* A box in memory, or with a row, has a size and gold.
LEMMA SafesAre ==
  ASSUME TypeOK, NEW a \in Accounts
  PROVE  /\ box[a] # NoSafe => box[a] \in [size : 0 .. MaxSize, gold : Golds]
         /\ safe[a] # NoSafe => safe[a] \in [size : 0 .. MaxSize, gold : Golds]
         /\ box[a].size \in Int /\ safe[a].size \in Int /\ NoSafe.size = -1
         /\ box[a].size >= -1 /\ safe[a].size >= -1
<1>1. MaxSize \in Nat
  BY LimitsAssumption
<1> QED
  BY <1>1 DEF TypeOK, Safes, NoSafe

\* A write of the gold of a box leaves its size.
LEMMA SetGoldKeeps ==
  ASSUME TypeOK, NEW a \in Accounts, NEW r, box[a] # NoSafe, SetGold(a, r)
  PROVE  /\ safe' \in [Accounts -> Safes] /\ safe'[a].size = safe[a].size
         /\ \A b \in Accounts \ {a} : safe'[b] = safe[b]
<1>1. box[a] \in [size : 0 .. MaxSize, gold : Golds]
  BY SafesAre
<1>2. CASE safe' = safe
  BY <1>2 DEF TypeOK
<1>3. CASE safe' # safe
  <2>1. safe[a] # NoSafe /\ safe' = [safe EXCEPT ![a].gold = box[a].gold]
    BY <1>3 DEF SetGold
  <2>2. safe[a] \in [size : 0 .. MaxSize, gold : Golds]
    BY <2>1, SafesAre
  <2>3. safe'[a] = [safe[a] EXCEPT !.gold = box[a].gold] /\ safe'[a] \in Safes
    BY <2>1, <2>2, <1>1 DEF TypeOK, Safes
  <2> QED
    BY <2>1, <2>2, <2>3 DEF TypeOK
<1> QED
  BY <1>2, <1>3

LEMMA MoneyKeeps ==
  ASSUME SbInv, NEW a \in Accounts, NEW n \in -GoldMax .. GoldMax, Money(a, n)
  PROVE  SbInv'
<1>0. TypeOK /\ Local(a) /\ GoldMax \in Nat
  BY LimitsAssumption DEF SbInv
<1>1. /\ at[a] = "game" /\ at'[a] = "money" /\ at' \in [Accounts -> Phases]
      /\ \A b \in Accounts \ {a} : at'[b] = at[b]
  BY <1>0 DEF Money, Goto, TypeOK, Phases
<1>2. UNCHANGED <<play, mem, op, rows, safe, gold, faults>>
  BY DEF Money
<1>3. /\ purse' \in [Accounts -> Golds] /\ \A b \in Accounts \ {a} : purse'[b] = purse[b]
  BY <1>0 DEF Money, TypeOK
<1>4. /\ box' \in [Accounts -> Safes] /\ \A b \in Accounts \ {a} : box'[b] = box[b]
      /\ box[a] # NoSafe /\ box'[a] # NoSafe /\ box'[a].size = box[a].size
  <2>1. box[a] # NoSafe /\ box' = [box EXCEPT ![a].gold = box[a].gold + n] /\ box[a].gold + n \in Golds
    BY DEF Money
  <2>2. box[a] \in [size : 0 .. MaxSize, gold : Golds]
    BY <1>0, <2>1, SafesAre
  <2>3. /\ box'[a] = [size |-> box[a].size, gold |-> box[a].gold + n]
        /\ \A b \in Accounts \ {a} : box'[b] = box[b]
    BY <2>1, <2>2, <1>0 DEF TypeOK
  <2>4. box'[a] \in Safes /\ box'[a] # NoSafe
    <3>1. -1 \notin 0 .. MaxSize
      OBVIOUS
    <3> QED
      BY <2>1, <2>2, <2>3, <3>1 DEF Safes, NoSafe
  <2> QED
    BY <2>1, <2>3, <2>4, <1>0 DEF TypeOK
<1>5. queue' \in Seq(Saves)
  <2>1. play[a] \in Players /\ purse[a] - n \in Golds /\ queue \in Seq(Saves)
    BY <1>0, <1>1 DEF Money, TypeOK, Local, Formed
  <2> QED
    BY <2>1 DEF Money, Saves
<1>6. excuses' \subseteq Excuses /\ excuses \subseteq excuses' /\ spent' \in 0 .. MaxEvents
  BY <1>0, Budgets DEF Money, Excuse, Excuses, TypeOK
<1>7. TypeOK'
  BY <1>0, <1>1, <1>2, <1>3, <1>4, <1>5, <1>6 DEF TypeOK
<1>8. Formed(a)'
  BY <1>0, <1>1, <1>2, <1>4 DEF Local, Formed, Flying, Busy
<1>9. Kept' => Kept
  BY <1>6 DEF Kept
<1>10. GridOf(a)'
  BY <1>0, <1>2, <1>4, <1>9 DEF Local, GridOf, InBox, Apart, Within
<1>11. SizeFits(a)' /\ RowsFit(a)'
  BY <1>0, <1>2, <1>4, <1>9 DEF Local, SizeFits, RowsFit, BoxRow, Apart, Within
<1>12. \A b \in Accounts \ {a} : SameSession(b) /\ safe'[b] = safe[b]
  BY <1>1, <1>2, <1>4 DEF SameSession
<1> QED
  BY <1>1, <1>2, <1>4, <1>6, <1>7, <1>8, <1>10, <1>11, <1>12, QuietStep DEF Live, Flying, Busy

LEMMA MoneyWriteKeeps ==
  ASSUME SbInv, NEW a \in Accounts, NEW r \in Results, MoneyWrite(a, r)
  PROVE  SbInv'
<1>0. TypeOK /\ Local(a) /\ box[a] # NoSafe
  BY DEF SbInv, Local, Formed, MoneyWrite, Busy
<1>1. /\ at[a] = "money" /\ at'[a] \in {"game", "end"} /\ at' \in [Accounts -> Phases]
      /\ \A b \in Accounts \ {a} : at'[b] = at[b]
  BY <1>0 DEF MoneyWrite, Goto, TypeOK, Phases
<1>2. UNCHANGED <<play, mem, box, purse, op, rows, gold, queue, excuses, spent>>
  BY DEF MoneyWrite
<1>3. /\ safe' \in [Accounts -> Safes] /\ safe'[a].size = safe[a].size
      /\ \A b \in Accounts \ {a} : safe'[b] = safe[b]
  BY <1>0, SetGoldKeeps DEF MoneyWrite
<1>4. faults' \in 0 .. MaxFaults
  BY <1>0, Budgets DEF MoneyWrite
<1>5. TypeOK'
  BY <1>0, <1>1, <1>2, <1>3, <1>4 DEF TypeOK
<1>6. Formed(a)'
  BY <1>0, <1>1, <1>2 DEF Local, Formed, Flying, Busy
<1>7. GridOf(a)' /\ SizeFits(a)' /\ RowsFit(a)'
  BY <1>2, <1>3, GridStays
<1>8. \A b \in Accounts \ {a} : SameSession(b) /\ safe'[b] = safe[b]
  BY <1>1, <1>2, <1>3 DEF SameSession
<1> QED
  BY <1>1, <1>2, <1>5, <1>6, <1>7, <1>8, QuietStep DEF Live, Flying, Busy

\* A game master's size: the box in memory never shrinks, and the row only with an excuse.
LEMMA SetSizeKeeps ==
  ASSUME SbInv, NEW a \in Accounts, NEW size \in 0 .. MaxSize, NEW r \in Results,
         SetSize(a, size, r)
  PROVE  SbInv'
<1>0. TypeOK /\ Local(a)
  BY DEF SbInv
<1>1. /\ at[a] = "game" /\ at'[a] \in {"game", "end"} /\ at' \in [Accounts -> Phases]
      /\ \A b \in Accounts \ {a} : at'[b] = at[b]
  BY <1>0 DEF SetSize, Goto, TypeOK, Phases
<1>2. UNCHANGED <<play, mem, purse, op, rows, gold, queue>>
  BY DEF SetSize
<1>3. /\ box' \in [Accounts -> Safes] /\ \A b \in Accounts \ {a} : box'[b] = box[b]
      /\ box'[a] = NoSafe <=> box[a] = NoSafe
      /\ box'[a].size \in Int /\ box[a].size <= box'[a].size
      /\ box'[a].size >= -1
  <2>1. box[a].size \in Int /\ box[a].size >= -1
    BY <1>0, SafesAre
  <2>2. CASE box' = box
    BY <2>1, <2>2, <1>0 DEF TypeOK
  <2>3. CASE box' # box
    <3>1. box[a] # NoSafe /\ size > box[a].size /\ box' = [box EXCEPT ![a].size = size]
      BY <2>3 DEF SetSize
    <3>2. box[a] \in [size : 0 .. MaxSize, gold : Golds]
      BY <1>0, <3>1, SafesAre
    <3>3. /\ box'[a] = [size |-> size, gold |-> box[a].gold]
          /\ \A b \in Accounts \ {a} : box'[b] = box[b]
      BY <3>1, <3>2, <1>0 DEF TypeOK
    <3>4. box'[a] \in Safes /\ box'[a] # NoSafe
      BY <3>2, <3>3 DEF Safes, NoSafe
    <3> QED
      BY <3>1, <3>3, <3>4, <2>1, <1>0 DEF TypeOK
  <2> QED
    BY <2>2, <2>3
<1>4. safe' \in [Accounts -> Safes] /\ \A b \in Accounts \ {a} : safe'[b] = safe[b]
  <2>1. CASE safe' = safe
    BY <2>1, <1>0 DEF TypeOK
  <2>2. CASE safe' # safe
    <3>1. PICK g : /\ g = IF safe[a] = NoSafe THEN 0 ELSE safe[a].gold
                   /\ safe' = [safe EXCEPT ![a] = [size |-> size, gold |-> g]]
      BY <2>2 DEF SetSize
    <3>2. g \in Golds
      BY <3>1, <1>0, SafesAre, LimitsAssumption DEF Golds
    <3>3. [size |-> size, gold |-> g] \in Safes
      BY <3>2 DEF Safes
    <3> QED
      BY <3>1, <3>3, <1>0 DEF TypeOK
  <2> QED
    BY <2>1, <2>2
<1>5. /\ excuses' \subseteq Excuses /\ excuses \subseteq excuses' /\ spent' \in 0 .. MaxEvents
      /\ faults' \in 0 .. MaxFaults
  BY <1>0, Budgets DEF SetSize, Excuse, Excuses, TypeOK
<1>6. TypeOK'
  BY <1>0, <1>1, <1>2, <1>3, <1>4, <1>5 DEF TypeOK
<1>7. Formed(a)'
  BY <1>0, <1>1, <1>2, <1>3 DEF Local, Formed, Flying, Busy
<1>8. Kept' => Kept
  BY <1>5 DEF Kept
<1>9. Kept' => /\ safe'[a].size \in Int /\ safe[a].size <= safe'[a].size
               /\ box'[a].size <= safe'[a].size
  <2> SUFFICES ASSUME Kept' PROVE /\ safe'[a].size \in Int /\ safe[a].size <= safe'[a].size
                                  /\ box'[a].size <= safe'[a].size
    OBVIOUS
  <2> DEFINE m == Max({safe[a].size, box'[a].size})
  <2>1. safe[a].size \in Int /\ box'[a].size \in Int
    BY <1>0, <1>3, SafesAre
  <2>2. \E x \in {safe[a].size, box'[a].size} : \A y \in {safe[a].size, box'[a].size} : x >= y
    BY <2>1
  <2>3. m \in {safe[a].size, box'[a].size} /\ \A y \in {safe[a].size, box'[a].size} : m >= y
    BY <2>2 DEF Max
  <2>4. ~(safe'[a].size < m)
    BY DEF SetSize, Excuse, Kept
  <2>5. safe'[a].size \in Int
    BY <1>6, <1>4 DEF Safes, NoSafe
  <2> HIDE DEF m
  <2> QED
    BY <2>1, <2>3, <2>4, <2>5
<1>10. SizeFits(a)'
  BY <1>9 DEF SizeFits
<1>11. RowsFit(a)'
  BY <1>0, <1>2, <1>8, <1>9, FewerRowsFit DEF Local
<1>12. GridOf(a)'
  <2>1. InBox(a)' = InBox(a)
    BY <1>2 DEF InBox
  <2>2. ASSUME Kept', NEW i \in InBox(a), box'[a] # NoSafe
        PROVE  Within(i, mem[a][i].pos, box'[a].size)
    <3>1. Within(i, mem[a][i].pos, box[a].size)
      BY <1>0, <1>3, <1>8, <2>2 DEF Local, GridOf
    <3>2. i \in Items /\ mem[a][i].pos \in Nat /\ box[a].size \in Int
      BY <1>0, SpotsAre, SafesAre DEF InBox
    <3> QED
      BY <3>1, <3>2, <1>3, LargerBox
  <2> QED
    BY <2>1, <2>2, <1>0, <1>2, <1>3 DEF Local, GridOf, Apart, Within
<1>13. \A b \in Accounts \ {a} : SameSession(b) /\ safe'[b] = safe[b]
  BY <1>1, <1>2, <1>3, <1>4 DEF SameSession
<1> QED
  BY <1>1, <1>2, <1>3, <1>5, <1>6, <1>7, <1>10, <1>11, <1>12, <1>13, QuietStep
  DEF Live, Flying, Busy

LEMMA ChangePasswordKeeps ==
  ASSUME SbInv, NEW a \in Accounts, ChangePassword(a)
  PROVE  SbInv'
<1>0. TypeOK /\ Local(a)
  BY DEF SbInv
<1>1. /\ at[a] = "game" /\ spent' \in 0 .. MaxEvents
      /\ UNCHANGED <<at, play, mem, box, purse, op, rows, gold, queue, excuses, faults>>
  BY <1>0, Budgets DEF ChangePassword, session
<1>2. /\ safe[a] = NoSafe /\ safe'[a] = [size |-> 0, gold |-> 0]
      /\ safe' \in [Accounts -> Safes] /\ \A b \in Accounts \ {a} : safe'[b] = safe[b]
  BY <1>0, LimitsAssumption DEF ChangePassword, TypeOK, Safes, Golds
<1>3. TypeOK'
  BY <1>0, <1>1, <1>2 DEF TypeOK
<1>4. Formed(a)'
  BY <1>0, <1>1 DEF Local, Formed, InBox
<1>5. safe'[a].size = 0 /\ safe[a].size = -1
  BY <1>2 DEF NoSafe
<1>6. RowsFit(a)'
  BY <1>0, <1>1, <1>5, FewerRowsFit DEF Local, Kept
<1>7. GridOf(a)'
  BY <1>0, <1>1 DEF Local, GridOf, InBox, Apart, Within, Kept
<1>8. SizeFits(a)'
  <2>1. box[a] # NoSafe => box[a].size \in Nat
    BY <1>0, SafesAre
  <2> QED
    BY <2>1, <1>0, <1>1, <1>5 DEF Local, SizeFits, Kept
<1>9. \A b \in Accounts \ {a} : SameSession(b) /\ safe'[b] = safe[b]
  BY <1>1, <1>2 DEF SameSession
<1> QED
  BY <1>1, <1>3, <1>4, <1>6, <1>7, <1>8, <1>9, QuietStep DEF Live, Flying, Busy

-----------------------------------------------------------------------------
(* Stacks                                                                  *)

\* An item of the box with another count, in memory and in the table; 0 is none.
Recounted(a, i, n) == IF n = 0 THEN NoSpot ELSE [mem[a][i] EXCEPT !.count = n]
RowRecounted(a, i, n) == IF n = 0 THEN NoRow ELSE Row(a, "box", Recounted(a, i, n))

LEMMA RecountedIs ==
  ASSUME TypeOK, NEW a \in Accounts, NEW i \in InBox(a), NEW n \in 0 .. CountLimit
  PROVE  /\ Recounted(a, i, n) \in Spots /\ RowRecounted(a, i, n) \in Rows
         /\ n # 0 => /\ Recounted(a, i, n).window = "box" /\ Recounted(a, i, n).pos = mem[a][i].pos
                     /\ BoxRow(a, RowRecounted(a, i, n))
                     /\ RowRecounted(a, i, n).pos = mem[a][i].pos
                     /\ SpotOf(RowRecounted(a, i, n)) = Recounted(a, i, n)
<1>1. mem[a][i] \in [window : {"bag", "box"}, pos : Cells, count : 1 .. CountLimit]
  BY DEF TypeOK, Spots, InBox, NoSpot
<1>2. mem[a][i].window = "box"
  BY DEF InBox
<1>3. CASE n = 0
  BY <1>3 DEF Recounted, RowRecounted, Spots, Rows
<1>4. CASE n # 0
  <2>1. Recounted(a, i, n) = [window |-> "box", pos |-> mem[a][i].pos, count |-> n]
    BY <1>1, <1>2, <1>4 DEF Recounted
  <2>2. n \in 1 .. CountLimit
    BY <1>4, LimitsAssumption
  <2>3. RowRecounted(a, i, n) = [owner |-> a, window |-> "box", pos |-> mem[a][i].pos, count |-> n]
    BY <1>4, <2>1 DEF RowRecounted, Row
  <2> QED
    BY <1>1, <2>1, <2>2, <2>3 DEF Spots, Rows, Ids, BoxRow, SpotOf
<1> QED
  BY <1>3, <1>4

\* One statement of a stack: a row gets another count, or not, and the memory follows.
LEMMA StackWrites ==
  ASSUME SbInv, NEW a \in Accounts, NEW i \in InBox(a), NEW n \in 0 .. CountLimit,
         at[a] \in {"stack.src", "stack.dst"},
         UNCHANGED <<play, box, purse, safe, gold, queue, spent>>,
         excuses \subseteq excuses', excuses' \subseteq Excuses, faults' \in 0 .. MaxFaults,
         op' \in [Accounts -> Ops], \A b \in Accounts \ {a} : op'[b] = op[b],
         NEW next \in {"end", "game", "stack.dst"}, at' = [at EXCEPT ![a] = next],
         rows' = rows \/ rows' = [rows EXCEPT ![i] = RowRecounted(a, i, n)],
         \/ next = "end" /\ mem' = mem
         \/ next # "end" /\ mem' = [mem EXCEPT ![a][i] = Recounted(a, i, n)]
            /\ rows' = [rows EXCEPT ![i] = RowRecounted(a, i, n)],
         Formed(a)'
  PROVE  SbInv'
<1> DEFINE spot == Recounted(a, i, n)
           row == RowRecounted(a, i, n)
<1>0. TypeOK /\ Local(a) /\ Live(a) /\ box[a] # NoSafe /\ i \in Items
  BY DEF SbInv, Live, Busy, Local, Formed, InBox
<1>1. /\ spot \in Spots /\ row \in Rows
      /\ n # 0 => /\ spot.window = "box" /\ spot.pos = mem[a][i].pos /\ BoxRow(a, row)
                  /\ row.pos = mem[a][i].pos /\ SpotOf(row) = spot
      /\ n = 0 => spot = NoSpot /\ row = NoRow
  BY <1>0, RecountedIs DEF Recounted, RowRecounted
<1> HIDE DEF spot, row
<1>2. /\ rows' = rows \/ rows' = [rows EXCEPT ![i] = row]
      /\ \/ next = "end" /\ mem' = mem
         \/ next # "end" /\ mem' = [mem EXCEPT ![a][i] = spot] /\ rows' = [rows EXCEPT ![i] = row]
  BY DEF spot, row
<1>3. rows' \in [Items -> Rows] /\ \A j \in Items \ {i} : rows'[j] = rows[j]
  BY <1>0, <1>1, <1>2 DEF TypeOK
<1>4. /\ mem' \in [Accounts -> [Items -> Spots]] /\ \A j \in Items \ {i} : mem'[a][j] = mem[a][j]
      /\ \A b \in Accounts \ {a} : mem'[b] = mem[b]
  <2>1. mem \in [Accounts -> [Items -> Spots]]
    BY <1>0 DEF TypeOK
  <2>2. CASE mem' = mem
    BY <2>1, <2>2
  <2>3. CASE mem' = [mem EXCEPT ![a][i] = spot]
    BY <2>1, <2>3, <1>0, <1>1
  <2> QED
    BY <2>2, <2>3, <1>2
<1>5. /\ at' \in [Accounts -> Phases] /\ at'[a] = next
      /\ \A b \in Accounts \ {a} : at'[b] = at[b]
  BY <1>0 DEF TypeOK, Phases
<1>6. TypeOK'
  BY <1>0, <1>3, <1>4, <1>5 DEF TypeOK
<1>7. \A j \in Items : ~InFlight(a, j) /\ ~InFlight(a, j)'
  BY <1>5 DEF InFlight, Flying
<1>8. mem[a][i] # NoSpot /\ Has(a, i)
  BY <1>0 DEF InBox, NoSpot, Has
<1>9. WritesOwn(a)
  <2>1. rows'[i] = rows[i] \/ rows'[i] = NoRow \/ BoxRow(a, rows'[i])
    BY <1>0, <1>1, <1>2 DEF TypeOK
  <2> QED
    BY <1>3, <1>8, <2>1 DEF WritesOwn
<1>10. \A j \in Items : Has(a, j)' => Has(a, j)
  BY <1>0, <1>4, <1>7, <1>8 DEF Has
<1>11. Kept' => Kept
  BY DEF Kept
<1>12. GridOf(a)
  BY <1>0 DEF Local
<1>13. RowsFit(a)'
  <2>1. CASE n = 0
    <3>1. \A j \in Items : BoxRow(a, rows'[j]) => rows'[j] = rows[j]
      BY <2>1, <1>0, <1>1, <1>2, <1>3 DEF BoxRow, NoRow, TypeOK
    <3>2. safe'[a].size \in Int /\ safe'[a].size = safe[a].size
      BY <1>0 DEF TypeOK, Safes, NoSafe
    <3> QED
      BY <3>1, <3>2, <1>0, <1>11, FewerRowsFit DEF Local
  <2>2. CASE n # 0
    <3>1. \A j \in InBox(a) : j # i => Apart(i, row.pos, j, mem[a][j].pos)
      BY <1>0, <1>1, <1>12, <2>2 DEF GridOf
    <3>2. Kept => Within(i, row.pos, box[a].size)
      BY <1>0, <1>1, <1>12, <2>2 DEF GridOf
    <3> QED
      BY <3>1, <3>2, <1>0, <1>1, <1>2, <1>7, WrittenRowsFit
  <2> QED
    BY <2>1, <2>2
<1>14. InBox(a)' \subseteq InBox(a) /\ \A j \in InBox(a)' : mem'[a][j].pos = mem[a][j].pos
  <2>1. CASE mem' = mem
    BY <2>1 DEF InBox
  <2>2. CASE mem' = [mem EXCEPT ![a][i] = spot]
    <3>1. mem'[a][i] = spot
      BY <2>2, <1>0 DEF TypeOK
    <3>2. ASSUME NEW j \in InBox(a)', j # i PROVE j \in InBox(a) /\ mem'[a][j].pos = mem[a][j].pos
      BY <3>2, <1>4 DEF InBox
    <3>3. i \in InBox(a)' => spot.pos = mem[a][i].pos
      <4>1. CASE n = 0
        BY <3>1, <4>1, <1>1 DEF InBox, NoSpot
      <4>2. CASE n # 0
        BY <4>2, <1>1
      <4> QED
        BY <4>1, <4>2
    <3> QED
      BY <3>1, <3>2, <3>3
  <2> QED
    BY <2>1, <2>2, <1>2
<1>15. GridOf(a)'
  BY <1>11, <1>12, <1>14 DEF GridOf, Apart, Within
<1>16. SizeFits(a)' /\ TargetFits(a)'
  BY <1>0, <1>5, <1>11 DEF Local, SizeFits, TargetFits
<1>17. Agrees(a)'
  <2> SUFFICES ASSUME Live(a)', NEW j \in Items PROVE AgreesOn(a, j)'
    BY DEF Agrees
  <2>1. AgreesOn(a, j)
    BY <1>0 DEF Local, Agrees
  <2>2. mem' = [mem EXCEPT ![a][i] = spot] /\ rows' = [rows EXCEPT ![i] = row]
    BY <1>2, <1>5 DEF Live, Busy, Flying
  <2>3. CASE j # i
    <3>1. mem'[a][j] = mem[a][j] /\ rows'[j] = rows[j]
      BY <1>3, <1>4, <2>3
    <3> QED
      BY <3>1, <2>1, <1>7 DEF AgreesOn, Mine, BagRow, BoxRow, Wiped
  <2>4. CASE j = i
    <3>1. mem'[a][i] = spot /\ rows'[i] = row
      BY <1>0, <2>2 DEF TypeOK
    <3>2. CASE n = 0
      <4>1. ~Mine(a, i)'
        BY <3>1, <3>2, <1>1 DEF Mine, BagRow, BoxRow, NoRow
      <4> QED
        BY <4>1, <3>1, <3>2, <1>1, <1>7, <2>4 DEF AgreesOn, NoSpot
    <3>3. CASE n # 0
      BY <3>1, <3>3, <1>0, <1>1, <1>7, <2>4 DEF AgreesOn, BagRow, BoxRow
    <3> QED
      BY <3>2, <3>3
  <2> QED
    BY <2>3, <2>4
<1>18. Local(a)'
  BY <1>13, <1>15, <1>16, <1>17 DEF Local
<1>19. \A b \in Accounts \ {a} : SameSession(b) /\ safe'[b] = safe[b]
  BY <1>4, <1>5 DEF SameSession
<1> QED
  BY <1>6, <1>9, <1>10, <1>18, <1>19, SessionKeeps

LEMMA StackSrcKeeps ==
  ASSUME SbInv, NEW a \in Accounts, NEW r \in Results, StackSrc(a, r)
  PROVE  SbInv'
<1>0. TypeOK /\ Local(a) /\ CountLimit \in Nat
  BY LimitsAssumption DEF SbInv
<1>1. PICK i, j \in Items : i = op[a].item /\ j = op[a].onto
  BY <1>0 DEF Local, Formed, StackSrc, InBox
<1>2. /\ at[a] = "stack.src" /\ i \in InBox(a) /\ j \in InBox(a) /\ i # j
      /\ op[a].add \in 1 .. mem[a][i].count /\ op[a].count = mem[a][j].count + op[a].add
      /\ mem[a][i].count \in 1 .. CountLimit /\ mem[a][j].count \in 1 .. CountLimit
      /\ op[a].count \in 1 .. CountLimit
  <2>1. /\ at[a] = "stack.src" /\ i \in InBox(a) /\ j \in InBox(a) /\ i # j
        /\ op[a].add \in 1 .. mem[a][i].count /\ op[a].count = mem[a][j].count + op[a].add
        /\ op[a].count <= CountLimit
    BY <1>0, <1>1 DEF Local, Formed, StackSrc
  <2>2. mem[a][i].count \in 1 .. CountLimit /\ mem[a][j].count \in 1 .. CountLimit
    BY <1>0, <2>1, SpotsAre DEF InBox, NoSpot
  <2> QED
    BY <1>0, <2>1, <2>2
<1>3. PICK n \in 0 .. CountLimit : n = mem[a][i].count - op[a].add
  BY <1>0, <1>2
<1>4. /\ UNCHANGED <<play, box, purse, safe, gold, queue, spent>>
      /\ excuses \subseteq excuses' /\ excuses' \subseteq Excuses /\ faults' \in 0 .. MaxFaults
  BY <1>0, Budgets DEF StackSrc, Shift, Excuse, Excuses, TypeOK
<1>5. rows' = rows \/ rows' = [rows EXCEPT ![i] = RowRecounted(a, i, n)]
  BY <1>1, <1>3 DEF StackSrc, RowRecounted, Recounted
<1>6. CASE r = "ok"
  <2>1. /\ at' = [at EXCEPT ![a] = "stack.dst"]
        /\ mem' = [mem EXCEPT ![a][i] = Recounted(a, i, n)]
        /\ rows' = [rows EXCEPT ![i] = RowRecounted(a, i, n)]
    BY <1>1, <1>3, <1>6 DEF StackSrc, RowRecounted, Recounted, Goto, Happens
  <2>2. Recounted(a, i, n) \in Spots
    BY <1>0, <1>2, RecountedIs
  <2>3. /\ \A k \in Items \ {i} : mem'[a][k] = mem[a][k]
        /\ at'[a] = "stack.dst"
    BY <1>0, <1>2, <2>1, <2>2 DEF TypeOK
  <2>4. PICK k \in Named(a, n) : op' = [op EXCEPT ![a].onto = k]
    BY <1>1, <1>3, <1>6 DEF StackSrc
  <2>5. k = 0 \/ (k \in InBox(a) /\ k # i /\ k \in Items)
    BY <1>1, <1>2, <2>4 DEF Named, InBox
  <2>6. op[a] \in Ops /\ op \in [Accounts -> Ops]
    BY <1>0 DEF TypeOK
  <2>7. /\ op'[a] = [op[a] EXCEPT !.onto = k]
        /\ \A b \in Accounts \ {a} : op'[b] = op[b]
    BY <2>4, <2>6
  <2>8. /\ op'[a].onto = k /\ op'[a].count = op[a].count /\ op'[a].add = op[a].add
        /\ op'[a] \in Ops
    BY <2>5, <2>6, <2>7 DEF Ops
  <2>9. op' \in [Accounts -> Ops]
    BY <2>4, <2>6, <2>7, <2>8
  <2>10. k # j => "shifted" \in excuses'
    BY <1>1, <2>8 DEF StackSrc, Shift, Excuse
  <2>11. k # 0 => k \in InBox(a)'
    BY <2>3, <2>5 DEF InBox
  <2>12. "shifted" \notin excuses' => k # 0 /\ op[a].count = mem'[a][k].count + op[a].add
    <3>1. j # 0
      BY <1>1, IdsAssumption
    <3> QED
      BY <1>2, <2>3, <2>10, <3>1
  <2>13. Formed(a)'
    BY <2>3, <2>8, <2>11, <2>12, <1>0, <1>2, <1>4 DEF Local, Formed, Flying, Busy
  <2> QED
    BY <2>1, <2>7, <2>9, <2>13, <1>2, <1>4, StackWrites
<1>7. CASE r # "ok"
  <2>1. at' = [at EXCEPT ![a] = "end"] /\ mem' = mem /\ op' = op
    BY <1>7 DEF StackSrc, Goto
  <2>2. at'[a] = "end" /\ op' \in [Accounts -> Ops]
    BY <2>1, <1>0 DEF TypeOK
  <2>3. Formed(a)'
    BY <2>2, <1>0, <1>2, <1>4 DEF Local, Formed, Flying, Busy
  <2> QED
    BY <2>1, <2>2, <2>3, <1>2, <1>4, <1>5, StackWrites
<1> QED
  BY <1>6, <1>7

LEMMA StackDstKeeps ==
  ASSUME SbInv, NEW a \in Accounts, NEW r \in Results, StackDst(a, r)
  PROVE  SbInv'
<1>0. TypeOK /\ Local(a) /\ CountLimit \in Nat
  BY LimitsAssumption DEF SbInv
<1>1. PICK j \in Items : j = op[a].onto
  BY <1>0 DEF Local, Formed, StackDst, InBox
<1>2. at[a] = "stack.dst" /\ j \in InBox(a) /\ op[a].count \in 1 .. CountLimit
  BY <1>0, <1>1 DEF Local, Formed, StackDst
<1>3. PICK n \in 1 .. CountLimit : n = op[a].count
  BY <1>2
<1>4. /\ UNCHANGED <<play, box, purse, safe, gold, queue, spent>>
      /\ excuses \subseteq excuses' /\ excuses' \subseteq Excuses /\ faults' \in 0 .. MaxFaults
  BY <1>0, Budgets DEF StackDst, Excuse, Excuses, TypeOK
<1>5. /\ [mem[a][j] EXCEPT !.count = op[a].count] = Recounted(a, j, n)
      /\ Row(a, "box", Recounted(a, j, n)) = RowRecounted(a, j, n)
  BY <1>3, <1>0 DEF RowRecounted, Recounted
<1>6. rows' = rows \/ rows' = [rows EXCEPT ![j] = RowRecounted(a, j, n)]
  BY <1>1, <1>5 DEF StackDst
<1>7. CASE r = "ok"
  <2>1. /\ at' = [at EXCEPT ![a] = "game"] /\ op' = [op EXCEPT ![a] = NoOp]
        /\ mem' = [mem EXCEPT ![a][j] = Recounted(a, j, n)]
        /\ rows' = [rows EXCEPT ![j] = RowRecounted(a, j, n)]
    BY <1>1, <1>5, <1>7 DEF StackDst, Goto, Happens
  <2>2. NoOp \in Ops
    BY LimitsAssumption DEF NoOp, Carry, Ops, Cells
  <2>3. /\ at'[a] = "game" /\ op' \in [Accounts -> Ops]
        /\ \A b \in Accounts \ {a} : op'[b] = op[b]
    BY <2>1, <2>2, <1>0 DEF TypeOK
  <2>4. Formed(a)'
    BY <2>3, <1>0, <1>2, <1>4 DEF Local, Formed, Flying, Busy
  <2>5. n \in 0 .. CountLimit
    BY <1>0
  <2> QED
    BY <2>1, <2>3, <2>4, <2>5, <1>2, <1>4, StackWrites
<1>8. CASE r # "ok"
  <2>1. at' = [at EXCEPT ![a] = "end"] /\ mem' = mem /\ op' = op
    BY <1>8 DEF StackDst, Goto
  <2>2. at'[a] = "end" /\ op' \in [Accounts -> Ops]
    BY <2>1, <1>0 DEF TypeOK
  <2>3. Formed(a)'
    BY <2>2, <1>0, <1>2, <1>4 DEF Local, Formed, Flying, Busy
  <2>4. n \in 0 .. CountLimit
    BY <1>0
  <2> QED
    BY <2>1, <2>2, <2>3, <2>4, <1>2, <1>4, <1>6, StackWrites
<1> QED
  BY <1>7, <1>8

-----------------------------------------------------------------------------
(* The beginning and the end of a session and of its box                   *)

LEMMA EnterKeeps ==
  ASSUME SbInv, NEW a \in Accounts, NEW p \in Players, Enter(a, p)
  PROVE  SbInv'
<1>0. TypeOK /\ Local(a) /\ at[a] = "off" /\ AccountOf[p] = a
  BY DEF SbInv, Enter
<1>1. p # NoPlayer
  BY IdsAssumption DEF NoPlayer
<1>2. box[a] = NoSafe
  BY <1>0 DEF Local, Formed
<1>3. /\ at'[a] = "game" /\ at' \in [Accounts -> Phases]
      /\ play'[a] = p /\ play' \in [Accounts -> Players \cup {NoPlayer}]
      /\ \A b \in Accounts \ {a} : at'[b] = at[b] /\ play'[b] = play[b]
  BY <1>0 DEF Enter, Goto, TypeOK, Phases
<1>4. UNCHANGED <<box, op, rows, safe, gold, queue, faults>>
  BY DEF Enter, database
<1>5. /\ \A i \in Items : mem'[a][i] = IF i \in Owned(rows, p, "bag") THEN SpotOf(rows[i]) ELSE NoSpot
      /\ \A b \in Accounts \ {a} : mem'[b] = mem[b]
      /\ mem' \in [Accounts -> [Items -> Spots]]
  <2> DEFINE m == [i \in Items |-> IF i \in Owned(rows, p, "bag") THEN SpotOf(rows[i]) ELSE NoSpot]
  <2>1. ASSUME NEW i \in Owned(rows, p, "bag") PROVE SpotOf(rows[i]) \in Spots
    <3>1. rows[i] \in [owner : Ids, window : {"bag", "box"}, pos : Cells, count : 1 .. CountLimit]
      BY <1>0 DEF Owned, TypeOK, Rows, NoRow
    <3> QED
      BY <3>1 DEF SpotOf, Spots
  <2>2. m \in [Items -> Spots]
    BY <2>1 DEF Spots
  <2>3. mem' = [mem EXCEPT ![a] = m]
    BY DEF Enter
  <2>4. \A i \in Items : m[i] = IF i \in Owned(rows, p, "bag") THEN SpotOf(rows[i]) ELSE NoSpot
    OBVIOUS
  <2> HIDE DEF m
  <2> QED
    BY <2>2, <2>3, <2>4, <1>0 DEF TypeOK
<1>6. /\ purse' \in [Accounts -> Golds] /\ spent' \in 0 .. MaxEvents
      /\ excuses' \subseteq Excuses /\ excuses \subseteq excuses'
  <2>1. gold[p] \in Golds
    BY <1>0 DEF Enter, TypeOK
  <2> QED
    BY <2>1, <1>0, Budgets DEF Enter, Excuse, Excuses, TypeOK
<1>7. TypeOK'
  BY <1>0, <1>3, <1>4, <1>5, <1>6 DEF TypeOK
<1>8. \A i \in Items : ~InFlight(a, i)' /\ ~(Mine(a, i)' /\ ~(i \in Owned(rows, p, "bag")))
  BY <1>2, <1>3, <1>4 DEF InFlight, Flying, Mine, BagRow, Owned
<1>9. \A i \in Owned(rows, p, "bag") : SpotOf(rows[i]).window = "bag" /\ SpotOf(rows[i]) # NoSpot
  BY DEF Owned, SpotOf, NoSpot
<1>10. \A i \in Items : Has(a, i)' => Gets(a, i)
  BY <1>3, <1>5, <1>8 DEF Has, Gets, Owned
<1>11. Formed(a)'
  BY <1>0, <1>1, <1>3 DEF Formed, Flying, Busy
<1>12. Agrees(a)'
  <2> SUFFICES ASSUME NEW i \in Items PROVE AgreesOn(a, i)'
    BY DEF Agrees
  <2>1. CASE i \in Owned(rows, p, "bag")
    BY <2>1, <1>3, <1>4, <1>5, <1>8, <1>9 DEF AgreesOn, BagRow, Owned
  <2>2. CASE i \notin Owned(rows, p, "bag")
    BY <2>2, <1>5, <1>8 DEF AgreesOn, NoSpot
  <2> QED
    BY <2>1, <2>2
<1>13. Kept' => Kept
  BY <1>6 DEF Kept
<1>14. GridOf(a)' /\ TargetFits(a)' /\ SizeFits(a)'
  BY <1>2, <1>3, <1>4 DEF GridOf, TargetFits, SizeFits
<1>15. RowsFit(a)'
  BY <1>0, <1>4, <1>13 DEF Local, RowsFit, BoxRow, Apart, Within
<1>16. Local(a)'
  BY <1>11, <1>12, <1>14, <1>15 DEF Local
<1>17. WritesOwn(a) /\ \A b \in Accounts \ {a} : SameSession(b) /\ safe'[b] = safe[b]
  BY <1>3, <1>4, <1>5 DEF WritesOwn, SameSession
<1> QED
  BY <1>6, <1>7, <1>10, <1>16, <1>17, SessionKeeps

LEMMA OpenKeeps ==
  ASSUME SbInv, NEW a \in Accounts, Open(a)
  PROVE  SbInv'
<1>0. TypeOK /\ Local(a) /\ at[a] = "game" /\ box[a] = NoSafe
  BY DEF SbInv, Open
<1>1. UNCHANGED <<at, play, purse, op, rows, safe, gold, queue, excuses, faults>>
  BY DEF Open, database
<1>2. PICK s : /\ s = IF safe[a] = NoSafe THEN [size |-> 0, gold |-> 0] ELSE safe[a]
               /\ box' = [box EXCEPT ![a] = s]
  BY DEF Open
<1>3. s \in Safes /\ s # NoSafe /\ (s.size = safe[a].size \/ (safe[a].size = -1 /\ s.size = 0))
  <2>1. CASE safe[a] = NoSafe
    BY <2>1, <1>2, LimitsAssumption DEF Safes, NoSafe, Golds
  <2>2. CASE safe[a] # NoSafe
    BY <2>2, <1>0, <1>2 DEF TypeOK
  <2> QED
    BY <2>1, <2>2
<1>4. /\ box'[a] = s /\ box' \in [Accounts -> Safes]
      /\ \A b \in Accounts \ {a} : box'[b] = box[b]
  BY <1>0, <1>2, <1>3 DEF TypeOK
<1>5. /\ \A i \in Items : mem'[a][i] = IF i \in Owned(rows, a, "box") THEN SpotOf(rows[i]) ELSE mem[a][i]
      /\ \A b \in Accounts \ {a} : mem'[b] = mem[b]
      /\ mem' \in [Accounts -> [Items -> Spots]]
  <2> DEFINE m == [i \in Items |-> IF i \in Owned(rows, a, "box") THEN SpotOf(rows[i]) ELSE mem[a][i]]
  <2>1. ASSUME NEW i \in Owned(rows, a, "box") PROVE SpotOf(rows[i]) \in Spots
    <3>1. rows[i] \in [owner : Ids, window : {"bag", "box"}, pos : Cells, count : 1 .. CountLimit]
      BY <1>0 DEF Owned, TypeOK, Rows, NoRow
    <3> QED
      BY <3>1 DEF SpotOf, Spots
  <2>2. m \in [Items -> Spots]
    BY <2>1, <1>0 DEF TypeOK
  <2>3. mem' = [mem EXCEPT ![a] = m]
    BY DEF Open
  <2>4. \A i \in Items : m[i] = IF i \in Owned(rows, a, "box") THEN SpotOf(rows[i]) ELSE mem[a][i]
    OBVIOUS
  <2> HIDE DEF m
  <2> QED
    BY <2>2, <2>3, <2>4, <1>0 DEF TypeOK
<1>6. spent' \in 0 .. MaxEvents
  BY <1>0, Budgets DEF Open
<1>7. TypeOK'
  BY <1>0, <1>1, <1>4, <1>5, <1>6 DEF TypeOK
<1>8. \A i \in Items : ~InFlight(a, i) /\ ~InFlight(a, i)'
  BY <1>0, <1>1 DEF InFlight, Flying
<1>9. Live(a) /\ Live(a)' /\ at'[a] = "game"
  BY <1>0, <1>1 DEF Live
<1>10. \A i \in Owned(rows, a, "box") : SpotOf(rows[i]).window = "box" /\ SpotOf(rows[i]).pos = rows[i].pos
  BY DEF Owned, SpotOf
<1>11. \A i \in Items : mem[a][i].window # "box"
  BY <1>0, <1>9 DEF Local, Agrees, AgreesOn
<1>12. InBox(a)' = Owned(rows, a, "box") /\ \A i \in InBox(a)' : mem'[a][i].pos = rows[i].pos
  BY <1>5, <1>10, <1>11 DEF InBox, Owned
<1>13. \A i \in Items : Has(a, i)' => Has(a, i) \/ Gets(a, i)
  BY <1>5, <1>8, <1>9 DEF Has, Gets, Owned, BoxRow
<1>14. Formed(a)'
  BY <1>0, <1>1, <1>3, <1>4, <1>9 DEF Local, Formed, Flying, Busy
<1>15. Agrees(a)'
  <2> SUFFICES ASSUME NEW i \in Items PROVE AgreesOn(a, i)'
    BY DEF Agrees
  <2>1. AgreesOn(a, i)
    BY <1>0, <1>9 DEF Local, Agrees
  <2>2. CASE i \in Owned(rows, a, "box")
    <3>1. BoxRow(a, rows'[i]) /\ rows'[i] = rows[i] /\ mem'[a][i] = SpotOf(rows[i])
      BY <2>2, <1>1, <1>5 DEF Owned, BoxRow
    <3> QED
      BY <3>1, <2>2, <1>3, <1>4, <1>8, <1>10 DEF AgreesOn, BoxRow
  <2>3. CASE i \notin Owned(rows, a, "box")
    <3>1. ~BoxRow(a, rows[i]) /\ mem'[a][i] = mem[a][i] /\ rows'[i] = rows[i]
      BY <2>3, <1>1, <1>5 DEF Owned, BoxRow
    <3>2. Mine(a, i)' => Mine(a, i)
      BY <3>1, <1>1 DEF Mine, BagRow, BoxRow
    <3> QED
      BY <3>1, <3>2, <2>1, <1>1, <1>8, <1>11 DEF AgreesOn, BagRow
  <2> QED
    BY <2>2, <2>3
<1>16. RowsFit(a) /\ (Kept' <=> Kept)
  BY <1>0, <1>1 DEF Local, Kept
<1>17. SizeFits(a)'
  <2>1. s.size \in Int
    BY <1>3 DEF Safes, NoSafe
  <2> QED
    BY <2>1, <1>1, <1>3, <1>4 DEF SizeFits
<1>18. GridOf(a)'
  <2>1. ASSUME NEW i \in InBox(a)', Kept PROVE Within(i, rows[i].pos, s.size)
    <3>1. i \in Items /\ BoxRow(a, rows[i])
      BY <1>12, <2>1 DEF Owned, BoxRow
    <3>2. Within(i, rows[i].pos, safe[a].size)
      BY <3>1, <1>16, <2>1 DEF RowsFit
    <3>3. rows[i].pos \in Nat
      BY <3>1, <1>0 DEF TypeOK, Rows, NoRow, Cells
    <3>4. safe[a].size # -1
      BY <3>1, <3>2, <3>3, NothingFits
    <3> QED
      BY <3>2, <3>4, <1>3
  <2>2. ASSUME NEW i \in InBox(a)', NEW j \in InBox(a)', i # j
        PROVE  Apart(i, rows[i].pos, j, rows[j].pos)
    BY <1>12, <1>16, <2>2 DEF RowsFit, Owned, BoxRow
  <2> QED
    BY <2>1, <2>2, <1>4, <1>12, <1>16 DEF GridOf, Apart, Within
<1>19. RowsFit(a)' /\ TargetFits(a)'
  BY <1>1, <1>9, <1>16 DEF RowsFit, TargetFits, BoxRow, Apart, Within
<1>20. Local(a)'
  BY <1>14, <1>15, <1>17, <1>18, <1>19 DEF Local
<1>21. WritesOwn(a) /\ \A b \in Accounts \ {a} : SameSession(b) /\ safe'[b] = safe[b]
  BY <1>1, <1>4, <1>5 DEF WritesOwn, SameSession
<1> QED
  BY <1>1, <1>7, <1>13, <1>20, <1>21, SessionKeeps

\* A box is closed, while playing or when the connection ends.
LEMMA ShutKeeps ==
  ASSUME SbInv, NEW a \in Accounts, NEW r \in Results, at[a] \in {"game", "end"},
         box[a] # NoSafe, Shut(a, r), UNCHANGED <<play, purse, op, rows, gold, queue, spent>>,
         at'[a] = at[a] \/ (at[a] = "end" /\ at'[a] = "save"), at' \in [Accounts -> Phases],
         \A b \in Accounts \ {a} : at'[b] = at[b]
  PROVE  SbInv'
<1>0. TypeOK /\ Local(a)
  BY DEF SbInv
<1>1. /\ box'[a] = NoSafe /\ box' \in [Accounts -> Safes]
      /\ \A b \in Accounts \ {a} : box'[b] = box[b]
  BY <1>0 DEF Shut, TypeOK, Safes
<1>2. /\ safe' \in [Accounts -> Safes] /\ safe'[a].size = safe[a].size
      /\ \A b \in Accounts \ {a} : safe'[b] = safe[b]
  BY <1>0, SetGoldKeeps DEF Shut
<1>3. /\ \A i \in Items : mem'[a][i] = IF i \in InBox(a) THEN NoSpot ELSE mem[a][i]
      /\ \A b \in Accounts \ {a} : mem'[b] = mem[b]
      /\ mem' \in [Accounts -> [Items -> Spots]]
  <2> DEFINE m == [i \in Items |-> IF i \in InBox(a) THEN NoSpot ELSE mem[a][i]]
  <2>1. m \in [Items -> Spots]
    BY <1>0 DEF TypeOK, Spots
  <2>2. mem' = [mem EXCEPT ![a] = m]
    BY DEF Shut
  <2>3. \A i \in Items : m[i] = IF i \in InBox(a) THEN NoSpot ELSE mem[a][i]
    OBVIOUS
  <2> HIDE DEF m
  <2> QED
    BY <2>1, <2>2, <2>3, <1>0 DEF TypeOK
<1>4. /\ excuses' \subseteq Excuses /\ excuses \subseteq excuses' /\ faults' \in 0 .. MaxFaults
  BY <1>0, Budgets DEF Shut, Excuse, Excuses, TypeOK
<1>5. TypeOK'
  BY <1>0, <1>1, <1>2, <1>3, <1>4 DEF TypeOK
<1>6. \A i \in Items : ~InFlight(a, i) /\ ~InFlight(a, i)'
  BY DEF InFlight, Flying
<1>7. Live(a)' => Live(a)
  BY DEF Live, Busy, Flying
<1>8. \A i \in Items : Has(a, i)' => Has(a, i)
  BY <1>3, <1>6, <1>7 DEF Has
<1>9. Formed(a)'
  BY <1>0, <1>1 DEF Local, Formed, Flying, Busy
<1>10. Agrees(a)'
  <2> SUFFICES ASSUME Live(a)', NEW i \in Items PROVE AgreesOn(a, i)'
    BY DEF Agrees
  <2>1. AgreesOn(a, i)
    BY <1>0, <1>7 DEF Local, Agrees
  <2>2. mem'[a][i].window # "box" /\ (mem'[a][i] = mem[a][i] \/ (mem'[a][i] = NoSpot /\ i \in InBox(a)))
    BY <1>3 DEF InBox, NoSpot
  <2>3. Mine(a, i)' => BagRow(a, rows[i])
    BY <1>1 DEF Mine, BagRow, BoxRow
  <2>4. BagRow(a, rows[i]) => i \notin InBox(a)
    BY <2>1 DEF AgreesOn, BagRow, BoxRow, InBox, Wiped, NoRow
  <2>5. BagRow(a, rows[i])' <=> BagRow(a, rows[i])
    BY DEF BagRow
  <2> QED
    BY <2>1, <2>2, <2>3, <2>4, <2>5, <1>6 DEF AgreesOn, Mine, NoSpot
<1>11. GridOf(a)' /\ SizeFits(a)' /\ TargetFits(a)'
  BY <1>1 DEF GridOf, SizeFits, TargetFits
<1>12. RowsFit(a)'
  BY <1>0, <1>2, <1>4 DEF Local, RowsFit, BoxRow, Apart, Within, Kept
<1>13. Local(a)'
  BY <1>9, <1>10, <1>11, <1>12 DEF Local
<1>14. WritesOwn(a) /\ \A b \in Accounts \ {a} : SameSession(b)
  BY <1>1, <1>3 DEF WritesOwn, SameSession
<1> QED
  BY <1>2, <1>4, <1>5, <1>8, <1>13, <1>14, SessionKeeps

LEMMA CloseBoxKeeps ==
  ASSUME SbInv, NEW a \in Accounts, NEW r \in Results, CloseBox(a, r)
  PROVE  SbInv'
<1>1. at' = at /\ at \in [Accounts -> Phases]
  BY DEF CloseBox, SbInv, TypeOK
<1> QED
  BY <1>1, ShutKeeps DEF CloseBox

LEMMA EndKeeps ==
  ASSUME SbInv, NEW a \in Accounts, NEW r \in Results, End(a, r)
  PROVE  SbInv'
<1>0. TypeOK /\ Local(a) /\ at[a] = "end"
  BY DEF SbInv, End
<1>1. /\ at'[a] = "save" /\ at' \in [Accounts -> Phases]
      /\ \A b \in Accounts \ {a} : at'[b] = at[b]
  BY <1>0 DEF End, Goto, TypeOK, Phases
<1>2. CASE box[a] # NoSafe
  BY <1>0, <1>1, <1>2, ShutKeeps DEF End
<1>3. CASE box[a] = NoSafe
  <2>1. UNCHANGED <<play, mem, box, purse, op, rows, safe, gold, queue, excuses, spent, faults>>
    BY <1>3 DEF End
  <2>2. TypeOK'
    BY <1>0, <1>1, <2>1 DEF TypeOK
  <2>3. Formed(a)'
    BY <1>0, <1>1, <1>3, <2>1 DEF Local, Formed, Flying, Busy
  <2>4. GridOf(a)' /\ SizeFits(a)' /\ RowsFit(a)'
    BY <2>1, GridStays
  <2>5. \A b \in Accounts \ {a} : SameSession(b) /\ safe'[b] = safe[b]
    BY <1>1, <2>1 DEF SameSession
  <2> QED
    BY <1>0, <1>1, <2>1, <2>2, <2>3, <2>4, <2>5, QuietStep DEF Live, Flying, Busy
<1> QED
  BY <1>2, <1>3

LEMMA LastSaveKeeps ==
  ASSUME SbInv, NEW a \in Accounts, LastSave(a)
  PROVE  SbInv'
<1>0. TypeOK /\ Local(a) /\ at[a] = "save" /\ box[a] = NoSafe
  BY DEF SbInv, LastSave, Local, Formed
<1>1. /\ at'[a] = "off" /\ at' \in [Accounts -> Phases]
      /\ play'[a] = NoPlayer /\ play' \in [Accounts -> Players \cup {NoPlayer}]
      /\ \A b \in Accounts \ {a} : at'[b] = at[b] /\ play'[b] = play[b]
  BY <1>0 DEF LastSave, Goto, TypeOK, Phases
<1>2. UNCHANGED <<box, rows, safe, gold, excuses, spent, faults>>
  BY DEF LastSave
<1>3. /\ mem' \in [Accounts -> [Items -> Spots]] /\ op' \in [Accounts -> Ops]
      /\ \A b \in Accounts \ {a} : mem'[b] = mem[b] /\ op'[b] = op[b]
  <2>1. [i \in Items |-> NoSpot] \in [Items -> Spots] /\ NoOp \in Ops
    BY LimitsAssumption DEF Spots, NoOp, Carry, Ops, Cells
  <2> QED
    BY <2>1, <1>0 DEF LastSave, TypeOK
<1>4. purse' \in [Accounts -> Golds]
  BY <1>0, LimitsAssumption DEF LastSave, TypeOK, Golds
<1>5. queue' \in Seq(Saves)
  BY <1>0, SavesAreSaves DEF LastSave
<1>6. TypeOK'
  BY <1>0, <1>1, <1>2, <1>3, <1>4, <1>5 DEF TypeOK
<1>7. ~Live(a)'
  BY <1>1 DEF Live, Busy, Flying
<1>8. Formed(a)'
  BY <1>0, <1>1, <1>2 DEF Formed, Flying, Busy
<1>9. Agrees(a)' /\ GridOf(a)' /\ TargetFits(a)' /\ SizeFits(a)'
  BY <1>0, <1>1, <1>2, <1>7 DEF Agrees, GridOf, TargetFits, SizeFits
<1>10. RowsFit(a)'
  BY <1>0, <1>2 DEF Local, RowsFit, BoxRow, Apart, Within, Kept
<1>11. Local(a)'
  BY <1>8, <1>9, <1>10 DEF Local
<1>12. WritesOwn(a) /\ \A b \in Accounts \ {a} : SameSession(b) /\ safe'[b] = safe[b]
  BY <1>1, <1>2, <1>3 DEF WritesOwn, SameSession
<1> QED
  BY <1>2, <1>6, <1>7, <1>11, <1>12, SessionKeeps DEF Has

LEMMA StackPanicsKeeps ==
  ASSUME SbInv, NEW a \in Accounts, StackPanics(a)
  PROVE  SbInv'
<1>0. TypeOK /\ Local(a) /\ at[a] = "stack.dst"
  BY DEF SbInv, StackPanics
<1>1. /\ at'[a] = "off" /\ at' \in [Accounts -> Phases]
      /\ play'[a] = NoPlayer /\ play' \in [Accounts -> Players \cup {NoPlayer}]
      /\ box'[a] = NoSafe /\ box' \in [Accounts -> Safes]
      /\ \A b \in Accounts \ {a} : at'[b] = at[b] /\ play'[b] = play[b] /\ box'[b] = box[b]
  BY <1>0 DEF StackPanics, Goto, TypeOK, Phases, Safes
<1>2. UNCHANGED <<rows, safe, gold, queue, excuses, spent, faults>>
  BY DEF StackPanics, database
<1>3. /\ mem' \in [Accounts -> [Items -> Spots]] /\ op' \in [Accounts -> Ops]
      /\ \A b \in Accounts \ {a} : mem'[b] = mem[b] /\ op'[b] = op[b]
  <2>1. [i \in Items |-> NoSpot] \in [Items -> Spots] /\ NoOp \in Ops
    BY LimitsAssumption DEF Spots, NoOp, Carry, Ops, Cells
  <2> QED
    BY <2>1, <1>0 DEF StackPanics, TypeOK
<1>4. purse' \in [Accounts -> Golds]
  BY <1>0, LimitsAssumption DEF StackPanics, TypeOK, Golds
<1>6. TypeOK'
  BY <1>0, <1>1, <1>2, <1>3, <1>4 DEF TypeOK
<1>7. ~Live(a)'
  BY <1>1 DEF Live, Busy, Flying
<1>8. Formed(a)'
  BY <1>1 DEF Formed, Flying, Busy
<1>9. Agrees(a)' /\ GridOf(a)' /\ TargetFits(a)' /\ SizeFits(a)'
  BY <1>1, <1>7 DEF Agrees, GridOf, TargetFits, SizeFits
<1>10. RowsFit(a)'
  BY <1>0, <1>2 DEF Local, RowsFit, BoxRow, Apart, Within, Kept
<1>11. Local(a)'
  BY <1>8, <1>9, <1>10 DEF Local
<1>12. WritesOwn(a) /\ \A b \in Accounts \ {a} : SameSession(b) /\ safe'[b] = safe[b]
  BY <1>1, <1>2, <1>3 DEF WritesOwn, SameSession
<1> QED
  BY <1>2, <1>6, <1>7, <1>11, <1>12, SessionKeeps DEF Has

-----------------------------------------------------------------------------
(* Deletions, the batcher and crashes                                      *)

\* The deletion of a character of an account that is offline takes rows of no session, but those
\* of the box of an account with the same id.
LEMMA DeletePlayerKeeps ==
  ASSUME SbInv, NEW a \in Accounts, NEW p \in Players, DeletePlayer(a, p)
  PROVE  SbInv'
<1>0. TypeOK /\ at[a] = "off" /\ AccountOf[p] = a /\ \A b \in Accounts : Local(b)
  BY DEF SbInv, DeletePlayer
<1>1. UNCHANGED <<at, play, mem, box, purse, op, safe, queue, faults>>
  BY DEF DeletePlayer, session
<1>2. /\ \A i \in Items : rows'[i] = IF rows[i].owner = p THEN NoRow ELSE rows[i]
      /\ rows' \in [Items -> Rows]
  <2>1. NoRow \in Rows
    BY DEF Rows
  <2> QED
    BY <2>1, <1>0 DEF DeletePlayer, TypeOK
<1>3. /\ gold' \in [Players -> Golds \cup {Gone}] /\ spent' \in 0 .. MaxEvents
      /\ excuses' \subseteq Excuses /\ excuses \subseteq excuses'
  BY <1>0, Budgets DEF DeletePlayer, Excuse, Excuses, TypeOK
<1>4. TypeOK'
  BY <1>0, <1>1, <1>2, <1>3 DEF TypeOK
<1>5. Kept' => Kept
  BY <1>3 DEF Kept
<1>6. \A b \in Accounts, i \in Items : Has(b, i)' <=> Has(b, i)
  BY <1>1 DEF Has, Live, InFlight
<1>7. OneHolder'
  BY <1>6 DEF SbInv, OneHolder
<1>8. ASSUME NEW b \in Accounts PROVE Local(b)'
  <2>1. Local(b)
    BY <1>0
  <2>2. Formed(b)'
    BY <2>1, <1>1, <1>3 DEF Local, Formed, InBox
  <2>3. Agrees(b)'
    <3> SUFFICES ASSUME Live(b)', NEW i \in Items PROVE AgreesOn(b, i)'
      BY DEF Agrees
    <3>1. Live(b) /\ AgreesOn(b, i) /\ (InFlight(b, i)' <=> InFlight(b, i))
      BY <2>1, <1>1 DEF Local, Agrees, Live, InFlight
    <3>2. CASE rows'[i] = rows[i]
      BY <3>1, <3>2, <1>1, <1>3 DEF AgreesOn, Mine, BagRow, BoxRow, Wiped
    <3>3. CASE rows'[i] # rows[i]
      <4>1. rows[i].owner = p /\ rows'[i] = NoRow /\ rows[i] # NoRow
        BY <3>3, <1>2
      <4>2. ~BagRow(b, rows[i])
        <5>1. play[b] # NoPlayer /\ AccountOf[play[b]] = b /\ at[b] # "off"
          BY <2>1, <3>1 DEF Local, Formed, Live, Busy, Flying
        <5> QED
          BY <5>1, <4>1, <1>0 DEF BagRow
      <4>3. ~Mine(b, i)'
        BY <4>1 DEF Mine, BagRow, BoxRow, NoRow
      <4>4. BoxRow(b, rows[i]) => Wiped(i)'
        <5>1. BoxRow(b, rows[i]) => i \in Owned(rows, p, "box")
          BY <4>1 DEF BoxRow, Owned
        <5>2. Owned(rows, p, "box") # {} => "wiped" \in excuses'
          BY DEF DeletePlayer, Excuse
        <5> QED
          BY <5>1, <5>2, <4>1 DEF Wiped
      <4>5. Wiped(i) => Wiped(i)'
        BY <4>1 DEF Wiped
      <4> QED
        BY <3>1, <4>2, <4>3, <4>4, <4>5, <1>1 DEF AgreesOn, Mine
    <3> QED
      BY <3>2, <3>3
  <2>4. GridOf(b)'
    BY <2>1, <1>1, <1>5 DEF Local, GridOf, InBox, Apart, Within
  <2>5. TargetFits(b)' /\ SizeFits(b)'
    BY <2>1, <1>1, <1>5 DEF Local, TargetFits, SizeFits, Fits, Occupied, InBox
  <2>6. RowsFit(b)'
    <3>1. \A i \in Items : BoxRow(b, rows'[i]) => rows'[i] = rows[i]
      BY <1>2 DEF BoxRow, NoRow
    <3>2. safe'[b].size \in Int /\ safe'[b].size = safe[b].size
      BY <1>0, <1>1, SafesAre
    <3> QED
      BY <3>1, <3>2, <2>1, <1>0, <1>5, FewerRowsFit DEF Local
  <2> QED
    BY <2>2, <2>3, <2>4, <2>5, <2>6 DEF Local
<1> QED
  BY <1>4, <1>7, <1>8 DEF SbInv

\* A save that is applied leaves a table of gold.
LEMMA ApplyType ==
  ASSUME NEW table \in [Players -> Golds \cup {Gone}], NEW save \in Saves
  PROVE  /\ Apply(table, save) \in [Players -> Golds \cup {Gone}]
         /\ \A p \in Players : table[p] = Gone => Apply(table, save)[p] = Gone
<1>1. save.pid \in Players /\ save.gold \in Golds
  BY DEF Saves
<1> QED
  BY <1>1 DEF Apply

\* The gold of the table and the saves are in no other part of the invariant.
LEMMA QuietWorld ==
  ASSUME SbInv, UNCHANGED <<at, play, mem, box, op, rows, safe, excuses>>, TypeOK'
  PROVE  SbInv'
<1>1. ASSUME NEW a \in Accounts PROVE Local(a)'
  <2>1. Local(a)
    BY DEF SbInv
  <2>2. Formed(a)'
    BY <2>1 DEF Local, Formed, InBox
  <2>3. Agrees(a)'
    BY <2>1 DEF Local, Agrees, AgreesOn, Live, InFlight, Mine, BagRow, BoxRow, Wiped
  <2>4. GridOf(a)'
    BY <2>1 DEF Local, GridOf, InBox, Apart, Within, Kept
  <2>5. TargetFits(a)' /\ SizeFits(a)'
    BY <2>1 DEF Local, TargetFits, SizeFits, Fits, Occupied, InBox, Kept
  <2>6. RowsFit(a)'
    BY <2>1 DEF Local, RowsFit, BoxRow, Apart, Within, Kept
  <2> QED
    BY <2>2, <2>3, <2>4, <2>5, <2>6 DEF Local
<1>2. OneHolder'
  BY DEF SbInv, OneHolder, Has, Live, InFlight
<1> QED
  BY <1>1, <1>2 DEF SbInv

LEMMA CommitKeeps ==
  ASSUME SbInv, Commit
  PROVE  SbInv'
<1>0. TypeOK
  BY DEF SbInv
<1>1. UNCHANGED <<at, play, mem, box, purse, op, rows, safe, excuses, spent, faults>>
  BY DEF Commit, session
<1>2. queue \in Seq(Saves) /\ queue # <<>> /\ gold \in [Players -> Golds \cup {Gone}]
  BY <1>0 DEF Commit, TypeOK
<1>3. Head(queue) \in Saves /\ Tail(queue) \in Seq(Saves)
  BY <1>2
<1>4. gold' \in [Players -> Golds \cup {Gone}] /\ queue' \in Seq(Saves)
  BY <1>2, <1>3, ApplyType DEF Commit
<1>5. TypeOK'
  BY <1>0, <1>1, <1>4 DEF TypeOK
<1> QED
  BY <1>1, <1>5, QuietWorld

\* The table after the first saves is one of gold, in which who was deleted still is: the
\* recursion is unfolded by taking the least counterexample twice.
LEMMA LeastOf ==
  ASSUME NEW T, T \subseteq Nat, T # {}
  PROVE  \E x \in T : \A y \in T : x <= y
<1>1. PICK x \in T : \A y \in T : <<y, x>> \notin OpToRel(<, Nat)
  BY NatLessThanWellFounded, WFMin, Zenon
<1>2. \A y \in T : ~(y < x)
  BY <1>1 DEF OpToRel
<1> QED
  BY <1>2

LEMMA AppliedType ==
  ASSUME TypeOK, NEW n \in 0 .. Len(queue)
  PROVE  /\ Applied(n) \in [Players -> Golds \cup {Gone}]
         /\ \A p \in Players : gold[p] = Gone => Applied(n)[p] = Gone
<1> DEFINE
      Tables == {table \in [Players -> Golds \cup {Gone}] :
                   \A p \in Players : gold[p] = Gone => table[p] = Gone}
      Step(f, k) == IF k = 0 THEN gold ELSE Apply(f[k - 1], queue[k])
      Fold(m) == {f \in [0 .. m -> Tables] : \A k \in 0 .. m : f[k] = Step(f, k)}
      Missing == {m \in 0 .. n : Fold(m) = {}}
<1>1. n \in Nat /\ gold \in Tables /\ \A k \in 1 .. n : queue[k] \in Saves
  BY DEF TypeOK
<1>2. \A table \in Tables, save \in Saves : Apply(table, save) \in Tables
  BY ApplyType
<1> HIDE DEF Tables
<1>3. Fold(0) # {}
  <2>1. [k \in 0 .. 0 |-> gold] \in Fold(0)
    BY <1>1
  <2> QED
    BY <2>1
<1>4. ASSUME NEW m \in 1 .. n, NEW f \in Fold(m - 1)
      PROVE  Fold(m) # {}
  <2> DEFINE g == [k \in 0 .. m |-> IF k < m THEN f[k] ELSE Step(f, m)]
  <2>1. Step(f, m) \in Tables
    <3>1. f[m - 1] \in Tables
      BY <1>1
    <3>2. Apply(f[m - 1], queue[m]) \in Tables
      BY <3>1, <1>1, <1>2
    <3> QED
      BY <3>2, <1>1
  <2>2. g \in [0 .. m -> Tables]
    BY <2>1, <1>1
  <2>3. \A k \in 0 .. m : g[k] = Step(g, k)
    <3> TAKE k \in 0 .. m
    <3>1. CASE k < m
      BY <3>1, <1>1
    <3>2. CASE k = m
      BY <3>2, <1>1
    <3> QED
      BY <3>1, <3>2, <1>1
  <2> QED
    BY <2>2, <2>3
<1>5. Missing = {}
  <2> SUFFICES ASSUME Missing # {} PROVE FALSE
    OBVIOUS
  <2>1. PICK m \in Missing : \A k \in Missing : m <= k
    <3> HIDE DEF Missing
    <3>1. Missing \subseteq Nat
      BY <1>1 DEF Missing
    <3> QED
      BY <3>1, LeastOf
  <2>2. m \in 1 .. n
    BY <1>1, <1>3
  <2>3. m - 1 \notin Missing
    <3> HIDE DEF Missing
    <3> QED
      BY <2>1, <2>2, <1>1
  <2>4. Fold(m - 1) # {}
    <3> HIDE DEF Fold
    <3> QED
      BY <2>3, <2>2, <1>1
  <2> QED
    <3> HIDE DEF Fold
    <3> QED
      BY <1>4, <2>1, <2>2, <2>4
<1>6. PICK f \in Fold(n) : TRUE
  BY <1>5, <1>1
<1> DEFINE table == CHOOSE g : g = [k \in 0 .. n |-> Step(g, k)]
<1>7. f = [k \in 0 .. n |-> Step(f, k)]
  BY <1>6
<1>8. table = [k \in 0 .. n |-> Step(table, k)]
  BY <1>7
<1> HIDE DEF table
<1> DEFINE Ill == {k \in 0 .. n : table[k] \notin Tables}
<1>9. Ill = {}
  <2> SUFFICES ASSUME Ill # {} PROVE FALSE
    OBVIOUS
  <2>1. PICK m \in Ill : \A k \in Ill : m <= k
    <3> HIDE DEF Ill
    <3>1. Ill \subseteq Nat
      BY <1>1 DEF Ill
    <3> QED
      BY <3>1, LeastOf
  <2>2. m # 0
    BY <1>8, <1>1
  <2>3. table[m - 1] \in Tables
    BY <2>1, <2>2, <1>1
  <2>4. Apply(table[m - 1], queue[m]) \in Tables
    BY <2>3, <2>2, <1>1, <1>2
  <2> QED
    BY <1>8, <2>1, <2>2, <2>4, <1>1
<1>10. table[n] \in Tables
  BY <1>9, <1>1
<1> QED
  BY <1>10 DEF Applied, table, Tables

\* In a state in which nobody plays, the invariant is the grid of the rows.
LEMMA NobodyPlays ==
  ASSUME TypeOK', \A a \in Accounts : /\ at'[a] = "off" /\ play'[a] = NoPlayer
                                      /\ box'[a] = NoSafe /\ RowsFit(a)'
  PROVE  SbInv'
<1>1. \A a \in Accounts : ~Live(a)'
  BY DEF Live, Busy, Flying
<1>2. ASSUME NEW a \in Accounts PROVE Local(a)'
  <2>1. Formed(a)'
    BY DEF Formed, Busy, Flying
  <2>2. Agrees(a)' /\ GridOf(a)' /\ TargetFits(a)' /\ SizeFits(a)'
    BY <1>1 DEF Agrees, GridOf, TargetFits, SizeFits
  <2> QED
    BY <2>1, <2>2 DEF Local
<1>3. OneHolder'
  BY <1>1 DEF OneHolder, Has
<1> QED
  BY <1>2, <1>3 DEF SbInv

LEMMA CrashKeeps ==
  ASSUME SbInv, Crash
  PROVE  SbInv'
<1>0. TypeOK /\ \A a \in Accounts : RowsFit(a)
  BY DEF SbInv, Local
<1>1. UNCHANGED <<rows, safe, spent>>
  BY DEF Crash
<1>2. \A a \in Accounts : at'[a] = "off" /\ play'[a] = NoPlayer /\ box'[a] = NoSafe
  BY DEF Crash
<1>3. /\ at' \in [Accounts -> Phases] /\ play' \in [Accounts -> Players \cup {NoPlayer}]
      /\ box' \in [Accounts -> Safes]
  BY DEF Crash, Phases, Safes
<1>4. mem' \in [Accounts -> [Items -> Spots]]
  BY DEF Crash, Spots
<1>5. purse' \in [Accounts -> Golds] /\ op' \in [Accounts -> Ops]
  <2>1. NoOp \in Ops /\ 0 \in Golds
    BY LimitsAssumption DEF NoOp, Carry, Ops, Cells, Golds
  <2> QED
    BY <2>1 DEF Crash
<1>6. gold' \in [Players -> Golds \cup {Gone}]
  BY <1>0, AppliedType DEF Crash
<1>7. queue' \in Seq(Saves)
  BY DEF Crash
<1>8. excuses' \subseteq Excuses /\ excuses \subseteq excuses'
  BY <1>0 DEF Crash, Excuse, Excuses, TypeOK
<1>9. faults' \in 0 .. MaxFaults
  BY <1>0, LimitsAssumption DEF Crash, TypeOK
<1>10. TypeOK'
  BY <1>0, <1>1, <1>3, <1>4, <1>5, <1>6, <1>7, <1>8, <1>9 DEF TypeOK
<1>11. \A a \in Accounts : RowsFit(a)'
  BY <1>0, <1>1, <1>8 DEF RowsFit, BoxRow, Apart, Within, Kept
<1> QED
  BY <1>2, <1>10, <1>11, NobodyPlays

-----------------------------------------------------------------------------
(* The theorems                                                            *)

LEMMA InitSb ==
  ASSUME Init
  PROVE  SbInv
<1>1. TypeOK
  <2>1. NoOp \in Ops /\ 0 \in Golds /\ 0 \in 0 .. MaxEvents /\ 0 \in 0 .. MaxFaults
    BY LimitsAssumption DEF NoOp, Carry, Ops, Cells, Golds
  <2>2. at \in [Accounts -> Phases] /\ play \in [Accounts -> Players \cup {NoPlayer}]
    BY DEF Init, Phases
  <2>3. mem \in [Accounts -> [Items -> Spots]] /\ box \in [Accounts -> Safes]
    BY DEF Init, Spots, Safes
  <2>4. purse \in [Accounts -> Golds] /\ op \in [Accounts -> Ops] /\ safe \in [Accounts -> Safes]
    BY <2>1 DEF Init, Safes
  <2>5. rows \in [Items -> Rows] /\ gold \in [Players -> Golds \cup {Gone}]
    BY FirstAssumption DEF Init
  <2>6. queue \in Seq(Saves) /\ excuses \subseteq Excuses
    BY DEF Init
  <2> QED
    BY <2>1, <2>2, <2>3, <2>4, <2>5, <2>6 DEF TypeOK, Init
<1>2. \A a \in Accounts : at[a] = "off" /\ play[a] = NoPlayer /\ box[a] = NoSafe /\ ~Live(a)
  BY DEF Init, Live, Busy, Flying
<1>3. \A a \in Accounts, i \in Items : ~BoxRow(a, rows[i])
  BY FirstAssumption DEF Init, BoxRow, NoRow
<1>4. ASSUME NEW a \in Accounts PROVE Local(a)
  <2>1. Formed(a)
    BY <1>2 DEF Formed, Busy, Flying
  <2>2. Agrees(a) /\ GridOf(a) /\ TargetFits(a) /\ SizeFits(a)
    BY <1>2 DEF Agrees, GridOf, TargetFits, SizeFits
  <2>3. RowsFit(a)
    BY <1>3 DEF RowsFit
  <2> QED
    BY <2>1, <2>2, <2>3 DEF Local
<1>5. OneHolder
  BY <1>2 DEF OneHolder, Has
<1> QED
  BY <1>1, <1>4, <1>5 DEF SbInv

LEMMA StepSb ==
  ASSUME SbInv, [Next]_vars
  PROVE  SbInv'
<1>1. ASSUME NEW a \in Accounts, Asks(a) PROVE SbInv'
  <2>1. CASE \E p \in Players : Enter(a, p)
    BY <2>1, EnterKeeps
  <2>2. CASE \E p \in Players : DeletePlayer(a, p)
    BY <2>2, DeletePlayerKeeps
  <2>3. CASE Open(a)
    BY <2>3, OpenKeeps
  <2>4. CASE \E r \in Results : CloseBox(a, r)
    BY <2>4, CloseBoxKeeps
  <2>5. CASE \E i \in Items, pos \in Cells : Checkin(a, i, pos) \/ Move(a, i, pos)
    BY <2>5, ItemHandlersKeep
  <2>6. CASE \E i \in Items : Checkout(a, i)
    <3>1. 0 \in Cells
      BY LimitsAssumption DEF Cells
    <3> QED
      BY <2>6, <3>1, ItemHandlersKeep
  <2>7. CASE \E i, j \in Items, want \in 0 .. CountLimit : Stack(a, i, j, want)
    BY <2>7, StackKeeps
  <2>8. CASE \E n \in -GoldMax .. GoldMax : Money(a, n)
    BY <2>8, MoneyKeeps
  <2>9. CASE \E size \in 0 .. MaxSize, r \in Results : SetSize(a, size, r)
    BY <2>9, SetSizeKeeps
  <2>10. CASE ChangePassword(a)
    BY <2>10, ChangePasswordKeeps
  <2>11. CASE Disconnect(a)
    BY <2>11, DisconnectKeeps
  <2> QED
    BY <1>1, <2>1, <2>2, <2>3, <2>4, <2>5, <2>6, <2>7, <2>8, <2>9, <2>10, <2>11 DEF Asks
<1>2. ASSUME NEW a \in Accounts, Statement(a) PROVE SbInv'
  <2>1. PICK r \in Results :
          \/ CheckinWrite(a, r) \/ CheckoutWrite(a, r) \/ MoveWrite(a, r)
          \/ StackSrc(a, r) \/ StackDst(a, r) \/ MoneyWrite(a, r) \/ End(a, r)
    BY <1>2 DEF Statement
  <2> QED
    BY <2>1, ItemWritesKeep, StackSrcKeeps, StackDstKeeps, MoneyWriteKeeps, EndKeeps
<1>3. ASSUME NEW a \in Accounts, LastSave(a) \/ StackPanics(a) PROVE SbInv'
  BY <1>3, LastSaveKeeps, StackPanicsKeeps
<1>4. CASE UNCHANGED vars
  <2>1. UNCHANGED <<at, play, mem, box, purse, op, rows, safe, gold, queue, excuses, spent, faults>>
    BY <1>4 DEF vars, session, database
  <2>2. TypeOK'
    BY <2>1 DEF SbInv, TypeOK
  <2> QED
    BY <2>1, <2>2, QuietWorld
<1> QED
  BY <1>1, <1>2, <1>3, <1>4, CommitKeeps, CrashKeeps DEF Next

\* No two sessions ever have one item, and what each has in memory and in its handler is what
\* its rows say, in an open box that is a grid (the handlers of safebox.rs).
THEOREM SafeboxIsConsistent == Spec => []SbInv
<1>1. Init => SbInv
  BY InitSb
<1>2. SbInv /\ [Next]_vars => SbInv'
  BY StepSb
<1> QED
  BY <1>1, <1>2, PTL DEF Spec

\* Every variable keeps its type.
THEOREM SafeboxTypeCorrect == Spec => []TypeOK
<1>1. SbInv => TypeOK
  BY DEF SbInv
<1> QED
  BY <1>1, SafeboxIsConsistent, PTL

\* Between two handlers the open box and the inventory are the rows of the account and of its
\* character, whatever statements failed (handle_checkin, handle_checkout, handle_item_move, open).
THEOREM MemoryStaysTheRows == Spec => []MemoryIsTheRows
<1>1. SbInv => MemoryIsTheRows
  <2> SUFFICES ASSUME SbInv, NEW a \in Accounts, at[a] = "game", NEW i \in Items
               PROVE  /\ mem[a][i].window = "bag" <=> i \in Owned(rows, play[a], "bag")
                      /\ box[a] # NoSafe /\ i \in Owned(rows, a, "box") => mem[a][i].window = "box"
                      /\ mem[a][i].window = "box" =>
                           /\ box[a] # NoSafe
                           /\ i \in Owned(rows, a, "box") \/ ("wiped" \in excuses /\ rows[i] = NoRow)
                      /\ mem[a][i] # NoSpot /\ rows[i] # NoRow => mem[a][i] = SpotOf(rows[i])
    BY DEF MemoryIsTheRows
  <2>1. AgreesOn(a, i) /\ ~InFlight(a, i)
    BY DEF SbInv, Local, Agrees, Live, InFlight, Flying
  <2>2. i \in Owned(rows, play[a], "bag") <=> BagRow(a, rows[i])
    BY DEF Owned, BagRow
  <2>3. i \in Owned(rows, a, "box") <=> BoxRow(a, rows[i])
    BY DEF Owned, BoxRow
  <2>4. SpotOf(rows[i]).window = rows[i].window
    BY DEF SpotOf
  <2>5. mem[a][i] # NoSpot => mem[a][i].window \in {"bag", "box"}
    BY SpotsAre DEF SbInv
  <2> QED
    BY <2>1, <2>2, <2>3, <2>4, <2>5 DEF AgreesOn, Mine, BagRow, BoxRow, Wiped
<1> QED
  BY <1>1, SafeboxIsConsistent, PTL

\* No two items of an open box overlap, and each is within the grid unless the box was made
\* smaller than it had been (checkin_gate, strip_fits).
THEOREM BoxStaysAGrid == Spec => []BoxIsAGrid
<1>1. SbInv => BoxIsAGrid
  BY DEF SbInv, Local, GridOf, BoxIsAGrid, Apart, Within, Kept
<1> QED
  BY <1>1, SafeboxIsConsistent, PTL

\* What holds at the start and passes from each place to the next holds everywhere.
LEMMA Climb ==
  ASSUME NEW N \in Nat, NEW Good, 0 \in Good, \A i \in 1 .. N : i - 1 \in Good => i \in Good
  PROVE  \A i \in 0 .. N : i \in Good
<1> DEFINE Bad == (0 .. N) \ Good
<1> SUFFICES ASSUME Bad # {} PROVE FALSE
  OBVIOUS
<1>1. PICK n \in Bad : \A k \in Bad : n <= k
  <2>1. Bad \subseteq Nat
    OBVIOUS
  <2> HIDE DEF Bad
  <2> QED
    BY <2>1, LeastOf
<1>2. n \in 1 .. N /\ n - 1 \in 0 .. N
  OBVIOUS
<1>3. n - 1 \in Good
  BY <1>1, <1>2
<1> QED
  BY <1>2, <1>3

-----------------------------------------------------------------------------
(* Sums over finite sets                                                   *)

AnyOf(T) == CHOOSE x \in T : TRUE

\* g is the sum of f over every subset of U, taken element by element (MapThenFoldSet).
Recurs(g, f, U) ==
  g[{}] = 0 /\ \A T \in SUBSET U : T # {} => g[T] = f[AnyOf(T)] + g[T \ {AnyOf(T)}]
Sums(g, f, U) == g \in [SUBSET U -> Int] /\ Recurs(g, f, U)

LEMMA Subsets ==
  ASSUME NEW U, IsFiniteSet(U), NEW T \in SUBSET U
  PROVE  /\ IsFiniteSet(T) /\ Cardinality(T) \in 0 .. Cardinality(U) /\ Cardinality(U) \in Nat
         /\ T # {} => AnyOf(T) \in T /\ Cardinality(T) # 0
         /\ Cardinality(T) = 0 => T = {}
         /\ \A x \in T : T \ {x} \in SUBSET U /\ Cardinality(T \ {x}) = Cardinality(T) - 1
<1>1. IsFiniteSet(T) /\ Cardinality(T) <= Cardinality(U) /\ Cardinality(U) \in Nat
      /\ Cardinality(T) \in Nat
  BY FS_Subset, FS_CardinalityType
<1>2. T # {} => AnyOf(T) \in T
  BY DEF AnyOf
<1>3. Cardinality(T) = 0 <=> T = {}
  BY <1>1, FS_EmptySet
<1>4. \A x \in T : Cardinality(T \ {x}) = Cardinality(T) - 1
  BY <1>1, FS_RemoveElement
<1> QED
  BY <1>1, <1>2, <1>3, <1>4

LEMMA SumsExist ==
  ASSUME NEW U, IsFiniteSet(U), NEW f \in [U -> Int]
  PROVE  \E g : Sums(g, f, U)
<1> DEFINE N == Cardinality(U)
           Step(g, T) == IF T = {} THEN 0 ELSE f[AnyOf(T)] + g[T \ {AnyOf(T)}]
           Good == {n \in 0 .. N : \E g \in [SUBSET U -> Int] :
                      \A T \in SUBSET U : Cardinality(T) <= n => g[T] = Step(g, T)}
<1>1. N \in Nat /\ U \in SUBSET U /\ {} \in SUBSET U
  BY FS_CardinalityType
<1>2. ASSUME NEW g \in [SUBSET U -> Int], NEW T \in SUBSET U PROVE Step(g, T) \in Int
  BY Subsets
<1>3. 0 \in Good
  <2> DEFINE g == [T \in SUBSET U |-> 0]
  <2>1. \A T \in SUBSET U : Cardinality(T) <= 0 => g[T] = Step(g, T)
    <3> SUFFICES ASSUME NEW T \in SUBSET U, Cardinality(T) <= 0 PROVE g[T] = Step(g, T)
      OBVIOUS
    <3>1. T = {}
      BY Subsets
    <3> QED
      BY <3>1
  <2>2. g \in [SUBSET U -> Int]
    OBVIOUS
  <2> HIDE DEF g, Step
  <2> QED
    BY <1>1, <2>1, <2>2
<1>4. ASSUME NEW n \in 1 .. N, n - 1 \in Good PROVE n \in Good
  <2>1. PICK g \in [SUBSET U -> Int] :
               \A T \in SUBSET U : Cardinality(T) <= n - 1 => g[T] = Step(g, T)
    BY <1>4
  <2> DEFINE h == [T \in SUBSET U |-> Step(g, T)]
  <2>2. h \in [SUBSET U -> Int]
    BY <1>2
  <2>3. ASSUME NEW T \in SUBSET U, Cardinality(T) <= n - 1 PROVE h[T] = g[T]
    BY <2>1, <2>3
  <2>4. ASSUME NEW T \in SUBSET U, Cardinality(T) <= n PROVE h[T] = Step(h, T)
    <3>1. CASE T = {}
      BY <3>1
    <3>2. CASE T # {}
      <4>1. T \ {AnyOf(T)} \in SUBSET U /\ Cardinality(T \ {AnyOf(T)}) <= n - 1
        BY <1>1, <2>4, <3>2, Subsets
      <4>2. h[T \ {AnyOf(T)}] = g[T \ {AnyOf(T)}]
        BY <2>3, <4>1
      <4> QED
        BY <3>2, <4>2
    <3> QED
      BY <3>1, <3>2
  <2> HIDE DEF h, Step
  <2> QED
    BY <1>1, <2>2, <2>4
<1>5. N \in Good
  <2> HIDE DEF Good, N
  <2> QED
    BY <1>1, <1>3, <1>4, Climb
<1>6. PICK g \in [SUBSET U -> Int] : \A T \in SUBSET U : Cardinality(T) <= N => g[T] = Step(g, T)
  BY <1>5
<1>7. ASSUME NEW T \in SUBSET U PROVE g[T] = Step(g, T)
  BY <1>6, Subsets
<1> QED
  BY <1>1, <1>7 DEF Sums, Recurs

\* The sum does not depend on which element is taken first.
LEMMA AnyOrder ==
  ASSUME NEW U, IsFiniteSet(U), NEW f \in [U -> Int], NEW g, Sums(g, f, U)
  PROVE  \A T \in SUBSET U : \A x \in T : g[T] = f[x] + g[T \ {x}]
<1> DEFINE N == Cardinality(U)
           Good == {n \in 0 .. N : \A T \in SUBSET U : Cardinality(T) = n =>
                      \A x \in T : g[T] = f[x] + g[T \ {x}]}
<1>1. N \in Nat
  BY FS_CardinalityType
<1>2. 0 \in Good
  BY <1>1, Subsets
<1>3. ASSUME NEW n \in 1 .. N, n - 1 \in Good PROVE n \in Good
  <2> SUFFICES ASSUME NEW T \in SUBSET U, Cardinality(T) = n, NEW x \in T
               PROVE  g[T] = f[x] + g[T \ {x}]
    OBVIOUS
  <2> DEFINE y == AnyOf(T)
  <2>1. y \in T /\ g[T] = f[y] + g[T \ {y}]
    BY DEF AnyOf, Sums, Recurs
  <2> HIDE DEF y
  <2>2. CASE x = y
    BY <2>1, <2>2
  <2>3. CASE x # y
    <3>1. /\ T \ {x} \in SUBSET U /\ Cardinality(T \ {x}) = n - 1
          /\ T \ {y} \in SUBSET U /\ Cardinality(T \ {y}) = n - 1
      BY <2>1, Subsets
    <3>2. g[T \ {y}] = f[x] + g[(T \ {y}) \ {x}]
      BY <1>3, <2>3, <3>1
    <3>3. g[T \ {x}] = f[y] + g[(T \ {x}) \ {y}]
      BY <1>3, <2>1, <2>3, <3>1
    <3>4. (T \ {x}) \ {y} = (T \ {y}) \ {x} /\ (T \ {x}) \ {y} \in SUBSET U
      OBVIOUS
    <3>5. f[x] \in Int /\ f[y] \in Int /\ g[(T \ {y}) \ {x}] \in Int
      BY <2>1, <3>4 DEF Sums, Recurs
    <3>6. \A a, b, c \in Int : a + (b + c) = b + (a + c)
      OBVIOUS
    <3>7. g[T] = f[y] + (f[x] + g[(T \ {y}) \ {x}])
      BY <2>1, <3>2
    <3>8. f[x] + g[T \ {x}] = f[x] + (f[y] + g[(T \ {y}) \ {x}])
      BY <3>3, <3>4
    <3> HIDE DEF Good
    <3> QED
      BY <3>5, <3>6, <3>7, <3>8
  <2> QED
    BY <2>2, <2>3
<1>4. \A n \in 0 .. N : n \in Good
  <2> HIDE DEF Good, N
  <2> QED
    BY <1>1, <1>2, <1>3, Climb
<1> QED
  BY <1>4, Subsets

\* Two sums agree on what both are sums of.
LEMMA SumsAgree ==
  ASSUME NEW U, IsFiniteSet(U), NEW f \in [U -> Int], NEW g, Sums(g, f, U),
         NEW V, V \subseteq U, NEW h, Recurs(h, f, V)
  PROVE  \A T \in SUBSET V : h[T] = g[T]
<1> DEFINE N == Cardinality(U)
           Good == {n \in 0 .. N : \A T \in SUBSET V : Cardinality(T) = n => h[T] = g[T]}
<1>1. N \in Nat
  BY FS_CardinalityType
<1>2. 0 \in Good
  <2>1. \A T \in SUBSET V : Cardinality(T) = 0 => T = {}
    BY Subsets
  <2>2. h[{}] = g[{}]
    BY DEF Sums, Recurs
  <2> QED
    BY <1>1, <2>1, <2>2
<1>3. ASSUME NEW n \in 1 .. N, n - 1 \in Good PROVE n \in Good
  <2> SUFFICES ASSUME NEW T \in SUBSET V, Cardinality(T) = n PROVE h[T] = g[T]
    OBVIOUS
  <2>1. T \in SUBSET U /\ T # {}
    BY FS_EmptySet
  <2>2. AnyOf(T) \in T /\ T \ {AnyOf(T)} \in SUBSET V /\ Cardinality(T \ {AnyOf(T)}) = n - 1
    BY <2>1, Subsets
  <2>3. h[T \ {AnyOf(T)}] = g[T \ {AnyOf(T)}]
    BY <1>3, <2>2
  <2> QED
    BY <2>1, <2>2, <2>3 DEF Sums, Recurs
<1>4. \A n \in 0 .. N : n \in Good
  <2> HIDE DEF Good, N
  <2> QED
    BY <1>1, <1>2, <1>3, Climb
<1> QED
  BY <1>4, Subsets

\* The sum of f over U.
Total(f, U) == (CHOOSE g : Sums(g, f, U))[U]

LEMMA TotalIs ==
  ASSUME NEW U, IsFiniteSet(U), NEW f \in [U -> Int]
  PROVE  /\ Sums(CHOOSE g : Sums(g, f, U), f, U)
         /\ Total(f, U) \in Int
         /\ \A g : Sums(g, f, U) => Total(f, U) = g[U]
<1>1. Sums(CHOOSE g : Sums(g, f, U), f, U)
  BY SumsExist
<1> DEFINE c == CHOOSE g : Sums(g, f, U)
<1>2. Sums(c, f, U) /\ Total(f, U) = c[U]
  BY <1>1 DEF Total
<1> HIDE DEF c
<1>3. c[U] \in Int
  BY <1>2 DEF Sums, Recurs
<1>4. ASSUME NEW g, Sums(g, f, U) PROVE c[U] = g[U]
  BY <1>2, <1>4, SumsAgree DEF Sums
<1> QED
  BY <1>1, <1>2, <1>3, <1>4

\* What the recursion of MapThenFoldSet computes is the sum.
LEMMA RecursionSums ==
  ASSUME NEW U, IsFiniteSet(U), NEW f \in [U -> Int], NEW iter, Recurs(iter, f, U)
  PROVE  Total(f, U) = iter[U]
<1>1. PICK g : Sums(g, f, U)
  BY SumsExist
<1>2. iter[U] = g[U]
  BY <1>1, SumsAgree
<1> QED
  BY <1>1, <1>2, TotalIs

\* One value changes.
LEMMA TotalChanges ==
  ASSUME NEW U, IsFiniteSet(U), NEW f \in [U -> Int], NEW h \in [U -> Int], NEW i \in U,
         \A j \in U \ {i} : h[j] = f[j]
  PROVE  Total(h, U) = Total(f, U) - f[i] + h[i]
<1>1. PICK g : Sums(g, f, U)
  BY SumsExist
<1>2. PICK k : Sums(k, h, U)
  BY SumsExist
<1>3. g[U] = f[i] + g[U \ {i}] /\ k[U] = h[i] + k[U \ {i}]
  BY <1>1, <1>2, AnyOrder
<1> DEFINE V == U \ {i}
<1>4. k[V] = g[V]
  <2> DEFINE Smaller(m) == [T \in SUBSET V |-> m[T]]
  <2>1. Sums(Smaller(k), f, V)
    <3>1. Smaller(k) \in [SUBSET V -> Int] /\ Smaller(k)[{}] = 0
      BY <1>2 DEF Sums, Recurs
    <3>2. ASSUME NEW T \in SUBSET V, T # {}
          PROVE  Smaller(k)[T] = f[AnyOf(T)] + Smaller(k)[T \ {AnyOf(T)}]
      <4>1. AnyOf(T) \in V
        BY <3>2 DEF AnyOf
      <4>2. k[T] = h[AnyOf(T)] + k[T \ {AnyOf(T)}]
        BY <1>2, <3>2 DEF Sums, Recurs
      <4> QED
        BY <4>1, <4>2
    <3> QED
      BY <3>1, <3>2 DEF Sums, Recurs
  <2>2. V \in SUBSET U /\ V \in SUBSET V
    OBVIOUS
  <2>3. \A T \in SUBSET V : Smaller(k)[T] = g[T]
    <3>1. Recurs(Smaller(k), f, V)
      BY <2>1 DEF Sums
    <3>2. V \subseteq U
      OBVIOUS
    <3> HIDE DEF Smaller, V
    <3> QED
      BY <1>1, <3>1, <3>2, SumsAgree
  <2>4. Smaller(k)[V] = k[V]
    OBVIOUS
  <2> QED
    BY <2>2, <2>3, <2>4
<1>5. Total(f, U) = g[U] /\ Total(h, U) = k[U]
  BY <1>1, <1>2, TotalIs
<1>6. g[V] \in Int /\ f[i] \in Int /\ h[i] \in Int
  BY <1>1 DEF Sums, Recurs
<1> HIDE DEF V
<1>7. g[U] = f[i] + g[V] /\ k[U] = h[i] + g[V]
  BY <1>3, <1>4 DEF V
<1> QED
  BY <1>5, <1>6, <1>7

\* Only what is not zero counts.
LEMMA TotalOfPart ==
  ASSUME NEW U, IsFiniteSet(U), NEW f \in [U -> Int], NEW V \in SUBSET U, NEW e \in [V -> Int],
         \A j \in V : e[j] = f[j], \A j \in U \ V : f[j] = 0
  PROVE  Total(e, V) = Total(f, U)
<1>0. IsFiniteSet(V)
  BY FS_Subset
<1>1. PICK g : Sums(g, f, U)
  BY SumsExist
<1>2. PICK k : Sums(k, e, V)
  BY <1>0, SumsExist
<1>3. k[V] = g[V]
  <2>1. Recurs(k, f, V)
    BY <1>0, <1>2, Subsets DEF Sums, Recurs
  <2>2. \A T \in SUBSET V : k[T] = g[T]
    <3>1. V \subseteq U
      OBVIOUS
    <3> QED
      BY <1>1, <2>1, <3>1, SumsAgree
  <2>3. V \in SUBSET V
    OBVIOUS
  <2> QED
    BY <2>2, <2>3
<1> DEFINE h == [T \in SUBSET U |-> g[T \cap V]]
<1>4. Recurs(h, f, U)
  <2>1. h[{}] = 0
    BY <1>1 DEF Sums, Recurs
  <2> SUFFICES ASSUME NEW T \in SUBSET U, T # {} PROVE h[T] = f[AnyOf(T)] + h[T \ {AnyOf(T)}]
    BY <2>1 DEF Recurs
  <2> DEFINE x == AnyOf(T)
  <2>2. x \in T
    BY DEF AnyOf
  <2> HIDE DEF x
  <2>3. h[T] = g[T \cap V] /\ h[T \ {x}] = g[(T \ {x}) \cap V]
    OBVIOUS
  <2>4. CASE x \in V
    <3>1. T \cap V \in SUBSET U /\ x \in T \cap V /\ (T \cap V) \ {x} = (T \ {x}) \cap V
      BY <2>2, <2>4
    <3>2. g[T \cap V] = f[x] + g[(T \cap V) \ {x}]
      BY <1>1, <3>1, AnyOrder
    <3> QED
      BY <2>3, <3>1, <3>2 DEF x
  <2>5. CASE x \notin V
    <3>1. (T \ {x}) \cap V = T \cap V /\ f[x] = 0
      BY <2>2, <2>5
    <3>2. g[T \cap V] \in Int
      BY <1>1 DEF Sums
    <3>3. h[T \ {x}] = g[T \cap V] /\ f[x] = 0
      BY <2>3, <3>1
    <3> HIDE DEF h
    <3> QED
      BY <2>3, <3>2, <3>3 DEF x
  <2> QED
    BY <2>4, <2>5
<1>5. h[U] = g[U]
  <2> HIDE DEF h
  <2> QED
    BY <1>1, <1>4, SumsAgree
<1>6. h[U] = g[V]
  <2>1. U \cap V = V
    OBVIOUS
  <2> QED
    BY <2>1
<1>10. Total(e, V) = k[V] /\ Total(f, U) = g[U]
  BY <1>0, <1>1, <1>2, TotalIs
<1> QED
  BY <1>3, <1>5, <1>6, <1>10

\* A sum of zeros is zero.
LEMMA TotalOfNothing ==
  ASSUME NEW U, IsFiniteSet(U), NEW f \in [U -> Int], \A j \in U : f[j] = 0
  PROVE  Total(f, U) = 0
<1>1. PICK g : Sums(g, f, U)
  BY SumsExist
<1>2. Total(f, U) = g[U]
  BY <1>1, TotalIs
<1> DEFINE h == [T \in SUBSET U |-> 0]
<1>3. Recurs(h, f, U)
  BY Subsets DEF Recurs
<1>4. h[U] = g[U]
  <2> HIDE DEF h
  <2> QED
    BY <1>1, <1>3, SumsAgree
<1> QED
  BY <1>2, <1>4

-----------------------------------------------------------------------------
(* The pieces and the gold of an account, as sums                          *)

\* The rows of an account, each for what it holds, and nothing for those of others.
PieceOf(a, row) == IF \/ row.window = "box" /\ row.owner = a
                      \/ row.window = "bag" /\ row.owner \in CharactersOf(a)
                   THEN row.count ELSE 0
PiecesOf(table, a) == [i \in Items |-> PieceOf(a, table[i])]

LEMMA PiecesAre ==
  ASSUME NEW table \in [Items -> Rows], NEW a \in Accounts
  PROVE  PiecesOf(table, a) \in [Items -> Int]
<1>1. \A i \in Items : table[i].count \in Int
  BY LimitsAssumption DEF Rows, NoRow
<1> QED
  BY <1>1 DEF PiecesOf, PieceOf

\* What Things counts is the sum of these.
LEMMA ThingsAre ==
  ASSUME NEW table \in [Items -> Rows], NEW a \in Accounts
  PROVE  Things(table, a) = Total(PiecesOf(table, a), Items)
<1> DEFINE S == Owned(table, a, "box") \cup UNION {Owned(table, p, "bag") : p \in CharactersOf(a)}
           f == [i \in S |-> table[i].count]
           Rec(g) == [T \in SUBSET S |-> IF T = {} THEN 0 ELSE table[AnyOf(T)].count + g[T \ {AnyOf(T)}]]
           iter == CHOOSE g : g = Rec(g)
<1>1. S \in SUBSET Items /\ IsFiniteSet(S) /\ IsFiniteSet(Items)
  <2>1. S \in SUBSET Items
    BY DEF Owned
  <2> HIDE DEF S
  <2> QED
    BY <2>1, FiniteAssumption, FS_Subset
<1>2. f \in [S -> Int]
  <2>1. \A i \in Items : table[i].count \in Int
    BY LimitsAssumption DEF Rows, NoRow
  <2> HIDE DEF S
  <2> QED
    BY <1>1, <2>1
<1>3. Things(table, a) = iter[S]
  BY Zenon DEF Things, FoldFunctionOnSet, MapThenFoldSet, AnyOf
<1>4. \A T \in SUBSET S : T # {} => f[AnyOf(T)] = table[AnyOf(T)].count
  <2> HIDE DEF S
  <2> QED
    BY <1>1, Subsets
<1>5. PICK g : Sums(g, f, S)
  <2> HIDE DEF S, f
  <2> QED
    BY <1>1, <1>2, SumsExist
<1>6. g = Rec(g)
  <2> HIDE DEF S, f
  <2> QED
    BY <1>4, <1>5 DEF Sums, Recurs
<1>7. iter = Rec(iter)
  <2> HIDE DEF Rec
  <2> QED
    BY <1>6
<1>8. Recurs(iter, f, S)
  <2> HIDE DEF iter, S, f
  <2> QED
    BY <1>4, <1>7 DEF Recurs
<1>9. iter[S] = Total(f, S)
  <2> HIDE DEF iter, S, f
  <2> QED
    BY <1>1, <1>2, <1>8, RecursionSums
<1>10. /\ \A i \in S : f[i] = PiecesOf(table, a)[i]
       /\ \A i \in Items \ S : PiecesOf(table, a)[i] = 0
  BY DEF Owned, PiecesOf, PieceOf
<1>11. Total(f, S) = Total(PiecesOf(table, a), Items)
  <2> HIDE DEF S, f
  <2> QED
    BY <1>1, <1>2, <1>10, PiecesAre, TotalOfPart
<1> QED
  BY <1>3, <1>9, <1>11

\* The gold of the characters of an account.
LEMMA GoldsAre ==
  ASSUME NEW table \in [Players -> Int], NEW a \in Accounts
  PROVE  /\ MapThenSumSet(LAMBDA p : table[p], CharactersOf(a))
              = Total([p \in CharactersOf(a) |-> table[p]], CharactersOf(a))
         /\ IsFiniteSet(CharactersOf(a)) /\ CharactersOf(a) \subseteq Players
<1> DEFINE S == CharactersOf(a)
           f == [p \in S |-> table[p]]
           Rec(g) == [T \in SUBSET S |-> IF T = {} THEN 0 ELSE table[AnyOf(T)] + g[T \ {AnyOf(T)}]]
           iter == CHOOSE g : g = Rec(g)
<1>1. S \subseteq Players /\ IsFiniteSet(S)
  <2>1. S \subseteq Players
    BY DEF CharactersOf
  <2> HIDE DEF S
  <2> QED
    BY <2>1, FiniteAssumption, FS_Subset
<1>2. f \in [S -> Int]
  <2> HIDE DEF S
  <2> QED
    BY <1>1
<1>3. MapThenSumSet(LAMBDA p : table[p], S) = iter[S]
  BY Zenon DEF MapThenSumSet, MapThenFoldSet, AnyOf
<1>4. \A T \in SUBSET S : T # {} => f[AnyOf(T)] = table[AnyOf(T)]
  <2> HIDE DEF S
  <2> QED
    BY <1>1, Subsets
<1>5. PICK g : Sums(g, f, S)
  <2> HIDE DEF S, f
  <2> QED
    BY <1>1, <1>2, SumsExist
<1>6. g = Rec(g)
  <2> HIDE DEF S, f
  <2> QED
    BY <1>4, <1>5 DEF Sums, Recurs
<1>7. iter = Rec(iter)
  <2> HIDE DEF Rec
  <2> QED
    BY <1>6
<1>8. Recurs(iter, f, S)
  <2> HIDE DEF iter, S, f
  <2> QED
    BY <1>4, <1>7 DEF Recurs
<1>9. iter[S] = Total(f, S)
  <2> HIDE DEF iter, S, f
  <2> QED
    BY <1>1, <1>2, <1>8, RecursionSums
<1> QED
  BY <1>1, <1>3, <1>9

-----------------------------------------------------------------------------
(* No piece is lost                                                        *)

Pieces(a) == Total(PiecesOf(rows, a), Items)
InTransit(a) == IF at[a] = "stack.dst" THEN op[a].add ELSE 0
Torn == excuses \cap {"torn", "shifted", "wiped"} # {}

\* What a handler has in hand is what the row of the item says.
FlightCounts ==
  "wiped" \notin excuses => \A a \in Accounts : at[a] \in Flying => rows[op[a].item].count = op[a].count

\* What an account has, and what its handler is pouring, is what it had.
ThingsBalance ==
  ~Torn => \A a \in Accounts :
             Whole(a) => Pieces(a) + InTransit(a) = Total(PiecesOf(FirstRows, a), Items)

TInv == SbInv /\ FlightCounts /\ ThingsBalance

LEMMA PiecesType ==
  ASSUME TypeOK, NEW a \in Accounts
  PROVE  /\ PiecesOf(rows, a) \in [Items -> Int]
         /\ Pieces(a) \in Int /\ InTransit(a) \in Int
         /\ Total(PiecesOf(FirstRows, a), Items) \in Int
<1>1. PiecesOf(rows, a) \in [Items -> Int] /\ PiecesOf(FirstRows, a) \in [Items -> Int]
  BY PiecesAre, FirstAssumption DEF TypeOK
<1>2. op[a].add \in Int
  BY LimitsAssumption DEF TypeOK, Ops
<1> QED
  BY <1>1, <1>2, FiniteAssumption, TotalIs DEF Pieces, InTransit

\* One row changes.
LEMMA RowChanges ==
  ASSUME TypeOK, TypeOK', NEW a \in Accounts, NEW i \in Items,
         \A j \in Items \ {i} : rows'[j] = rows[j]
  PROVE  Pieces(a)' = Pieces(a) - PieceOf(a, rows[i]) + PieceOf(a, rows'[i])
<1> DEFINE f == PiecesOf(rows, a)
           h == PiecesOf(rows', a)
<1>1. f \in [Items -> Int] /\ h \in [Items -> Int]
  BY PiecesAre DEF TypeOK
<1>2. \A j \in Items : f[j] = PieceOf(a, rows[j]) /\ h[j] = PieceOf(a, rows'[j])
  BY DEF PiecesOf
<1>3. \A j \in Items \ {i} : h[j] = f[j]
  BY <1>2
<1>4. Pieces(a) = Total(f, Items) /\ Pieces(a)' = Total(h, Items)
  BY DEF Pieces
<1> HIDE DEF f, h
<1>5. Total(h, Items) = Total(f, Items) - f[i] + h[i]
  BY <1>1, <1>3, FiniteAssumption, TotalChanges
<1> QED
  BY <1>2, <1>4, <1>5

\* A row of a session counts for its account only.
LEMMA OwnPieces ==
  ASSUME TypeOK, NEW a \in Accounts, NEW b \in Accounts, Formed(a), Live(a), NEW row,
         row = NoRow \/ BagRow(a, row) \/ BoxRow(a, row)
  PROVE  PieceOf(b, row) = IF b = a THEN row.count ELSE 0
<1>1. play[a] # NoPlayer /\ AccountOf[play[a]] = a /\ play[a] \in Players
  BY DEF Formed, Live, Busy, Flying, TypeOK
<1>2. CASE row = NoRow
  BY <1>2 DEF PieceOf, NoRow
<1>3. CASE BagRow(a, row)
  BY <1>1, <1>3 DEF PieceOf, BagRow, CharactersOf
<1>4. CASE BoxRow(a, row)
  BY <1>4 DEF PieceOf, BoxRow
<1> QED
  BY <1>2, <1>3, <1>4

\* A step that touches no row and begins no flight.
Calm ==
  /\ rows' = rows /\ excuses \subseteq excuses'
  /\ \A p \in Players : gold[p] = Gone => gold'[p] = Gone
  /\ \A a \in Accounts : at'[a] \in Flying => at[a] \in Flying /\ op'[a] = op[a]
  /\ ~Torn' => \A a \in Accounts : InTransit(a)' = InTransit(a)

LEMMA PiecesStay ==
  ASSUME rows' = rows, NEW a \in Accounts
  PROVE  Pieces(a)' = Pieces(a)
<1>1. PiecesOf(rows', a) = PiecesOf(rows, a)
  OBVIOUS
<1> QED
  BY <1>1 DEF Pieces

LEMMA CalmKeeps ==
  ASSUME TInv, SbInv', Calm
  PROVE  TInv'
<1>1. FlightCounts'
  BY DEF Calm, TInv, FlightCounts
<1>2. ThingsBalance'
  <2> SUFFICES ASSUME ~Torn', NEW a \in Accounts, Whole(a)'
               PROVE  Pieces(a)' + InTransit(a)' = Total(PiecesOf(FirstRows, a), Items)
    BY DEF ThingsBalance
  <2>1. ~Torn /\ Whole(a)
    <3>1. CharactersOf(a) \subseteq Players
      BY DEF CharactersOf
    <3> QED
      BY <3>1 DEF Torn, Calm, Whole
  <2>2. InTransit(a)' = InTransit(a)
    BY DEF Calm
  <2>3. Pieces(a)' = Pieces(a)
    BY PiecesStay DEF Calm
  <2> QED
    BY <2>1, <2>2, <2>3 DEF TInv, ThingsBalance
<1> QED
  BY <1>1, <1>2 DEF TInv

\* The steps of sessions that do.
LEMMA CalmSteps ==
  ASSUME TInv, NEW a \in Accounts,
         \/ \E p \in Players : Enter(a, p)
         \/ Open(a) \/ \E r \in Results : CloseBox(a, r) \/ MoneyWrite(a, r) \/ End(a, r)
         \/ \E i, j \in Items, want \in 0 .. CountLimit : Stack(a, i, j, want)
         \/ \E n \in -GoldMax .. GoldMax : Money(a, n)
         \/ \E size \in 0 .. MaxSize, r \in Results : SetSize(a, size, r)
         \/ ChangePassword(a) \/ Disconnect(a) \/ LastSave(a) \/ StackPanics(a)
  PROVE  Calm
<1>0. at \in [Accounts -> Phases] /\ op \in [Accounts -> Ops]
  BY DEF TInv, SbInv, TypeOK
<1>1. ASSUME UNCHANGED <<rows, gold>>, excuses \subseteq excuses', NEW o, op' = [op EXCEPT ![a] = o],
             NEW phase, Goto(a, phase), phase \notin Flying, phase # "stack.dst", at[a] # "stack.dst"
      PROVE  Calm
  <2>1. \A b \in Accounts \ {a} : at'[b] = at[b] /\ op'[b] = op[b]
    BY <1>0, <1>1 DEF Goto
  <2>2. at'[a] = phase
    BY <1>0, <1>1 DEF Goto
  <2>3. \A b \in Accounts : InTransit(b)' = InTransit(b)
    BY <1>1, <2>1, <2>2 DEF InTransit
  <2> QED
    BY <1>1, <2>1, <2>2, <2>3 DEF Calm
<1>2. ASSUME UNCHANGED <<rows, gold, op, at>>, excuses \subseteq excuses'
      PROVE  Calm
  <2>1. \A b \in Accounts : InTransit(b)' = InTransit(b)
    BY <1>2 DEF InTransit
  <2> QED
    BY <1>2, <2>1 DEF Calm
<1>3. op = [op EXCEPT ![a] = op[a]]
  BY <1>0
<1>4. CASE \E p \in Players : Enter(a, p)
  BY <1>1, <1>3, <1>4 DEF Enter, database, Excuse, Flying
<1>5. CASE Open(a)
  BY <1>2, <1>5 DEF Open, database
<1>6. CASE \E r \in Results : CloseBox(a, r)
  BY <1>2, <1>6 DEF CloseBox, Shut, Excuse
<1>7. CASE \E r \in Results : MoneyWrite(a, r)
  <2> PICK r \in Results : MoneyWrite(a, r)
    BY <1>7
  <2> DEFINE phase == IF r = "ok" THEN "game" ELSE "end"
  <2>1. phase \in {"game", "end"} /\ Goto(a, phase)
    BY DEF MoneyWrite
  <2> HIDE DEF phase
  <2> QED
    BY <1>1, <1>3, <2>1 DEF MoneyWrite, Flying
<1>8. CASE \E r \in Results : End(a, r)
  <2>1. excuses \subseteq excuses'
    BY <1>8 DEF End, Shut, Excuse
  <2> QED
    BY <1>1, <1>3, <1>8, <2>1 DEF End, Flying
<1>9. CASE \E i, j \in Items, want \in 0 .. CountLimit : Stack(a, i, j, want)
  <2> PICK i \in Items, j \in Items, want \in 0 .. CountLimit : Stack(a, i, j, want)
    BY <1>9
  <2> QED
    BY <1>1 DEF Stack, Begin, database, Flying
<1>10. CASE \E n \in -GoldMax .. GoldMax : Money(a, n)
  BY <1>1, <1>3, <1>10 DEF Money, Excuse, Flying
<1>11. CASE \E size \in 0 .. MaxSize, r \in Results : SetSize(a, size, r)
  <2> PICK size \in 0 .. MaxSize, r \in Results : SetSize(a, size, r)
    BY <1>11
  <2> DEFINE phase == IF r = "ok" THEN "game" ELSE "end"
  <2>1. phase \in {"game", "end"} /\ Goto(a, phase)
    BY DEF SetSize
  <2> HIDE DEF phase
  <2> QED
    BY <1>1, <1>3, <2>1 DEF SetSize, Excuse, Flying
<1>12. CASE ChangePassword(a)
  BY <1>2, <1>12 DEF ChangePassword, session
<1>13. CASE Disconnect(a)
  BY <1>1, <1>3, <1>13 DEF Disconnect, database, Flying
<1>14. CASE LastSave(a)
  BY <1>1, <1>14 DEF LastSave, Flying
<1>15. CASE StackPanics(a)
  <2>1. /\ UNCHANGED <<rows, gold, excuses>> /\ at' = [at EXCEPT ![a] = "off"]
        /\ op' = [op EXCEPT ![a] = NoOp] /\ at[a] = "stack.dst" /\ op[a].onto = 0
    BY <1>15 DEF StackPanics, database, Goto
  <2>2. Torn'
    BY <2>1 DEF TInv, SbInv, Local, Formed, Torn
  <2>3. at'[a] \notin Flying /\ \A b \in Accounts \ {a} : at'[b] = at[b] /\ op'[b] = op[b]
    BY <1>0, <2>1 DEF Flying
  <2> QED
    BY <2>1, <2>2, <2>3 DEF Calm
<1> QED
  BY <1>4, <1>5, <1>6, <1>7, <1>8, <1>9, <1>10, <1>11, <1>12, <1>13, <1>14, <1>15

LEMMA CalmWorld ==
  ASSUME TInv, Commit \/ Crash \/ UNCHANGED vars
  PROVE  Calm
<1>0. TypeOK
  BY DEF TInv, SbInv
<1>1. CASE Commit
  <2>1. queue \in Seq(Saves) /\ queue # <<>> /\ gold \in [Players -> Golds \cup {Gone}]
    BY <1>0, <1>1 DEF Commit, TypeOK
  <2>2. Head(queue) \in Saves
    BY <2>1
  <2>3. \A p \in Players : gold[p] = Gone => gold'[p] = Gone
    BY <1>1, <2>1, <2>2, ApplyType DEF Commit
  <2>4. UNCHANGED <<at, op, rows, excuses>>
    BY <1>1 DEF Commit, session
  <2> QED
    BY <2>3, <2>4 DEF Calm, InTransit
<1>2. CASE Crash
  <2>1. \A p \in Players : gold[p] = Gone => gold'[p] = Gone
    BY <1>0, <1>2, AppliedType DEF Crash
  <2>2. /\ rows' = rows /\ excuses \subseteq excuses' /\ \A b \in Accounts : at'[b] = "off"
        /\ (\E b \in Accounts : at[b] = "stack.dst") => "torn" \in excuses'
    BY <1>2 DEF Crash, Excuse
  <2> QED
    BY <2>1, <2>2 DEF Calm, InTransit, Torn, Flying
<1>3. CASE UNCHANGED vars
  <2>1. UNCHANGED <<at, op, rows, gold, excuses>>
    BY <1>3 DEF vars, session, database
  <2> QED
    BY <2>1 DEF Calm, InTransit
<1> QED
  BY <1>1, <1>2, <1>3

\* A handler takes an item in hand.
LEMMA TakenCounts ==
  ASSUME TInv, SbInv', NEW a \in Accounts, NEW i \in Items, NEW pos, NEW phase \in Flying,
         at[a] = "game", mem[a][i] # NoSpot,
         Begin(a, phase, Carry(i, pos, mem[a][i].count))
  PROVE  TInv'
<1> DEFINE o == Carry(i, pos, mem[a][i].count)
<1>0. TypeOK /\ SbInv
  BY DEF TInv, SbInv
<1>1. UNCHANGED <<rows, gold, excuses>> /\ op' = [op EXCEPT ![a] = o] /\ at' = [at EXCEPT ![a] = phase]
  BY DEF Begin, database, Goto
<1>2. o.item = i /\ o.count = mem[a][i].count
  BY DEF Carry
<1> HIDE DEF o
<1>3. /\ at'[a] = phase /\ op'[a] = o
      /\ \A b \in Accounts \ {a} : at'[b] = at[b] /\ op'[b] = op[b]
  BY <1>0, <1>1 DEF TypeOK
<1>4. "wiped" \notin excuses => rows[i].count = mem[a][i].count
  <2> SUFFICES ASSUME "wiped" \notin excuses PROVE rows[i].count = mem[a][i].count
    OBVIOUS
  <2>1. Has(a, i) /\ ~InFlight(a, i)
    BY DEF Has, Live, InFlight, Flying
  <2>2. Mine(a, i)
    BY <1>0, <2>1, HeldIsMine DEF Wiped
  <2>3. mem[a][i] = SpotOf(rows[i])
    BY <1>0, <2>1, <2>2 DEF SbInv, Local, Agrees, AgreesOn, Has
  <2> QED
    BY <2>3 DEF SpotOf
<1>5. FlightCounts'
  <2> SUFFICES ASSUME "wiped" \notin excuses, NEW b \in Accounts, at'[b] \in Flying
               PROVE  rows[op'[b].item].count = op'[b].count
    BY <1>1 DEF FlightCounts
  <2>1. CASE b = a
    BY <1>2, <1>3, <1>4, <2>1
  <2>2. CASE b # a
    BY <1>3, <2>2 DEF TInv, FlightCounts
  <2> QED
    BY <2>1, <2>2
<1>6. \A b \in Accounts : InTransit(b)' = InTransit(b)
  BY <1>3 DEF InTransit, Flying
<1>7. ThingsBalance'
  <2> SUFFICES ASSUME ~Torn', NEW b \in Accounts, Whole(b)'
               PROVE  Pieces(b)' + InTransit(b)' = Total(PiecesOf(FirstRows, b), Items)
    BY DEF ThingsBalance
  <2>1. ~Torn /\ Whole(b)
    BY <1>1 DEF Torn, Whole
  <2>2. Pieces(b)' = Pieces(b)
    BY <1>1, PiecesStay
  <2> QED
    BY <1>6, <2>1, <2>2 DEF TInv, ThingsBalance
<1> QED
  BY <1>5, <1>7 DEF TInv

\* The flight of others stays as it is when a session writes a row that it has.
LEMMA FlightsStay ==
  ASSUME TInv, SbInv', NEW a \in Accounts, NEW i \in Items, Has(a, i),
         \A j \in Items \ {i} : rows'[j] = rows[j], "wiped" \in excuses => "wiped" \in excuses',
         \A b \in Accounts \ {a} : at'[b] = at[b] /\ op'[b] = op[b], at'[a] \notin Flying
  PROVE  FlightCounts'
<1> SUFFICES ASSUME "wiped" \notin excuses', NEW b \in Accounts, at'[b] \in Flying
             PROVE  rows'[op'[b].item].count = op'[b].count
  BY DEF FlightCounts
<1>1. b # a /\ at[b] \in Flying /\ op'[b] = op[b]
  OBVIOUS
<1>2. op[b].item \in Items
  BY <1>1 DEF TInv, SbInv, Local, Formed
<1>3. Has(b, op[b].item)
  BY <1>1 DEF Has, InFlight, Live, Busy
<1>4. op[b].item # i
  BY <1>1, <1>2, <1>3 DEF TInv, SbInv, OneHolder
<1> QED
  BY <1>1, <1>2, <1>4 DEF TInv, FlightCounts

\* A session writes a row that it has: what its account gains in rows its handler loses.
LEMMA WrittenBalances ==
  ASSUME TInv, SbInv', NEW a \in Accounts, NEW i \in Items, Has(a, i),
         \A j \in Items \ {i} : rows'[j] = rows[j],
         excuses \subseteq excuses', UNCHANGED gold,
         \A b \in Accounts \ {a} : at'[b] = at[b] /\ op'[b] = op[b],
         rows'[i] = NoRow \/ BagRow(a, rows'[i]) \/ BoxRow(a, rows'[i]),
         ~Torn' => rows'[i].count + InTransit(a)' = rows[i].count + InTransit(a)
  PROVE  ThingsBalance'
<1>0. TypeOK /\ TypeOK' /\ SbInv /\ Formed(a) /\ Live(a)
  BY DEF TInv, SbInv, Local, Has
<1> SUFFICES ASSUME ~Torn', NEW b \in Accounts, Whole(b)'
             PROVE  Pieces(b)' + InTransit(b)' = Total(PiecesOf(FirstRows, b), Items)
  BY DEF ThingsBalance
<1>1. ~Torn /\ Whole(b)
  BY DEF Torn, Whole
<1>2. Mine(a, i)
  BY <1>0, <1>1, HeldIsMine DEF Wiped, Torn
<1>3. /\ PieceOf(b, rows[i]) = IF b = a THEN rows[i].count ELSE 0
      /\ PieceOf(b, rows'[i]) = IF b = a THEN rows'[i].count ELSE 0
  <2>1. BagRow(a, rows[i]) \/ BoxRow(a, rows[i])
    BY <1>2 DEF Mine
  <2> QED
    BY <1>0, <2>1, OwnPieces
<1>4. Pieces(b)' = Pieces(b) - PieceOf(b, rows[i]) + PieceOf(b, rows'[i])
  BY <1>0, RowChanges
<1>5. Pieces(b) + InTransit(b) = Total(PiecesOf(FirstRows, b), Items)
  BY <1>1 DEF TInv, ThingsBalance
<1>6. Pieces(b) \in Int /\ InTransit(b) \in Int /\ InTransit(b)' \in Int
  <2>1. op'[b].add \in Int
    BY <1>0, LimitsAssumption DEF TypeOK, Ops
  <2> QED
    BY <1>0, <2>1, PiecesType DEF InTransit
<1>7. rows[i].count \in Int /\ rows'[i].count \in Int
  BY <1>0, LimitsAssumption DEF TypeOK, Rows, NoRow
<1>8. CASE b = a
  BY <1>3, <1>4, <1>5, <1>6, <1>7, <1>8
<1>9. CASE b # a
  <2>1. InTransit(b)' = InTransit(b)
    BY <1>9 DEF InTransit
  <2> QED
    BY <2>1, <1>3, <1>4, <1>5, <1>6, <1>9
<1> QED
  BY <1>8, <1>9

LEMMA ItemWritesBalance ==
  ASSUME TInv, SbInv', NEW a \in Accounts, NEW r \in Results,
         CheckinWrite(a, r) \/ CheckoutWrite(a, r) \/ MoveWrite(a, r)
  PROVE  TInv'
<1>0. TypeOK /\ SbInv /\ Formed(a)
  BY DEF TInv, SbInv, Local
<1>1. PICK row :
         /\ row = Row(play[a], "bag", op[a]) \/ row = Row(a, "box", op[a])
         /\ Write(a, row, r) /\ at[a] \in Flying /\ UNCHANGED <<excuses, gold>>
  BY DEF CheckinWrite, CheckoutWrite, MoveWrite, Flying
<1>2. PICK i \in Items : i = op[a].item
  BY <1>0, <1>1 DEF Formed
<1>3. rows' = rows \/ rows' = [rows EXCEPT ![i] = row]
  BY <1>1, <1>2 DEF Write
<1>4. rows[i] # rows'[i] => rows'[i] = row
  BY <1>0, <1>3 DEF TypeOK
<1>5. row.count = op[a].count /\ (BagRow(a, row) \/ BoxRow(a, row))
  BY <1>1 DEF Row, BagRow, BoxRow
<1>6. /\ at'[a] \in {"game", "end"}
      /\ \A b \in Accounts \ {a} : at'[b] = at[b] /\ op'[b] = op[b]
  BY <1>0, <1>1 DEF Write, Goto, TypeOK
<1>7. Has(a, i)
  BY <1>1, <1>2 DEF Has, InFlight, Live, Busy
<1>8. FlightCounts'
  BY <1>0, <1>1, <1>3, <1>6, <1>7, FlightsStay DEF Flying, TypeOK
<1>9. \A j \in Items \ {i} : rows'[j] = rows[j]
  BY <1>0, <1>3 DEF TypeOK
<1>10. ~Torn' => Mine(a, i)
  BY <1>0, <1>1, <1>7, HeldIsMine DEF Wiped, Torn
<1>11. CASE Torn'
  BY <1>8, <1>11 DEF TInv, ThingsBalance
<1>12. CASE ~Torn'
  <2>1. rows'[i] = NoRow \/ BagRow(a, rows'[i]) \/ BoxRow(a, rows'[i])
    <3>1. BagRow(a, rows[i]) \/ BoxRow(a, rows[i])
      BY <1>10, <1>12 DEF Mine
    <3> QED
      BY <1>4, <1>5, <3>1
  <2>2. rows[i].count = op[a].count
    BY <1>1, <1>2, <1>12 DEF TInv, FlightCounts, Torn
  <2>3. rows'[i].count = rows[i].count
    BY <1>4, <1>5, <2>2
  <2>4. InTransit(a)' = InTransit(a)
    BY <1>1, <1>6 DEF InTransit, Flying
  <2>5. ThingsBalance'
    BY <1>1, <1>6, <1>7, <1>9, <2>1, <2>3, <2>4, WrittenBalances
  <2> QED
    BY <1>8, <2>5 DEF TInv
<1> QED
  BY <1>11, <1>12

\* The row of an item that a session pours is what the session has.
LEMMA PouredIsTheRow ==
  ASSUME SbInv, NEW a \in Accounts, at[a] \in {"stack.src", "stack.dst"}, NEW i \in InBox(a)
  PROVE  /\ Has(a, i) /\ i \in Items /\ mem[a][i].count \in 1 .. CountLimit
         /\ "wiped" \notin excuses => rows[i].count = mem[a][i].count
<1>1. Has(a, i) /\ ~InFlight(a, i) /\ i \in Items
  BY DEF InBox, Has, Live, Busy, InFlight, Flying, NoSpot
<1>2. mem[a][i].count \in 1 .. CountLimit
  BY <1>1, SpotsAre DEF SbInv, InBox
<1>3. ASSUME "wiped" \notin excuses PROVE rows[i].count = mem[a][i].count
  <2>1. Mine(a, i)
    BY <1>1, <1>3, HeldIsMine DEF Wiped
  <2>2. mem[a][i] = SpotOf(rows[i])
    BY <1>1, <2>1 DEF SbInv, Local, Agrees, AgreesOn, Has
  <2> QED
    BY <2>2 DEF SpotOf
<1> QED
  BY <1>1, <1>2, <1>3

LEMMA StackSrcBalances ==
  ASSUME TInv, SbInv', NEW a \in Accounts, NEW r \in Results, StackSrc(a, r)
  PROVE  TInv'
<1> DEFINE i == op[a].item
           left == mem[a][i].count - op[a].add
           spot == IF left = 0 THEN NoSpot ELSE [mem[a][i] EXCEPT !.count = left]
           row == IF left = 0 THEN NoRow ELSE Row(a, "box", spot)
<1>0. TypeOK /\ SbInv /\ Formed(a) /\ at[a] = "stack.src"
  BY DEF TInv, SbInv, Local, StackSrc
<1>1. i \in InBox(a) /\ op[a].add \in 1 .. mem[a][i].count
  BY <1>0 DEF Formed
<1>2. /\ Has(a, i) /\ i \in Items /\ mem[a][i].count \in 1 .. CountLimit
      /\ "wiped" \notin excuses => rows[i].count = mem[a][i].count
  BY <1>0, <1>1, PouredIsTheRow
<1>3. (row = NoRow \/ BoxRow(a, row)) /\ row.count = left
  <2>1. CASE left = 0
    BY <2>1 DEF NoRow
  <2>2. CASE left # 0
    <3>1. spot.count = left
      BY <1>0, <1>2, <2>2, SpotsAre DEF Spots, NoSpot
    <3>2. row = Row(a, "box", spot)
      BY <2>2
    <3> HIDE DEF spot, row
    <3> QED
      BY <3>1, <3>2 DEF Row, BoxRow
  <2> QED
    BY <2>1, <2>2
<1>4. rows' = IF ~Happens(r) THEN rows ELSE [rows EXCEPT ![i] = row]
  BY DEF StackSrc
<1>5. UNCHANGED gold /\ excuses \subseteq excuses' /\ (r = "unknown" => "torn" \in excuses')
  BY DEF StackSrc, Shift, Excuse
<1>6. /\ at'[a] = IF r = "ok" THEN "stack.dst" ELSE "end"
      /\ \A b \in Accounts \ {a} : at'[b] = at[b] /\ op'[b] = op[b]
      /\ op'[a].add = op[a].add
  <2>1. at'[a] = (IF r = "ok" THEN "stack.dst" ELSE "end") /\ \A b \in Accounts \ {a} : at'[b] = at[b]
    BY <1>0 DEF StackSrc, Goto, TypeOK
  <2>2. op' = op \/ \E k : op' = [op EXCEPT ![a].onto = k]
    BY DEF StackSrc
  <2>3. op \in [Accounts -> Ops]
    BY <1>0 DEF TypeOK
  <2>4. op'[a].add = op[a].add /\ \A b \in Accounts \ {a} : op'[b] = op[b]
    BY <2>2, <2>3 DEF Ops
  <2> QED
    BY <2>1, <2>4
<1>7. left = mem[a][i].count - op[a].add
  OBVIOUS
<1> HIDE DEF row, spot, left
<1>8. \A j \in Items \ {i} : rows'[j] = rows[j]
  BY <1>0, <1>4 DEF TypeOK
<1>9. Happens(r) => rows'[i] = row
  BY <1>0, <1>2, <1>4 DEF TypeOK
<1> HIDE DEF i
<1>10. FlightCounts'
  <2>1. at'[a] \notin Flying
    BY <1>6 DEF Flying
  <2> QED
    BY <1>2, <1>5, <1>6, <1>8, <2>1, FlightsStay
<1>11. CASE r = "unknown" \/ Torn
  BY <1>5, <1>10, <1>11 DEF TInv, ThingsBalance, Torn
<1>12. CASE r # "unknown" /\ ~Torn
  <2>1. rows[i].count = mem[a][i].count
    BY <1>2, <1>12 DEF Torn
  <2>2. InTransit(a) = 0
    BY <1>0 DEF InTransit
  <2>3. CASE r = "ok"
    <3>1. rows'[i] = row /\ InTransit(a)' = op[a].add
      BY <1>5, <1>6, <1>9, <2>3 DEF Happens, InTransit
    <3>2. rows'[i].count + InTransit(a)' = rows[i].count + InTransit(a)
      BY <1>1, <1>2, <1>3, <1>7, <2>1, <2>2, <3>1 DEF i
    <3>3. rows'[i] = NoRow \/ BagRow(a, rows'[i]) \/ BoxRow(a, rows'[i])
      BY <1>3, <3>1
    <3>4. ThingsBalance'
      BY <1>2, <1>5, <1>6, <1>8, <3>2, <3>3, WrittenBalances
    <3> QED
      BY <1>10, <3>4 DEF TInv
  <2>4. CASE r = "failed"
    <3>1. rows' = rows /\ at'[a] \notin Flying
      BY <1>4, <1>6, <2>4 DEF Happens, Flying
    <3>2. \A b \in Accounts : InTransit(b)' = InTransit(b)
      BY <1>0, <1>6, <2>4 DEF InTransit
    <3>3. Calm
      BY <1>5, <1>6, <3>1, <3>2 DEF Calm
    <3> QED
      BY <3>3, CalmKeeps
  <2> QED
    BY <1>12, <2>3, <2>4 DEF Results
<1> QED
  BY <1>11, <1>12

LEMMA StackDstBalances ==
  ASSUME TInv, SbInv', NEW a \in Accounts, NEW r \in Results, StackDst(a, r)
  PROVE  TInv'
<1> DEFINE j == op[a].onto
           spot == [mem[a][j] EXCEPT !.count = op[a].count]
           row == Row(a, "box", spot)
<1>0. TypeOK /\ SbInv /\ Formed(a) /\ at[a] = "stack.dst"
  BY DEF TInv, SbInv, Local, StackDst
<1>1. /\ j \in InBox(a) /\ op[a].add \in Int /\ op[a].count \in 1 .. CountLimit
      /\ "shifted" \notin excuses => op[a].count = mem[a][j].count + op[a].add
  BY <1>0, LimitsAssumption DEF Formed, TypeOK, Ops, StackDst
<1>2. /\ Has(a, j) /\ j \in Items /\ mem[a][j].count \in 1 .. CountLimit
      /\ "wiped" \notin excuses => rows[j].count = mem[a][j].count
  BY <1>0, <1>1, PouredIsTheRow
<1>3. BoxRow(a, row) /\ row.count = op[a].count
  <2>1. spot.count = op[a].count
    BY <1>0, <1>2, SpotsAre DEF Spots, NoSpot
  <2> HIDE DEF spot
  <2> QED
    BY <2>1 DEF Row, BoxRow
<1>4. rows' = IF Happens(r) THEN [rows EXCEPT ![j] = row] ELSE rows
  BY DEF StackDst
<1>5. UNCHANGED gold /\ excuses \subseteq excuses' /\ (~Happens(r) => "torn" \in excuses')
  BY DEF StackDst, Excuse
<1>6. /\ at'[a] \in {"game", "end"}
      /\ \A b \in Accounts \ {a} : at'[b] = at[b] /\ op'[b] = op[b]
  BY <1>0 DEF StackDst, Goto, TypeOK
<1> HIDE DEF row, spot
<1>8. \A k \in Items \ {j} : rows'[k] = rows[k]
  BY <1>0, <1>4 DEF TypeOK
<1>9. Happens(r) => rows'[j] = row
  BY <1>0, <1>2, <1>4 DEF TypeOK
<1> HIDE DEF j
<1>10. FlightCounts'
  <2>1. at'[a] \notin Flying
    BY <1>6 DEF Flying
  <2> QED
    BY <1>2, <1>5, <1>6, <1>8, <2>1, FlightsStay
<1>11. CASE Torn'
  BY <1>10, <1>11 DEF TInv, ThingsBalance
<1>12. CASE ~Torn'
  <2>1. /\ rows[j].count = mem[a][j].count /\ rows'[j] = row
        /\ op[a].count = mem[a][j].count + op[a].add
    BY <1>1, <1>2, <1>5, <1>9, <1>12 DEF Torn, j
  <2>2. InTransit(a) = op[a].add /\ InTransit(a)' = 0
    BY <1>0, <1>6 DEF InTransit
  <2>3. rows'[j].count + InTransit(a)' = rows[j].count + InTransit(a)
    BY <1>1, <1>2, <1>3, <2>1, <2>2
  <2>4. rows'[j] = NoRow \/ BagRow(a, rows'[j]) \/ BoxRow(a, rows'[j])
    BY <1>3, <2>1
  <2>5. ThingsBalance'
    BY <1>2, <1>5, <1>6, <1>8, <2>3, <2>4, WrittenBalances
  <2> QED
    BY <1>10, <2>5 DEF TInv
<1> QED
  BY <1>11, <1>12

\* A deletion takes from no other account, but for the boxes it wipes.
LEMMA DeletePlayerBalances ==
  ASSUME TInv, SbInv', NEW a \in Accounts, NEW p \in Players, DeletePlayer(a, p)
  PROVE  TInv'
<1>0. TypeOK /\ SbInv /\ at[a] = "off" /\ AccountOf[p] = a /\ gold[p] # Gone
  BY DEF TInv, SbInv, DeletePlayer
<1>1. UNCHANGED <<at, play, op>> /\ gold' = [gold EXCEPT ![p] = Gone]
  BY DEF DeletePlayer, session
<1>2. \A i \in Items : rows'[i] = IF rows[i].owner = p THEN NoRow ELSE rows[i]
  BY DEF DeletePlayer
<1>3. excuses \subseteq excuses' /\ (Owned(rows, p, "box") # {} => "wiped" \in excuses')
  BY DEF DeletePlayer, Excuse
<1>4. ASSUME "wiped" \notin excuses', NEW i \in Items, rows[i].owner = p
      PROVE  rows[i].window # "box"
  BY <1>3, <1>4 DEF Owned
<1>5. FlightCounts'
  <2> SUFFICES ASSUME "wiped" \notin excuses', NEW b \in Accounts, at[b] \in Flying
               PROVE  rows'[op[b].item].count = op[b].count
    BY <1>1 DEF FlightCounts
  <2> DEFINE i == op[b].item
  <2>1. /\ i \in Items /\ AccountOf[play[b]] = b /\ Has(b, i) /\ "wiped" \notin excuses
        /\ at[b] # "off"
    BY <1>0, <1>3 DEF SbInv, Local, Formed, Has, InFlight, Live, Busy, Flying
  <2>2. Mine(b, i)
    BY <1>0, <2>1, HeldIsMine DEF Wiped
  <2>3. rows[i].owner # p
    BY <1>0, <1>4, <2>1, <2>2 DEF Mine, BagRow, BoxRow
  <2> QED
    BY <1>2, <2>1, <2>3 DEF TInv, FlightCounts
<1>6. ThingsBalance'
  <2> SUFFICES ASSUME ~Torn', NEW b \in Accounts, Whole(b)'
               PROVE  Pieces(b)' + InTransit(b)' = Total(PiecesOf(FirstRows, b), Items)
    BY DEF ThingsBalance
  <2>1. b # a
    <3>1. p \in CharactersOf(a) /\ gold'[p] = Gone
      BY <1>0, <1>1 DEF CharactersOf, TypeOK
    <3> QED
      BY <3>1 DEF Whole
  <2>2. ~Torn /\ Whole(b)
    <3>1. \A q \in CharactersOf(b) : gold'[q] = gold[q]
      BY <1>0, <1>1, <2>1 DEF CharactersOf, TypeOK
    <3> QED
      BY <1>3, <3>1 DEF Torn, Whole
  <2>3. Pieces(b)' = Pieces(b)
    <3>1. \A i \in Items : PieceOf(b, rows'[i]) = PieceOf(b, rows[i])
      <4> SUFFICES ASSUME NEW i \in Items, rows[i].owner = p
                   PROVE  PieceOf(b, NoRow) = PieceOf(b, rows[i])
        BY <1>2
      <4>1. rows[i].window # "box" /\ p \notin CharactersOf(b)
        BY <1>0, <1>4, <2>1 DEF CharactersOf, Torn
      <4> QED
        BY <4>1 DEF PieceOf, NoRow
    <3>2. PiecesOf(rows', b) = PiecesOf(rows, b)
      BY <3>1 DEF PiecesOf
    <3> QED
      BY <3>2 DEF Pieces
  <2>4. InTransit(b)' = InTransit(b)
    BY <1>1 DEF InTransit
  <2> QED
    BY <2>2, <2>3, <2>4 DEF TInv, ThingsBalance
<1> QED
  BY <1>5, <1>6 DEF TInv

LEMMA StepThings ==
  ASSUME TInv, [Next]_vars
  PROVE  TInv'
<1>0. SbInv'
  BY StepSb DEF TInv
<1>1. ASSUME NEW a \in Accounts, Asks(a) PROVE TInv'
  <2>1. CASE \E p \in Players : DeletePlayer(a, p)
    BY <1>0, <2>1, DeletePlayerBalances
  <2>2. CASE \E i \in Items, pos \in Cells : Checkin(a, i, pos) \/ Move(a, i, pos)
    <3>1. PICK i \in Items, pos \in Cells : Checkin(a, i, pos) \/ Move(a, i, pos)
      BY <2>2
    <3>2. mem[a][i] # NoSpot
      BY <3>1 DEF Checkin, Move, InBox, NoSpot
    <3> QED
      BY <1>0, <3>1, <3>2, TakenCounts DEF Checkin, Move, Flying
  <2>3. CASE \E i \in Items : Checkout(a, i)
    <3>1. PICK i \in Items : Checkout(a, i)
      BY <2>3
    <3>2. mem[a][i] # NoSpot
      BY <3>1 DEF Checkout, InBox, NoSpot
    <3> QED
      BY <1>0, <3>1, <3>2, TakenCounts DEF Checkout, Flying
  <2>4. CASE \/ \E p \in Players : Enter(a, p)
             \/ Open(a) \/ \E r \in Results : CloseBox(a, r)
             \/ \E i, j \in Items, want \in 0 .. CountLimit : Stack(a, i, j, want)
             \/ \E n \in -GoldMax .. GoldMax : Money(a, n)
             \/ \E size \in 0 .. MaxSize, r \in Results : SetSize(a, size, r)
             \/ ChangePassword(a) \/ Disconnect(a)
    BY <1>0, <2>4, CalmSteps, CalmKeeps
  <2> QED
    BY <1>1, <2>1, <2>2, <2>3, <2>4 DEF Asks
<1>2. ASSUME NEW a \in Accounts, Statement(a) PROVE TInv'
  <2>1. PICK r \in Results :
          \/ CheckinWrite(a, r) \/ CheckoutWrite(a, r) \/ MoveWrite(a, r)
          \/ StackSrc(a, r) \/ StackDst(a, r) \/ MoneyWrite(a, r) \/ End(a, r)
    BY <1>2 DEF Statement
  <2>2. CASE CheckinWrite(a, r) \/ CheckoutWrite(a, r) \/ MoveWrite(a, r)
    BY <1>0, <2>2, ItemWritesBalance
  <2>3. CASE StackSrc(a, r)
    BY <1>0, <2>3, StackSrcBalances
  <2>4. CASE StackDst(a, r)
    BY <1>0, <2>4, StackDstBalances
  <2>5. CASE MoneyWrite(a, r) \/ End(a, r)
    BY <1>0, <2>5, CalmSteps, CalmKeeps
  <2> QED
    BY <2>1, <2>2, <2>3, <2>4, <2>5
<1>3. ASSUME NEW a \in Accounts, LastSave(a) \/ StackPanics(a) PROVE TInv'
  BY <1>0, <1>3, CalmSteps, CalmKeeps
<1>4. CASE Commit \/ Crash \/ UNCHANGED vars
  BY <1>0, <1>4, CalmWorld, CalmKeeps
<1> QED
  BY <1>1, <1>2, <1>3, <1>4 DEF Next

LEMMA InitThings ==
  ASSUME Init
  PROVE  TInv
<1>1. rows = FirstRows /\ \A a \in Accounts : at[a] = "off"
  BY DEF Init
<1>2. FlightCounts
  BY <1>1 DEF FlightCounts, Flying
<1>3. ThingsBalance
  <2> SUFFICES ASSUME NEW a \in Accounts
               PROVE  Pieces(a) + InTransit(a) = Total(PiecesOf(FirstRows, a), Items)
    BY DEF ThingsBalance
  <2>1. InTransit(a) = 0 /\ Pieces(a) = Total(PiecesOf(FirstRows, a), Items)
    BY <1>1 DEF InTransit, Pieces
  <2>2. Pieces(a) \in Int
    BY InitSb, PiecesType DEF SbInv
  <2> QED
    BY <2>1, <2>2
<1> QED
  BY <1>2, <1>3, InitSb DEF TInv

\* An account that deletes no character has as many pieces as it had, in the bags of its
\* characters and in its box, unless a stack was torn, its second half went to another item, or
\* a deletion took the box (the handlers of safebox.rs, PlayerRepo::delete).
THEOREM ThingsStay == Spec => []ThingsAreKept
<1>1. Init => TInv
  BY InitThings
<1>2. TInv /\ [Next]_vars => TInv'
  BY StepThings
<1>3. TInv => ThingsAreKept
  <2> SUFFICES ASSUME TInv, ~Torn, NEW a \in Accounts, Whole(a), at[a] \notin {"stack.src", "stack.dst"}
               PROVE  Things(rows, a) = Things(FirstRows, a)
    BY DEF ThingsAreKept, Torn
  <2>1. TypeOK
    BY DEF TInv, SbInv
  <2>2. Things(rows, a) = Pieces(a) /\ Things(FirstRows, a) = Total(PiecesOf(FirstRows, a), Items)
    BY <2>1, ThingsAre, FirstAssumption DEF TypeOK, Pieces
  <2>3. Pieces(a) + InTransit(a) = Total(PiecesOf(FirstRows, a), Items) /\ InTransit(a) = 0
    BY DEF TInv, ThingsBalance, InTransit
  <2> QED
    BY <2>1, <2>2, <2>3, PiecesType
<1> QED
  BY <1>1, <1>2, <1>3, PTL DEF Spec

-----------------------------------------------------------------------------
(* No gold is lost                                                         *)

Excused == excuses \cap {"boxless", "unwritten", "crash", "stale"} # {}

\* What the table will say of p when its saves are committed.
Owes(p, n) ==
  \/ n = gold[p] /\ \A k \in DOMAIN queue : queue[k].pid # p
  \/ \E k \in DOMAIN queue : /\ queue[k].pid = p /\ queue[k].gold = n
                             /\ \A m \in DOMAIN queue : queue[m].pid = p => m <= k

\* What p has: the purse of its session, or what it is owed.
IsWorth(p, n) == IF play[AccountOf[p]] = p THEN n = purse[AccountOf[p]] ELSE Owes(p, n)
BoxGold(a) == IF box[a] = NoSafe THEN safe[a].gold ELSE box[a].gold
GoldOf(w, a) == Total([p \in CharactersOf(a) |-> w[p]], CharactersOf(a))

\* What the characters of an account have, with what is in its box, is what they had.
GoldBalance ==
  \E w \in [Players -> Int] :
    /\ \A p \in Players : gold[p] # Gone => IsWorth(p, w[p])
    /\ \A a \in Accounts : Whole(a) => GoldOf(w, a) + BoxGold(a) = GoldOf(FirstGold, a)
Rowless(a) == safe[a] = NoSafe /\ box[a] # NoSafe => box[a].gold = 0

GInv == SbInv /\ (~Excused => GoldBalance /\ \A a \in Accounts : Rowless(a))

LEMMA GoldsSum ==
  ASSUME NEW w \in [Players -> Int], NEW a \in Accounts
  PROVE  /\ IsFiniteSet(CharactersOf(a)) /\ CharactersOf(a) \subseteq Players
         /\ [p \in CharactersOf(a) |-> w[p]] \in [CharactersOf(a) -> Int]
         /\ GoldOf(w, a) \in Int
         /\ MapThenSumSet(LAMBDA p : w[p], CharactersOf(a)) = GoldOf(w, a)
<1>1. /\ IsFiniteSet(CharactersOf(a)) /\ CharactersOf(a) \subseteq Players
      /\ MapThenSumSet(LAMBDA p : w[p], CharactersOf(a)) = GoldOf(w, a)
  BY GoldsAre DEF GoldOf
<1>2. [p \in CharactersOf(a) |-> w[p]] \in [CharactersOf(a) -> Int]
  BY <1>1
<1> QED
  BY <1>1, <1>2, TotalIs DEF GoldOf

LEMMA BoxGoldType ==
  ASSUME TypeOK, NEW a \in Accounts
  PROVE  BoxGold(a) \in Int
<1>1. GoldMax \in Nat /\ NoSafe.gold = 0
  BY LimitsAssumption DEF NoSafe
<1>2. CASE box[a] = NoSafe
  <2>1. safe[a].gold \in Int
    BY <1>1, SafesAre DEF Golds
  <2> QED
    BY <1>2, <2>1 DEF BoxGold
<1>3. CASE box[a] # NoSafe
  <2>1. box[a].gold \in Int
    BY <1>1, <1>3, SafesAre DEF Golds
  <2> QED
    BY <1>3, <2>1 DEF BoxGold
<1> QED
  BY <1>2, <1>3

\* A step that moves no gold.
LEMMA GoldStays ==
  ASSUME GInv, SbInv', excuses \subseteq excuses',
         ~Excused' =>
           /\ \A p \in Players : gold'[p] # Gone =>
                gold[p] # Gone /\ \A n \in Int : IsWorth(p, n) => IsWorth(p, n)'
           /\ \A a \in Accounts : BoxGold(a)' = BoxGold(a) /\ (Rowless(a) => Rowless(a)')
  PROVE  GInv'
<1> SUFFICES ASSUME ~Excused' PROVE GoldBalance' /\ \A a \in Accounts : Rowless(a)'
  BY DEF GInv
<1>1. ~Excused
  BY DEF Excused
<1>2. PICK w \in [Players -> Int] :
         /\ \A p \in Players : gold[p] # Gone => IsWorth(p, w[p])
         /\ \A a \in Accounts : Whole(a) => GoldOf(w, a) + BoxGold(a) = GoldOf(FirstGold, a)
  BY <1>1 DEF GInv, GoldBalance
<1>3. \A p \in Players : gold'[p] # Gone => IsWorth(p, w[p])'
  <2> SUFFICES ASSUME NEW p \in Players, gold'[p] # Gone PROVE IsWorth(p, w[p])'
    OBVIOUS
  <2>1. gold[p] # Gone /\ w[p] \in Int /\ \A n \in Int : IsWorth(p, n) => IsWorth(p, n)'
    OBVIOUS
  <2> DEFINE n == w[p]
  <2>2. n \in Int /\ IsWorth(p, n)
    BY <1>2, <2>1
  <2> HIDE DEF n
  <2>3. IsWorth(p, n)'
    BY <2>1, <2>2
  <2> QED
    BY <2>3 DEF n
<1>4. ASSUME NEW a \in Accounts, Whole(a)' PROVE GoldOf(w, a) + BoxGold(a)' = GoldOf(FirstGold, a)
  <2>1. Whole(a)
    BY <1>4 DEF Whole, CharactersOf
  <2> QED
    BY <1>2, <2>1
<1>5. GoldBalance'
  BY <1>3, <1>4 DEF GoldBalance
<1>6. \A a \in Accounts : Rowless(a)'
  BY <1>1 DEF GInv
<1> QED
  BY <1>5, <1>6

\* A save that is sent is what its character is owed.
LEMMA SaveOwes ==
  ASSUME TypeOK, gold' = gold, NEW p \in Players, NEW n,
         queue' = Append(queue, [pid |-> p, gold |-> n])
  PROVE  /\ Owes(p, n)'
         /\ \A q \in Players \ {p}, m \in Int : Owes(q, m) => Owes(q, m)'
<1> DEFINE L == Len(queue)
<1>1. queue \in Seq(Saves) /\ L \in Nat /\ DOMAIN queue = 1 .. L
  BY DEF TypeOK
<1>2. DOMAIN queue' = 1 .. L + 1
  BY <1>1
<1>3. queue'[L + 1].pid = p /\ queue'[L + 1].gold = n
  BY <1>1
<1>4. \A k \in 1 .. L : queue'[k] = queue[k]
  BY <1>1
<1> HIDE DEF L
<1>5. Owes(p, n)'
  <2>1. L + 1 \in DOMAIN queue' /\ \A m \in DOMAIN queue' : m <= L + 1
    BY <1>1, <1>2
  <2> QED
    BY <1>3, <2>1 DEF Owes
<1>6. ASSUME NEW q \in Players \ {p}, NEW m \in Int, Owes(q, m) PROVE Owes(q, m)'
  <2>1. \A k \in DOMAIN queue' : queue'[k].pid = q => k \in 1 .. L /\ queue[k].pid = q
    <3> SUFFICES ASSUME NEW k \in 1 .. L + 1, queue'[k].pid = q PROVE k \in 1 .. L /\ queue[k].pid = q
      BY <1>2
    <3>1. k # L + 1
      BY <1>3
    <3> QED
      BY <1>1, <1>4, <3>1
  <2>2. CASE m = gold[q] /\ \A k \in DOMAIN queue : queue[k].pid # q
    BY <1>1, <2>1, <2>2 DEF Owes
  <2>3. CASE \E k \in DOMAIN queue : /\ queue[k].pid = q /\ queue[k].gold = m
                                     /\ \A l \in DOMAIN queue : queue[l].pid = q => l <= k
    <3>1. PICK k \in 1 .. L : /\ queue[k].pid = q /\ queue[k].gold = m
                              /\ \A l \in 1 .. L : queue[l].pid = q => l <= k
      BY <1>1, <2>3
    <3>2. k \in DOMAIN queue' /\ queue'[k] = queue[k]
      BY <1>1, <1>2, <1>4
    <3>3. \A l \in DOMAIN queue' : queue'[l].pid = q => l <= k
      BY <2>1, <3>1
    <3> QED
      BY <3>1, <3>2, <3>3 DEF Owes
  <2> QED
    BY <1>6, <2>2, <2>3 DEF Owes
<1> QED
  BY <1>5, <1>6

\* The first save that is committed leaves every character what it is owed.
LEMMA CommitOwes ==
  ASSUME TypeOK, Commit, NEW p \in Players, gold'[p] # Gone, NEW n \in Int, Owes(p, n)
  PROVE  gold[p] # Gone /\ Owes(p, n)'
<1> DEFINE L == Len(queue)
<1>1. queue \in Seq(Saves) /\ L \in Nat /\ L # 0 /\ DOMAIN queue = 1 .. L
      /\ gold \in [Players -> Golds \cup {Gone}]
  BY DEF TypeOK, Commit
<1>2. queue[1] \in Saves /\ gold' = Apply(gold, queue[1])
  BY <1>1 DEF Commit
<1>3. queue' = Tail(queue) /\ DOMAIN queue' = 1 .. L - 1
  BY <1>1 DEF Commit
<1>4. \A k \in 1 .. L - 1 : queue'[k] = queue[k + 1]
  BY <1>1, <1>3
<1>5. gold[p] # Gone
  BY <1>1, <1>2, ApplyType
<1>6. gold'[p] = IF queue[1].pid = p THEN queue[1].gold ELSE gold[p]
  <2>1. queue[1].pid \in Players
    BY <1>2 DEF Saves
  <2> QED
    BY <1>1, <1>2, <1>5, <2>1 DEF Apply
<1> HIDE DEF L
<1>7. \A k \in DOMAIN queue' : k + 1 \in 1 .. L /\ queue'[k] = queue[k + 1]
  BY <1>1, <1>3, <1>4
<1>8. CASE n = gold[p] /\ \A k \in DOMAIN queue : queue[k].pid # p
  <2>1. queue[1].pid # p /\ \A k \in DOMAIN queue' : queue'[k].pid # p
    BY <1>1, <1>7, <1>8
  <2> QED
    BY <1>5, <1>6, <1>8, <2>1 DEF Owes
<1>9. CASE \E k \in DOMAIN queue : /\ queue[k].pid = p /\ queue[k].gold = n
                                   /\ \A m \in DOMAIN queue : queue[m].pid = p => m <= k
  <2>1. PICK k \in 1 .. L : /\ queue[k].pid = p /\ queue[k].gold = n
                            /\ \A m \in 1 .. L : queue[m].pid = p => m <= k
    BY <1>1, <1>9
  <2>2. CASE k = 1
    <3>1. \A m \in DOMAIN queue' : queue'[m].pid # p
      <4> SUFFICES ASSUME NEW m \in DOMAIN queue', queue'[m].pid = p PROVE FALSE
        OBVIOUS
      <4>1. m \in Nat /\ m >= 1 /\ m + 1 <= k
        BY <1>1, <1>3, <1>7, <2>1
      <4> QED
        BY <2>2, <4>1
    <3> QED
      BY <1>5, <1>6, <2>1, <2>2, <3>1 DEF Owes
  <2>3. CASE k # 1
    <3>1. k - 1 \in DOMAIN queue' /\ queue'[k - 1] = queue[k]
      BY <1>1, <1>3, <1>4, <2>1, <2>3
    <3>2. \A m \in DOMAIN queue' : queue'[m].pid = p => m <= k - 1
      <4> SUFFICES ASSUME NEW m \in DOMAIN queue', queue'[m].pid = p PROVE m <= k - 1
        OBVIOUS
      <4>1. m \in Nat /\ m + 1 <= k
        BY <1>1, <1>3, <1>7, <2>1
      <4> QED
        BY <4>1
    <3> QED
      BY <1>5, <2>1, <3>1, <3>2 DEF Owes
  <2> QED
    BY <2>2, <2>3
<1> QED
  BY <1>8, <1>9 DEF Owes

\* A step of a session that keeps its purse, with or without a save.
LEMMA PurseStays ==
  ASSUME GInv, SbInv', NEW a \in Accounts, at[a] # "off", excuses \subseteq excuses',
         UNCHANGED <<play, purse, gold>>, UNCHANGED queue \/ Save(a),
         ~Excused' => \A b \in Accounts : BoxGold(b)' = BoxGold(b) /\ (Rowless(b) => Rowless(b)')
  PROVE  GInv'
<1>0. TypeOK /\ Formed(a)
  BY DEF GInv, SbInv, Local
<1>1. ASSUME NEW p \in Players, NEW n \in Int, IsWorth(p, n) PROVE IsWorth(p, n)'
  <2>1. CASE play[AccountOf[p]] = p
    BY <1>1, <2>1 DEF IsWorth
  <2>2. CASE play[AccountOf[p]] # p
    <3>1. Owes(p, n)
      BY <1>1, <2>2 DEF IsWorth
    <3>2. Owes(p, n)'
      <4>1. CASE UNCHANGED queue
        BY <3>1, <4>1 DEF Owes
      <4>2. CASE Save(a)
        <5>1. play[a] \in Players \ {p}
          BY <1>0, <2>2 DEF Formed, TypeOK
        <5> QED
          BY <1>0, <3>1, <4>2, <5>1, SaveOwes DEF Save
      <4> QED
        BY <4>1, <4>2
    <3> QED
      BY <2>2, <3>2 DEF IsWorth
  <2> QED
    BY <2>1, <2>2
<1> QED
  BY <1>1, GoldStays

\* What others have in their boxes is theirs.
LEMMA BoxesStay ==
  ASSUME NEW a \in Accounts, \A b \in Accounts \ {a} : box'[b] = box[b] /\ safe'[b] = safe[b],
         BoxGold(a)' = BoxGold(a), Rowless(a) => Rowless(a)'
  PROVE  \A b \in Accounts : BoxGold(b)' = BoxGold(b) /\ (Rowless(b) => Rowless(b)')
<1> SUFFICES ASSUME NEW b \in Accounts, b # a
             PROVE  BoxGold(b)' = BoxGold(b) /\ (Rowless(b) => Rowless(b)')
  OBVIOUS
<1> QED
  BY DEF BoxGold, Rowless

LEMMA BoxesUntouched ==
  ASSUME UNCHANGED <<box, safe>>
  PROVE  \A b \in Accounts : BoxGold(b)' = BoxGold(b) /\ (Rowless(b) => Rowless(b)')
BY DEF BoxGold, Rowless

\* The gold of an open box is what it was whatever is written to its row.
LEMMA SetGoldWrites ==
  ASSUME TypeOK, NEW a \in Accounts, NEW r, box[a] # NoSafe, SetGold(a, r)
  PROVE  /\ \A b \in Accounts \ {a} : safe'[b] = safe[b]
         /\ safe'[a] = NoSafe <=> safe[a] = NoSafe
         /\ safe'[a].gold = IF safe[a] # NoSafe /\ Happens(r) THEN box[a].gold ELSE safe[a].gold
<1>1. CASE safe[a] # NoSafe /\ Happens(r)
  <2>1. safe' = [safe EXCEPT ![a].gold = box[a].gold]
    BY <1>1 DEF SetGold
  <2>2. safe[a] \in [size : 0 .. MaxSize, gold : Golds]
    BY <1>1, SafesAre
  <2>3. safe'[a] = [size |-> safe[a].size, gold |-> box[a].gold]
    BY <2>1, <2>2 DEF TypeOK
  <2>4. safe'[a] # NoSafe
    BY <2>2, <2>3, LimitsAssumption DEF NoSafe
  <2> QED
    BY <1>1, <2>1, <2>3, <2>4 DEF TypeOK
<1>2. CASE ~(safe[a] # NoSafe /\ Happens(r))
  BY <1>2 DEF SetGold
<1> QED
  BY <1>1, <1>2

\* The handlers that touch neither box nor row of a box.
LEMMA HandlersKeepGold ==
  ASSUME GInv, SbInv', NEW a \in Accounts,
         \/ \E i \in Items, pos \in Cells : Checkin(a, i, pos) \/ Move(a, i, pos)
         \/ \E i \in Items : Checkout(a, i)
         \/ \E i, j \in Items, want \in 0 .. CountLimit : Stack(a, i, j, want)
         \/ \E r \in Results : CheckinWrite(a, r) \/ CheckoutWrite(a, r) \/ MoveWrite(a, r)
                               \/ StackSrc(a, r) \/ StackDst(a, r)
         \/ Disconnect(a)
  PROVE  GInv'
<1>1. at[a] # "off" /\ UNCHANGED <<play, purse, gold, box, safe>> /\ excuses \subseteq excuses'
  <2>1. CASE \E i \in Items, pos \in Cells : Checkin(a, i, pos) \/ Move(a, i, pos)
    BY <2>1 DEF Checkin, Move, Begin, database
  <2>2. CASE \E i \in Items : Checkout(a, i)
    BY <2>2 DEF Checkout, Begin, database
  <2>3. CASE \E i, j \in Items, want \in 0 .. CountLimit : Stack(a, i, j, want)
    BY <2>3 DEF Stack, Begin, database
  <2>4. CASE \E r \in Results : CheckinWrite(a, r) \/ CheckoutWrite(a, r) \/ MoveWrite(a, r)
    BY <2>4 DEF CheckinWrite, CheckoutWrite, MoveWrite
  <2>5. CASE \E r \in Results : StackSrc(a, r) \/ StackDst(a, r)
    BY <2>5 DEF StackSrc, Shift, StackDst, Excuse
  <2>6. CASE Disconnect(a)
    BY <2>6 DEF Disconnect, database
  <2> QED
    BY <2>1, <2>2, <2>3, <2>4, <2>5, <2>6
<1>2. UNCHANGED queue \/ Save(a)
  <2>1. CASE \E i \in Items, pos \in Cells : Checkin(a, i, pos) \/ Move(a, i, pos)
    BY <2>1 DEF Checkin, Move, Begin, database
  <2>2. CASE \E i \in Items : Checkout(a, i)
    BY <2>2 DEF Checkout, Begin, database
  <2>3. CASE \E i, j \in Items, want \in 0 .. CountLimit : Stack(a, i, j, want)
    BY <2>3 DEF Stack, Begin, database
  <2>4. CASE \E r \in Results : CheckinWrite(a, r) \/ CheckoutWrite(a, r) \/ MoveWrite(a, r)
    BY <2>4 DEF CheckinWrite, CheckoutWrite, MoveWrite
  <2>5. CASE \E r \in Results : StackSrc(a, r) \/ StackDst(a, r)
    BY <2>5 DEF StackSrc, StackDst
  <2>6. CASE Disconnect(a)
    BY <2>6 DEF Disconnect, database
  <2> QED
    BY <2>1, <2>2, <2>3, <2>4, <2>5, <2>6
<1> QED
  BY <1>1, <1>2, BoxesUntouched, PurseStays

LEMMA OpenKeepsGold ==
  ASSUME GInv, SbInv', NEW a \in Accounts, Open(a)
  PROVE  GInv'
<1>0. TypeOK
  BY DEF GInv, SbInv
<1>1. /\ UNCHANGED <<at, play, purse, safe, gold, queue, excuses>> /\ at[a] = "game" /\ box[a] = NoSafe
      /\ box' = [box EXCEPT ![a] = IF safe[a] = NoSafe THEN [size |-> 0, gold |-> 0] ELSE safe[a]]
  BY DEF Open, database
<1>2. /\ box'[a] = IF safe[a] = NoSafe THEN [size |-> 0, gold |-> 0] ELSE safe[a]
      /\ \A b \in Accounts \ {a} : box'[b] = box[b]
  BY <1>0, <1>1 DEF TypeOK
<1>3. BoxGold(a)' = BoxGold(a) /\ Rowless(a)'
  <2>1. CASE safe[a] = NoSafe
    <3>1. box'[a].gold = 0 /\ box'[a] # NoSafe /\ NoSafe.gold = 0
      BY <1>2, <2>1 DEF NoSafe
    <3> QED
      BY <1>1, <2>1, <3>1 DEF BoxGold, Rowless
  <2>2. CASE safe[a] # NoSafe
    BY <1>1, <1>2, <2>2 DEF BoxGold, Rowless
  <2> QED
    BY <2>1, <2>2
<1> QED
  BY <1>1, <1>2, <1>3, BoxesStay, PurseStays

LEMMA ShutKeepsGold ==
  ASSUME GInv, SbInv', NEW a \in Accounts, NEW r \in Results, CloseBox(a, r) \/ End(a, r)
  PROVE  GInv'
<1>0. TypeOK
  BY DEF GInv, SbInv
<1>1. /\ at[a] # "off" /\ UNCHANGED <<play, purse, gold, queue>>
      /\ (Shut(a, r) /\ box[a] # NoSafe) \/ UNCHANGED <<box, safe, excuses>>
  BY DEF CloseBox, End
<1>2. CASE UNCHANGED <<box, safe, excuses>>
  BY <1>1, <1>2, BoxesUntouched, PurseStays
<1>3. CASE Shut(a, r) /\ box[a] # NoSafe
  <2>1. /\ excuses \subseteq excuses' /\ (~Happens(r) /\ safe[a].gold # box[a].gold => Excused')
        /\ SetGold(a, r) /\ box' = [box EXCEPT ![a] = NoSafe]
    BY <1>3 DEF Shut, Excuse, Excused
  <2>2. box'[a] = NoSafe /\ \A b \in Accounts \ {a} : box'[b] = box[b]
    BY <1>0, <2>1 DEF TypeOK
  <2>3. /\ \A b \in Accounts \ {a} : safe'[b] = safe[b]
        /\ safe'[a].gold = IF safe[a] # NoSafe /\ Happens(r) THEN box[a].gold ELSE safe[a].gold
    BY <1>0, <1>3, <2>1, SetGoldWrites
  <2>4. ASSUME ~Excused'
        PROVE  \A b \in Accounts : BoxGold(b)' = BoxGold(b) /\ (Rowless(b) => Rowless(b)')
    <3>1. Rowless(a) /\ NoSafe.gold = 0
      BY <2>1, <2>4 DEF GInv, Excused, NoSafe
    <3>2. safe'[a].gold = box[a].gold
      <4>1. CASE safe[a] = NoSafe
        BY <1>3, <2>3, <3>1, <4>1 DEF Rowless
      <4>2. CASE safe[a] # NoSafe
        BY <2>1, <2>3, <2>4, <4>2
      <4> QED
        BY <4>1, <4>2
    <3>3. BoxGold(a)' = BoxGold(a) /\ Rowless(a)'
      BY <1>3, <2>2, <3>2 DEF BoxGold, Rowless
    <3> QED
      BY <2>2, <2>3, <3>3, BoxesStay
  <2> QED
    BY <1>1, <2>1, <2>4, PurseStays
<1> QED
  BY <1>1, <1>2, <1>3

LEMMA MoneyWriteKeepsGold ==
  ASSUME GInv, SbInv', NEW a \in Accounts, NEW r \in Results, MoneyWrite(a, r)
  PROVE  GInv'
<1>0. TypeOK /\ box[a] # NoSafe
  BY DEF GInv, SbInv, Local, Formed, MoneyWrite, Busy
<1>1. at[a] # "off" /\ UNCHANGED <<play, box, purse, gold, queue, excuses>> /\ SetGold(a, r)
  BY DEF MoneyWrite
<1>2. BoxGold(a)' = BoxGold(a) /\ (Rowless(a) => Rowless(a)')
  BY <1>0, <1>1, SetGoldWrites DEF BoxGold, Rowless
<1>3. \A b \in Accounts \ {a} : box'[b] = box[b] /\ safe'[b] = safe[b]
  BY <1>0, <1>1, SetGoldWrites
<1> QED
  BY <1>1, <1>2, <1>3, BoxesStay, PurseStays

LEMMA SizesKeepGold ==
  ASSUME GInv, SbInv', NEW a \in Accounts,
         \/ \E size \in 0 .. MaxSize, r \in Results : SetSize(a, size, r)
         \/ ChangePassword(a)
  PROVE  GInv'
<1>0. TypeOK
  BY DEF GInv, SbInv
<1>1. at[a] # "off" /\ UNCHANGED <<play, purse, gold, queue>> /\ excuses \subseteq excuses'
  <2>1. CASE \E size \in 0 .. MaxSize, r \in Results : SetSize(a, size, r)
    BY <2>1 DEF SetSize, Excuse
  <2>2. CASE ChangePassword(a)
    BY <2>2 DEF ChangePassword, session
  <2> QED
    BY <2>1, <2>2
<1>2. \/ safe' = safe
      \/ \E size \in 0 .. MaxSize :
           safe' = [safe EXCEPT ![a] = [size |-> size,
                                        gold |-> IF safe[a] = NoSafe THEN 0 ELSE safe[a].gold]]
  <2>1. CASE \E size \in 0 .. MaxSize, r \in Results : SetSize(a, size, r)
    BY <2>1 DEF SetSize
  <2>2. CASE ChangePassword(a)
    <3>1. 0 \in 0 .. MaxSize
      BY LimitsAssumption
    <3> QED
      BY <2>2, <3>1 DEF ChangePassword
  <2> QED
    BY <2>1, <2>2
<1>3. /\ \A b \in Accounts \ {a} : safe'[b] = safe[b]
      /\ safe'[a].gold = safe[a].gold /\ (safe'[a] = NoSafe => safe[a] = NoSafe)
  <2>1. CASE safe' = safe
    BY <2>1
  <2>2. ASSUME NEW size \in 0 .. MaxSize, NEW g, g = (IF safe[a] = NoSafe THEN 0 ELSE safe[a].gold),
               safe' = [safe EXCEPT ![a] = [size |-> size, gold |-> g]]
        PROVE  <1>3!1 /\ <1>3!2
    <3>1. safe'[a] = [size |-> size, gold |-> g] /\ \A b \in Accounts \ {a} : safe'[b] = safe[b]
      BY <1>0, <2>2 DEF TypeOK
    <3>2. g = safe[a].gold
      BY <2>2 DEF NoSafe
    <3>3. safe'[a].size = size /\ safe'[a].gold = g /\ size # -1
      BY <3>1, LimitsAssumption
    <3>4. safe'[a] # NoSafe
      BY <3>3 DEF NoSafe
    <3> QED
      BY <3>1, <3>2, <3>3, <3>4
  <2> QED
    BY <1>2, <2>1, <2>2
<1>4. box' = box \/ \E size \in 0 .. MaxSize : box[a] # NoSafe /\ box' = [box EXCEPT ![a].size = size]
  <2>1. CASE \E size \in 0 .. MaxSize, r \in Results : SetSize(a, size, r)
    BY <2>1 DEF SetSize
  <2>2. CASE ChangePassword(a)
    BY <2>2 DEF ChangePassword, session
  <2> QED
    BY <2>1, <2>2
<1>5. /\ \A b \in Accounts \ {a} : box'[b] = box[b]
      /\ box'[a].gold = box[a].gold /\ (box'[a] = NoSafe <=> box[a] = NoSafe)
  <2>1. CASE box' = box
    BY <2>1
  <2>2. ASSUME NEW size \in 0 .. MaxSize, box[a] # NoSafe, box' = [box EXCEPT ![a].size = size]
        PROVE  <1>5!1 /\ <1>5!2
    <3>1. box[a] \in [size : 0 .. MaxSize, gold : Golds]
      BY <1>0, <2>2, SafesAre
    <3>2. /\ box'[a] = [size |-> size, gold |-> box[a].gold]
          /\ \A b \in Accounts \ {a} : box'[b] = box[b]
      BY <1>0, <2>2, <3>1 DEF TypeOK
    <3>3. box'[a].size = size /\ box'[a].gold = box[a].gold /\ size # -1
      BY <3>2, LimitsAssumption
    <3>4. box'[a] # NoSafe
      BY <3>3 DEF NoSafe
    <3> QED
      BY <2>2, <3>2, <3>3, <3>4
  <2> QED
    BY <1>4, <2>1, <2>2
<1>6. BoxGold(a)' = BoxGold(a) /\ (Rowless(a) => Rowless(a)')
  BY <1>3, <1>5 DEF BoxGold, Rowless
<1> QED
  BY <1>1, <1>3, <1>5, <1>6, BoxesStay, PurseStays

\* Gold goes from the purse to the box, or back.
LEMMA MoneyMovesGold ==
  ASSUME GInv, SbInv', NEW a \in Accounts, NEW n \in -GoldMax .. GoldMax, Money(a, n)
  PROVE  GInv'
<1> PICK p : p = play[a]
  OBVIOUS
<1>0. TypeOK /\ TypeOK' /\ Formed(a) /\ GoldMax \in Nat /\ n \in Int
  BY LimitsAssumption DEF GInv, SbInv, Local
<1>1. /\ UNCHANGED <<play, safe, gold>> /\ at[a] = "game" /\ box[a] # NoSafe
      /\ purse' = [purse EXCEPT ![a] = @ - n] /\ box' = [box EXCEPT ![a].gold = @ + n]
      /\ queue' = Append(queue, [pid |-> p, gold |-> purse[a] - n])
      /\ excuses \subseteq excuses' /\ (safe[a] = NoSafe => Excused')
  BY DEF Money, Excuse, Excused
<1>2. p \in Players /\ AccountOf[p] = a
  BY <1>0, <1>1 DEF Formed, TypeOK
<1>3. /\ purse'[a] = purse[a] - n /\ purse[a] \in Int /\ purse'[a] \in Int
      /\ \A b \in Accounts \ {a} : purse'[b] = purse[b]
  BY <1>0, <1>1 DEF TypeOK, Golds
<1>4. /\ BoxGold(a)' = BoxGold(a) + n /\ BoxGold(a) \in Int /\ box'[a] # NoSafe
      /\ \A b \in Accounts \ {a} : box'[b] = box[b]
  <2>1. box[a] \in [size : 0 .. MaxSize, gold : Golds]
    BY <1>0, <1>1, SafesAre
  <2>2. box'[a] = [size |-> box[a].size, gold |-> box[a].gold + n]
        /\ \A b \in Accounts \ {a} : box'[b] = box[b]
    BY <1>0, <1>1, <2>1 DEF TypeOK
  <2>3. box'[a].size # -1
    BY <2>1, <2>2, LimitsAssumption
  <2>4. box'[a] # NoSafe
    BY <2>3 DEF NoSafe
  <2> QED
    BY <1>0, <1>1, <2>2, <2>4, BoxGoldType DEF BoxGold
<1> SUFFICES ASSUME ~Excused' PROVE GoldBalance' /\ \A b \in Accounts : Rowless(b)'
  BY DEF GInv
<1>5. ~Excused /\ safe[a] # NoSafe
  BY <1>1 DEF Excused
<1>6. PICK w \in [Players -> Int] :
         /\ \A q \in Players : gold[q] # Gone => IsWorth(q, w[q])
         /\ \A b \in Accounts : Whole(b) => GoldOf(w, b) + BoxGold(b) = GoldOf(FirstGold, b)
  BY <1>5 DEF GInv, GoldBalance
<1>7. PICK v \in [Players -> Int] : v[p] = purse'[a] /\ \A q \in Players \ {p} : v[q] = w[q]
  <2>1. [w EXCEPT ![p] = purse'[a]] \in [Players -> Int]
    BY <1>2, <1>3
  <2> QED
    BY <2>1, <1>2
<1>8. ASSUME NEW q \in Players, gold'[q] # Gone PROVE IsWorth(q, v[q])'
  <2>1. CASE q = p
    BY <1>1, <1>2, <1>7, <2>1 DEF IsWorth
  <2>2. CASE q # p
    <3>1. IsWorth(q, w[q]) /\ v[q] = w[q] /\ w[q] \in Int
      BY <1>1, <1>6, <1>7, <1>8, <2>2
    <3>2. CASE play[AccountOf[q]] = q
      <4>1. AccountOf[q] # a /\ AccountOf[q] \in Accounts
        BY <2>2, <3>2, OwnersAssumption
      <4>2. purse'[AccountOf[q]] = purse[AccountOf[q]]
        BY <1>3, <4>1
      <4> QED
        BY <1>1, <3>1, <3>2, <4>2 DEF IsWorth
    <3>3. CASE play[AccountOf[q]] # q
      <4>1. Owes(q, w[q])
        BY <3>1, <3>3 DEF IsWorth
      <4>2. PICK m \in Int : m = w[q] /\ Owes(q, m)
        BY <3>1, <4>1
      <4>3. Owes(q, m)'
        BY <1>0, <1>1, <1>2, <2>2, <4>2, SaveOwes
      <4>4. v[q] = m /\ play'[AccountOf[q]] # q
        BY <1>1, <3>1, <3>3, <4>2
      <4> QED
        BY <4>3, <4>4 DEF IsWorth
    <3> QED
      BY <3>2, <3>3
  <2> QED
    BY <2>1, <2>2
<1>9. ASSUME NEW b \in Accounts, Whole(b)' PROVE GoldOf(v, b) + BoxGold(b)' = GoldOf(FirstGold, b)
  <2>1. Whole(b)
    BY <1>1, <1>9 DEF Whole
  <2>2. GoldOf(w, b) + BoxGold(b) = GoldOf(FirstGold, b)
    BY <1>6, <2>1
  <2>3. CASE b # a
    <3>1. p \notin CharactersOf(b)
      BY <1>2, <2>3 DEF CharactersOf
    <3>2. [q \in CharactersOf(b) |-> v[q]] = [q \in CharactersOf(b) |-> w[q]]
      BY <1>7, <3>1 DEF CharactersOf
    <3>3. GoldOf(v, b) = GoldOf(w, b)
      BY <3>2 DEF GoldOf
    <3>4. BoxGold(b)' = BoxGold(b)
      BY <1>1, <1>4, <2>3 DEF BoxGold
    <3> QED
      BY <2>2, <3>3, <3>4
  <2>4. CASE b = a
    <3> DEFINE U == CharactersOf(a)
               f == [q \in U |-> w[q]]
               h == [q \in U |-> v[q]]
    <3>1. p \in U /\ gold[p] # Gone
      BY <1>2, <2>1, <2>4 DEF CharactersOf, Whole
    <3>2. w[p] = purse[a]
      BY <1>2, <1>6, <3>1 DEF IsWorth
    <3>3. IsFiniteSet(U) /\ f \in [U -> Int] /\ h \in [U -> Int] /\ U \subseteq Players
      BY <1>7, GoldsSum
    <3>4. f[p] = purse[a] /\ h[p] = purse[a] - n /\ \A q \in U \ {p} : h[q] = f[q]
      BY <1>3, <1>7, <3>1, <3>2, <3>3
    <3>5. GoldOf(w, a) = Total(f, U) /\ GoldOf(v, a) = Total(h, U) /\ GoldOf(w, a) \in Int
      BY GoldsSum DEF GoldOf
    <3> HIDE DEF U, f, h
    <3>6. Total(h, U) = Total(f, U) - f[p] + h[p]
      BY <3>1, <3>3, <3>4, TotalChanges
    <3>7. GoldOf(v, a) = GoldOf(w, a) - n
      BY <1>0, <1>3, <3>4, <3>5, <3>6
    <3> QED
      BY <1>0, <1>4, <2>2, <2>4, <3>5, <3>7
  <2> QED
    BY <2>3, <2>4
<1>10. GoldBalance'
  BY <1>7, <1>8, <1>9 DEF GoldBalance
<1>11. ASSUME NEW b \in Accounts PROVE Rowless(b)'
  <2>1. CASE b = a
    BY <1>1, <1>5, <2>1 DEF Rowless
  <2>2. CASE b # a
    BY <1>1, <1>4, <1>5, <2>2 DEF GInv, Rowless
  <2> QED
    BY <2>1, <2>2
<1> QED
  BY <1>10, <1>11

\* A character that is loaded has what the table says, unless a save of it is late.
LEMMA EnterKeepsGold ==
  ASSUME GInv, SbInv', NEW a \in Accounts, NEW p \in Players, Enter(a, p)
  PROVE  GInv'
<1>0. TypeOK /\ Formed(a)
  BY DEF GInv, SbInv, Local
<1>1. /\ UNCHANGED <<box, safe, gold, queue>> /\ at[a] = "off" /\ AccountOf[p] = a
      /\ play' = [play EXCEPT ![a] = p] /\ purse' = [purse EXCEPT ![a] = gold[p]]
      /\ excuses \subseteq excuses'
      /\ (\E k \in DOMAIN queue : queue[k].pid = p) => Excused'
  BY DEF Enter, database, Excuse, Excused
<1>2. /\ play'[a] = p /\ purse'[a] = gold[p]
      /\ \A b \in Accounts \ {a} : play'[b] = play[b] /\ purse'[b] = purse[b]
  BY <1>0, <1>1 DEF TypeOK
<1>3. play[a] = NoPlayer /\ NoPlayer \notin Players
  BY <1>0, <1>1, IdsAssumption DEF Formed, NoPlayer
<1>4. ASSUME ~Excused', NEW q \in Players, NEW n \in Int, IsWorth(q, n) PROVE IsWorth(q, n)'
  <2>1. CASE q = p
    <3>1. Owes(p, n)
      BY <1>1, <1>3, <1>4, <2>1 DEF IsWorth
    <3>2. n = gold[p]
      BY <1>1, <1>4, <3>1 DEF Owes
    <3> QED
      BY <1>1, <1>2, <2>1, <3>2 DEF IsWorth
  <2>2. CASE q # p /\ AccountOf[q] = a
    <3>1. Owes(q, n)
      BY <1>3, <1>4, <2>2 DEF IsWorth
    <3>2. Owes(q, n)'
      BY <1>1, <3>1 DEF Owes
    <3> QED
      BY <1>2, <2>2, <3>2 DEF IsWorth
  <2>3. CASE AccountOf[q] # a
    <3>1. AccountOf[q] \in Accounts
      BY OwnersAssumption
    <3>2. Owes(q, n) => Owes(q, n)'
      BY <1>1 DEF Owes
    <3>3. play'[AccountOf[q]] = play[AccountOf[q]] /\ purse'[AccountOf[q]] = purse[AccountOf[q]]
      BY <1>2, <2>3, <3>1
    <3> QED
      BY <1>4, <3>2, <3>3 DEF IsWorth
  <2> QED
    BY <1>1, <2>1, <2>2, <2>3
<1> QED
  BY <1>1, <1>4, BoxesUntouched, GoldStays

\* The last save of a session has what is in its purse.
LEMMA LastSaveKeepsGold ==
  ASSUME GInv, SbInv', NEW a \in Accounts, LastSave(a)
  PROVE  GInv'
<1> PICK p, c : p = play[a] /\ c = purse[a]
  OBVIOUS
<1>0. TypeOK /\ Formed(a)
  BY DEF GInv, SbInv, Local
<1>1. /\ UNCHANGED <<box, safe, gold, excuses>> /\ at[a] = "save"
      /\ play' = [play EXCEPT ![a] = NoPlayer] /\ purse' = [purse EXCEPT ![a] = 0]
      /\ queue' = Append(queue, [pid |-> p, gold |-> c])
  BY DEF LastSave, Save
<1>2. /\ play'[a] = NoPlayer
      /\ \A b \in Accounts \ {a} : play'[b] = play[b] /\ purse'[b] = purse[b]
  BY <1>0, <1>1 DEF TypeOK
<1>3. p \in Players /\ AccountOf[p] = a /\ NoPlayer \notin Players /\ p = play[a] /\ c = purse[a]
  BY <1>0, <1>1, IdsAssumption DEF Formed, NoPlayer, TypeOK
<1>4. Owes(p, c)' /\ \A q \in Players \ {p}, m \in Int : Owes(q, m) => Owes(q, m)'
  BY <1>0, <1>1, <1>3, SaveOwes
<1>5. ASSUME NEW q \in Players, NEW n \in Int, IsWorth(q, n) PROVE IsWorth(q, n)'
  <2>1. CASE q = p
    <3>1. n = c /\ play'[AccountOf[q]] # q
      BY <1>2, <1>3, <1>5, <2>1 DEF IsWorth
    <3> QED
      BY <1>4, <2>1, <3>1 DEF IsWorth
  <2>2. CASE q # p /\ AccountOf[q] = a
    <3>1. Owes(q, n)'
      BY <1>3, <1>4, <1>5, <2>2 DEF IsWorth
    <3>2. play'[AccountOf[q]] # q
      BY <1>2, <1>3, <2>2
    <3> QED
      BY <3>1, <3>2 DEF IsWorth
  <2>3. CASE AccountOf[q] # a
    <3>1. AccountOf[q] \in Accounts /\ q # p
      BY <1>3, <2>3, OwnersAssumption
    <3>2. Owes(q, n) => Owes(q, n)'
      BY <1>4, <3>1
    <3>3. play'[AccountOf[q]] = play[AccountOf[q]] /\ purse'[AccountOf[q]] = purse[AccountOf[q]]
      BY <1>2, <2>3, <3>1
    <3> QED
      BY <1>5, <3>2, <3>3 DEF IsWorth
  <2> QED
    BY <2>1, <2>2, <2>3
<1> QED
  BY <1>1, <1>5, BoxesUntouched, GoldStays

\* A deletion takes the gold of its character only.
LEMMA DeletePlayerKeepsGold ==
  ASSUME GInv, SbInv', NEW a \in Accounts, NEW p \in Players, DeletePlayer(a, p)
  PROVE  GInv'
<1>0. gold \in [Players -> Golds \cup {Gone}]
  BY DEF GInv, SbInv, TypeOK
<1>1. /\ UNCHANGED <<play, purse, box, safe, queue>> /\ excuses \subseteq excuses'
      /\ gold' = [gold EXCEPT ![p] = Gone]
  BY DEF DeletePlayer, session, Excuse
<1>2. ASSUME NEW q \in Players, gold'[q] # Gone
      PROVE  gold[q] # Gone /\ \A n \in Int : IsWorth(q, n) => IsWorth(q, n)'
  <2>1. gold'[q] = gold[q]
    BY <1>0, <1>1, <1>2
  <2>2. \A n \in Int : Owes(q, n) => Owes(q, n)'
    BY <1>1, <2>1 DEF Owes
  <2> QED
    BY <1>1, <1>2, <2>1, <2>2 DEF IsWorth
<1> QED
  BY <1>1, <1>2, BoxesUntouched, GoldStays

LEMMA WorldKeepsGold ==
  ASSUME GInv, SbInv', Commit \/ Crash \/ UNCHANGED vars
  PROVE  GInv'
<1>0. TypeOK
  BY DEF GInv, SbInv
<1>1. CASE Commit
  <2>1. UNCHANGED <<play, purse, box, safe, excuses>>
    BY <1>1 DEF Commit, session
  <2>2. ASSUME NEW p \in Players, gold'[p] # Gone
        PROVE  gold[p] # Gone /\ \A n \in Int : IsWorth(p, n) => IsWorth(p, n)'
    <3>1. gold[p] # Gone
      <4>1. queue \in Seq(Saves) /\ queue # <<>> /\ gold \in [Players -> Golds \cup {Gone}]
        BY <1>0, <1>1 DEF Commit, TypeOK
      <4>2. Head(queue) \in Saves
        BY <4>1
      <4> QED
        BY <1>1, <2>2, <4>1, <4>2, ApplyType DEF Commit
    <3>2. \A n \in Int : Owes(p, n) => Owes(p, n)'
      BY <1>0, <1>1, <2>2, CommitOwes
    <3> QED
      BY <2>1, <3>1, <3>2 DEF IsWorth
  <2> QED
    BY <2>1, <2>2, BoxesUntouched, GoldStays
<1>2. CASE Crash
  BY <1>2 DEF Crash, Excuse, GInv, Excused
<1>3. CASE UNCHANGED vars
  <2>1. UNCHANGED <<play, purse, box, safe, gold, queue, excuses>>
    BY <1>3 DEF vars, session, database
  <2>2. ASSUME NEW p \in Players, NEW n \in Int, IsWorth(p, n) PROVE IsWorth(p, n)'
    BY <2>1, <2>2 DEF IsWorth, Owes
  <2> QED
    BY <2>1, <2>2, BoxesUntouched, GoldStays
<1> QED
  BY <1>1, <1>2, <1>3

-----------------------------------------------------------------------------
(* A session that panics between two handlers' writes owes nothing         *)

\* The phases in which the gold of an open box is in its row.
Paid == Flying \cup {"game", "stack.src", "stack.dst"}
Written(a) ==
  /\ at[a] # "off" => gold[play[a]] # Gone /\ Owes(play[a], purse[a])
  /\ at[a] \in Paid /\ box[a] # NoSafe => box[a].gold = safe[a].gold
LInv == GInv /\ (~Excused => \A a \in Accounts : Written(a))

LEMMA OthersStayWritten ==
  ASSUME LInv, NEW a \in Accounts, NEW b \in Accounts \ {a}, ~Excused,
         at'[b] = at[b], play'[b] = play[b], purse'[b] = purse[b], box'[b] = box[b],
         safe'[b] = safe[b], \A q \in Players : AccountOf[q] # a => gold'[q] = gold[q],
         \/ queue' = queue
         \/ /\ gold' = gold /\ play[a] \in Players /\ AccountOf[play[a]] = a
            /\ \E n : queue' = Append(queue, [pid |-> play[a], gold |-> n])
  PROVE  Written(b)'
<1>0. TypeOK /\ Formed(b) /\ Written(b)
  BY DEF LInv, GInv, SbInv, Local
<1>1. CASE at[b] = "off"
  BY <1>0, <1>1 DEF Written, Paid, Flying
<1>2. CASE at[b] # "off"
  <2>1. play[b] \in Players /\ AccountOf[play[b]] = b /\ purse[b] \in Int
    BY <1>0, <1>2, LimitsAssumption DEF Formed, TypeOK, Golds
  <2>2. gold'[play[b]] = gold[play[b]] /\ Owes(play[b], purse[b])
    BY <1>0, <1>2, <2>1 DEF Written
  <2>3. Owes(play[b], purse[b])'
    <3> PICK q, m : q = play[b] /\ m = purse[b]
      OBVIOUS
    <3>1. q \in Players /\ m \in Int /\ Owes(q, m) /\ gold'[q] = gold[q] /\ AccountOf[q] = b
      BY <2>1, <2>2
    <3>2. CASE queue' = queue
      BY <2>1, <3>1, <3>2 DEF Owes
    <3>3. CASE /\ gold' = gold /\ play[a] \in Players /\ AccountOf[play[a]] = a
               /\ \E n : queue' = Append(queue, [pid |-> play[a], gold |-> n])
      <4>1. q # play[a]
        BY <3>1, <3>3
      <4>2. PICK n : queue' = Append(queue, [pid |-> play[a], gold |-> n])
        BY <3>3
      <4>3. Owes(q, m)'
        BY <1>0, <3>1, <3>3, <4>1, <4>2, SaveOwes
      <4> QED
        BY <4>3 DEF Owes
    <3> QED
      BY <3>2, <3>3
  <2> QED
    BY <1>0, <1>2, <2>1, <2>2, <2>3 DEF Written
<1> QED
  BY <1>1, <1>2

\* What a session owes itself.
LEMMA OwnWritten ==
  ASSUME LInv, NEW a \in Accounts, ~Excused, at[a] # "off", UNCHANGED <<play, purse, gold>>,
         UNCHANGED queue \/ Save(a),
         at'[a] \in Paid /\ box'[a] # NoSafe => box'[a].gold = safe'[a].gold
  PROVE  Written(a)'
<1>0. TypeOK /\ Formed(a) /\ Written(a)
  BY DEF LInv, GInv, SbInv, Local
<1>1. play[a] \in Players /\ Owes(play[a], purse[a]) /\ gold[play[a]] # Gone
  BY <1>0 DEF Formed, TypeOK, Written
<1>2. Owes(play[a], purse[a])'
  <2> PICK q, m : q = play[a] /\ m = purse[a]
    OBVIOUS
  <2>1. CASE UNCHANGED queue
    BY <1>1, <2>1 DEF Owes
  <2>2. CASE Save(a)
    <3>1. q \in Players /\ queue' = Append(queue, [pid |-> q, gold |-> m])
      BY <1>1, <2>2 DEF Save
    <3>2. Owes(q, m)'
      BY <1>0, <3>1, SaveOwes
    <3> QED
      BY <3>2 DEF Owes
  <2> QED
    BY <2>1, <2>2
<1> QED
  BY <1>1, <1>2 DEF Written

LEMMA AsksWritten ==
  ASSUME LInv, NEW a \in Accounts, Asks(a), ~Excused'
  PROVE  \A b \in Accounts : Written(b)'
<1>0. TypeOK /\ Formed(a)
  BY DEF LInv, GInv, SbInv, Local
<1> DEFINE Others == /\ \A b \in Accounts \ {a} : /\ at'[b] = at[b] /\ play'[b] = play[b]
                                                  /\ purse'[b] = purse[b] /\ box'[b] = box[b]
                                                  /\ safe'[b] = safe[b]
                     /\ \A q \in Players : AccountOf[q] # a => gold'[q] = gold[q]
                     /\ excuses \subseteq excuses'
           Quiet == UNCHANGED <<play, purse, gold, queue>> /\ at[a] # "off"
           Sent == \/ queue' = queue
                   \/ /\ gold' = gold /\ play[a] \in Players /\ AccountOf[play[a]] = a
                      /\ \E n : queue' = Append(queue, [pid |-> play[a], gold |-> n])
<1>1. ASSUME Others, Sent, ~Excused => Written(a)' PROVE \A b \in Accounts : Written(b)'
  <2>1. ~Excused
    BY <1>1 DEF Excused
  <2> QED
    BY <1>1, <2>1, OthersStayWritten
<1>2. /\ NoSafe.gold = 0 /\ (at[a] \in Paid /\ box[a] # NoSafe /\ ~Excused => box[a].gold = safe[a].gold)
      /\ at[a] # "off" => play[a] \in Players /\ AccountOf[play[a]] = a
      /\ ~Excused => Rowless(a)
  BY <1>0 DEF NoSafe, LInv, GInv, Written, Formed, TypeOK
<1>3. /\ at \in [Accounts -> Phases] /\ play \in [Accounts -> Players \cup {NoPlayer}]
      /\ purse \in [Accounts -> Golds] /\ box \in [Accounts -> Safes]
      /\ safe \in [Accounts -> Safes] /\ gold \in [Players -> Golds \cup {Gone}]
  BY <1>0 DEF TypeOK
<1>4. CASE \E p \in Players : Enter(a, p)
  <2> PICK p \in Players : Enter(a, p)
    BY <1>4
  <2>1. /\ UNCHANGED <<box, safe, gold, queue>> /\ at[a] = "off" /\ gold[p] # Gone
        /\ at' = [at EXCEPT ![a] = "game"] /\ play' = [play EXCEPT ![a] = p]
        /\ purse' = [purse EXCEPT ![a] = gold[p]] /\ excuses \subseteq excuses'
        /\ (\E k \in DOMAIN queue : queue[k].pid = p) => Excused'
    BY DEF Enter, database, Excuse, Excused, Goto
  <2>2. Others /\ Sent
    BY <1>3, <2>1
  <2>3. play'[a] = p /\ purse'[a] = gold[p] /\ box'[a] = NoSafe
    BY <1>0, <1>3, <2>1 DEF Formed
  <2>4. Owes(p, gold[p])'
    BY <2>1 DEF Owes
  <2>5. Written(a)'
    BY <2>1, <2>3, <2>4 DEF Written, Owes
  <2> QED
    BY <1>1, <2>2, <2>5
<1>5. CASE \E p \in Players : DeletePlayer(a, p)
  <2> PICK p \in Players : DeletePlayer(a, p)
    BY <1>5
  <2>1. /\ UNCHANGED <<at, play, purse, box, safe, queue>> /\ excuses \subseteq excuses'
        /\ at[a] = "off" /\ gold' = [gold EXCEPT ![p] = Gone] /\ AccountOf[p] = a
    BY DEF DeletePlayer, session, Excuse
  <2>2. Others /\ Sent
    BY <1>3, <2>1
  <2>3. Written(a)'
    BY <2>1 DEF Written, Paid, Flying
  <2> QED
    BY <1>1, <2>2, <2>3
<1>6. CASE Open(a)
  <2>1. /\ UNCHANGED <<at, play, purse, safe, gold, queue, excuses>> /\ at[a] = "game"
        /\ box' = [box EXCEPT ![a] = IF safe[a] = NoSafe THEN [size |-> 0, gold |-> 0] ELSE safe[a]]
    BY <1>6 DEF Open, database
  <2>2. Others /\ Sent
    BY <1>3, <2>1
  <2>3. box'[a].gold = safe'[a].gold
    BY <1>2, <1>3, <2>1
  <2>4. ~Excused => Written(a)'
    BY <2>1, <2>3, OwnWritten
  <2> QED
    BY <1>1, <2>2, <2>4
<1>7. CASE \E r \in Results : CloseBox(a, r)
  <2> PICK r \in Results : CloseBox(a, r)
    BY <1>7
  <2>1. /\ UNCHANGED <<at, play, purse, gold, queue>> /\ at[a] = "game" /\ SetGold(a, r)
        /\ box[a] # NoSafe /\ box' = [box EXCEPT ![a] = NoSafe] /\ excuses \subseteq excuses'
    BY DEF CloseBox, Shut, Excuse
  <2>2. Others /\ Sent
    BY <1>0, <1>3, <2>1, SetGoldWrites
  <2>3. box'[a] = NoSafe
    BY <1>3, <2>1
  <2>4. ~Excused => Written(a)'
    BY <2>1, <2>3, OwnWritten
  <2> QED
    BY <1>1, <2>2, <2>4
<1>8. CASE \/ \E i \in Items, pos \in Cells : Checkin(a, i, pos) \/ Move(a, i, pos)
           \/ \E i \in Items : Checkout(a, i)
           \/ \E i, j \in Items, want \in 0 .. CountLimit : Stack(a, i, j, want)
           \/ Disconnect(a)
  <2>1. /\ UNCHANGED <<play, purse, box, safe, gold, queue, excuses>> /\ at[a] = "game"
        /\ \E phase : at' = [at EXCEPT ![a] = phase]
    <3>1. CASE \E i \in Items, pos \in Cells : Checkin(a, i, pos) \/ Move(a, i, pos)
      BY <3>1 DEF Checkin, Move, Begin, database, Goto
    <3>2. CASE \E i \in Items : Checkout(a, i)
      BY <3>2 DEF Checkout, Begin, database, Goto
    <3>3. CASE \E i, j \in Items, want \in 0 .. CountLimit : Stack(a, i, j, want)
      BY <3>3 DEF Stack, Begin, database, Goto
    <3>4. CASE Disconnect(a)
      BY <3>4 DEF Disconnect, database, Goto
    <3> QED
      BY <1>8, <3>1, <3>2, <3>3, <3>4
  <2>2. Others /\ Sent
    BY <1>3, <2>1
  <2>3. at[a] \in Paid
    BY <2>1 DEF Paid
  <2>4. ~Excused => Written(a)'
    BY <1>2, <2>1, <2>3, OwnWritten
  <2> QED
    BY <1>1, <2>2, <2>4
<1>9. CASE \E n \in -GoldMax .. GoldMax : Money(a, n)
  <2> PICK n \in -GoldMax .. GoldMax : Money(a, n)
    BY <1>9
  <2> PICK q, m : q = play[a] /\ m = purse[a] - n
    OBVIOUS
  <2>1. /\ UNCHANGED <<play, safe, gold>> /\ at[a] = "game" /\ at' = [at EXCEPT ![a] = "money"]
        /\ purse' = [purse EXCEPT ![a] = @ - n] /\ box' = [box EXCEPT ![a].gold = @ + n]
        /\ queue' = Append(queue, [pid |-> q, gold |-> m])
        /\ excuses \subseteq excuses'
    BY DEF Money, Excuse, Goto
  <2>2. q \in Players
    BY <1>2, <2>1
  <2>3. Others /\ Sent
    BY <1>2, <1>3, <2>1
  <2>4. at'[a] = "money" /\ play'[a] = q /\ purse'[a] = m
    BY <1>3, <2>1
  <2>5. Owes(q, m)'
    BY <1>0, <2>1, <2>2, SaveOwes
  <2>6. ~Excused => gold'[q] # Gone
    BY <2>1 DEF LInv, Written
  <2>7. ~Excused => Written(a)'
    BY <2>4, <2>5, <2>6 DEF Written, Owes, Paid, Flying
  <2> QED
    BY <1>1, <2>3, <2>7
<1>10. CASE \E size \in 0 .. MaxSize, r \in Results : SetSize(a, size, r)
  <2> PICK size \in 0 .. MaxSize, r \in Results : SetSize(a, size, r)
    BY <1>10
  <2>1. /\ UNCHANGED <<play, purse, gold, queue>> /\ at[a] = "game" /\ excuses \subseteq excuses'
        /\ \E phase : at' = [at EXCEPT ![a] = phase]
        /\ box' = IF box[a] # NoSafe /\ size > box[a].size THEN [box EXCEPT ![a].size = size] ELSE box
        /\ \/ safe' = safe
           \/ safe' = [safe EXCEPT ![a] = [size |-> size, gold |-> IF @ = NoSafe THEN 0 ELSE @.gold]]
    BY DEF SetSize, Excuse, Goto
  <2>2. Others /\ Sent
    <3>1. \A b \in Accounts \ {a} : box'[b] = box[b] /\ safe'[b] = safe[b] /\ at'[b] = at[b]
      BY <1>3, <2>1
    <3> QED
      BY <3>1, <2>1
  <2>3. safe'[a].gold = safe[a].gold
    BY <1>2, <1>3, <2>1
  <2>4. box[a] # NoSafe => box[a] \in [size : 0 .. MaxSize, gold : Golds]
    BY <1>0, SafesAre
  <2>5. box'[a] # NoSafe => box[a] # NoSafe /\ box'[a].gold = box[a].gold
    <3>1. CASE box' = box
      BY <3>1
    <3>2. CASE box' # box
      <4>1. box[a] # NoSafe /\ box' = [box EXCEPT ![a].size = size]
        BY <2>1, <3>2
      <4>2. box'[a] = [box[a] EXCEPT !.size = size]
        BY <1>3, <4>1
      <4> QED
        BY <2>4, <4>1, <4>2
    <3> QED
      BY <3>1, <3>2
  <2>6. at[a] \in Paid
    BY <2>1 DEF Paid
  <2>7. ~Excused => Written(a)'
    BY <1>2, <2>1, <2>3, <2>5, <2>6, OwnWritten
  <2> QED
    BY <1>1, <2>2, <2>7
<1>11. CASE ChangePassword(a)
  <2>1. /\ UNCHANGED <<at, play, purse, box, gold, queue, excuses>> /\ at[a] = "game"
        /\ safe[a] = NoSafe /\ safe' = [safe EXCEPT ![a] = [size |-> 0, gold |-> 0]]
    BY <1>11 DEF ChangePassword, session
  <2>2. Others /\ Sent
    BY <1>3, <2>1
  <2>3. safe'[a].gold = safe[a].gold
    BY <1>2, <1>3, <2>1
  <2>4. ~Excused => Written(a)'
    BY <1>2, <2>1, <2>3, OwnWritten DEF Paid
  <2> QED
    BY <1>1, <2>2, <2>4
<1> QED
  BY <1>4, <1>5, <1>6, <1>7, <1>8, <1>9, <1>10, <1>11 DEF Asks

LEMMA StatementsWritten ==
  ASSUME LInv, NEW a \in Accounts, Statement(a) \/ LastSave(a) \/ StackPanics(a), ~Excused'
  PROVE  \A b \in Accounts : Written(b)'
<1>0. TypeOK /\ Formed(a)
  BY DEF LInv, GInv, SbInv, Local
<1> DEFINE Others == /\ \A b \in Accounts \ {a} : /\ at'[b] = at[b] /\ play'[b] = play[b]
                                                  /\ purse'[b] = purse[b] /\ box'[b] = box[b]
                                                  /\ safe'[b] = safe[b]
                     /\ gold' = gold /\ excuses \subseteq excuses' /\ at[a] # "off"
           Sent == UNCHANGED queue \/ Save(a)
<1>1. ASSUME Others, Sent, ~Excused => Written(a)' PROVE \A b \in Accounts : Written(b)'
  <2>1. ~Excused
    BY <1>1 DEF Excused
  <2>2. play[a] \in Players /\ AccountOf[play[a]] = a
    BY <1>0, <1>1 DEF Formed, TypeOK
  <2> QED
    BY <1>1, <2>1, <2>2, OthersStayWritten DEF Save
<1>2. /\ at[a] \in Paid /\ box[a] # NoSafe /\ ~Excused => box[a].gold = safe[a].gold
      /\ ~Excused => Rowless(a)
  BY DEF LInv, GInv, Written
<1>3. /\ at \in [Accounts -> Phases] /\ play \in [Accounts -> Players \cup {NoPlayer}]
      /\ purse \in [Accounts -> Golds] /\ box \in [Accounts -> Safes]
      /\ safe \in [Accounts -> Safes]
  BY <1>0 DEF TypeOK
<1>4. CASE \E r \in Results : \/ CheckinWrite(a, r) \/ CheckoutWrite(a, r) \/ MoveWrite(a, r)
                              \/ StackSrc(a, r) \/ StackDst(a, r)
  <2>1. /\ UNCHANGED <<play, purse, box, safe, gold>> /\ at[a] \in Paid /\ at[a] # "off"
        /\ excuses \subseteq excuses' /\ Sent /\ \E phase : at' = [at EXCEPT ![a] = phase]
    <3>1. CASE \E r \in Results : CheckinWrite(a, r) \/ CheckoutWrite(a, r) \/ MoveWrite(a, r)
      BY <3>1 DEF CheckinWrite, CheckoutWrite, MoveWrite, Write, Goto, Paid, Flying
    <3>2. CASE \E r \in Results : StackSrc(a, r)
      BY <3>2 DEF StackSrc, Shift, Excuse, Goto, Paid
    <3>3. CASE \E r \in Results : StackDst(a, r)
      BY <3>3 DEF StackDst, Excuse, Goto, Paid
    <3> QED
      BY <1>4, <3>1, <3>2, <3>3
  <2>2. Others
    BY <1>3, <2>1
  <2>3. ~Excused => Written(a)'
    BY <1>2, <2>1, OwnWritten
  <2> QED
    BY <1>1, <2>1, <2>2, <2>3
<1>5. CASE \E r \in Results : MoneyWrite(a, r)
  <2> PICK r \in Results : MoneyWrite(a, r)
    BY <1>5
  <2>1. /\ UNCHANGED <<play, purse, box, gold, queue, excuses>> /\ at[a] = "money" /\ SetGold(a, r)
        /\ at' = [at EXCEPT ![a] = IF r = "ok" THEN "game" ELSE "end"]
    BY DEF MoneyWrite, Goto
  <2>2. box[a] # NoSafe
    BY <1>0, <2>1 DEF Formed, Busy
  <2>3. Others
    BY <1>0, <1>3, <2>1, <2>2, SetGoldWrites
  <2>4. at'[a] = IF r = "ok" THEN "game" ELSE "end"
    BY <1>3, <2>1
  <2>5. ~Excused /\ at'[a] \in Paid => box'[a].gold = safe'[a].gold
    <3> SUFFICES ASSUME ~Excused, at'[a] \in Paid PROVE box[a].gold = safe'[a].gold
      BY <2>1
    <3>1. Happens(r)
      BY <2>4 DEF Paid, Flying, Happens
    <3>2. CASE safe[a] # NoSafe
      BY <1>0, <2>1, <2>2, <3>1, <3>2, SetGoldWrites
    <3>3. CASE safe[a] = NoSafe
      <4>1. box[a].gold = 0 /\ safe'[a] = safe[a]
        BY <1>2, <2>1, <2>2, <3>3 DEF Rowless, SetGold
      <4> QED
        BY <3>3, <4>1 DEF NoSafe
    <3> QED
      BY <3>2, <3>3
  <2>6. ~Excused => Written(a)'
    BY <2>1, <2>5, OwnWritten
  <2> QED
    BY <1>1, <2>1, <2>3, <2>6
<1>6. CASE \E r \in Results : End(a, r)
  <2> PICK r \in Results : End(a, r)
    BY <1>6
  <2>1. /\ UNCHANGED <<play, purse, gold, queue>> /\ at[a] = "end" /\ excuses \subseteq excuses'
        /\ at' = [at EXCEPT ![a] = "save"]
        /\ \/ box' = box /\ safe' = safe
           \/ box[a] # NoSafe /\ box' = [box EXCEPT ![a] = NoSafe] /\ SetGold(a, r)
    BY DEF End, Shut, Excuse, Goto
  <2>2. Others
    BY <1>0, <1>3, <2>1, SetGoldWrites
  <2>3. at'[a] = "save"
    BY <1>3, <2>1
  <2>4. ~Excused => Written(a)'
    BY <2>1, <2>3, OwnWritten DEF Paid, Flying
  <2> QED
    BY <1>1, <2>1, <2>2, <2>4
<1>7. CASE LastSave(a) \/ StackPanics(a)
  <2>1. /\ at[a] # "off" /\ at' = [at EXCEPT ![a] = "off"] /\ Sent
        /\ play' = [play EXCEPT ![a] = NoPlayer] /\ purse' = [purse EXCEPT ![a] = 0]
        /\ box' = box \/ box' = [box EXCEPT ![a] = NoSafe]
        /\ UNCHANGED <<safe, gold, excuses>>
    <3>1. CASE LastSave(a)
      BY <3>1 DEF LastSave, Goto
    <3>2. CASE StackPanics(a)
      BY <3>2 DEF StackPanics, Goto, database
    <3> QED
      BY <1>7, <3>1, <3>2
  <2>2. Others /\ at'[a] = "off"
    BY <1>3, <2>1
  <2>3. Written(a)'
    BY <2>2 DEF Written, Paid, Flying
  <2> QED
    BY <1>1, <2>1, <2>2, <2>3
<1>8. CASE Statement(a)
  BY <1>4, <1>5, <1>6, <1>8 DEF Statement
<1> QED
  BY <1>7, <1>8

LEMMA WorldWritten ==
  ASSUME LInv, Commit \/ Crash \/ UNCHANGED vars, ~Excused'
  PROVE  \A b \in Accounts : Written(b)'
<1>0. TypeOK
  BY DEF LInv, GInv, SbInv
<1> SUFFICES ASSUME NEW b \in Accounts PROVE Written(b)'
  OBVIOUS
<1>1. CASE Commit
  <2>1. UNCHANGED <<at, play, purse, box, safe, excuses>>
    BY <1>1 DEF Commit, session
  <2>2. Written(b)
    BY <2>1 DEF LInv, Excused
  <2>3. ASSUME at[b] # "off" PROVE gold'[play[b]] # Gone /\ Owes(play[b], purse[b])'
    <3> PICK q, m : q = play[b] /\ m = purse[b]
      OBVIOUS
    <3>1. Formed(b)
      BY DEF LInv, GInv, SbInv, Local
    <3>2. q \in Players /\ m \in Int /\ gold[q] # Gone /\ Owes(q, m)
      BY <1>0, <2>2, <2>3, <3>1, LimitsAssumption DEF Formed, TypeOK, Written, Golds
    <3>3. gold'[q] # Gone
      <4>1. queue \in Seq(Saves) /\ queue # <<>> /\ gold \in [Players -> Golds \cup {Gone}]
        BY <1>0, <1>1 DEF Commit, TypeOK
      <4>2. Head(queue).gold \in Golds /\ Head(queue).pid \in Players
        <5>1. Head(queue) \in Saves
          BY <4>1
        <5> QED
          BY <5>1 DEF Saves
      <4>3. Head(queue).gold # Gone
        BY <4>2, LimitsAssumption DEF Golds, Gone
      <4>4. gold' = Apply(gold, Head(queue))
        BY <1>1 DEF Commit
      <4> QED
        BY <3>2, <4>1, <4>2, <4>3, <4>4 DEF Apply
    <3>4. Owes(q, m)'
      BY <1>0, <1>1, <3>2, <3>3, CommitOwes
    <3> QED
      BY <2>1, <3>3, <3>4 DEF Owes
  <2> QED
    BY <2>1, <2>2, <2>3 DEF Written
<1>2. CASE Crash
  BY <1>2 DEF Crash, Excuse, Excused
<1>3. CASE UNCHANGED vars
  <2>1. UNCHANGED <<at, play, purse, box, safe, gold, queue, excuses>>
    BY <1>3 DEF vars, session, database
  <2>2. Written(b)
    BY <2>1 DEF LInv, Excused
  <2> QED
    BY <2>1, <2>2 DEF Written, Owes
<1> QED
  BY <1>1, <1>2, <1>3

\* A session that panics loses no gold: all it had is in the table or on its way.
LEMMA StackPanicsKeepsGold ==
  ASSUME LInv, SbInv', NEW a \in Accounts, StackPanics(a)
  PROVE  GInv'
<1>0. TypeOK /\ Formed(a)
  BY DEF LInv, GInv, SbInv, Local
<1>1. /\ UNCHANGED <<safe, gold, queue, excuses>> /\ at[a] = "stack.dst"
      /\ play' = [play EXCEPT ![a] = NoPlayer] /\ purse' = [purse EXCEPT ![a] = 0]
      /\ box' = [box EXCEPT ![a] = NoSafe]
  BY DEF StackPanics, database
<1>2. /\ play'[a] = NoPlayer /\ box'[a] = NoSafe
      /\ \A b \in Accounts \ {a} : play'[b] = play[b] /\ purse'[b] = purse[b] /\ box'[b] = box[b]
  BY <1>0, <1>1 DEF TypeOK
<1>3. NoPlayer \notin Players /\ box[a] # NoSafe
  BY <1>0, <1>1, IdsAssumption DEF NoPlayer, Formed, Busy
<1> SUFFICES ASSUME ~Excused' PROVE GInv'
  BY DEF GInv
<1>4. ~Excused /\ Written(a)
  BY <1>1 DEF LInv, Excused
<1>5. Owes(play[a], purse[a]) /\ box[a].gold = safe[a].gold
  BY <1>1, <1>3, <1>4 DEF Written, Paid
<1>6. ASSUME NEW q \in Players, NEW n \in Int, IsWorth(q, n) PROVE IsWorth(q, n)'
  <2>1. AccountOf[q] \in Accounts
    BY OwnersAssumption
  <2>2. Owes(q, n) => Owes(q, n)'
    BY <1>1 DEF Owes
  <2>3. CASE AccountOf[q] = a
    <3>1. Owes(q, n)
      BY <1>5, <1>6, <2>3 DEF IsWorth
    <3> QED
      BY <1>2, <1>3, <2>2, <2>3, <3>1 DEF IsWorth
  <2>4. CASE AccountOf[q] # a
    BY <1>2, <1>6, <2>1, <2>2, <2>4 DEF IsWorth
  <2> QED
    BY <2>3, <2>4
<1>7. \A b \in Accounts : BoxGold(b)' = BoxGold(b) /\ (Rowless(b) => Rowless(b)')
  BY <1>1, <1>2, <1>3, <1>5 DEF BoxGold, Rowless
<1> QED
  BY <1>1, <1>6, <1>7, GoldStays DEF LInv

LEMMA StepGold ==
  ASSUME LInv, [Next]_vars
  PROVE  LInv'
<1> SUFFICES GInv'
  <2>1. ~Excused' => \A b \in Accounts : Written(b)'
    BY AsksWritten, StatementsWritten, WorldWritten DEF Next
  <2> QED
    BY <2>1 DEF LInv
<1> USE DEF LInv
<1>0. SbInv'
  BY StepSb DEF GInv
<1>1. ASSUME NEW a \in Accounts, Asks(a) PROVE GInv'
  <2>1. CASE \E p \in Players : Enter(a, p)
    BY <1>0, <2>1, EnterKeepsGold
  <2>2. CASE \E p \in Players : DeletePlayer(a, p)
    BY <1>0, <2>2, DeletePlayerKeepsGold
  <2>3. CASE Open(a)
    BY <1>0, <2>3, OpenKeepsGold
  <2>4. CASE \E r \in Results : CloseBox(a, r)
    BY <1>0, <2>4, ShutKeepsGold
  <2>5. CASE \/ \E i \in Items, pos \in Cells : Checkin(a, i, pos) \/ Move(a, i, pos)
             \/ \E i \in Items : Checkout(a, i)
             \/ \E i, j \in Items, want \in 0 .. CountLimit : Stack(a, i, j, want)
             \/ Disconnect(a)
    BY <1>0, <2>5, HandlersKeepGold
  <2>6. CASE \E n \in -GoldMax .. GoldMax : Money(a, n)
    BY <1>0, <2>6, MoneyMovesGold
  <2>7. CASE \/ \E size \in 0 .. MaxSize, r \in Results : SetSize(a, size, r)
             \/ ChangePassword(a)
    BY <1>0, <2>7, SizesKeepGold
  <2> QED
    BY <1>1, <2>1, <2>2, <2>3, <2>4, <2>5, <2>6, <2>7 DEF Asks
<1>2. ASSUME NEW a \in Accounts, Statement(a) PROVE GInv'
  <2>1. PICK r \in Results :
          \/ CheckinWrite(a, r) \/ CheckoutWrite(a, r) \/ MoveWrite(a, r)
          \/ StackSrc(a, r) \/ StackDst(a, r) \/ MoneyWrite(a, r) \/ End(a, r)
    BY <1>2 DEF Statement
  <2> QED
    BY <1>0, <2>1, HandlersKeepGold, MoneyWriteKeepsGold, ShutKeepsGold
<1>3. ASSUME NEW a \in Accounts, LastSave(a) \/ StackPanics(a) PROVE GInv'
  BY <1>0, <1>3, LastSaveKeepsGold, StackPanicsKeepsGold
<1>4. CASE Commit \/ Crash \/ UNCHANGED vars
  BY <1>0, <1>4, WorldKeepsGold
<1> QED
  BY <1>1, <1>2, <1>3, <1>4 DEF Next

LEMMA InitGold ==
  ASSUME Init
  PROVE  GInv
<1>1. /\ gold = FirstGold /\ queue = <<>>
      /\ \A a \in Accounts : play[a] = NoPlayer /\ box[a] = NoSafe /\ safe[a] = NoSafe
  BY DEF Init
<1>2. GoldMax \in Nat /\ NoPlayer \notin Players /\ NoSafe.gold = 0
  BY LimitsAssumption, IdsAssumption DEF NoPlayer, NoSafe
<1>3. FirstGold \in [Players -> Int]
  BY <1>2, FirstAssumption DEF Golds
<1>4. \A p \in Players : IsWorth(p, FirstGold[p])
  <2>1. \A p \in Players : AccountOf[p] \in Accounts
    BY OwnersAssumption
  <2>2. DOMAIN queue = {}
    BY <1>1
  <2> QED
    BY <1>1, <1>2, <2>1, <2>2 DEF IsWorth, Owes
<1>5. ASSUME NEW a \in Accounts
      PROVE  GoldOf(FirstGold, a) + BoxGold(a) = GoldOf(FirstGold, a) /\ Rowless(a)
  <2>1. GoldOf(FirstGold, a) \in Int
    BY <1>3, GoldsSum
  <2>2. BoxGold(a) = 0 /\ Rowless(a)
    BY <1>1, <1>2 DEF BoxGold, Rowless
  <2> QED
    BY <2>1, <2>2
<1>6. GoldBalance
  BY <1>3, <1>4, <1>5 DEF GoldBalance
<1> QED
  BY <1>5, <1>6, InitSb DEF GInv

\* An account that deletes no character has the gold that it had, once it is offline and its
\* saves are written, if its box has a row, no crash and no failed close lost any, and no
\* character was loaded before its last save (move_gold, close, PlayerRepo::delete).
THEOREM GoldStaysKept == Spec => []GoldIsKept
<1>1. Init => LInv
  <2>1. Init => \A a \in Accounts : Written(a)
    BY DEF Init, Written, Paid, Flying
  <2> QED
    BY <2>1, InitGold DEF LInv
<1>2. LInv /\ [Next]_vars => LInv'
  BY StepGold
<1>3. LInv => GoldIsKept
  <2> SUFFICES ASSUME GInv, ~Excused, queue = <<>>, NEW a \in Accounts, Whole(a), at[a] = "off"
               PROVE  MapThenSumSet(LAMBDA p : gold[p], CharactersOf(a)) + safe[a].gold
                        = MapThenSumSet(LAMBDA p : FirstGold[p], CharactersOf(a))
    BY DEF GoldIsKept, Excused, LInv
  <2>1. TypeOK /\ box[a] = NoSafe /\ play[a] = NoPlayer /\ NoPlayer \notin Players
    BY IdsAssumption DEF GInv, SbInv, Local, Formed, NoPlayer
  <2>2. PICK w \in [Players -> Int] :
           /\ \A p \in Players : gold[p] # Gone => IsWorth(p, w[p])
           /\ \A b \in Accounts : Whole(b) => GoldOf(w, b) + BoxGold(b) = GoldOf(FirstGold, b)
    BY DEF GInv, GoldBalance
  <2>3. ASSUME NEW p \in CharactersOf(a) PROVE w[p] = gold[p]
    <3>1. p \in Players /\ AccountOf[p] = a /\ gold[p] # Gone
      BY DEF CharactersOf, Whole
    <3>2. Owes(p, w[p])
      BY <2>1, <2>2, <3>1 DEF IsWorth
    <3>3. DOMAIN queue = {}
      OBVIOUS
    <3> QED
      BY <3>2, <3>3 DEF Owes
  <2>4. GoldMax \in Nat /\ Gone \in Int
    BY LimitsAssumption DEF Gone
  <2>5. gold \in [Players -> Int] /\ FirstGold \in [Players -> Int]
    BY <2>1, <2>4, FirstAssumption DEF TypeOK, Golds
  <2>6. GoldOf(gold, a) = GoldOf(w, a)
    <3>1. [p \in CharactersOf(a) |-> gold[p]] = [p \in CharactersOf(a) |-> w[p]]
      BY <2>3
    <3> QED
      BY <3>1 DEF GoldOf
  <2>7. BoxGold(a) = safe[a].gold
    BY <2>1 DEF BoxGold
  <2>8. GoldOf(gold, a) + safe[a].gold = GoldOf(FirstGold, a)
    BY <2>2, <2>6, <2>7
  <2>9. /\ MapThenSumSet(LAMBDA p : gold[p], CharactersOf(a)) = GoldOf(gold, a)
        /\ MapThenSumSet(LAMBDA p : FirstGold[p], CharactersOf(a)) = GoldOf(FirstGold, a)
    <3>1. ASSUME NEW t \in [Players -> Int]
          PROVE  MapThenSumSet(LAMBDA p : t[p], CharactersOf(a)) = GoldOf(t, a)
      BY GoldsSum
    <3> QED
      BY <2>5, GoldsSum
  <2> QED
    BY <2>8, <2>9
<1> QED
  BY <1>1, <1>2, <1>3, PTL DEF Spec
=============================================================================
