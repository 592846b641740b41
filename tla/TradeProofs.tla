----------------------------- MODULE TradeProofs -----------------------------
(***************************************************************************)
(* Proofs about Trade for every finite set of players, number of things and *)
(* limit of gold: its types (no gold is ever out of its range), that pairs  *)
(* stay mutual, that an accept does not survive a change of an offer, and   *)
(* that the units of the commits conserve the things.                       *)
(***************************************************************************)
EXTENDS Trade, TLAPS, FiniteSetTheorems, WellFoundedInduction

-----------------------------------------------------------------------------
(* Finite sets of items, and the last of several saves                     *)

\* The constants as numbers (LimitsAssumption).
LEMMA Limits ==
  /\ Things \in Nat /\ GoldMax \in Nat /\ MaxRows \in Nat /\ MaxEvents \in Nat
  /\ Things <= MaxRows /\ StartGold \in [Sessions -> Amount]
BY LimitsAssumption DEF Amount

\* What a queue holds, and what is left of it.
LEMMA ElementsOf ==
  ASSUME NEW S, NEW seq \in Seq(S)
  PROVE  /\ \A i \in 1 .. Len(seq) : seq[i] \in S
         /\ seq # <<>> => Head(seq) \in S /\ Tail(seq) \in Seq(S)
         /\ \A e \in S : Append(seq, e) \in Seq(S)
OBVIOUS

\* There are finitely many items (Item).
LEMMA ItemsAreFinite ==
  ASSUME NEW items \in SUBSET Item
  PROVE  IsFiniteSet(items) /\ Cardinality(items) \in Nat
<1> DEFINE pairs == Ids \X (1 .. Things)
           f == [p \in pairs |-> [id |-> p[1], thing |-> p[2]]]
<1>1. IsFiniteSet(pairs)
  <2>1. IsFiniteSet(Ids) /\ IsFiniteSet(1 .. Things)
    BY Limits, FS_Interval DEF Ids
  <2> QED
    BY <2>1, FS_Product
<1>2. f \in Surjection(pairs, Item)
  <2>1. ASSUME NEW i \in Item PROVE \E p \in pairs : f[p] = i
    <3>1. <<i.id, i.thing>> \in pairs /\ f[<<i.id, i.thing>>] = i
      BY DEF Item
    <3> QED
      BY <3>1
  <2>2. f \in [pairs -> Item]
    BY DEF Item
  <2> QED
    BY <2>1, <2>2 DEF Surjection
<1>3. IsFiniteSet(Item)
  BY <1>1, <1>2, FS_Surjection
<1> QED
  BY <1>3, FS_Subset, FS_CardinalityType

\* SetToSeq lists the items.
LEMMA InOrder ==
  ASSUME NEW items \in SUBSET Item
  PROVE  SetToSeq(items) \in [1 .. Cardinality(items) -> items]
<1>1. ExistsBijection(1 .. Cardinality(items), items)
  BY ItemsAreFinite, FS_CardinalityType
<1>2. PICK f \in [1 .. Cardinality(items) -> items] : IsInjective(f)
  BY <1>1 DEF ExistsBijection, Bijection, Injection, IsInjective
<1> QED
  BY <1>2 DEF SetToSeq

\* The last of several saves (AfterSaves).
LEMMA LastSave ==
  ASSUME NEW n \in Nat, NEW T \in SUBSET (1 .. n), T # {}
  PROVE  Max(T) \in T
<1> DEFINE back == {n - x : x \in T}
<1>1. back \subseteq Nat
  OBVIOUS
<1>2. back # {}
  OBVIOUS
<1>3. PICK y \in back : \A z \in back : <<z, y>> \notin OpToRel(<, Nat)
  BY <1>1, <1>2, NatLessThanWellFounded, WFMin, Zenon
<1>4. PICK x \in T : y = n - x
  OBVIOUS
<1>5. \A z \in T : n - z \in back /\ ~(n - z < y)
  BY <1>1, <1>3 DEF OpToRel
<1>6. \A z \in T : x >= z
  BY <1>4, <1>5
<1>7. \E m \in T : \A z \in T : m >= z
  BY <1>6
<1> QED
  BY <1>7, Zenon DEF Max
-----------------------------------------------------------------------------
(* The units of a commit and what they do to PostgreSQL                    *)

\* Writing saves keeps the gold of every player in its range (AfterSaves).
LEMMA AfterSavesType ==
  ASSUME TypeOK, NEW n \in 0 .. Len(saves)
  PROVE  AfterSaves(n) \in [Sessions -> Amount]
<1> SUFFICES ASSUME NEW s \in Sessions
             PROVE  AfterSaves(n)[s] \in Amount
  BY DEF AfterSaves
<1> DEFINE mine == {k \in 1 .. n : saves[k].by = s}
<1>1. CASE mine = {}
  BY <1>1 DEF AfterSaves, TypeOK
<1>2. CASE mine # {}
  <2>1. saves \in Seq([by : Sessions, gold : Amount]) /\ n \in Nat /\ mine \in SUBSET (1 .. n)
    BY DEF TypeOK
  <2>2. Max(mine) \in 1 .. n
    BY <1>2, <2>1, LastSave
  <2> DEFINE last == Max(mine)
  <2> HIDE DEF mine, last
  <2>3. saves[last].gold \in Amount
    <3>1. last \in 1 .. Len(saves)
      BY <2>1, <2>2 DEF last
    <3>2. saves[last] \in [by : Sessions, gold : Amount]
      BY <2>1, <3>1, ElementsOf
    <3> QED
      BY <3>2
  <2>4. AfterSaves(n)[s] = IF mine = {} THEN dbGold[s] ELSE saves[Max(mine)].gold
    BY Zenon DEF AfterSaves, mine
  <2> QED
    BY <1>2, <2>3, <2>4 DEF last
<1> QED
  BY <1>1, <1>2

\* What a side hands over is at most one unit (TakeUnit).
LEMMA TakeUnitType ==
  ASSUME NEW owner \in Sessions, NEW items \in SUBSET Item,
         NEW pre \in Amount, NEW pays \in Amount, pays <= pre
  PROVE  TakeUnit(owner, items, pre, pays) \in Seq(Units)
<1>1. pre - pays \in Amount
  BY Limits DEF Amount
<1>2. [kind |-> "take", owner |-> owner, items |-> items, pre |-> pre, post |-> pre - pays]
        \in Units
  BY <1>1 DEF Units
<1> QED
  BY <1>2 DEF TakeUnit

\* What a side receives is one unit for each item, if there are ids (GiveUnits).
LEMMA GiveUnitsType ==
  ASSUME NEW owner \in Sessions, NEW items \in SUBSET Item, NEW first \in Nat \ {0},
         first + Cardinality(items) - 1 <= MaxRows
  PROVE  GiveUnits(owner, items, first) \in Seq(Units)
<1> DEFINE inOrder == SetToSeq(items)
           N == Cardinality(items)
           unit(n) == [kind |-> "give", owner |-> owner, pre |-> 0, post |-> 0,
                       items |-> {[id |-> first + n - 1, thing |-> inOrder[n].thing]}]
<1>1. N \in Nat /\ inOrder \in [1 .. N -> items]
  BY ItemsAreFinite, InOrder
<1>2. ASSUME NEW n \in 1 .. N PROVE unit(n) \in Units
  <2>1. inOrder[n] \in Item
    BY <1>1
  <2>2. first + n - 1 \in Ids
    BY <1>1, Limits DEF Ids
  <2>3. [id |-> first + n - 1, thing |-> inOrder[n].thing] \in Item
    BY <2>1, <2>2 DEF Item
  <2>4. 0 \in Amount
    BY Limits DEF Amount
  <2> QED
    BY <2>3, <2>4 DEF Units
<1>3. GiveUnits(owner, items, first) = [n \in 1 .. N |-> unit(n)]
  BY <1>1 DEF GiveUnits
<1> HIDE DEF unit
<1>4. [n \in 1 .. N |-> unit(n)] \in [1 .. N -> Units]
  BY <1>2
<1> QED
  BY <1>1, <1>3, <1>4

\* The units of a plan that both sides can pay (build_commit_units).
LEMMA CommitUnitsType ==
  ASSUME NEW s \in Sessions, NEW p \in Plans, NEW first \in Nat \ {0},
         gold[s] \in Amount, seen[s] \in Amount, PostsAreValid(p, gold[s], seen[s]),
         first + Cardinality(p.gives) + Cardinality(p.gets) - 1 <= MaxRows
  PROVE  CommitUnits(s, p, first) \in Seq(Units)
<1>1. /\ p.partner \in Sessions /\ p.gives \in SUBSET Item /\ p.gets \in SUBSET Item
      /\ p.pays \in Amount /\ p.isPaid \in Amount
      /\ p.pays <= gold[s] /\ p.isPaid <= seen[s]
  BY DEF Plans, PostsAreValid
<1>2. Cardinality(p.gives) \in Nat /\ Cardinality(p.gets) \in Nat
  BY <1>1, ItemsAreFinite
<1>3. /\ TakeUnit(s, p.gives, gold[s], p.pays) \in Seq(Units)
      /\ TakeUnit(p.partner, p.gets, seen[s], p.isPaid) \in Seq(Units)
  BY <1>1, TakeUnitType
<1>4. GiveUnits(p.partner, p.gives, first) \in Seq(Units)
  <2>1. first + Cardinality(p.gives) - 1 <= MaxRows
    BY <1>2, Limits
  <2> QED
    BY <1>1, <2>1, GiveUnitsType
<1>5. GiveUnits(s, p.gets, first + Cardinality(p.gives)) \in Seq(Units)
  <2>1. /\ first + Cardinality(p.gives) \in Nat \ {0}
        /\ (first + Cardinality(p.gives)) + Cardinality(p.gets) - 1 <= MaxRows
    BY <1>2, Limits
  <2> QED
    BY <1>1, <2>1, GiveUnitsType
<1> QED
  BY <1>3, <1>4, <1>5 DEF CommitUnits

\* A new id is a positive number (NextId).
LEMMA NextIdType == NextId \in Nat \ {0}
<1> DEFINE used == {i \in Ids : rows[i] # NoRow}
<1>1. used \in SUBSET (1 .. MaxRows) /\ MaxRows \in Nat
  BY Limits DEF Ids
<1>2. CASE used = {}
  BY <1>2 DEF NextId
<1>3. CASE used # {}
  <2>1. Max(used) \in 1 .. MaxRows
    BY <1>1, <1>3, LastSave
  <2>2. NextId = Max(used) + 1
    BY <1>3 DEF NextId
  <2> QED
    BY <1>1, <2>1, <2>2
<1> QED
  BY <1>2, <1>3

Rows == [Ids -> [owner : Sessions, thing : 1 .. Things] \cup {NoRow}]

\* A unit keeps rows, gold and saves well typed (RunUnit).
LEMMA RunUnitType ==
  ASSUME TypeOK, NEW u \in Units, RunUnit(u)
  PROVE  /\ rows' \in Rows /\ dbGold' \in [Sessions -> Amount]
         /\ saves' \in Seq([by : Sessions, gold : Amount])
<1> DEFINE before == AfterSaves(Len(saves))
<1>1. before \in [Sessions -> Amount] /\ rows \in Rows
  <2>1. Len(saves) \in 0 .. Len(saves)
    BY DEF TypeOK
  <2> QED
    BY <2>1, AfterSavesType DEF TypeOK, Rows
<1>2. /\ u.owner \in Sessions /\ u.items \in SUBSET Item
      /\ u.pre \in Amount /\ u.post \in Amount
  BY DEF Units
<1>3. saves' = <<>>
  BY DEF RunUnit
<1>4. CASE u.kind = "take"
  <2>1. dbGold' = [before EXCEPT ![u.owner] = IF @ = u.pre THEN u.post ELSE @]
    BY <1>4 DEF RunUnit
  <2>2. rows' = [i \in Ids |-> IF i \in IdsOf(u.items) THEN NoRow ELSE rows[i]]
    BY <1>4 DEF RunUnit
  <2> HIDE DEF before
  <2> QED
    BY <1>1, <1>2, <1>3, <2>1, <2>2 DEF Rows
<1>5. CASE u.kind # "take"
  <2>1. /\ dbGold' = before
        /\ rows' = [i \in Ids |-> IF i \in IdsOf(u.items)
                                  THEN [owner |-> u.owner, thing |-> ThingOf(u.items, i)]
                                  ELSE rows[i]]
    BY <1>5 DEF RunUnit
  <2>2. ASSUME NEW i \in IdsOf(u.items)
        PROVE  ThingOf(u.items, i) \in 1 .. Things
    <3>1. \E j \in u.items : j.id = i
      BY <2>2 DEF IdsOf
    <3>2. (CHOOSE j \in u.items : j.id = i) \in Item
      BY <1>2, <3>1
    <3> QED
      BY <3>2 DEF ThingOf, Item
  <2> QED
    BY <1>1, <1>2, <1>3, <2>1, <2>2 DEF Rows
<1> QED
  BY <1>4, <1>5
-----------------------------------------------------------------------------
(* Types, action by action                                                 *)

USE DEF trading, world, handler, memory, pg, ghosts

Kinds == {"start", "item", "del", "gold", "accept", "cancel",
          "commitOk", "commitFail", "leave", "join"}

\* A request that is sent, and one that is taken (Send, Takes).
LEMMA RequestTypes ==
  ASSUME TypeOK
  PROVE  /\ \A kind \in Kinds, s \in Sessions : SendOnly(kind, s) => intents' \in Seq(Intents)
         /\ \A kind \in Kinds : Takes(kind) =>
              intents' \in Seq(Intents) /\ Head(intents) \in Intents /\ By \in Sessions
<1>1. intents \in Seq(Intents)
  BY DEF TypeOK
<1>2. ASSUME NEW kind \in Kinds, NEW s \in Sessions, SendOnly(kind, s)
      PROVE  intents' \in Seq(Intents)
  <2>1. Intent(kind, s, NoSession, NoRow, 0) \in Intents
    BY Limits DEF Intent, Intents, Kinds, Amount
  <2> QED
    BY <1>1, <1>2, <2>1, ElementsOf DEF SendOnly, Send
<1>3. ASSUME NEW kind \in Kinds, Takes(kind)
      PROVE  intents' \in Seq(Intents) /\ Head(intents) \in Intents /\ By \in Sessions
  <2>1. intents' \in Seq(Intents) /\ Head(intents) \in Intents
    BY <1>1, <1>3, ElementsOf DEF Takes
  <2> QED
    BY <2>1 DEF By, Intents
<1> QED
  BY <1>2, <1>3

\* What a player asks for, saves or loses keeps the types (Ask).
LEMMA AskType ==
  ASSUME TypeOK, NEW s \in Sessions, Ask(s)
  PROVE  TypeOK'
<1>0. /\ spent \in 0 .. MaxEvents /\ bag \in [Sessions -> SUBSET Item]
      /\ gold \in [Sessions -> Amount] /\ intents \in Seq(Intents)
  BY DEF TypeOK
<1>1. Spend => spent' \in 0 .. MaxEvents
  BY <1>0, Limits DEF Spend
<1>2. ASSUME NEW kind \in Kinds, NEW t \in Sessions \cup {NoSession},
             NEW i \in Item \cup {NoRow}, NEW n \in Amount, Send(Intent(kind, s, t, i, n))
      PROVE  intents' \in Seq(Intents)
  <2>1. Intent(kind, s, t, i, n) \in Intents
    BY DEF Intent, Intents, Kinds
  <2> QED
    BY <1>0, <1>2, <2>1, ElementsOf DEF Send
<1>3. 0 \in Amount
  BY Limits DEF Amount
<1>4. CASE AskStart(s)
  <2>1. PICK t \in Sessions : Send(Intent("start", s, t, NoRow, 0))
    BY <1>4 DEF AskStart
  <2>2. intents' \in Seq(Intents)
    BY <2>1, <1>2, <1>3 DEF Kinds
  <2> QED
    BY <1>4, <1>1, <2>2 DEF AskStart, TypeOK
<1>5. CASE AskItem(s) \/ AskDel(s)
  <2>1. PICK kind \in Kinds, i \in Item : Send(Intent(kind, s, NoSession, i, 0))
    BY <1>5, <1>0 DEF AskItem, AskDel, Kinds
  <2>2. intents' \in Seq(Intents)
    BY <2>1, <1>2, <1>3
  <2> QED
    BY <1>5, <2>2 DEF AskItem, AskDel, TypeOK
<1>6. CASE AskGold(s)
  <2>1. PICK n \in Amount : Send(Intent("gold", s, NoSession, NoRow, n))
    BY <1>6, <1>0, Limits DEF AskGold, Amount
  <2>2. intents' \in Seq(Intents)
    BY <2>1, <1>2 DEF Kinds
  <2> QED
    BY <1>6, <2>2 DEF AskGold, TypeOK
<1>7. CASE AskAccept(s) \/ AskCancel(s)
  <2>1. intents' \in Seq(Intents)
    BY <1>7, RequestTypes DEF AskAccept, AskCancel, Kinds
  <2> QED
    BY <1>7, <1>1, <2>1 DEF AskAccept, AskCancel, TypeOK
<1>8. CASE Save(s)
  <2>1. saves' \in Seq([by : Sessions, gold : Amount])
    <3>1. [by |-> s, gold |-> gold[s]] \in [by : Sessions, gold : Amount]
      BY <1>0
    <3> QED
      BY <1>8, <3>1, ElementsOf DEF Save, SaveOf, TypeOK
  <2> QED
    BY <1>8, <1>1, <2>1 DEF Save, TypeOK
<1>9. CASE Lose(s)
  <2>1. PICK i \in bag[s] : /\ bag' = [bag EXCEPT ![s] = @ \ {i}]
                           /\ rows' = [rows EXCEPT ![i.id] = NoRow]
                           /\ lost' = lost \cup {i.thing}
    BY <1>9 DEF Lose
  <2>2. i \in Item /\ i.id \in Ids /\ i.thing \in 1 .. Things
    BY <1>0 DEF Item
  <2>3. bag' \in [Sessions -> SUBSET Item] /\ lost' \subseteq 1 .. Things
    BY <1>0, <2>1, <2>2 DEF TypeOK
  <2>4. rows' \in Rows
    BY <2>1, <2>2 DEF TypeOK, Rows
  <2>5. excuses' \subseteq Excuses
    BY <1>9 DEF Lose, TypeOK, Excuses
  <2> QED
    BY <1>9, <1>1, <2>3, <2>4, <2>5 DEF Lose, TypeOK, Rows
<1> QED
  BY <1>4, <1>5, <1>6, <1>7, <1>8, <1>9 DEF Ask
Sides == [items : SUBSET Item, gold : Amount, accept : BOOLEAN]

\* A new offer, and the end of a pair, keep the offers well typed (Offer, Release).
LEMMA OfferType ==
  ASSUME TypeOK, By \in Sessions, Partner # NoSession
  PROVE  \A items \in SUBSET Item, n \in Amount :
           Offer(items, n) => side' \in [Sessions -> Sides]
<1>1. Partner \in Sessions /\ side \in [Sessions -> Sides]
  BY DEF TypeOK, Partner, Sides
<1>2. ASSUME NEW items \in SUBSET Item, NEW n \in Amount, Offer(items, n)
      PROVE  side' \in [Sessions -> Sides]
  <2> DEFINE new == [items |-> items, gold |-> n, accept |-> FALSE]
             mine == [side EXCEPT ![By] = new]
  <2>1. mine \in [Sessions -> Sides]
    BY <1>1 DEF Sides
  <2>2. side' = [mine EXCEPT ![Partner] = [mine[Partner] EXCEPT !.accept = FALSE]]
    BY <1>2 DEF Offer
  <2>3. [mine[Partner] EXCEPT !.accept = FALSE] \in Sides
    BY <1>1, <2>1 DEF Sides
  <2> HIDE DEF mine
  <2> QED
    BY <1>1, <2>1, <2>2, <2>3
<1> QED
  BY <1>2

LEMMA ReleaseType ==
  ASSUME TypeOK, NEW s \in Sessions, Release(s)
  PROVE  pair' \in [Sessions -> Sessions \cup {NoSession}] /\ side' \in [Sessions -> Sides]
<1>1. NoSide \in Sides
  BY Limits DEF NoSide, Sides, Amount
<1>2. pair \in [Sessions -> Sessions \cup {NoSession}] /\ side \in [Sessions -> Sides]
  BY DEF TypeOK, Sides
<1> QED
  BY <1>1, <1>2 DEF Release

\* An event that is sent keeps the queues well typed (Tell).
LEMMA TellType ==
  ASSUME NEW queues \in [Sessions -> Seq(Commits \cup Dones)],
         NEW s \in Sessions, NEW e \in Commits \cup Dones
  PROVE  Tell(queues, s, e) \in [Sessions -> Seq(Commits \cup Dones)]
<1>1. Append(queues[s], e) \in Seq(Commits \cup Dones)
  BY ElementsOf
<1> QED
  BY <1>1 DEF Tell

\* What the world does keeps the types (World).
LEMMA WorldType ==
  ASSUME TypeOK, RequestsAreFormed, PairsAreMutual, World
  PROVE  TypeOK'
<1>0. /\ pair \in [Sessions -> Sessions \cup {NoSession}] /\ side \in [Sessions -> Sides]
      /\ events \in [Sessions -> Seq(Commits \cup Dones)]
      /\ players \subseteq Sessions /\ routes \subseteq Sessions
  BY DEF TypeOK, Sides
<1>1. /\ By \in Sessions /\ intents' \in Seq(Intents) /\ Head(intents) \in Intents
      /\ Partner \in Sessions \cup {NoSession}
  <2>1. By \in Sessions /\ intents' \in Seq(Intents) /\ Head(intents) \in Intents
    BY RequestTypes DEF World, WorldStart, WorldItem, WorldDel, WorldGold, WorldAccept,
       WorldCancel, WorldCommitOk, WorldLeave, WorldJoin, Kinds
  <2> QED
    BY <2>1, <1>0 DEF Partner
<1>2. /\ Head(intents).gold \in Amount
      /\ Takes("start") => Head(intents).to \in Sessions
      /\ Takes("item") => Head(intents).item \in Item
  <2>1. intents # <<>> => 1 \in DOMAIN intents /\ intents[1] = Head(intents)
    BY DEF TypeOK
  <2> QED
    BY <1>1, <2>1 DEF Intents, Takes, RequestsAreFormed
<1>3. CASE WorldStart
  <2>1. NoSide \in Sides
    BY Limits DEF NoSide, Sides, Amount
  <2>2. pair' \in [Sessions -> Sessions \cup {NoSession}] /\ side' \in [Sessions -> Sides]
    BY <1>0, <1>1, <1>2, <1>3, <2>1 DEF WorldStart
  <2> QED
    BY <1>1, <1>3, <2>2 DEF WorldStart, TypeOK, Sides
<1>4. CASE WorldItem
  <2>1. side' \in [Sessions -> Sides]
    <3>1. Partner # NoSession => side[By].items \cup {Head(intents).item} \in SUBSET Item
                                 /\ side[By].gold \in Amount
      BY <1>0, <1>1, <1>2, <1>4 DEF WorldItem, Sides
    <3> QED
      BY <1>0, <1>1, <1>4, <3>1, OfferType DEF WorldItem
  <2> QED
    BY <1>1, <1>4, <2>1 DEF WorldItem, TypeOK, Sides
<1>5. CASE WorldDel
  <2>1. side' \in [Sessions -> Sides]
    <3>1. side[By].items \ {Head(intents).item} \in SUBSET Item /\ side[By].gold \in Amount
      BY <1>0, <1>1 DEF Sides
    <3> QED
      BY <1>0, <1>1, <1>5, <3>1, OfferType DEF WorldDel
  <2> QED
    BY <1>1, <1>5, <2>1 DEF WorldDel, TypeOK, Sides
<1>6. CASE WorldGold
  <2>1. side' \in [Sessions -> Sides]
    <3>1. side[By].items \in SUBSET Item
      BY <1>0, <1>1 DEF Sides
    <3> QED
      BY <1>0, <1>1, <1>2, <1>6, <3>1, OfferType DEF WorldGold
  <2> QED
    BY <1>1, <1>6, <2>1 DEF WorldGold, TypeOK, Sides
<1>7. CASE WorldAccept
  <2>1. side' \in [Sessions -> Sides]
    BY <1>0, <1>1, <1>7 DEF WorldAccept, Sides
  <2>2. events' \in [Sessions -> Seq(Commits \cup Dones)]
    <3> DEFINE sent == [kind |-> "commit",
                        plan |-> [partner |-> Partner,
                                  gives |-> side[By].items, pays |-> side[By].gold,
                                  gets |-> side[Partner].items, isPaid |-> side[Partner].gold]]
    <3>1. Partner # NoSession => sent \in Commits
      BY <1>0, <1>1 DEF Commits, Plans, Sides
    <3>2. events' = events \/ (Partner # NoSession /\ events' = Tell(events, By, sent))
      BY <1>7 DEF WorldAccept
    <3> HIDE DEF sent
    <3>3. Partner # NoSession => Tell(events, By, sent) \in [Sessions -> Seq(Commits \cup Dones)]
      BY <1>0, <1>1, <3>1, TellType
    <3> QED
      BY <1>0, <3>2, <3>3
  <2> QED
    BY <1>1, <1>7, <2>1, <2>2 DEF WorldAccept, TypeOK, Sides
<1>8. CASE WorldCancel
  BY <1>1, <1>8, ReleaseType DEF WorldCancel, TypeOK, Sides
<1>9. CASE WorldCommitOk
  <2> DEFINE Done(s) == [kind |-> "done", gold |-> side[pair[s]].gold,
                         received |-> side[pair[s]].items, delivered |-> side[s].items]
  <2>1. events' \in [Sessions -> Seq(Commits \cup Dones)]
    <3>1. ASSUME Partner # NoSession
          PROVE  Done(By) \in Dones /\ Done(Partner) \in Dones
      <4>1. pair[By] = Partner /\ pair[Partner] = By
        BY <1>1, <3>1 DEF PairsAreMutual, Partner
      <4> QED
        BY <1>0, <1>1, <3>1, <4>1 DEF Dones, Sides
    <3>2. \/ events' = events
          \/ /\ Partner # NoSession
             /\ events' = Tell(Tell(events, By, Done(By)), Partner, Done(Partner))
      BY <1>9 DEF WorldCommitOk
    <3> HIDE DEF Done
    <3>3. ASSUME Partner # NoSession
          PROVE  Tell(Tell(events, By, Done(By)), Partner, Done(Partner))
                   \in [Sessions -> Seq(Commits \cup Dones)]
      <4>1. Tell(events, By, Done(By)) \in [Sessions -> Seq(Commits \cup Dones)]
        BY <1>0, <1>1, <3>1, <3>3, TellType
      <4>2. Done(Partner) \in Commits \cup Dones /\ Partner \in Sessions
        BY <1>1, <3>1, <3>3
      <4> QED
        BY <4>1, <4>2, TellType
    <3> QED
      BY <1>0, <3>2, <3>3
  <2>2. excuses' \subseteq Excuses
    BY <1>9 DEF WorldCommitOk, TypeOK, Excuses
  <2> QED
    BY <1>1, <1>9, <2>1, <2>2, ReleaseType DEF WorldCommitOk, TypeOK, Sides
<1>10. CASE WorldLeave
  BY <1>0, <1>1, <1>10, ReleaseType DEF WorldLeave, TypeOK, Sides
<1>11. CASE WorldJoin
  BY <1>0, <1>1, <1>11 DEF WorldJoin, TypeOK, Sides
<1> QED
  BY <1>3, <1>4, <1>5, <1>6, <1>7, <1>8, <1>9, <1>10, <1>11 DEF World
\* The event a session takes from its queue (NextEvent).
LEMMA EventTypes ==
  ASSUME TypeOK, NEW s \in Sessions
  PROVE  /\ \A kind \in {"commit", "done"} :
              NextEvent(s, kind) => events' \in [Sessions -> Seq(Commits \cup Dones)]
         /\ NextEvent(s, "commit") => Head(events[s]).plan \in Plans
         /\ events[s] # <<>> /\ Head(events[s]).kind = "done" =>
              Head(events[s]) \in Dones
<1>1. events \in [Sessions -> Seq(Commits \cup Dones)]
  BY DEF TypeOK
<1>2. ASSUME events[s] # <<>>
      PROVE  Head(events[s]) \in Commits \cup Dones /\ Tail(events[s]) \in Seq(Commits \cup Dones)
  BY <1>1, <1>2, ElementsOf
<1>3. /\ \A e \in Commits : e.plan \in Plans /\ e.kind = "commit"
      /\ \A e \in Dones : e.kind = "done"
  BY DEF Commits, Dones
<1> QED
  BY <1>1, <1>2, <1>3 DEF NextEvent

\* The end of a connection keeps the types (Hangup).
LEMMA HangupType ==
  ASSUME TypeOK, NEW s \in Sessions, Hangup(s), spent' \in 0 .. MaxEvents
  PROVE  TypeOK'
<1>1. saves' \in Seq([by : Sessions, gold : Amount])
  <2>1. [by |-> s, gold |-> gold[s]] \in [by : Sessions, gold : Amount]
    BY DEF TypeOK
  <2> QED
    BY <2>1, ElementsOf DEF Hangup, SaveOf, TypeOK
<1>2. intents' \in Seq(Intents)
  BY RequestTypes DEF Hangup, Kinds
<1>3. 0 \in Amount
  BY Limits DEF Amount
<1>4. events' \in [Sessions -> Seq(Commits \cup Dones)]
  BY DEF Hangup, TypeOK
<1> QED
  BY <1>1, <1>2, <1>3, <1>4 DEF Hangup, TypeOK

\* What a session does without being asked keeps the types (Handle).
LEMMA HandleType ==
  ASSUME IInv, NEW s \in Sessions, Handle(s)
  PROVE  TypeOK'
<1>0. TypeOK
  BY DEF IInv
<1>1. 0 \in Amount
  BY Limits DEF Amount
<1>2. CASE TakeCommit(s)
  <2>1. Head(events[s]).plan \in Plans /\ events' \in [Sessions -> Seq(Commits \cup Dones)]
    BY <1>0, <1>2, EventTypes DEF TakeCommit
  <2>2. dbGold[Head(events[s]).plan.partner] \in Amount
    BY <1>0, <2>1 DEF TypeOK, Plans
  <2> QED
    BY <1>0, <1>2, <2>1, <2>2 DEF TakeCommit, TypeOK
<1>3. CASE RefuseCommit(s)
  <2>1. events' \in [Sessions -> Seq(Commits \cup Dones)] /\ intents' \in Seq(Intents)
    BY <1>0, <1>3, EventTypes, RequestTypes DEF RefuseCommit, Kinds
  <2> QED
    BY <1>0, <1>3, <2>1 DEF RefuseCommit, TypeOK
<1>4. CASE AllocateIds(s)
  <2>1. CommitUnits(s, plan[s], NextId) \in Seq(Units)
    <3>1. plan[s] \in Plans /\ PostsAreValid(plan[s], gold[s], seen[s])
      BY <1>4 DEF AllocateIds, IInv, CommitsAreCovered
    <3>2. gold[s] \in Amount /\ seen[s] \in Amount
      BY <1>0 DEF TypeOK
    <3>3. NextId + Cardinality(plan[s].gives) + Cardinality(plan[s].gets) - 1 <= MaxRows
      BY <1>4 DEF AllocateIds
    <3> QED
      BY <3>1, <3>2, <3>3, NextIdType, CommitUnitsType
  <2>2. excuses' \subseteq Excuses
    BY <1>0, <1>4 DEF AllocateIds, OfferedTwice, TypeOK, Excuses
  <2> QED
    BY <1>0, <1>1, <1>4, <2>1, <2>2 DEF AllocateIds, TypeOK
<1>5. CASE Unit(s)
  <2>1. todo[s] \in Seq(Units) /\ Head(todo[s]) \in Units /\ Tail(todo[s]) \in Seq(Units)
    <3>1. todo[s] \in Seq(Units) /\ todo[s] # <<>>
      BY <1>0, <1>5 DEF Unit, TypeOK
    <3> QED
      BY <3>1, ElementsOf
  <2>2. /\ rows' \in Rows /\ dbGold' \in [Sessions -> Amount]
        /\ saves' \in Seq([by : Sessions, gold : Amount])
    BY <1>0, <1>5, <2>1, RunUnitType DEF Unit
  <2>3. excuses' \subseteq Excuses
    BY <1>0, <1>5 DEF Unit, Unforeseen, TypeOK, Excuses
  <2>4. todo' \in [Sessions -> Seq(Units)]
    BY <1>0, <1>5, <2>1 DEF Unit, TypeOK
  <2> QED
    BY <1>0, <1>5, <2>2, <2>3, <2>4 DEF Unit, TypeOK, Rows
<1>6. CASE CommitDone(s)
  <2>1. intents' \in Seq(Intents)
    BY <1>0, <1>6, RequestTypes DEF CommitDone, Kinds
  <2> QED
    BY <1>0, <1>6, <2>1 DEF CommitDone, TypeOK
<1>7. CASE TakeDone(s)
  <2>1. Head(events[s]) \in Dones /\ events' \in [Sessions -> Seq(Commits \cup Dones)]
    BY <1>0, <1>7, EventTypes DEF TakeDone, NextEvent
  <2>2. Head(events[s]).received \in SUBSET Item /\ Head(events[s]).gold \in Amount
    BY <2>1 DEF Dones
  <2>3. gold[s] + Head(events[s]).gold \in Amount
    <3>1. gold[s] + Head(events[s]).gold <= GoldMax
      BY <1>7 DEF TakeDone
    <3>2. gold[s] \in Amount
      BY <1>0 DEF TypeOK
    <3>3. ASSUME NEW a \in Amount, NEW b \in Amount, a + b <= GoldMax
          PROVE  a + b \in Amount
      BY <3>3, Limits DEF Amount
    <3> QED
      BY ONLY <2>2, <3>1, <3>2, <3>3
  <2> QED
    BY <1>0, <1>7, <2>1, <2>2, <2>3 DEF TakeDone, TypeOK
<1>8. CASE PlaceItem(s)
  <2>1. PICK i \in hand[s] : /\ rows' = [rows EXCEPT ![i.id] = [owner |-> s, thing |-> i.thing]]
                            /\ bag' = [bag EXCEPT ![s] = @ \cup {i}]
                            /\ hand' = [hand EXCEPT ![s] = @ \ {i}]
    BY <1>8 DEF PlaceItem
  <2>2. i \in Item /\ i.id \in Ids /\ i.thing \in 1 .. Things
    BY <1>0 DEF TypeOK, Item
  <2>3. rows' \in Rows
    BY <1>0, <2>1, <2>2 DEF TypeOK, Rows
  <2>4. bag' \in [Sessions -> SUBSET Item] /\ hand' \in [Sessions -> SUBSET Item]
    BY <1>0, <2>1, <2>2 DEF TypeOK
  <2>5. excuses' \subseteq Excuses
    BY <1>0, <1>8 DEF PlaceItem, TypeOK, Excuses
  <2> QED
    BY <1>0, <1>8, <2>3, <2>4, <2>5 DEF PlaceItem, TypeOK, Rows
<1>9. CASE PlaceGold(s)
  BY <1>0, <1>1, <1>9 DEF PlaceGold, TypeOK
<1>10. CASE DoneOverflows(s)
  <2>1. spent' \in 0 .. MaxEvents
    BY <1>0, <1>10 DEF DoneOverflows, TypeOK
  <2> QED
    BY <1>0, <1>10, <2>1, HangupType DEF DoneOverflows
<1> QED
  BY <1>2, <1>3, <1>4, <1>5, <1>6, <1>7, <1>8, <1>9, <1>10 DEF Handle

\* A save that is written keeps the types (WriteSave).
LEMMA WriteSaveType ==
  ASSUME TypeOK, WriteSave
  PROVE  TypeOK'
<1>1. dbGold' \in [Sessions -> Amount]
  <2>1. 1 \in 0 .. Len(saves)
    BY DEF WriteSave, TypeOK
  <2> QED
    BY <2>1, AfterSavesType DEF WriteSave
<1>2. saves' \in Seq([by : Sessions, gold : Amount])
  BY ElementsOf DEF WriteSave, TypeOK
<1> QED
  BY <1>1, <1>2 DEF WriteSave, TypeOK

\* Failures, disconnections and new connections keep the types.
LEMMA AccidentType ==
  ASSUME TypeOK, NEW s \in Sessions,
         UnitFails(s) \/ Disconnect(s) \/ Enter(s)
  PROVE  TypeOK'
<1>1. Spend => spent' \in 0 .. MaxEvents
  BY Limits DEF Spend, TypeOK
<1>2. CASE UnitFails(s)
  <2>1. /\ rows' \in Rows /\ dbGold' \in [Sessions -> Amount]
        /\ saves' \in Seq([by : Sessions, gold : Amount])
    <3>1. CASE RunUnit(Head(todo[s]))
      <4>1. Head(todo[s]) \in Units
        BY <1>2, ElementsOf DEF UnitFails, TypeOK
      <4> QED
        BY <3>1, <4>1, RunUnitType
    <3>2. CASE /\ \E n \in 0 .. Len(saves) : dbGold' = AfterSaves(n)
               /\ saves' = <<>> /\ rows' = rows
      <4>1. dbGold' \in [Sessions -> Amount]
        BY <3>2, AfterSavesType
      <4> QED
        BY <3>2, <4>1 DEF TypeOK, Rows
    <3>3. \/ RunUnit(Head(todo[s]))
          \/ /\ \E n \in 0 .. Len(saves) : dbGold' = AfterSaves(n)
             /\ saves' = <<>> /\ rows' = rows
      BY <1>2 DEF UnitFails
    <3> QED
      BY <3>1, <3>2, <3>3
  <2>2. intents' \in Seq(Intents)
    <3>1. SendOnly("commitFail", s) /\ "commitFail" \in Kinds
      BY <1>2 DEF UnitFails, Kinds
    <3> QED
      BY <3>1, RequestTypes
  <2>3. excuses' \subseteq Excuses
    <3>1. /\ excuses \subseteq Excuses /\ "failed" \in Excuses
          /\ \A u : Unforeseen(u) \subseteq Excuses
      BY DEF Unforeseen, TypeOK, Excuses
    <3> QED
      BY <1>2, <3>1 DEF UnitFails
  <2>4. /\ spent' \in 0 .. MaxEvents
        /\ at' \in [Sessions -> {"idle", "ids", "units", "place", "gone"}]
        /\ todo' \in [Sessions -> Seq(Units)]
    BY <1>1, <1>2 DEF UnitFails, TypeOK
  <2>5. UNCHANGED <<players, routes, pair, side, events, plan, seen, hand, gain, gold, bag, lost>>
    BY <1>2 DEF UnitFails
  <2> QED
    BY <2>1, <2>2, <2>3, <2>4, <2>5 DEF TypeOK, Rows
<1>3. CASE Disconnect(s)
  BY <1>1, <1>3, HangupType DEF Disconnect
<1>4. CASE Enter(s)
  <2>1. OwnedRows(s) \in SUBSET Item
    <3>1. ASSUME NEW i \in Ids, rows[i].owner = s PROVE rows[i].thing \in 1 .. Things
      BY <3>1, SessionsAssumption DEF TypeOK, NoRow
    <3> QED
      BY <3>1 DEF OwnedRows, Item
  <2>2. intents' \in Seq(Intents)
    BY <1>4, RequestTypes DEF Enter, Kinds
  <2> QED
    BY <1>4, <2>1, <2>2 DEF Enter, TypeOK
<1> QED
  BY <1>2, <1>3, <1>4

\* Every step keeps the types (Next).
LEMMA TypeInductive ==
  ASSUME IInv, [Next]_vars
  PROVE  TypeOK'
<1>1. CASE UNCHANGED vars
  BY <1>1 DEF vars, IInv, TypeOK
<1>2. CASE World
  BY <1>2, WorldType DEF IInv
<1>3. CASE WriteSave
  BY <1>3, WriteSaveType DEF IInv
<1>4. ASSUME NEW s \in Sessions,
             Handle(s) \/ Ask(s) \/ UnitFails(s) \/ Disconnect(s) \/ Enter(s)
      PROVE  TypeOK'
  BY <1>4, HandleType, AskType, AccidentType DEF IInv
<1> QED
  BY <1>1, <1>2, <1>3, <1>4 DEF Next

-----------------------------------------------------------------------------
(* Pairs, requests and commits                                             *)

\* A request that the world can rely on (RequestsAreFormed).
Formed(m) == /\ m.kind = "start" => m.to \in Sessions \ {m.by}
             /\ m.kind \in {"item", "del"} => m.item \in Item

\* A step sends one request that is formed, takes one or leaves the queue alone.
LEMMA QueueMoves ==
  ASSUME IInv, [Next]_vars
  PROVE  \/ intents' = intents
         \/ intents # <<>> /\ intents' = Tail(intents)
         \/ \E m \in Intents : Formed(m) /\ intents' = Append(intents, m)
<1>0. TypeOK
  BY DEF IInv
<1>1. 0 \in Amount
  BY Limits DEF Amount
<1>2. ASSUME NEW s \in Sessions, NEW kind \in Kinds \ {"start", "item", "del"},
             SendOnly(kind, s)
      PROVE  \E m \in Intents : Formed(m) /\ intents' = Append(intents, m)
  <2> DEFINE m == Intent(kind, s, NoSession, NoRow, 0)
  <2>1. m \in Intents /\ Formed(m)
    BY <1>1 DEF Intent, Intents, Kinds, Formed
  <2> QED
    BY <1>2, <2>1 DEF SendOnly, Send
<1>3. ASSUME NEW s \in Sessions, Ask(s)
      PROVE  \/ intents' = intents
             \/ \E m \in Intents : Formed(m) /\ intents' = Append(intents, m)
  <2>1. CASE AskStart(s)
    <3>1. PICK t \in Sessions \ {s} : Send(Intent("start", s, t, NoRow, 0))
      BY <2>1 DEF AskStart
    <3>2. Intent("start", s, t, NoRow, 0) \in Intents /\ Formed(Intent("start", s, t, NoRow, 0))
      BY <1>1 DEF Intent, Intents, Formed
    <3> QED
      BY <3>1, <3>2 DEF Send
  <2>2. CASE AskItem(s) \/ AskDel(s)
    <3>1. PICK kind \in {"item", "del"}, i \in Item : Send(Intent(kind, s, NoSession, i, 0))
      BY <1>0, <2>2 DEF AskItem, AskDel, TypeOK
    <3>2. Intent(kind, s, NoSession, i, 0) \in Intents /\ Formed(Intent(kind, s, NoSession, i, 0))
      BY <1>1 DEF Intent, Intents, Formed
    <3> QED
      BY <3>1, <3>2 DEF Send
  <2>3. CASE AskGold(s)
    <3>1. PICK n \in Amount : Send(Intent("gold", s, NoSession, NoRow, n))
      BY <1>0, <2>3, Limits DEF AskGold, TypeOK, Amount
    <3>2. Intent("gold", s, NoSession, NoRow, n) \in Intents
          /\ Formed(Intent("gold", s, NoSession, NoRow, n))
      BY DEF Intent, Intents, Formed
    <3> QED
      BY <3>1, <3>2 DEF Send
  <2>4. CASE AskAccept(s) \/ AskCancel(s)
    BY <2>4, <1>2 DEF AskAccept, AskCancel, Kinds
  <2>5. CASE Save(s) \/ Lose(s)
    BY <2>5 DEF Save, Lose
  <2> QED
    BY <1>3, <2>1, <2>2, <2>3, <2>4, <2>5 DEF Ask
<1>4. ASSUME NEW s \in Sessions, Handle(s) \/ UnitFails(s) \/ Disconnect(s) \/ Enter(s)
      PROVE  \/ intents' = intents
             \/ \E m \in Intents : Formed(m) /\ intents' = Append(intents, m)
  <2>1. CASE \/ RefuseCommit(s) \/ CommitDone(s) \/ DoneOverflows(s)
             \/ UnitFails(s) \/ Disconnect(s) \/ Enter(s)
    BY <2>1, <1>2 DEF RefuseCommit, CommitDone, DoneOverflows, UnitFails, Disconnect,
       Hangup, Enter, Kinds
  <2>2. CASE \/ TakeCommit(s) \/ AllocateIds(s) \/ Unit(s)
             \/ TakeDone(s) \/ PlaceItem(s) \/ PlaceGold(s)
    BY <2>2 DEF TakeCommit, AllocateIds, Unit, TakeDone, PlaceItem, PlaceGold
  <2> QED
    BY <1>4, <2>1, <2>2 DEF Handle
<1>5. CASE World
  BY <1>5 DEF World, WorldStart, WorldItem, WorldDel, WorldGold, WorldAccept,
     WorldCancel, WorldCommitOk, WorldLeave, WorldJoin, Takes
<1>6. CASE WriteSave \/ UNCHANGED vars
  BY <1>6 DEF WriteSave, vars
<1> QED
  BY <1>3, <1>4, <1>5, <1>6 DEF Next

\* Every request in the queue stays formed (RequestsAreFormed).
LEMMA RequestsInductive ==
  ASSUME IInv, [Next]_vars
  PROVE  RequestsAreFormed'
<1>1. intents \in Seq(Intents) /\ \A n \in DOMAIN intents : Formed(intents[n])
  BY DEF IInv, TypeOK, RequestsAreFormed, Formed
<1>2. \A n \in DOMAIN intents' : Formed(intents'[n])
  <2>1. CASE intents' = intents
    BY <1>1, <2>1
  <2>2. CASE intents # <<>> /\ intents' = Tail(intents)
    <3>1. \A n \in DOMAIN Tail(intents) : n + 1 \in DOMAIN intents
                                          /\ Tail(intents)[n] = intents[n + 1]
      BY <1>1, <2>2
    <3> QED
      BY <1>1, <2>2, <3>1
  <2>3. ASSUME NEW m \in Intents, Formed(m), intents' = Append(intents, m)
        PROVE  \A n \in DOMAIN intents' : Formed(intents'[n])
    <3> SUFFICES ASSUME NEW n \in DOMAIN intents' PROVE Formed(intents'[n])
      OBVIOUS
    <3>1. CASE n \in DOMAIN intents
      <4>1. intents'[n] = intents[n]
        BY <1>1, <2>3, <3>1
      <4> QED
        BY <1>1, <3>1, <4>1
    <3>2. CASE n \notin DOMAIN intents
      <4>1. intents'[n] = m
        BY <1>1, <2>3, <3>2
      <4> QED
        BY <2>3, <4>1
    <3> QED
      BY <3>1, <3>2
  <2> QED
    BY <2>1, <2>2, <2>3, QueueMoves
<1> QED
  BY <1>2 DEF RequestsAreFormed, Formed

\* A commit under way stays covered: while a session is about to build the units
\* nothing changes its gold, its plan or what it read (CommitsAreCovered).
LEMMA CommitsInductive ==
  ASSUME IInv, [Next]_vars
  PROVE  CommitsAreCovered'
<1> SUFFICES ASSUME NEW t \in Sessions, at'[t] = "ids"
             PROVE  plan'[t] \in Plans /\ PostsAreValid(plan'[t], gold'[t], seen'[t])
  BY DEF CommitsAreCovered, PostsAreValid
<1> DEFINE Same == at[t] = "ids" /\ plan'[t] = plan[t] /\ gold'[t] = gold[t] /\ seen'[t] = seen[t]
<1>0. TypeOK
  BY DEF IInv
<1>1. CASE Same
  BY <1>1 DEF IInv, CommitsAreCovered
<1>2. CASE TakeCommit(t)
  <2> DEFINE p == Head(events[t]).plan
  <2>1. p \in Plans /\ PostsAreValid(p, gold[t], dbGold[p.partner])
    BY <1>0, <1>2, EventTypes DEF TakeCommit, Acceptable
  <2>2. plan'[t] = p /\ seen'[t] = dbGold[p.partner] /\ gold'[t] = gold[t]
    BY <1>0, <1>2 DEF TakeCommit, TypeOK
  <2> QED
    BY <2>1, <2>2
<1>3. CASE World \/ WriteSave \/ UNCHANGED vars
  <2>1. Same
    BY <1>3 DEF World, WorldStart, WorldItem, WorldDel, WorldGold, WorldAccept,
       WorldCancel, WorldCommitOk, WorldLeave, WorldJoin, WriteSave, vars
  <2> QED
    BY <1>1, <2>1
<1>4. ASSUME NEW s \in Sessions, Ask(s)
      PROVE  Same
  BY <1>4 DEF Ask, AskStart, AskItem, AskDel, AskGold, AskAccept, AskCancel, Save, Lose
<1>5. ASSUME NEW s \in Sessions, s # t, TakeCommit(s)
      PROVE  Same
  BY <1>0, <1>5 DEF TakeCommit, TypeOK
<1>6. ASSUME NEW s \in Sessions,
             \/ RefuseCommit(s) \/ AllocateIds(s) \/ Unit(s) \/ CommitDone(s) \/ UnitFails(s)
      PROVE  Same
  BY <1>0, <1>6 DEF RefuseCommit, AllocateIds, Unit, CommitDone, UnitFails, TypeOK
<1>7. ASSUME NEW s \in Sessions, TakeDone(s) \/ PlaceItem(s) \/ PlaceGold(s) \/ Enter(s)
      PROVE  Same
  BY <1>0, <1>7 DEF TakeDone, PlaceItem, PlaceGold, Enter, TypeOK
<1>8. ASSUME NEW s \in Sessions, DoneOverflows(s) \/ Disconnect(s)
      PROVE  Same
  BY <1>0, <1>8 DEF DoneOverflows, Disconnect, Hangup, TypeOK
<1> QED
  BY <1>1, <1>2, <1>3, <1>4, <1>5, <1>6, <1>7, <1>8 DEF Next, Handle

\* Only the world task changes the pairs, the offers and who is present.
LEMMA OnlyWorldTrades ==
  ASSUME [Next]_vars, ~World
  PROVE  UNCHANGED <<pair, side, players>>
<1>1. CASE WriteSave \/ UNCHANGED vars
  BY <1>1 DEF WriteSave, vars
<1>2. ASSUME NEW s \in Sessions, Ask(s)
      PROVE  UNCHANGED <<pair, side, players>>
  BY <1>2 DEF Ask, AskStart, AskItem, AskDel, AskGold, AskAccept, AskCancel, Save, Lose
<1>3. ASSUME NEW s \in Sessions, Handle(s)
      PROVE  UNCHANGED <<pair, side, players>>
  BY <1>3 DEF Handle, TakeCommit, RefuseCommit, AllocateIds, Unit, CommitDone, TakeDone,
     PlaceItem, PlaceGold, DoneOverflows, Hangup
<1>4. ASSUME NEW s \in Sessions, UnitFails(s) \/ Disconnect(s) \/ Enter(s)
      PROVE  UNCHANGED <<pair, side, players>>
  BY <1>4 DEF UnitFails, Disconnect, Hangup, Enter
<1> QED
  BY <1>1, <1>2, <1>3, <1>4 DEF Next

\* A new offer changes one side and withdraws both accepts (Offer).
LEMMA OfferWithdraws ==
  ASSUME TypeOK, By \in Sessions, Partner \in Sessions, Partner # By,
         NEW items, NEW n, Offer(items, n)
  PROVE  /\ ~side'[By].accept /\ ~side'[Partner].accept
         /\ side'[Partner].items = side[Partner].items /\ side'[Partner].gold = side[Partner].gold
         /\ \A s \in Sessions \ {By, Partner} : side'[s] = side[s]
<1>1. side \in [Sessions -> Sides]
  BY DEF TypeOK, Sides
<1>2. side' = [[side EXCEPT ![By] = [items |-> items, gold |-> n, accept |-> FALSE]]
                 EXCEPT ![Partner] = [side[Partner] EXCEPT !.accept = FALSE]]
  BY <1>1 DEF Offer
<1> QED
  BY <1>1, <1>2 DEF Sides

\* Who takes a request is a player, and so is his partner, if he has one (Takes).
LEMMA WhoTrades ==
  ASSUME IInv, World
  PROVE  /\ By \in Sessions
         /\ Partner # NoSession => /\ Partner \in Sessions /\ Partner # By
                                   /\ pair[By] = Partner /\ pair[Partner] = By
<1>1. By \in Sessions
  BY RequestTypes DEF IInv, World, WorldStart, WorldItem, WorldDel, WorldGold, WorldAccept,
     WorldCancel, WorldCommitOk, WorldLeave, WorldJoin, Kinds
<1> QED
  BY <1>1 DEF IInv, TypeOK, PairsAreMutual, Partner

\* Pairs stay mutual (PairsAreMutual).
LEMMA PairsInductive ==
  ASSUME IInv, [Next]_vars
  PROVE  PairsAreMutual'
<1>0. /\ PairsAreMutual /\ TypeOK
      /\ pair \in [Sessions -> Sessions \cup {NoSession}] /\ side \in [Sessions -> Sides]
  BY DEF IInv, TypeOK, Sides
<1>1. CASE ~World
  BY <1>0, <1>1, OnlyWorldTrades DEF PairsAreMutual
<1>2. CASE WorldStart
  <2>1. By \in Sessions /\ Head(intents).to \in Sessions \ {By}
    <3>1. intents # <<>> /\ 1 \in DOMAIN intents /\ intents[1] = Head(intents)
      BY <1>0, <1>2 DEF WorldStart, Takes, TypeOK
    <3> QED
      BY <1>2, <3>1, WhoTrades DEF WorldStart, Takes, World, IInv, RequestsAreFormed, By
  <2> QED
    BY <1>0, <1>2, <2>1, SessionsAssumption DEF WorldStart, PairsAreMutual
<1>3. CASE WorldItem \/ WorldDel \/ WorldGold
  <2>1. UNCHANGED <<pair, players>>
    BY <1>3 DEF WorldItem, WorldDel, WorldGold
  <2>2. CASE UNCHANGED side
    BY <1>0, <2>1, <2>2 DEF PairsAreMutual
  <2>3. ASSUME Partner # NoSession, NEW items, NEW n, Offer(items, n)
        PROVE  PairsAreMutual'
    <3>1. World
      BY <1>3 DEF World
    <3>2. \A s \in Sessions \ {By, Partner} : side'[s] = side[s]
      BY <1>0, <2>3, <3>1, WhoTrades, OfferWithdraws
    <3> QED
      BY <1>0, <2>1, <2>3, <3>1, <3>2, WhoTrades, SessionsAssumption DEF PairsAreMutual
  <2> QED
    BY <1>3, <2>2, <2>3 DEF WorldItem, WorldDel, WorldGold
<1>4. CASE WorldAccept
  BY <1>0, <1>4, WhoTrades DEF WorldAccept, World, PairsAreMutual, Partner
<1>5. ASSUME By \in Sessions, Release(By), players' = players \/ players' = players \ {By}
      PROVE  PairsAreMutual'
  BY <1>0, <1>5, SessionsAssumption DEF Release, PairsAreMutual
<1>6. CASE WorldCancel \/ WorldCommitOk \/ WorldLeave
  BY <1>5, <1>6, WhoTrades DEF WorldCancel, WorldCommitOk, WorldLeave, World
<1>7. CASE WorldJoin
  BY <1>0, <1>7 DEF WorldJoin, PairsAreMutual
<1> QED
  BY <1>1, <1>2, <1>3, <1>4, <1>6, <1>7 DEF World

-----------------------------------------------------------------------------
(* The theorems                                                            *)

\* The initial state satisfies the inductive invariant (Init).
LEMMA InitIInv == Init => IInv
<1> SUFFICES ASSUME Init PROVE IInv
  OBVIOUS
<1>1. /\ StartGold \in [Sessions -> Amount] /\ 0 \in Amount
      /\ \A i \in 1 .. Things : i \in Ids
  BY Limits DEF Amount, Ids
<1>2. PICK holder \in [1 .. Things -> Sessions] :
        /\ rows = [i \in Ids |-> IF i <= Things THEN [owner |-> holder[i], thing |-> i] ELSE NoRow]
        /\ bag = [s \in Sessions |->
                    {[id |-> i, thing |-> i] : i \in {j \in 1 .. Things : holder[j] = s}}]
  BY DEF Init
<1>3. rows \in Rows
  <2>1. \A i \in Ids : i <= Things => i \in 1 .. Things
    BY Limits DEF Ids
  <2> QED
    BY <1>2, <2>1 DEF Rows
<1>4. bag \in [Sessions -> SUBSET Item]
  BY <1>1, <1>2 DEF Item
<1>5. NoSide \in Sides /\ 0 \in 0 .. MaxEvents
  BY <1>1, Limits DEF NoSide, Sides
<1>6. TypeOK
  BY <1>1, <1>3, <1>4, <1>5 DEF Init, TypeOK, Rows, Sides
<1> QED
  BY <1>6 DEF Init, IInv, PairsAreMutual, RequestsAreFormed, CommitsAreCovered

\* Whoever starts, fails or leaves: pairs stay mutual, requests formed and the
\* plans under way covered by the gold of both sides (trade_start, trade_cancel,
\* leave_player, apply_commit).
THEOREM TradeIsConsistent == Spec => []IInv
<1>1. IInv /\ [Next]_vars => IInv'
  BY TypeInductive, PairsInductive, RequestsInductive, CommitsInductive DEF IInv
<1> QED
  BY <1>1, InitIInv, PTL DEF Spec

\* Every variable keeps its type: no gold, offered, written or in memory, is ever
\* negative or above GoldMax (trade_gold_posts, apply_done).
THEOREM TypeCorrect == Spec => []TypeOK
<1>1. IInv => TypeOK
  BY DEF IInv
<1> QED
  BY <1>1, TradeIsConsistent, PTL

\* Two players trade with each other or neither trades, in every state (TradePair).
THEOREM PairsStayMutual == Spec => []PairsAreMutual
<1>1. IInv => PairsAreMutual
  BY DEF IInv
<1> QED
  BY <1>1, TradeIsConsistent, PTL

\* No offer changes under an accept (reset_accepts).
THEOREM AcceptsFallWithChanges == Spec => AcceptMeansUnchanged
<1>1. ASSUME IInv, [Next]_vars, NEW s \in Sessions,
             pair[s] # NoSession, pair'[s] = pair[s],
             side'[s].items # side[s].items \/ side'[s].gold # side[s].gold
      PROVE  ~side'[s].accept /\ ~side'[pair[s]].accept
  <2>0. /\ PairsAreMutual /\ TypeOK
        /\ pair \in [Sessions -> Sessions \cup {NoSession}] /\ side \in [Sessions -> Sides]
    BY <1>1 DEF IInv, TypeOK, Sides
  <2>1. World
    BY <1>1, OnlyWorldTrades
  <2>2. CASE WorldItem \/ WorldDel \/ WorldGold
    <3>1. PICK items, n : Partner # NoSession /\ Offer(items, n)
      BY <1>1, <2>2 DEF WorldItem, WorldDel, WorldGold
    <3> QED
      BY <1>1, <2>0, <2>1, <3>1, WhoTrades, OfferWithdraws
  <2>3. CASE WorldStart
    BY <1>1, <2>0, <2>3 DEF WorldStart
  <2>4. CASE WorldAccept
    BY <1>1, <2>0, <2>1, <2>4, WhoTrades DEF WorldAccept, Sides
  <2>5. CASE WorldCancel \/ WorldCommitOk \/ WorldLeave
    BY <1>1, <2>0, <2>1, <2>5, WhoTrades DEF WorldCancel, WorldCommitOk, WorldLeave, Release
  <2>6. CASE WorldJoin
    BY <1>1, <2>6 DEF WorldJoin
  <2> QED
    BY <2>1, <2>2, <2>3, <2>4, <2>5, <2>6 DEF World
<1>2. IInv /\ [Next]_vars =>
        [\A s \in Sessions :
           /\ pair[s] # NoSession /\ pair'[s] = pair[s]
           /\ side'[s].items # side[s].items \/ side'[s].gold # side[s].gold
           => ~side'[s].accept /\ ~side'[pair[s]].accept]_vars
  BY <1>1
<1> QED
  BY <1>2, TradeIsConsistent, PTL DEF Spec, AcceptMeansUnchanged
-----------------------------------------------------------------------------
(* What a list of units takes and gives, and where the things are          *)

\* The things that the units of a list still have to take, and to give.
TakenBy(us) == UNION {ThingsOf(us[n].items) : n \in {k \in DOMAIN us : us[k].kind = "take"}}
GivenBy(us) == UNION {ThingsOf(us[n].items) : n \in {k \in DOMAIN us : us[k].kind = "give"}}

TakesFirst(us) ==
  \A m, n \in DOMAIN us : m < n /\ us[m].kind = "give" => us[n].kind = "give"
GivesOneEach(us) ==
  \A n \in DOMAIN us : us[n].kind = "give" => \E i \in Item : us[n].items = {i}
GivesAllBack(us) == TakenBy(us) \subseteq GivenBy(us)
TakesOnce(us) ==
  \A m, n \in DOMAIN us : m # n /\ us[m].kind = "take" /\ us[n].kind = "take"
                          => ThingsOf(us[m].items) \cap ThingsOf(us[n].items) = {}

\* Two rows of one thing.
Twins(items, t) == \E i, j \in items : i # j /\ i.thing = t /\ j.thing = t
GivesOnce(us) ==
  \A m, n \in DOMAIN us : m # n /\ us[m].kind = "give" /\ us[n].kind = "give" =>
    \A t \in ThingsOf(us[m].items) \cap ThingsOf(us[n].items) :
      \E k \in DOMAIN us : us[k].kind = "take" /\ Twins(us[k].items, t)

\* The units of a plan: what they take comes back, once, after it was taken.
Orderly(us) == /\ TakesFirst(us) /\ GivesOneEach(us) /\ GivesAllBack(us)
               /\ TakesOnce(us) /\ GivesOnce(us)

\* The things that each session is moving, and where a thing is: in one place at
\* most, in one place at least.
Hands == [s \in Sessions |-> Between(todo[s])]
OncePlaced(t, table, hands) ==
  /\ \A i, j \in Ids : table[i].thing = t /\ table[j].thing = t => i = j
  /\ \A s, r \in Sessions : t \in hands[s] /\ t \in hands[r] => s = r
  /\ \A i \in Ids, s \in Sessions : table[i].thing = t => t \notin hands[s]
Placed(t, table, hands) == \/ \E i \in Ids : table[i].thing = t
                           \/ \E s \in Sessions : t \in hands[s]

Undefended == excuses \ {"changed"}

\* The inductive invariant behind the rows.
Whereabouts ==
  /\ \A s \in Sessions : at[s] # "units" => todo[s] = <<>>
  /\ Undefended \subseteq {"failed"} =>
       /\ \A s \in Sessions : Orderly(todo[s])
       /\ \A t \in 1 .. Things : OncePlaced(t, rows, Hands)
  /\ Undefended = {} =>
       \A t \in 1 .. Things : t \notin lost <=> Placed(t, rows, Hands)

\* What is on its way is given and no longer taken (Between).
LEMMA BetweenIs ==
  ASSUME NEW us
  PROVE  Between(us) = GivenBy(us) \ TakenBy(us)
BY Zenon DEF Between, GivenBy, TakenBy

LEMMA NothingToDo ==
  /\ Between(<<>>) = {} /\ Orderly(<<>>)
<1>1. DOMAIN <<>> = {}
  OBVIOUS
<1>2. GivenBy(<<>>) = {} /\ TakenBy(<<>>) = {}
  BY <1>1 DEF GivenBy, TakenBy
<1> QED
  BY <1>1, <1>2, BetweenIs DEF Orderly, TakesFirst, GivesOneEach, GivesAllBack, TakesOnce,
     GivesOnce

\* A set of which all elements are equal.
LEMMA AtMostOne ==
  ASSUME NEW S, \A x, y \in S : x = y
  PROVE  IsFiniteSet(S) /\ (S = {} => Cardinality(S) = 0) /\ (S # {} => Cardinality(S) = 1)
<1>1. CASE S = {}
  BY <1>1, FS_EmptySet
<1>2. CASE S # {}
  <2>1. PICK x \in S : S = {x}
    BY <1>2
  <2> QED
    BY <2>1, FS_Singleton
<1> QED
  BY <1>1, <1>2

\* How often a thing exists, from where it is (Copies).
LEMMA CopiesAre ==
  ASSUME NEW t, OncePlaced(t, rows, Hands)
  PROVE  Copies(t) = IF Placed(t, rows, Hands) THEN 1 ELSE 0
<1> DEFINE R == {i \in Ids : rows[i].thing = t}
           H == {s \in Sessions : t \in Between(todo[s])}
<1>1. H = {s \in Sessions : t \in Hands[s]}
  BY DEF Hands
<1>2. /\ \A i, j \in R : i = j
      /\ \A s, r \in H : s = r
      /\ R = {} \/ H = {}
      /\ R # {} \/ H # {} <=> Placed(t, rows, Hands)
  <2> HIDE DEF Hands
  <2>1. \A s, r \in H : s = r
    BY <1>1 DEF OncePlaced
  <2>2. R = {} \/ H = {}
    BY <1>1 DEF OncePlaced
  <2>3. (R # {} \/ H # {}) <=> Placed(t, rows, Hands)
    BY <1>1 DEF Placed
  <2> QED
    BY <2>1, <2>2, <2>3 DEF OncePlaced
<1>3. Copies(t) = Cardinality(R) + Cardinality(H)
  BY Zenon DEF Copies
<1> HIDE DEF R, H
<1>4. /\ R = {} => Cardinality(R) = 0
      /\ R # {} => Cardinality(R) = 1
      /\ H = {} => Cardinality(H) = 0
      /\ H # {} => Cardinality(H) = 1
  BY <1>2, AtMostOne
<1> QED
  BY <1>2, <1>3, <1>4

\* Whoever knows where the things are knows that the commits conserve them.
LEMMA WhereaboutsConserve == Whereabouts => CommitConservesThings
<1> SUFFICES ASSUME Whereabouts
             PROVE  /\ Undefended = {} =>
                         \A t \in 1 .. Things : Copies(t) = IF t \in lost THEN 0 ELSE 1
                    /\ Undefended = {"failed"} => \A t \in 1 .. Things : Copies(t) <= 1
  BY Zenon DEF CommitConservesThings, Undefended
<1>1. ASSUME Undefended \subseteq {"failed"}, NEW t \in 1 .. Things
      PROVE  OncePlaced(t, rows, Hands)
  BY <1>1 DEF Whereabouts
<1>2. ASSUME Undefended = {}, NEW t \in 1 .. Things
      PROVE  t \notin lost <=> Placed(t, rows, Hands)
  BY <1>2 DEF Whereabouts
<1> QED
  BY <1>1, <1>2, CopiesAre

\* The first unit and the others.
LEMMA TailOf ==
  ASSUME NEW S, NEW us \in Seq(S), us # <<>>
  PROVE  /\ Tail(us) \in Seq(S) /\ 1 \in DOMAIN us /\ us[1] = Head(us) /\ Head(us) \in S
         /\ \A n \in DOMAIN Tail(us) : n + 1 \in DOMAIN us /\ Tail(us)[n] = us[n + 1]
                                        /\ n \in Nat \ {0}
         /\ \A n \in DOMAIN us : \/ n = 1
                                 \/ n - 1 \in DOMAIN Tail(us) /\ us[n] = Tail(us)[n - 1]
OBVIOUS

\* What is taken, or given, by a list and by what is left of it.
LEMMA TakenGiven ==
  ASSUME NEW us \in Seq(Units), us # <<>>
  PROVE  /\ Head(us).kind = "take" =>
              /\ TakenBy(us) = ThingsOf(Head(us).items) \cup TakenBy(Tail(us))
              /\ GivenBy(us) = GivenBy(Tail(us))
         /\ Head(us).kind = "give" =>
              /\ GivenBy(us) = ThingsOf(Head(us).items) \cup GivenBy(Tail(us))
              /\ TakenBy(us) = TakenBy(Tail(us))
<1> DEFINE By1(kind, seq) ==
             UNION {ThingsOf(seq[n].items) : n \in {k \in DOMAIN seq : seq[k].kind = kind}}
<1>1. ASSUME NEW kind
      PROVE  By1(kind, us) = (IF Head(us).kind = kind THEN ThingsOf(Head(us).items) ELSE {})
                             \cup By1(kind, Tail(us))
  <2>1. ASSUME NEW t \in By1(kind, us)
        PROVE  (Head(us).kind = kind /\ t \in ThingsOf(Head(us).items)) \/ t \in By1(kind, Tail(us))
    <3>1. PICK n \in DOMAIN us : us[n].kind = kind /\ t \in ThingsOf(us[n].items)
      BY <2>1
    <3>2. CASE n = 1
      BY <3>1, <3>2, TailOf
    <3>3. CASE n - 1 \in DOMAIN Tail(us) /\ us[n] = Tail(us)[n - 1]
      BY <3>1, <3>3
    <3> QED
      BY <3>2, <3>3, TailOf
  <2>2. ASSUME NEW t \in By1(kind, Tail(us))
        PROVE  t \in By1(kind, us)
    <3>1. PICK n \in DOMAIN Tail(us) : Tail(us)[n].kind = kind /\ t \in ThingsOf(Tail(us)[n].items)
      BY <2>2
    <3>2. n + 1 \in DOMAIN us /\ Tail(us)[n] = us[n + 1]
      BY TailOf
    <3> QED
      BY <3>1, <3>2
  <2>3. Head(us).kind = kind => ThingsOf(Head(us).items) \subseteq By1(kind, us)
    BY TailOf
  <2> HIDE DEF By1
  <2> QED
    BY <2>1, <2>2, <2>3
<1>2. \A seq : TakenBy(seq) = By1("take", seq) /\ GivenBy(seq) = By1("give", seq)
  BY Zenon DEF TakenBy, GivenBy
<1> HIDE DEF By1
<1>3. "take" # "give"
  OBVIOUS
<1> QED
  BY <1>1, <1>2, <1>3

\* What a unit of an orderly list takes is in no other unit that takes, and what
\* one gives, if the rows were not twins, in no other that gives.
LEMMA HeadIsApart ==
  ASSUME NEW us \in Seq(Units), us # <<>>, Orderly(us)
  PROVE  /\ Head(us).kind = "take" =>
              ThingsOf(Head(us).items) \cap TakenBy(Tail(us)) = {}
         /\ Head(us).kind = "give" =>
              /\ TakenBy(us) = {}
              /\ ThingsOf(Head(us).items) \cap GivenBy(Tail(us)) = {}
<1>0. "take" # "give" /\ 1 \in DOMAIN us /\ us[1] = Head(us) /\ DOMAIN us \subseteq Nat \ {0}
  BY TailOf
<1>1. ASSUME NEW n \in DOMAIN Tail(us)
      PROVE  n + 1 \in DOMAIN us /\ Tail(us)[n] = us[n + 1] /\ 1 < n + 1
  BY TailOf
<1>2. ASSUME Head(us).kind = "take", NEW t \in ThingsOf(Head(us).items), t \in TakenBy(Tail(us))
      PROVE  FALSE
  <2>1. PICK n \in DOMAIN Tail(us) : Tail(us)[n].kind = "take" /\ t \in ThingsOf(Tail(us)[n].items)
    BY <1>2 DEF TakenBy
  <2>2. 1 # n + 1 /\ n + 1 \in DOMAIN us /\ us[n + 1].kind = "take"
        /\ t \in ThingsOf(us[n + 1].items)
    BY <1>1, <2>1
  <2>3. us[1].kind = "take" /\ t \in ThingsOf(us[1].items)
    BY <1>0, <1>2
  <2>4. ThingsOf(us[1].items) \cap ThingsOf(us[n + 1].items) = {}
    BY <1>0, <2>2, <2>3 DEF Orderly, TakesOnce
  <2> QED
    BY <2>2, <2>3, <2>4
<1>3. ASSUME Head(us).kind = "give"
      PROVE  TakenBy(us) = {} /\ \A k \in DOMAIN us : us[k].kind = "give"
  <2>1. ASSUME NEW k \in DOMAIN us PROVE us[k].kind = "give"
    <3>1. k = 1 \/ 1 < k
      BY <1>0
    <3> QED
      BY <1>0, <1>3, <3>1 DEF Orderly, TakesFirst
  <2> QED
    BY <1>0, <2>1 DEF TakenBy
<1>4. ASSUME Head(us).kind = "give", NEW t \in ThingsOf(Head(us).items), t \in GivenBy(Tail(us))
      PROVE  FALSE
  <2>1. PICK n \in DOMAIN Tail(us) : Tail(us)[n].kind = "give" /\ t \in ThingsOf(Tail(us)[n].items)
    BY <1>4 DEF GivenBy
  <2>2. 1 # n + 1 /\ n + 1 \in DOMAIN us /\ us[n + 1].kind = "give"
        /\ t \in ThingsOf(us[n + 1].items)
    BY <1>1, <2>1
  <2>3. us[1].kind = "give" /\ t \in ThingsOf(us[1].items)
    BY <1>0, <1>4
  <2>4. \E k \in DOMAIN us : us[k].kind = "take"
    BY <1>0, <2>2, <2>3 DEF Orderly, GivesOnce
  <2> QED
    BY <1>0, <1>3, <1>4, <2>4
<1> QED
  BY <1>2, <1>3, <1>4

\* What is left of an orderly list is orderly, unless twins were taken.
LEMMA TailIsOrderly ==
  ASSUME NEW us \in Seq(Units), us # <<>>, Orderly(us),
         Head(us).kind = "take" => \A t : ~Twins(Head(us).items, t)
  PROVE  Orderly(Tail(us))
<1> DEFINE v == Tail(us)
<1>0. "take" # "give" /\ 1 \in DOMAIN us /\ us[1] = Head(us)
  BY TailOf
<1>1. ASSUME NEW n \in DOMAIN v
      PROVE  n \in Nat /\ n + 1 \in DOMAIN us /\ v[n] = us[n + 1]
  BY TailOf
<1>2. \A n \in DOMAIN us : n = 1 \/ (n - 1 \in DOMAIN v /\ us[n] = v[n - 1])
  BY TailOf
<1>3. Head(us).kind \in {"take", "give"}
  <2>1. Head(us) \in Units
    BY TailOf
  <2> QED
    BY <2>1 DEF Units
<1> HIDE DEF v
<1>4. TakesFirst(v)
  <2> SUFFICES ASSUME NEW m \in DOMAIN v, NEW n \in DOMAIN v, m < n, v[m].kind = "give"
               PROVE  v[n].kind = "give"
    BY DEF TakesFirst
  <2>1. m + 1 < n + 1 /\ m + 1 \in DOMAIN us /\ n + 1 \in DOMAIN us
    BY <1>1
  <2>2. us[m + 1].kind = "give" => us[n + 1].kind = "give"
    BY <2>1 DEF Orderly, TakesFirst
  <2> QED
    BY <1>1, <2>2
<1>5. GivesOneEach(v)
  BY <1>1 DEF Orderly, GivesOneEach
<1>6. TakesOnce(v)
  <2> SUFFICES ASSUME NEW m \in DOMAIN v, NEW n \in DOMAIN v, m # n,
                      v[m].kind = "take", v[n].kind = "take"
               PROVE  ThingsOf(v[m].items) \cap ThingsOf(v[n].items) = {}
    BY DEF TakesOnce
  <2>1. m + 1 # n + 1
    BY <1>1
  <2> QED
    BY <1>1, <2>1 DEF Orderly, TakesOnce
<1>7. GivesAllBack(v)
  <2>1. CASE Head(us).kind = "take"
    <3>1. GivenBy(v) = GivenBy(us) /\ TakenBy(v) \subseteq TakenBy(us)
      BY <2>1, TakenGiven DEF v
    <3> QED
      BY <3>1 DEF Orderly, GivesAllBack
  <2>2. CASE Head(us).kind = "give"
    <3>1. TakenBy(v) = {}
      BY <2>2, TakenGiven, HeadIsApart DEF v
    <3> QED
      BY <3>1 DEF GivesAllBack
  <2> QED
    BY <1>3, <2>1, <2>2
<1>8. GivesOnce(v)
  <2> SUFFICES ASSUME NEW m \in DOMAIN v, NEW n \in DOMAIN v, m # n,
                      v[m].kind = "give", v[n].kind = "give",
                      NEW t \in ThingsOf(v[m].items) \cap ThingsOf(v[n].items)
               PROVE  \E k \in DOMAIN v : v[k].kind = "take" /\ Twins(v[k].items, t)
    BY DEF GivesOnce
  <2>1. m + 1 # n + 1
    BY <1>1
  <2>2. PICK k \in DOMAIN us : us[k].kind = "take" /\ Twins(us[k].items, t)
    BY <1>1, <2>1 DEF Orderly, GivesOnce
  <2>3. k # 1
    BY <1>0, <2>2
  <2> QED
    BY <1>2, <2>2, <2>3
<1> QED
  BY <1>4, <1>5, <1>6, <1>7, <1>8 DEF Orderly, v

\* A unit that takes what its owner has moves each of its things from its row into
\* the hands of the session (RunUnit).
LEMMA TakeMoves ==
  ASSUME TypeOK, Whereabouts, Undefended \subseteq {"failed"}, NEW s \in Sessions,
         todo[s] # <<>>, Head(todo[s]).kind = "take",
         RunUnit(Head(todo[s])), Unforeseen(Head(todo[s])) = {}
  PROVE  LET hands == [Hands EXCEPT ![s] = Between(Tail(todo[s]))]
         IN  /\ Orderly(Tail(todo[s]))
             /\ \A t \in 1 .. Things :
                  /\ OncePlaced(t, rows', hands)
                  /\ Placed(t, rows', hands) <=> Placed(t, rows, Hands)
<1> DEFINE us == todo[s]
           u == Head(us)
           T == ThingsOf(u.items)
           hands == [Hands EXCEPT ![s] = Between(Tail(us))]
<1>1. /\ us \in Seq(Units) /\ u \in Units /\ u.items \in SUBSET Item /\ us # <<>>
      /\ Orderly(us) /\ u.kind = "take"
  <2>1. us \in Seq(Units)
    BY DEF TypeOK
  <2>2. u \in Units
    BY <2>1, TailOf
  <2>3. Orderly(us) /\ us # <<>> /\ u.kind = "take"
    BY DEF Whereabouts
  <2> HIDE DEF u, us
  <2>4. u.items \in SUBSET Item
    BY <2>2 DEF Units
  <2> QED
    BY <2>1, <2>2, <2>3, <2>4
<1>2. \A i \in u.items : /\ i \in Item /\ i.id \in Ids /\ i.thing \in 1 .. Things
                         /\ rows[i.id].thing = i.thing
  <2>1. \A i \in u.items : rows[i.id] = [owner |-> u.owner, thing |-> i.thing]
    BY <1>1 DEF Unforeseen
  <2> HIDE DEF u
  <2>2. \A i \in u.items : i \in Item
    BY <1>1
  <2>3. \A i \in Item : i.id \in Ids /\ i.thing \in 1 .. Things
    BY DEF Item
  <2>4. ASSUME NEW i \in u.items
        PROVE  rows[i.id].thing = i.thing
    <3>1. rows[i.id] = [owner |-> u.owner, thing |-> i.thing]
      BY <2>1
    <3> QED
      BY <3>1
  <2> QED
    BY <2>2, <2>3, <2>4
<1>3. rows' = [x \in Ids |-> IF x \in IdsOf(u.items) THEN NoRow ELSE rows[x]]
  BY <1>1 DEF RunUnit
<1>4. \A t \in 1 .. Things : OncePlaced(t, rows, Hands)
  BY DEF Whereabouts
<1>5. \A r \in Sessions : hands[r] = IF r = s THEN Between(Tail(us)) ELSE Hands[r]
  BY DEF Hands
<1>6. Hands[s] = Between(us)
  BY DEF Hands
<1> HIDE DEF Hands, hands, u, us
<1>7. ASSUME NEW t
      PROVE  ~Twins(u.items, t)
  <2> SUFFICES ASSUME NEW i \in u.items, NEW j \in u.items, i.thing = j.thing
               PROVE  i = j
    BY DEF Twins
  <2>1. i.id = j.id
    BY <1>2, <1>4 DEF OncePlaced
  <2> QED
    BY <1>2, <2>1 DEF Item
<1>8. Orderly(Tail(us))
  BY <1>1, <1>7, TailIsOrderly DEF u
<1>9. /\ TakenBy(us) = T \cup TakenBy(Tail(us)) /\ GivenBy(us) = GivenBy(Tail(us))
      /\ T \cap TakenBy(Tail(us)) = {} /\ TakenBy(us) \subseteq GivenBy(us)
  BY <1>1, TakenGiven, HeadIsApart DEF u, T, Orderly, GivesAllBack
<1>10. Between(Tail(us)) = Between(us) \cup T /\ Between(us) \cap T = {}
  <2> HIDE DEF T
  <2> QED
    BY <1>9, BetweenIs
<1>11. \A t \in T : \E i \in u.items : i.thing = t
  BY DEF ThingsOf
<1>12. ASSUME NEW t \in 1 .. Things
       PROVE  OncePlaced(t, rows', hands) /\ (Placed(t, rows', hands) <=> Placed(t, rows, Hands))
  <2>1. \A x \in Ids : rows'[x].thing = t <=> rows[x].thing = t /\ t \notin T
    <3> SUFFICES ASSUME NEW x \in Ids
                 PROVE  rows'[x].thing = t <=> rows[x].thing = t /\ t \notin T
      OBVIOUS
    <3>1. CASE x \in IdsOf(u.items)
      <4>1. PICK i \in u.items : i.id = x
        BY <3>1 DEF IdsOf
      <4>2. rows'[x].thing = 0 /\ rows[x].thing = i.thing /\ i.thing \in T
        BY <1>2, <1>3, <3>1, <4>1 DEF NoRow, ThingsOf
      <4> QED
        BY <4>2
    <3>2. CASE x \notin IdsOf(u.items)
      <4>1. rows'[x] = rows[x]
        BY <1>3, <3>2
      <4>2. ASSUME rows[x].thing = t, t \in T
            PROVE  FALSE
        <5>1. PICK i \in u.items : i.thing = t
          BY <1>11, <4>2
        <5>2. i.id = x
          BY <1>2, <1>4, <4>2, <5>1 DEF OncePlaced
        <5> QED
          BY <3>2, <5>2 DEF IdsOf
      <4> QED
        BY <4>1, <4>2
    <3> QED
      BY <3>1, <3>2
  <2>2. t \in T => \E x \in Ids : rows[x].thing = t
    BY <1>2, <1>11
  <2>3. \A r \in Sessions : t \in hands[r] <=> t \in Hands[r] \/ (r = s /\ t \in T)
    BY <1>5, <1>6, <1>10
  <2>4. OncePlaced(t, rows, Hands)
    BY <1>4
  <2> HIDE DEF T
  <2>5. CASE t \in T
    <3>1. \A r \in Sessions : t \notin Hands[r]
      BY <2>2, <2>4, <2>5 DEF OncePlaced
    <3>2. \A r \in Sessions : t \in hands[r] <=> r = s
      BY <2>3, <2>5, <3>1
    <3>3. \A x \in Ids : rows'[x].thing # t
      BY <2>1, <2>5
    <3> QED
      BY <2>2, <2>5, <3>2, <3>3 DEF OncePlaced, Placed
  <2>6. CASE t \notin T
    <3>1. /\ \A x \in Ids : rows'[x].thing = t <=> rows[x].thing = t
          /\ \A r \in Sessions : t \in hands[r] <=> t \in Hands[r]
      BY <2>1, <2>3, <2>6
    <3> QED
      BY <2>4, <3>1 DEF OncePlaced, Placed
  <2> QED
    BY <2>5, <2>6
<1> QED
  BY <1>8, <1>12 DEF hands, us

\* A unit that gives into a free row moves its thing from the hands of the session
\* into the row (RunUnit).
LEMMA GiveMoves ==
  ASSUME TypeOK, Whereabouts, Undefended \subseteq {"failed"}, NEW s \in Sessions,
         todo[s] # <<>>, Head(todo[s]).kind = "give",
         RunUnit(Head(todo[s])), Unforeseen(Head(todo[s])) = {}
  PROVE  LET hands == [Hands EXCEPT ![s] = Between(Tail(todo[s]))]
         IN  /\ Orderly(Tail(todo[s]))
             /\ \A t \in 1 .. Things :
                  /\ OncePlaced(t, rows', hands)
                  /\ Placed(t, rows', hands) <=> Placed(t, rows, Hands)
<1> DEFINE us == todo[s]
           u == Head(us)
           hands == [Hands EXCEPT ![s] = Between(Tail(us))]
<1>1. /\ us \in Seq(Units) /\ u \in Units /\ us # <<>>
      /\ Orderly(us) /\ u.kind = "give" /\ u.kind # "take"
  <2>1. us \in Seq(Units)
    BY DEF TypeOK
  <2>2. u \in Units
    BY <2>1, TailOf
  <2> QED
    BY <2>1, <2>2 DEF Whereabouts
<1>2. PICK i \in Item : u.items = {i}
  <2>1. 1 \in DOMAIN us /\ us[1] = u
    BY <1>1, TailOf
  <2> QED
    BY <1>1, <2>1 DEF Orderly, GivesOneEach
<1>3. i.id \in Ids /\ i.thing \in 1 .. Things /\ rows[i.id] = NoRow
  BY <1>1, <1>2 DEF Unforeseen, Item
<1>4. /\ ThingsOf(u.items) = {i.thing} /\ IdsOf(u.items) = {i.id}
      /\ ThingOf(u.items, i.id) = i.thing
  BY <1>2 DEF ThingsOf, IdsOf, ThingOf
<1>5. \A x \in Ids : rows'[x] = IF x = i.id THEN [owner |-> u.owner, thing |-> i.thing] ELSE rows[x]
  <2>1. rows' = [x \in Ids |-> IF x \in IdsOf(u.items)
                               THEN [owner |-> u.owner, thing |-> ThingOf(u.items, x)]
                               ELSE rows[x]]
    BY <1>1 DEF RunUnit
  <2> HIDE DEF u
  <2> QED
    BY <1>4, <2>1
<1>6. \A t \in 1 .. Things : OncePlaced(t, rows, Hands)
  BY DEF Whereabouts
<1>7. \A r \in Sessions : hands[r] = IF r = s THEN Between(Tail(us)) ELSE Hands[r]
  BY DEF Hands
<1>8. Hands[s] = Between(us)
  BY DEF Hands
<1> HIDE DEF Hands, hands, u, us
<1>9. Orderly(Tail(us))
  BY <1>1, TailIsOrderly DEF u
<1>10. /\ TakenBy(us) = {} /\ TakenBy(Tail(us)) = {}
       /\ GivenBy(us) = {i.thing} \cup GivenBy(Tail(us)) /\ i.thing \notin GivenBy(Tail(us))
  BY <1>1, <1>4, TakenGiven, HeadIsApart DEF u
<1>11. i.thing \in Between(us) /\ Between(Tail(us)) = Between(us) \ {i.thing}
  BY <1>10, BetweenIs
<1>12. ASSUME NEW t \in 1 .. Things
       PROVE  OncePlaced(t, rows', hands) /\ (Placed(t, rows', hands) <=> Placed(t, rows, Hands))
  <2>1. \A x \in Ids : rows'[x].thing = t <=> rows[x].thing = t \/ (x = i.id /\ t = i.thing)
    BY <1>3, <1>5 DEF NoRow
  <2>2. \A r \in Sessions : t \in hands[r] <=> t \in Hands[r] /\ ~(r = s /\ t = i.thing)
    BY <1>7, <1>8, <1>11
  <2>3. OncePlaced(t, rows, Hands)
    BY <1>6
  <2>4. CASE t = i.thing
    <3>1. \A x \in Ids : rows[x].thing # t
      BY <1>8, <1>11, <2>3, <2>4 DEF OncePlaced
    <3>2. \A r \in Sessions : t \notin hands[r]
      BY <1>8, <1>11, <2>2, <2>3, <2>4 DEF OncePlaced
    <3>3. \A x \in Ids : rows'[x].thing = t <=> x = i.id
      BY <2>1, <2>4, <3>1
    <3> QED
      BY <1>3, <1>8, <1>11, <2>4, <3>2, <3>3 DEF OncePlaced, Placed
  <2>5. CASE t # i.thing
    <3>1. /\ \A x \in Ids : rows'[x].thing = t <=> rows[x].thing = t
          /\ \A r \in Sessions : t \in hands[r] <=> t \in Hands[r]
      BY <2>1, <2>2, <2>5
    <3> QED
      BY <2>3, <3>1 DEF OncePlaced, Placed
  <2> QED
    BY <2>4, <2>5
<1> QED
  BY <1>9, <1>12 DEF hands, us

\* SetToSeq lists every item once.
LEMMA InOrderOnce ==
  ASSUME NEW items \in SUBSET Item
  PROVE  /\ SetToSeq(items) \in Bijection(1 .. Cardinality(items), items)
         /\ Cardinality(items) \in Nat
<1> DEFINE N == Cardinality(items)
           D == 1 .. N
<1>1. IsFiniteSet(items) /\ N \in Nat /\ ExistsBijection(D, items)
  BY ItemsAreFinite, FS_CardinalityType
<1>2. IsFiniteSet(D) /\ Cardinality(D) = N
  BY <1>1, FS_Interval
<1>3. PICK f \in [D -> items] : IsInjective(f)
  BY <1>1 DEF ExistsBijection, Bijection, Injection, IsInjective
<1>4. SetToSeq(items) \in [D -> items] /\ IsInjective(SetToSeq(items))
  BY <1>3 DEF SetToSeq
<1> HIDE DEF N, D
<1>5. SetToSeq(items) \in Injection(D, items)
  BY <1>4 DEF Injection, IsInjective
<1>6. SetToSeq(items) \in Surjection(D, items)
  BY <1>1, <1>2, <1>5, FS_Injection DEF N
<1> QED
  BY <1>1, <1>5, <1>6 DEF Bijection, N, D

\* The units of a side that hands something over (TakeUnit).
LEMMA TakeUnitIs ==
  ASSUME NEW owner, NEW items, NEW pre, NEW pays
  PROVE  LET us == TakeUnit(owner, items, pre, pays)
         IN  /\ Len(us) \in {0, 1}
             /\ \A n \in DOMAIN us : n = 1 /\ us[n].kind = "take" /\ us[n].items = items
             /\ items # {} => 1 \in DOMAIN us
BY DEF TakeUnit

\* A list of units gives the things of some items, each once unless it has twins.
Returns(us, items) ==
  /\ \A n \in DOMAIN us : us[n].kind = "give" /\ \E i \in Item : us[n].items = {i}
  /\ \A n \in DOMAIN us : \E i \in items : ThingsOf(us[n].items) = {i.thing}
  /\ \A i \in items : \E n \in DOMAIN us : ThingsOf(us[n].items) = {i.thing}
  /\ \A m, n \in DOMAIN us :
       m # n => \A t \in ThingsOf(us[m].items) \cap ThingsOf(us[n].items) : Twins(items, t)

\* The units of what a side receives, one for each item (GiveUnits).
LEMMA GiveUnitsAre ==
  ASSUME NEW owner \in Sessions, NEW items \in SUBSET Item, NEW first \in Nat \ {0},
         first + Cardinality(items) - 1 <= MaxRows
  PROVE  Returns(GiveUnits(owner, items, first), items)
<1> DEFINE us == GiveUnits(owner, items, first)
           o == SetToSeq(items)
           N == Cardinality(items)
<1>1. N \in Nat /\ o \in Bijection(1 .. N, items)
  BY InOrderOnce
<1>2. /\ o \in [1 .. N -> items]
      /\ \A m, n \in 1 .. N : o[m] = o[n] => m = n
      /\ \A i \in items : \E n \in 1 .. N : o[n] = i
  <2> HIDE DEF o, N
  <2> QED
    BY <1>1 DEF Bijection, Injection, Surjection, IsInjective
<1>3. us = [n \in 1 .. N |-> [kind |-> "give", owner |-> owner, pre |-> 0, post |-> 0,
                             items |-> {[id |-> first + n - 1, thing |-> o[n].thing]}]]
  BY <1>2 DEF GiveUnits
<1> HIDE DEF us, o, N
<1>4. DOMAIN us = 1 .. N
  BY <1>3
<1>5. ASSUME NEW n \in 1 .. N
      PROVE  /\ us[n].kind = "give"
             /\ [id |-> first + n - 1, thing |-> o[n].thing] \in Item
             /\ us[n].items = {[id |-> first + n - 1, thing |-> o[n].thing]}
             /\ ThingsOf(us[n].items) = {o[n].thing} /\ o[n] \in items
  <2>1. o[n] \in items /\ o[n] \in Item /\ o[n].thing \in 1 .. Things
    BY <1>2 DEF Item
  <2>2. first + n - 1 \in Ids
    BY <1>1, Limits DEF Ids, N
  <2>3. [id |-> first + n - 1, thing |-> o[n].thing] \in Item
    BY <2>1, <2>2 DEF Item
  <2>4. us[n].kind = "give" /\ us[n].items = {[id |-> first + n - 1, thing |-> o[n].thing]}
    BY <1>3
  <2>5. ThingsOf(us[n].items) = {o[n].thing}
    BY <2>4 DEF ThingsOf
  <2> QED
    BY <2>1, <2>3, <2>4, <2>5
<1>6. \A m, n \in 1 .. N :
        m # n => \A t \in ThingsOf(us[m].items) \cap ThingsOf(us[n].items) : Twins(items, t)
  <2> SUFFICES ASSUME NEW m \in 1 .. N, NEW n \in 1 .. N, m # n,
                      NEW t \in ThingsOf(us[m].items) \cap ThingsOf(us[n].items)
               PROVE  Twins(items, t)
    OBVIOUS
  <2>1. o[m].thing = t /\ o[n].thing = t /\ o[m] \in items /\ o[n] \in items
    BY <1>5
  <2>2. o[m] # o[n]
    BY <1>2
  <2> QED
    BY <2>1, <2>2 DEF Twins
<1>7. ASSUME NEW i \in items
      PROVE  \E n \in 1 .. N : ThingsOf(us[n].items) = {i.thing}
  <2>1. PICK n \in 1 .. N : o[n] = i
    BY <1>2
  <2> QED
    BY <1>5, <2>1
<1>8. \A n \in 1 .. N : \E i \in items : ThingsOf(us[n].items) = {i.thing}
  BY <1>5
<1>9. \A n \in 1 .. N : us[n].kind = "give" /\ \E i \in Item : us[n].items = {i}
  BY <1>5
<1> QED
  BY <1>4, <1>6, <1>7, <1>8, <1>9 DEF us, Returns

\* One list after another.
Joins(z, x, y) ==
  /\ \A n \in DOMAIN x : n \in Nat \ {0} /\ n \in DOMAIN z /\ z[n] = x[n]
  /\ \A n \in DOMAIN y : n \in Nat \ {0} /\ Len(x) + n \in DOMAIN z /\ z[Len(x) + n] = y[n]
  /\ \A n \in DOMAIN z : n \in DOMAIN x \/ \E k \in DOMAIN y : n = Len(x) + k

LEMMA Joined ==
  ASSUME NEW x \in Seq(Units), NEW y \in Seq(Units)
  PROVE  /\ x \o y \in Seq(Units) /\ Len(x) \in Nat /\ Len(x \o y) = Len(x) + Len(y)
         /\ Joins(x \o y, x, y)
<1> DEFINE z == x \o y
<1>1. /\ z \in Seq(Units) /\ Len(x) \in Nat /\ Len(y) \in Nat
      /\ Len(z) = Len(x) + Len(y)
      /\ \A n \in 1 .. Len(x) : z[n] = x[n]
      /\ \A n \in 1 .. Len(y) : z[Len(x) + n] = y[n]
  OBVIOUS
<1>2. DOMAIN x = 1 .. Len(x) /\ DOMAIN y = 1 .. Len(y) /\ DOMAIN z = 1 .. Len(z)
  BY <1>1
<1> HIDE DEF z
<1>3. ASSUME NEW n \in DOMAIN z
      PROVE  n \in DOMAIN x \/ \E k \in DOMAIN y : n = Len(x) + k
  <2>1. CASE n <= Len(x)
    BY <1>1, <1>2, <2>1
  <2>2. CASE n > Len(x)
    <3>1. n - Len(x) \in DOMAIN y /\ n = Len(x) + (n - Len(x))
      BY <1>1, <1>2, <2>2
    <3> QED
      BY <3>1
  <2> QED
    BY <1>1, <1>2, <2>1, <2>2
<1>4. \A n \in DOMAIN x : n \in Nat \ {0} /\ n \in DOMAIN z /\ z[n] = x[n]
  BY <1>1, <1>2
<1>5. \A n \in DOMAIN y : n \in Nat \ {0} /\ Len(x) + n \in DOMAIN z /\ z[Len(x) + n] = y[n]
  BY <1>1, <1>2
<1>6. Joins(z, x, y)
  BY <1>3, <1>4, <1>5 DEF Joins
<1> QED
  BY <1>1, <1>6 DEF z

\* The units of a plan in which no thing is offered by both sides take first, then
\* give back every thing once, or the twins of a side are taken (build_commit_units).
LEMMA CommitIsOrderly ==
  ASSUME NEW s \in Sessions, NEW p \in Plans, NEW first \in Nat \ {0},
         gold[s] \in Amount, seen[s] \in Amount, PostsAreValid(p, gold[s], seen[s]),
         first + Cardinality(p.gives) + Cardinality(p.gets) - 1 <= MaxRows,
         OfferedTwice(p) = {}
  PROVE  /\ Orderly(CommitUnits(s, p, first)) /\ Between(CommitUnits(s, p, first)) = {}
<1> DEFINE t1 == TakeUnit(s, p.gives, gold[s], p.pays)
           t2 == TakeUnit(p.partner, p.gets, seen[s], p.isPaid)
           g1 == GiveUnits(p.partner, p.gives, first)
           g2 == GiveUnits(s, p.gets, first + Cardinality(p.gives))
           takes == t1 \o t2
           early == takes \o g1
           us == CommitUnits(s, p, first)
<1>1. /\ p.partner \in Sessions /\ p.gives \in SUBSET Item /\ p.gets \in SUBSET Item
      /\ p.pays \in Amount /\ p.isPaid \in Amount
      /\ p.pays <= gold[s] /\ p.isPaid <= seen[s]
  BY DEF Plans, PostsAreValid
<1>2. Cardinality(p.gives) \in Nat /\ Cardinality(p.gets) \in Nat
  BY <1>1, ItemsAreFinite
<1>3. /\ first + Cardinality(p.gives) - 1 <= MaxRows
      /\ first + Cardinality(p.gives) \in Nat \ {0}
      /\ (first + Cardinality(p.gives)) + Cardinality(p.gets) - 1 <= MaxRows
  BY <1>2, Limits
<1>4. t1 \in Seq(Units) /\ t2 \in Seq(Units) /\ g1 \in Seq(Units) /\ g2 \in Seq(Units)
  BY <1>1, <1>3, TakeUnitType, GiveUnitsType
<1>5. us = early \o g2
  BY DEF CommitUnits
<1>6. ThingsOf(p.gives) \cap ThingsOf(p.gets) = {}
  BY DEF OfferedTwice
\* what the parts are
<1>7. /\ \A n \in DOMAIN t1 : n = 1 /\ t1[n].kind = "take" /\ t1[n].items = p.gives
      /\ p.gives # {} => 1 \in DOMAIN t1
      /\ \A n \in DOMAIN t2 : n = 1 /\ t2[n].kind = "take" /\ t2[n].items = p.gets
      /\ p.gets # {} => 1 \in DOMAIN t2
  BY TakeUnitIs
<1>8. Returns(g1, p.gives) /\ Returns(g2, p.gets)
  BY <1>1, <1>3, GiveUnitsAre
<1> HIDE DEF t1, t2, g1, g2
\* where they are in the list
<1> DEFINE At(part, before) ==
             \A n \in DOMAIN part : /\ n \in Nat \ {0} /\ before + n \in DOMAIN us
                                    /\ us[before + n] = part[n]
<1>9. /\ takes \in Seq(Units) /\ early \in Seq(Units) /\ us \in Seq(Units)
      /\ Len(t1) \in Nat /\ Len(takes) \in Nat /\ Len(early) \in Nat
      /\ Len(takes) = Len(t1) + Len(t2) /\ Len(early) = Len(takes) + Len(g1)
      /\ Joins(takes, t1, t2) /\ Joins(early, takes, g1) /\ Joins(us, early, g2)
  <2>1. takes \in Seq(Units) /\ Len(takes) = Len(t1) + Len(t2) /\ Len(t1) \in Nat
        /\ Joins(takes, t1, t2)
    BY <1>4, Joined
  <2> HIDE DEF takes
  <2>2. early \in Seq(Units) /\ Len(early) = Len(takes) + Len(g1) /\ Len(takes) \in Nat
        /\ Joins(early, takes, g1)
    BY <1>4, <2>1, Joined
  <2> HIDE DEF early, us
  <2>3. us \in Seq(Units) /\ Len(early) \in Nat /\ Joins(us, early, g2)
    BY <1>4, <1>5, <2>2, Joined
  <2> QED
    BY <2>1, <2>2, <2>3
<1> HIDE DEF takes, early, us
<1>10. At(t1, 0) /\ At(t2, Len(t1)) /\ At(g1, Len(takes)) /\ At(g2, Len(early))
  <2>1. \A n \in DOMAIN early : n \in DOMAIN us /\ us[n] = early[n]
    BY <1>9 DEF Joins
  <2>2. \A n \in DOMAIN takes : n \in DOMAIN early /\ early[n] = takes[n]
    BY <1>9 DEF Joins
  <2>3. At(g2, Len(early))
    BY <1>9 DEF Joins
  <2>4. \A n \in DOMAIN g1 : n \in Nat \ {0} /\ Len(takes) + n \in DOMAIN early
                             /\ early[Len(takes) + n] = g1[n]
    BY <1>9 DEF Joins
  <2>5. \A n \in DOMAIN t2 : n \in Nat \ {0} /\ Len(t1) + n \in DOMAIN takes
                             /\ takes[Len(t1) + n] = t2[n]
    BY <1>9 DEF Joins
  <2>6. \A n \in DOMAIN t1 : n \in Nat \ {0} /\ 0 + n = n /\ n \in DOMAIN takes /\ takes[n] = t1[n]
    BY <1>9 DEF Joins
  <2> QED
    BY <2>1, <2>2, <2>3, <2>4, <2>5, <2>6
<1> DEFINE In(part, before, n) == \E k \in DOMAIN part : n = before + k /\ us[n] = part[k]
<1>11. ASSUME NEW n \in DOMAIN us
       PROVE  \/ In(t1, 0, n) \/ In(t2, Len(t1), n)
              \/ In(g1, Len(takes), n) \/ In(g2, Len(early), n)
  <2>1. n \in DOMAIN early \/ \E k \in DOMAIN g2 : n = Len(early) + k
    BY <1>9 DEF Joins
  <2>2. n \in DOMAIN early => n \in DOMAIN takes \/ \E k \in DOMAIN g1 : n = Len(takes) + k
    BY <1>9 DEF Joins
  <2>3. n \in DOMAIN takes => n \in DOMAIN t1 \/ \E k \in DOMAIN t2 : n = Len(t1) + k
    BY <1>9 DEF Joins
  <2>4. n \in DOMAIN t1 => n = 0 + n
    BY <1>10
  <2> QED
    BY <1>10, <2>1, <2>2, <2>3, <2>4
\* what each unit of the list is, in the words of the plan
<1>12. ASSUME NEW n \in DOMAIN us
       PROVE  /\ n \in Nat
              /\ In(t1, 0, n) => /\ n = 1 /\ n <= Len(takes)
                                /\ us[n].kind = "take" /\ us[n].items = p.gives
              /\ In(t2, Len(t1), n) => /\ n = Len(t1) + 1 /\ n <= Len(takes)
                                      /\ us[n].kind = "take" /\ us[n].items = p.gets
              /\ In(g1, Len(takes), n) \/ In(g2, Len(early), n)
                   => us[n].kind = "give" /\ n > Len(takes)
  <2>1. n \in Nat
    BY <1>9
  <2>2. ASSUME NEW k \in DOMAIN t1, n = 0 + k, us[n] = t1[k]
        PROVE  n = 1 /\ n <= Len(takes) /\ us[n].kind = "take" /\ us[n].items = p.gives
    <3>1. k \in 1 .. Len(t1) /\ Len(t2) \in Nat
      BY <1>4
    <3> QED
      BY <1>7, <1>9, <2>2, <3>1
  <2>3. ASSUME NEW k \in DOMAIN t2, n = Len(t1) + k, us[n] = t2[k]
        PROVE  n = Len(t1) + 1 /\ n <= Len(takes) /\ us[n].kind = "take" /\ us[n].items = p.gets
    <3>1. k \in 1 .. Len(t2)
      BY <1>4
    <3> QED
      BY <1>7, <1>9, <2>3, <3>1
  <2>4. ASSUME NEW k \in DOMAIN g1, n = Len(takes) + k, us[n] = g1[k]
        PROVE  us[n].kind = "give" /\ n > Len(takes)
    <3>1. k \in 1 .. Len(g1)
      BY <1>4
    <3> QED
      BY <1>8, <1>9, <2>4, <3>1 DEF Returns
  <2>5. ASSUME NEW k \in DOMAIN g2, n = Len(early) + k, us[n] = g2[k]
        PROVE  us[n].kind = "give" /\ n > Len(takes)
    <3>1. k \in 1 .. Len(g2) /\ Len(g1) \in Nat
      BY <1>4
    <3> QED
      BY <1>8, <1>9, <2>5, <3>1 DEF Returns
  <2> QED
    BY <2>1, <2>2, <2>3, <2>4, <2>5
<1>13. /\ Len(t1) \in Nat /\ Len(takes) \in Nat /\ Len(early) \in Nat /\ "take" # "give"
  BY <1>9
<1>14. /\ p.gives # {} => 1 \in DOMAIN us /\ us[1].kind = "take" /\ us[1].items = p.gives
       /\ p.gets # {} => \E k \in DOMAIN us : us[k].kind = "take" /\ us[k].items = p.gets
  <2>1. ASSUME p.gives # {}
        PROVE  1 \in DOMAIN us /\ us[1].kind = "take" /\ us[1].items = p.gives
    <3>1. 1 \in DOMAIN t1 /\ 0 + 1 = 1
      BY <1>7, <2>1
    <3> QED
      BY <1>7, <1>10, <3>1
  <2>2. ASSUME p.gets # {}
        PROVE  \E k \in DOMAIN us : us[k].kind = "take" /\ us[k].items = p.gets
    <3>1. 1 \in DOMAIN t2
      BY <1>7, <2>2
    <3> QED
      BY <1>7, <1>10, <3>1
  <2> QED
    BY <2>1, <2>2
<1>15. \A n \in DOMAIN us :
         /\ us[n].kind = "take" => In(t1, 0, n) \/ In(t2, Len(t1), n)
         /\ us[n].kind = "give" => In(g1, Len(takes), n) \/ In(g2, Len(early), n)
  <2> SUFFICES ASSUME NEW n \in DOMAIN us
               PROVE  /\ us[n].kind = "take" => In(t1, 0, n) \/ In(t2, Len(t1), n)
                      /\ us[n].kind = "give" => In(g1, Len(takes), n) \/ In(g2, Len(early), n)
    OBVIOUS
  <2>1. \/ In(t1, 0, n) \/ In(t2, Len(t1), n) \/ In(g1, Len(takes), n) \/ In(g2, Len(early), n)
    BY <1>11
  <2>2. /\ In(t1, 0, n) \/ In(t2, Len(t1), n) => us[n].kind = "take"
        /\ In(g1, Len(takes), n) \/ In(g2, Len(early), n) => us[n].kind = "give"
    BY <1>12
  <2> HIDE DEF In
  <2> QED
    BY <1>13, <2>1, <2>2
<1>16. ASSUME NEW n \in DOMAIN us, NEW t
       PROVE  /\ In(g1, Len(takes), n) /\ t \in ThingsOf(us[n].items) => t \in ThingsOf(p.gives)
              /\ In(g2, Len(early), n) /\ t \in ThingsOf(us[n].items) => t \in ThingsOf(p.gets)
              /\ us[n].kind = "give" => \E i \in Item : us[n].items = {i}
  <2>1. ASSUME NEW k \in DOMAIN g1, us[n] = g1[k], t \in ThingsOf(us[n].items)
        PROVE  t \in ThingsOf(p.gives)
    <3>1. PICK i \in p.gives : ThingsOf(g1[k].items) = {i.thing}
      BY <1>8, <2>1 DEF Returns
    <3>2. t = i.thing
      BY <2>1, <3>1
    <3> QED
      BY <3>2 DEF ThingsOf
  <2>2. ASSUME NEW k \in DOMAIN g2, us[n] = g2[k], t \in ThingsOf(us[n].items)
        PROVE  t \in ThingsOf(p.gets)
    <3>1. PICK i \in p.gets : ThingsOf(g2[k].items) = {i.thing}
      BY <1>8, <2>2 DEF Returns
    <3>2. t = i.thing
      BY <2>2, <3>1
    <3> QED
      BY <3>2 DEF ThingsOf
  <2>3. In(g1, Len(takes), n) \/ In(g2, Len(early), n) => \E i \in Item : us[n].items = {i}
    BY <1>8 DEF Returns
  <2> QED
    BY <1>15, <2>1, <2>2, <2>3
\* the list is orderly
<1>17. TakesFirst(us)
  <2> SUFFICES ASSUME NEW m \in DOMAIN us, NEW n \in DOMAIN us, m < n, us[m].kind = "give"
               PROVE  us[n].kind = "give"
    BY DEF TakesFirst
  <2>1. m > Len(takes) /\ m \in Nat /\ n \in Nat
    BY <1>12, <1>15
  <2>2. ~(n <= Len(takes))
    BY <1>13, <2>1
  <2>3. ~In(t1, 0, n) /\ ~In(t2, Len(t1), n)
    BY <1>12, <2>2
  <2> HIDE DEF In
  <2> QED
    BY <1>11, <1>12, <2>3
<1>18. GivesOneEach(us)
  BY <1>16 DEF GivesOneEach
<1>19. TakesOnce(us)
  <2> SUFFICES ASSUME NEW m \in DOMAIN us, NEW n \in DOMAIN us, m # n,
                      us[m].kind = "take", us[n].kind = "take"
               PROVE  ThingsOf(us[m].items) \cap ThingsOf(us[n].items) = {}
    BY DEF TakesOnce
  <2>1. /\ In(t1, 0, m) \/ In(t2, Len(t1), m)
        /\ In(t1, 0, n) \/ In(t2, Len(t1), n)
    BY <1>15
  <2>2. /\ In(t1, 0, m) => m = 1 /\ us[m].items = p.gives
        /\ In(t2, Len(t1), m) => m = Len(t1) + 1 /\ us[m].items = p.gets
        /\ In(t1, 0, n) => n = 1 /\ us[n].items = p.gives
        /\ In(t2, Len(t1), n) => n = Len(t1) + 1 /\ us[n].items = p.gets
    BY <1>12
  <2> HIDE DEF In
  <2>3. \/ us[m].items = p.gives /\ us[n].items = p.gets
        \/ us[m].items = p.gets /\ us[n].items = p.gives
    BY <2>1, <2>2
  <2> QED
    BY <1>6, <2>3
<1>20. GivesOnce(us)
  <2> SUFFICES ASSUME NEW m \in DOMAIN us, NEW n \in DOMAIN us, m # n,
                      us[m].kind = "give", us[n].kind = "give",
                      NEW t \in ThingsOf(us[m].items) \cap ThingsOf(us[n].items)
               PROVE  \E k \in DOMAIN us : us[k].kind = "take" /\ Twins(us[k].items, t)
    BY DEF GivesOnce
  <2>1. ASSUME NEW g, NEW before \in Nat, NEW items,
               Returns(g, items), At(g, before), In(g, before, m), In(g, before, n)
        PROVE  Twins(items, t)
    <3>1. PICK k \in DOMAIN g : m = before + k /\ us[m] = g[k]
      BY <2>1
    <3>2. PICK l \in DOMAIN g : n = before + l /\ us[n] = g[l]
      BY <2>1
    <3>3. k # l /\ t \in ThingsOf(g[k].items) \cap ThingsOf(g[l].items)
      BY <3>1, <3>2
    <3> QED
      BY <2>1, <3>3 DEF Returns
  <2> HIDE DEF At, In
  <2>2. ASSUME In(g1, Len(takes), m), In(g1, Len(takes), n)
        PROVE  Twins(p.gives, t)
    BY <1>8, <1>10, <1>13, <2>1, <2>2
  <2>3. ASSUME In(g2, Len(early), m), In(g2, Len(early), n)
        PROVE  Twins(p.gets, t)
    BY <1>8, <1>10, <1>13, <2>1, <2>3
  <2>4. /\ ~(In(g1, Len(takes), m) /\ In(g2, Len(early), n))
        /\ ~(In(g2, Len(early), m) /\ In(g1, Len(takes), n))
    <3>1. /\ In(g1, Len(takes), m) => t \in ThingsOf(p.gives)
          /\ In(g2, Len(early), m) => t \in ThingsOf(p.gets)
          /\ In(g1, Len(takes), n) => t \in ThingsOf(p.gives)
          /\ In(g2, Len(early), n) => t \in ThingsOf(p.gets)
      BY <1>16
    <3> HIDE DEF In
    <3> QED
      BY <1>6, <3>1
  <2>5. /\ In(g1, Len(takes), m) \/ In(g2, Len(early), m)
        /\ In(g1, Len(takes), n) \/ In(g2, Len(early), n)
    BY <1>15
  <2> HIDE DEF In
  <2>6. Twins(p.gives, t) \/ Twins(p.gets, t)
    BY <2>2, <2>3, <2>4, <2>5
  <2>7. /\ Twins(p.gives, t) => p.gives # {}
        /\ Twins(p.gets, t) => p.gets # {}
    BY DEF Twins
  <2> QED
    BY <1>14, <2>6, <2>7
<1>21. GivenBy(us) \subseteq TakenBy(us)
  <2> SUFFICES ASSUME NEW n \in DOMAIN us, us[n].kind = "give", NEW t \in ThingsOf(us[n].items)
               PROVE  \E k \in DOMAIN us : us[k].kind = "take" /\ t \in ThingsOf(us[k].items)
    BY DEF GivenBy, TakenBy
  <2>1. t \in ThingsOf(p.gives) \/ t \in ThingsOf(p.gets)
    BY <1>15, <1>16
  <2>2. /\ t \in ThingsOf(p.gives) => p.gives # {}
        /\ t \in ThingsOf(p.gets) => p.gets # {}
    BY DEF ThingsOf
  <2> QED
    BY <1>14, <2>1, <2>2
<1>22. GivesAllBack(us)
  <2> SUFFICES ASSUME NEW n \in DOMAIN us, us[n].kind = "take", NEW t \in ThingsOf(us[n].items)
               PROVE  \E k \in DOMAIN us : us[k].kind = "give" /\ t \in ThingsOf(us[k].items)
    BY DEF GivenBy, TakenBy, GivesAllBack
  <2>1. us[n].items = p.gives \/ us[n].items = p.gets
    BY <1>12, <1>15
  <2>2. ASSUME NEW g, NEW before, NEW items, Returns(g, items), At(g, before),
               t \in ThingsOf(items)
        PROVE  \E k \in DOMAIN us : us[k].kind = "give" /\ t \in ThingsOf(us[k].items)
    <3>1. PICK i \in items : i.thing = t
      BY <2>2 DEF ThingsOf
    <3>2. PICK k \in DOMAIN g : ThingsOf(g[k].items) = {i.thing} /\ g[k].kind = "give"
      BY <2>2 DEF Returns
    <3>3. before + k \in DOMAIN us /\ us[before + k] = g[k]
      BY <2>2
    <3> QED
      BY <3>1, <3>2, <3>3
  <2> HIDE DEF At
  <2> QED
    BY <1>8, <1>10, <2>1, <2>2
<1> QED
  <2>1. Between(us) = {}
    BY <1>21, BetweenIs
  <2>2. Orderly(us)
    BY <1>17, <1>18, <1>19, <1>20, <1>22 DEF Orderly
  <2> QED
    BY <2>1, <2>2 DEF us

\* What is on its way is decided by the lists of units.
LEMMA HandsIn ==
  ASSUME NEW s \in Sessions
  PROVE  Hands[s] = Between(todo[s]) /\ (Hands[s])' = Between(todo'[s])
BY DEF Hands

\* A thing that is in no new place is in one place at most.
LEMMA FewerPlaces ==
  ASSUME NEW t, OncePlaced(t, rows, Hands), NEW table, NEW hands,
         \A i \in Ids : table[i].thing = t => rows[i].thing = t,
         \A s \in Sessions : t \in hands[s] => t \in Hands[s]
  PROVE  OncePlaced(t, table, hands)
BY DEF OncePlaced

\* Nothing that the code does not defend against is ever forgotten.
LEMMA ExcusesGrow ==
  ASSUME [Next]_vars
  PROVE  excuses \subseteq excuses'
<1>1. CASE World
  BY <1>1 DEF World, WorldStart, WorldItem, WorldDel, WorldGold, WorldAccept, WorldCancel,
     WorldCommitOk, WorldLeave, WorldJoin
<1>2. CASE WriteSave \/ UNCHANGED vars
  BY <1>2 DEF WriteSave, vars
<1>3. ASSUME NEW s \in Sessions, Ask(s)
      PROVE  excuses \subseteq excuses'
  BY <1>3 DEF Ask, AskStart, AskItem, AskDel, AskGold, AskAccept, AskCancel, Save, Lose
<1>4. ASSUME NEW s \in Sessions, Handle(s)
      PROVE  excuses \subseteq excuses'
  BY <1>4 DEF Handle, TakeCommit, RefuseCommit, AllocateIds, Unit, CommitDone, TakeDone,
     PlaceItem, PlaceGold, DoneOverflows, Hangup
<1>5. ASSUME NEW s \in Sessions, UnitFails(s) \/ Disconnect(s) \/ Enter(s)
      PROVE  excuses \subseteq excuses'
  BY <1>5 DEF UnitFails, Disconnect, Hangup, Enter
<1> QED
  BY <1>1, <1>2, <1>3, <1>4, <1>5 DEF Next

\* A session that is not committing has no units left, whatever happens.
LEMMA IdleHasNoUnits ==
  ASSUME IInv, Whereabouts, [Next]_vars
  PROVE  \A s \in Sessions : at'[s] # "units" => todo'[s] = <<>>
<1> DEFINE Kept == \A s \in Sessions : at'[s] # "units" => todo'[s] = <<>>
<1>0. /\ at \in [Sessions -> {"idle", "ids", "units", "place", "gone"}]
      /\ todo \in [Sessions -> Seq(Units)]
      /\ \A s \in Sessions : at[s] # "units" => todo[s] = <<>>
  BY DEF IInv, TypeOK, Whereabouts
<1>1. CASE World \/ WriteSave \/ UNCHANGED vars
  BY <1>0, <1>1 DEF World, WorldStart, WorldItem, WorldDel, WorldGold, WorldAccept,
     WorldCancel, WorldCommitOk, WorldLeave, WorldJoin, WriteSave, vars
<1>2. ASSUME NEW s \in Sessions, Ask(s)
      PROVE  Kept
  BY <1>0, <1>2 DEF Ask, AskStart, AskItem, AskDel, AskGold, AskAccept, AskCancel, Save, Lose
<1>3. ASSUME NEW s \in Sessions, AllocateIds(s) \/ Unit(s) \/ CommitDone(s) \/ UnitFails(s)
      PROVE  Kept
  BY <1>0, <1>3 DEF AllocateIds, Unit, CommitDone, UnitFails
<1>4. ASSUME NEW s \in Sessions,
             TakeCommit(s) \/ RefuseCommit(s) \/ TakeDone(s) \/ PlaceItem(s) \/ PlaceGold(s)
      PROVE  Kept
  BY <1>0, <1>4 DEF TakeCommit, RefuseCommit, TakeDone, PlaceItem, PlaceGold, NextEvent
<1>5. ASSUME NEW s \in Sessions, DoneOverflows(s) \/ Disconnect(s) \/ Enter(s)
      PROVE  Kept
  BY <1>0, <1>5 DEF DoneOverflows, Disconnect, Hangup, Enter
<1> QED
  BY <1>1, <1>2, <1>3, <1>4, <1>5 DEF Next, Handle

\* What most steps do to the rows: nothing.
LEMMA RowsUntouched ==
  ASSUME IInv, Whereabouts, [Next]_vars, UNCHANGED <<rows, todo, lost>>
  PROVE  Whereabouts'
<1>1. Undefended \subseteq Undefended'
  BY ExcusesGrow DEF Undefended
<1>2. Hands' = Hands
  BY DEF Hands
<1>3. ASSUME NEW t
      PROVE  /\ (OncePlaced(t, rows, Hands))' <=> OncePlaced(t, rows, Hands)
             /\ (Placed(t, rows, Hands))' <=> Placed(t, rows, Hands)
  BY <1>2 DEF OncePlaced, Placed
<1>4. Undefended' \subseteq {"failed"} => Undefended \subseteq {"failed"}
  BY <1>1
<1>5. Undefended' = {} => Undefended = {}
  BY <1>1
<1> QED
  BY <1>3, <1>4, <1>5, IdleHasNoUnits DEF Whereabouts

\* An item is lost (Lose): the row of its thing goes.
LEMMA LoseMoves ==
  ASSUME IInv, Whereabouts, NEW s \in Sessions, Lose(s)
  PROVE  Whereabouts'
<1>0. Next
  BY DEF Next, Ask
<1>1. PICK i \in bag[s] :
        /\ rows' = [rows EXCEPT ![i.id] = NoRow]
        /\ lost' = lost \cup {i.thing}
        /\ excuses' = IF i \in OwnedRows(s) THEN excuses ELSE excuses \cup {"stale"}
  BY DEF Lose
<1>2. i \in Item /\ i.id \in Ids /\ i.thing \in 1 .. Things
  <2>1. i \in Item
    BY DEF IInv, TypeOK
  <2> QED
    BY <2>1 DEF Item
<1>3. rows \in Rows /\ UNCHANGED todo /\ Hands' = Hands
  BY DEF Lose, IInv, TypeOK, Rows, Hands
<1>4. CASE i \notin OwnedRows(s)
  <2>1. "stale" \in Undefended'
    BY <1>1, <1>4 DEF Undefended
  <2> QED
    BY <1>0, <2>1, IdleHasNoUnits DEF Whereabouts
<1>5. CASE i \in OwnedRows(s)
  <2>1. rows[i.id].thing = i.thing /\ Undefended' = Undefended
    BY <1>1, <1>5 DEF OwnedRows, Undefended
  <2>2. \A x \in Ids : rows'[x] = IF x = i.id THEN NoRow ELSE rows[x]
    BY <1>1, <1>3 DEF Rows
  <2>3. ASSUME NEW t \in 1 .. Things, OncePlaced(t, rows, Hands)
        PROVE  /\ (OncePlaced(t, rows, Hands))'
               /\ (Placed(t, rows, Hands))' <=> Placed(t, rows, Hands) /\ t # i.thing
    <3>1. \A x \in Ids : rows'[x].thing = t => rows[x].thing = t
      BY <2>2 DEF NoRow
    <3>2. OncePlaced(t, rows', Hands)
      BY <2>3, <3>1, FewerPlaces
    <3>3. CASE t = i.thing
      <4>1. \A x \in Ids : rows'[x].thing # t
        BY <1>2, <2>1, <2>2, <2>3, <3>3 DEF OncePlaced, NoRow
      <4>2. \A r \in Sessions : t \notin Hands[r]
        BY <1>2, <2>1, <2>3, <3>3 DEF OncePlaced
      <4> QED
        BY <1>3, <3>2, <3>3, <4>1, <4>2 DEF Placed, OncePlaced
    <3>4. CASE t # i.thing
      <4>1. \A x \in Ids : rows'[x].thing = t <=> rows[x].thing = t
        BY <2>1, <2>2, <3>4 DEF NoRow
      <4> QED
        BY <1>3, <3>2, <3>4, <4>1 DEF Placed, OncePlaced
    <3> QED
      BY <3>3, <3>4
  <2>4. ASSUME Undefended' \subseteq {"failed"}
        PROVE  /\ \A r \in Sessions : Orderly(todo'[r])
               /\ \A t \in 1 .. Things : (OncePlaced(t, rows, Hands))'
    BY <1>3, <2>1, <2>3, <2>4 DEF Whereabouts
  <2>5. ASSUME Undefended' = {}, NEW t \in 1 .. Things
        PROVE  t \notin lost' <=> (Placed(t, rows, Hands))'
    <3>1. OncePlaced(t, rows, Hands) /\ (t \notin lost <=> Placed(t, rows, Hands))
      BY <2>1, <2>5 DEF Whereabouts
    <3> QED
      BY <1>1, <2>3, <3>1
  <2> QED
    BY <1>0, <2>4, <2>5, IdleHasNoUnits DEF Whereabouts
<1> QED
  BY <1>4, <1>5

\* The units of a plan are built (AllocateIds): nothing is on its way yet.
LEMMA AllocateMoves ==
  ASSUME IInv, Whereabouts, NEW s \in Sessions, AllocateIds(s)
  PROVE  Whereabouts'
<1>0. Next
  BY DEF Next, Handle
<1>1. CASE OfferedTwice(plan[s]) # {}
  <2>1. "stale" \in Undefended'
    BY <1>1 DEF AllocateIds, OfferedTwice, Undefended
  <2> QED
    BY <1>0, <2>1, IdleHasNoUnits DEF Whereabouts
<1>2. CASE OfferedTwice(plan[s]) = {}
  <2> DEFINE us == CommitUnits(s, plan[s], NextId)
  <2>1. Orderly(us) /\ Between(us) = {}
    <3>1. plan[s] \in Plans /\ PostsAreValid(plan[s], gold[s], seen[s])
      BY DEF AllocateIds, IInv, CommitsAreCovered
    <3>2. gold[s] \in Amount /\ seen[s] \in Amount
      BY DEF IInv, TypeOK
    <3>3. NextId + Cardinality(plan[s].gives) + Cardinality(plan[s].gets) - 1 <= MaxRows
      BY DEF AllocateIds
    <3> QED
      BY <1>2, <3>1, <3>2, <3>3, NextIdType, CommitIsOrderly
  <2>2. todo' = [todo EXCEPT ![s] = us] /\ todo \in [Sessions -> Seq(Units)]
        /\ UNCHANGED <<rows, lost>> /\ Undefended' = Undefended
    BY <1>2 DEF AllocateIds, IInv, TypeOK, Undefended
  <2>3. todo[s] = <<>>
    BY DEF AllocateIds, Whereabouts
  <2> HIDE DEF us
  <2>4. \A r \in Sessions : Between(todo'[r]) = Between(todo[r])
    BY <2>1, <2>2, <2>3, NothingToDo
  <2>5. Hands' = Hands
    BY <2>4 DEF Hands
  <2>6. ASSUME NEW t
        PROVE  /\ (OncePlaced(t, rows, Hands))' <=> OncePlaced(t, rows, Hands)
               /\ (Placed(t, rows, Hands))' <=> Placed(t, rows, Hands)
    BY <2>2, <2>5 DEF OncePlaced, Placed
  <2>7. Undefended' \subseteq {"failed"} => \A r \in Sessions : Orderly(todo'[r])
    BY <2>1, <2>2 DEF Whereabouts
  <2> QED
    BY <1>0, <2>2, <2>6, <2>7, IdleHasNoUnits DEF Whereabouts
<1> QED
  BY <1>1, <1>2

\* A unit is run, or fails (Unit, UnitFails).
LEMMA UnitMoves ==
  ASSUME TypeOK, Whereabouts, Undefended \subseteq {"failed"}, NEW s \in Sessions,
         todo[s] # <<>>, RunUnit(Head(todo[s])), Unforeseen(Head(todo[s])) = {}
  PROVE  LET hands == [Hands EXCEPT ![s] = Between(Tail(todo[s]))]
         IN  /\ Orderly(Tail(todo[s]))
             /\ \A t \in 1 .. Things :
                  /\ OncePlaced(t, rows', hands)
                  /\ Placed(t, rows', hands) <=> Placed(t, rows, Hands)
<1>1. Head(todo[s]) \in Units
  BY TailOf DEF TypeOK
<1>2. Head(todo[s]).kind \in {"take", "give"}
  BY <1>1 DEF Units
<1> QED
  BY <1>2, TakeMoves, GiveMoves

LEMMA RunMoves ==
  ASSUME IInv, Whereabouts, NEW s \in Sessions, Unit(s)
  PROVE  Whereabouts'
<1>0. Next
  BY DEF Next, Handle
<1>1. /\ todo' = [todo EXCEPT ![s] = Tail(todo[s])] /\ todo \in [Sessions -> Seq(Units)]
      /\ todo[s] # <<>> /\ RunUnit(Head(todo[s])) /\ UNCHANGED lost
      /\ excuses' = excuses \cup Unforeseen(Head(todo[s]))
      /\ TypeOK
  BY DEF Unit, IInv, TypeOK
<1>2. Hands' = [Hands EXCEPT ![s] = Between(Tail(todo[s]))]
  BY <1>1 DEF Hands
<1>3. ASSUME Undefended' \subseteq {"failed"}
      PROVE  Unforeseen(Head(todo[s])) = {} /\ Undefended' = Undefended
  BY <1>1, <1>3 DEF Undefended, Unforeseen
<1>4. ASSUME Undefended' \subseteq {"failed"}
      PROVE  /\ \A r \in Sessions : Orderly(todo'[r])
             /\ \A t \in 1 .. Things : /\ (OncePlaced(t, rows, Hands))'
                                       /\ (Placed(t, rows, Hands))' <=> Placed(t, rows, Hands)
  <2>1. Unforeseen(Head(todo[s])) = {} /\ Undefended \subseteq {"failed"}
    BY <1>3, <1>4
  <2>2. /\ Orderly(Tail(todo[s]))
        /\ \A t \in 1 .. Things :
             /\ OncePlaced(t, rows', Hands')
             /\ Placed(t, rows', Hands') <=> Placed(t, rows, Hands)
    BY <1>1, <1>2, <2>1, UnitMoves
  <2>3. \A r \in Sessions : Orderly(todo[r])
    BY <2>1 DEF Whereabouts
  <2> QED
    BY <1>1, <2>2, <2>3 DEF OncePlaced, Placed
<1>5. ASSUME Undefended' = {}
      PROVE  \A t \in 1 .. Things : t \notin lost' <=> (Placed(t, rows, Hands))'
  <2>1. Undefended = {} /\ Undefended' \subseteq {"failed"}
    BY <1>3, <1>5
  <2>2. \A t \in 1 .. Things : t \notin lost <=> Placed(t, rows, Hands)
    BY <2>1 DEF Whereabouts
  <2> QED
    BY <1>1, <1>4, <2>1, <2>2
<1> QED
  BY <1>0, <1>4, <1>5, IdleHasNoUnits DEF Whereabouts

LEMMA FailMoves ==
  ASSUME IInv, Whereabouts, NEW s \in Sessions, UnitFails(s)
  PROVE  Whereabouts'
<1> DEFINE us == todo[s]
<1>0. Next
  BY DEF Next
<1>1. /\ todo' = [todo EXCEPT ![s] = <<>>] /\ todo \in [Sessions -> Seq(Units)]
      /\ us # <<>> /\ UNCHANGED lost /\ TypeOK
  BY DEF UnitFails, IInv, TypeOK
<1>2. \A r \in Sessions : (Hands[r])' = IF r = s THEN {} ELSE Hands[r]
  BY <1>1, NothingToDo DEF Hands
<1>3. ASSUME NEW rest \in {us, Tail(us)}, NEW unforeseen,
             excuses' = excuses \cup unforeseen
                                \cup (IF Between(rest) = {} THEN {} ELSE {"failed"}),
             Undefended' \subseteq {"failed"} =>
               LET hands == [Hands EXCEPT ![s] = Between(rest)]
               IN  \A t \in 1 .. Things :
                     /\ OncePlaced(t, rows', hands)
                     /\ Placed(t, rows', hands) <=> Placed(t, rows, Hands)
      PROVE  Whereabouts'
  <2> DEFINE hands == [Hands EXCEPT ![s] = Between(rest)]
  <2>1. /\ \A r \in Sessions : hands[r] = IF r = s THEN Between(rest) ELSE Hands[r]
        /\ \A r \in Sessions : (Hands[r])' \subseteq hands[r]
        /\ Between(rest) = {} => \A r \in Sessions : (Hands[r])' = hands[r]
    <3>1. \A r \in Sessions : hands[r] = IF r = s THEN Between(rest) ELSE Hands[r]
      BY DEF Hands
    <3> QED
      BY <1>2, <3>1
  <2>2. Undefended' \subseteq {"failed"} => Undefended \subseteq {"failed"}
    BY <1>3 DEF Undefended
  <2>3. Undefended' = {} => Undefended = {} /\ Between(rest) = {}
    <3>1. excuses \subseteq excuses' /\ (Between(rest) # {} => "failed" \in excuses')
      BY <1>3
    <3> QED
      BY <3>1 DEF Undefended
  <2> HIDE DEF hands
  <2>4. Undefended' \subseteq {"failed"} =>
          \A t \in 1 .. Things : /\ OncePlaced(t, rows', hands)
                                 /\ Placed(t, rows', hands) <=> Placed(t, rows, Hands)
    BY <1>3 DEF hands
  <2>5. ASSUME Undefended' \subseteq {"failed"}, NEW t \in 1 .. Things
        PROVE  (OncePlaced(t, rows, Hands))'
    <3>1. OncePlaced(t, rows', hands)
      BY <2>4, <2>5
    <3>2. \A r \in Sessions : t \in (Hands[r])' => t \in hands[r]
      BY <2>1
    <3> QED
      BY <3>1, <3>2 DEF OncePlaced
  <2>6. ASSUME Undefended' = {}, NEW t \in 1 .. Things
        PROVE  t \notin lost' <=> (Placed(t, rows, Hands))'
    <3>1. Placed(t, rows', hands) <=> Placed(t, rows, Hands)
      BY <2>4, <2>6
    <3>2. t \notin lost <=> Placed(t, rows, Hands)
      BY <2>3, <2>6 DEF Whereabouts
    <3>3. \A r \in Sessions : (Hands[r])' = hands[r]
      BY <2>1, <2>3, <2>6
    <3> QED
      BY <1>1, <3>1, <3>2, <3>3 DEF Placed
  <2>7. Undefended' \subseteq {"failed"} => \A r \in Sessions : Orderly(todo'[r])
    BY <1>1, <2>2, NothingToDo DEF Whereabouts
  <2> QED
    BY <1>0, <2>5, <2>6, <2>7, IdleHasNoUnits DEF Whereabouts
<1>4. CASE /\ RunUnit(Head(us))
           /\ excuses' = excuses \cup Unforeseen(Head(us))
                                 \cup (IF Between(Tail(us)) = {} THEN {} ELSE {"failed"})
  <2>1. Undefended' \subseteq {"failed"} =>
          Undefended \subseteq {"failed"} /\ Unforeseen(Head(us)) = {}
    BY <1>4 DEF Undefended, Unforeseen
  <2> QED
    BY <1>1, <1>3, <1>4, <2>1, UnitMoves
<1>5. CASE /\ excuses' = excuses \cup (IF Between(us) = {} THEN {} ELSE {"failed"})
           /\ UNCHANGED rows
  <2>1. Undefended' \subseteq {"failed"} => Undefended \subseteq {"failed"}
    BY <1>5 DEF Undefended
  <2>2. [Hands EXCEPT ![s] = Between(us)] = Hands
    BY DEF Hands
  <2>3. Undefended \subseteq {"failed"} => \A t \in 1 .. Things : OncePlaced(t, rows, Hands)
    BY DEF Whereabouts
  <2>4. excuses' = excuses \cup {} \cup (IF Between(us) = {} THEN {} ELSE {"failed"})
    BY <1>5
  <2> QED
    BY <1>3, <1>5, <2>1, <2>2, <2>3, <2>4
<1> QED
  BY <1>4, <1>5 DEF UnitFails

\* A received item is placed (PlaceItem), which is never defended against.
LEMMA PlaceMoves ==
  ASSUME IInv, Whereabouts, NEW s \in Sessions, PlaceItem(s)
  PROVE  Whereabouts'
<1>1. "echo" \in Undefended'
  BY DEF PlaceItem, Undefended
<1>2. Next
  BY DEF Next, Handle
<1> QED
  BY <1>1, <1>2, IdleHasNoUnits DEF Whereabouts

\* Every step knows where the things are (Next).
LEMMA WhereaboutsInductive ==
  ASSUME IInv, Whereabouts, [Next]_vars
  PROVE  Whereabouts'
<1>1. CASE World \/ WriteSave \/ UNCHANGED vars
  <2>1. UNCHANGED <<rows, todo, lost>>
    BY <1>1 DEF World, WorldStart, WorldItem, WorldDel, WorldGold, WorldAccept,
       WorldCancel, WorldCommitOk, WorldLeave, WorldJoin, WriteSave, vars
  <2> QED
    BY <2>1, RowsUntouched
<1>2. ASSUME NEW s \in Sessions, Ask(s)
      PROVE  Whereabouts'
  <2>1. CASE Lose(s)
    BY <2>1, LoseMoves
  <2>2. CASE ~Lose(s)
    <3>1. UNCHANGED <<rows, todo, lost>>
      BY <1>2, <2>2 DEF Ask, AskStart, AskItem, AskDel, AskGold, AskAccept, AskCancel, Save
    <3> QED
      BY <3>1, RowsUntouched
  <2> QED
    BY <2>1, <2>2
<1>3. ASSUME NEW s \in Sessions,
             \/ TakeCommit(s) \/ RefuseCommit(s) \/ CommitDone(s) \/ TakeDone(s)
             \/ PlaceGold(s) \/ DoneOverflows(s) \/ Disconnect(s) \/ Enter(s)
      PROVE  Whereabouts'
  <2>1. UNCHANGED <<rows, todo, lost>>
    BY <1>3 DEF TakeCommit, RefuseCommit, CommitDone, TakeDone, PlaceGold, DoneOverflows,
       Disconnect, Hangup, Enter
  <2> QED
    BY <2>1, RowsUntouched
<1> QED
  BY <1>1, <1>2, <1>3, LoseMoves, AllocateMoves, RunMoves, FailMoves, PlaceMoves
     DEF Next, Handle

\* At the start every thing has its row (Init).
LEMMA InitWhereabouts == Init => Whereabouts
<1> SUFFICES ASSUME Init PROVE Whereabouts
  OBVIOUS
<1>1. PICK holder \in [1 .. Things -> Sessions] :
        rows = [i \in Ids |-> IF i <= Things THEN [owner |-> holder[i], thing |-> i] ELSE NoRow]
  BY DEF Init
<1>2. \A s \in Sessions : todo[s] = <<>>
  BY DEF Init
<1>3. \A s \in Sessions : Hands[s] = {}
  BY <1>2, HandsIn, NothingToDo
<1>4. lost = {} /\ Undefended = {}
  BY DEF Init, Undefended
<1>5. \A t \in 1 .. Things : \A i \in Ids : rows[i].thing = t <=> i = t
  BY <1>1, Limits DEF Ids, NoRow
<1>6. \A t \in 1 .. Things : t \in Ids
  BY Limits DEF Ids
<1>7. \A t \in 1 .. Things : OncePlaced(t, rows, Hands) /\ Placed(t, rows, Hands)
  BY <1>3, <1>5, <1>6 DEF OncePlaced, Placed
<1> QED
  BY <1>2, <1>4, <1>7, NothingToDo DEF Whereabouts

\* The units of the commits conserve the things: each has one row, or is on its way
\* in one commit, until a received item is placed; after a failure it may be gone
\* but never doubled (build_commit_units, apply_commit).
THEOREM CommitsKeepThings == Spec => []CommitConservesThings
<1>1. Whereabouts /\ IInv /\ [Next]_vars => Whereabouts'
  BY WhereaboutsInductive
<1> QED
  BY <1>1, WhereaboutsConserve, InitWhereabouts, TradeIsConsistent, PTL DEF Spec
=============================================================================
