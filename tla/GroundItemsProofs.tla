--------------------------- MODULE GroundItemsProofs ---------------------------
(***************************************************************************)
(* Proofs about GroundItems for every finite set of players, size of the   *)
(* inventory and number of rows and drops: its types, that an item leaves  *)
(* the ground only after its pieces were written, that PostgreSQL holds    *)
(* the inventory of every session between two handlers, and that no piece  *)
(* is lost or multiplied unless the code was caught undefended.            *)
(***************************************************************************)
EXTENDS GroundItems, Integers, FiniteSetTheorems, WellFoundedInduction, TLAPS

-----------------------------------------------------------------------------
(* The inductive invariant                                                 *)

\* A vid that the world has given out.
Behind(v) == v \in Vids /\ v < nextVid

\* Items on their way to the ground have a vid left.
Drops(q) == {i \in DOMAIN q : q[i].kind = "drop"}
DropsFit == nextVid + Cardinality(Drops(intents)) <= MaxDrops + 1

\* Questions are about vids given out, and a removal about pieces already written.
SoundIntents == {m \in Intents : /\ m.kind # "drop" => Behind(m.vid)
                                 /\ m.kind = "remove" => stored[m.vid] >= ground[m.vid]}

\* An answer never counts less than the ground has.
SoundResults == {e \in Results : Behind(e.vid) /\ e.count >= ground[e.vid]}

QueuesSound == /\ intents \in Seq(SoundIntents)
               /\ \A s \in Sessions : events[s] \in Seq(SoundResults)

FreshIsFree == \A v \in Vids : v >= nextVid => ground[v] = 0

\* What a session has in hand and what was written make up what the ground has.
InHand(s) == vid[s] # 0 => /\ Behind(vid[s]) /\ at[s] \in {"stack", "insert"}
                           /\ stored[vid[s]] + left[s] >= ground[vid[s]]

RowChosen(s) == at[s] \in {"store", "insert"} => row[s] \in Ids

\* Memory and PostgreSQL agree but for the row the handler is about to write.
Agree(s) ==
  /\ at[s] \in {"idle", "stack", "newRow", "insert"} =>
       \A i \in Ids : inv[s][i] = OwnedRows(s)[i]
  /\ at[s] = "store" =>
       rows[row[s]].owner = s /\ \A i \in Ids \ {row[s]} : inv[s][i] = OwnedRows(s)[i]
Undisturbed == excuses \cap {"sameRow", "cut"} = {}
RowsAgree == Undisturbed => \A s \in Sessions : Agree(s)

IInv == /\ TypeOK
        /\ DropsFit
        /\ QueuesSound
        /\ FreshIsFree
        /\ \A s \in Sessions : InHand(s) /\ RowChosen(s)
        /\ RowsAgree

-----------------------------------------------------------------------------
(* Numbers, queues and sets                                                *)

\* The constants as numbers (CapacityAssumption, BoundsAssumption).
LEMMA Limits ==
  /\ StackLimit \in Nat /\ StackLimit > 0 /\ MaxRows \in Nat /\ MaxDrops \in Nat
  /\ MaxGifts \in Nat /\ MaxMoves \in Nat /\ MaxQueue \in Nat /\ MaxCuts \in Nat
  /\ NoSession \notin Sessions
BY CapacityAssumption, BoundsAssumption, SessionsAssumption

\* What a queue holds, and what is left of it.
LEMMA ElementsOf ==
  ASSUME NEW S, NEW seq \in Seq(S)
  PROVE  /\ <<>> \in Seq(S)
         /\ seq # <<>> => Head(seq) \in S /\ Tail(seq) \in Seq(S)
         /\ \A e \in S : Append(seq, e) \in Seq(S)
         /\ \A i \in 1 .. Len(seq) : seq[i] \in S
OBVIOUS

\* A queue of sound messages stays one when more become sound.
LEMMA WiderSeq ==
  ASSUME NEW S, NEW T, S \subseteq T, NEW seq \in Seq(S)
  PROVE  seq \in Seq(T)
OBVIOUS

\* The smaller of two numbers is one of them (Lesser).
LEMMA LesserOf ==
  ASSUME NEW m \in Nat, NEW n \in Nat
  PROVE  Lesser(m, n) \in Nat /\ Lesser(m, n) <= m /\ Lesser(m, n) <= n
         /\ Lesser(m, n) \in {m, n}
BY DEF Lesser

\* The first stack with room is one of them (Stack).
LEMMA SmallestIsIn ==
  ASSUME NEW T \in SUBSET Nat, T # {}
  PROVE  Min(T) \in T
<1>1. PICK x \in T : \A y \in T : <<y, x>> \notin OpToRel(<, Nat)
  BY NatLessThanWellFounded, WFMin, Zenon
<1>2. \A y \in T : ~(y < x)
  BY <1>1 DEF OpToRel
<1>3. \E m \in T : \A y \in T : m =< y
  BY <1>2
<1> QED
  BY <1>3, Zenon DEF Min

\* The drops of a queue are finitely many, one more with a drop appended, one less
\* without a drop at the head (MayDrop, WorldDrop).
LEMMA DropsOf ==
  ASSUME NEW q \in Seq(Intents)
  PROVE  /\ IsFiniteSet(Drops(q)) /\ Cardinality(Drops(q)) \in Nat
         /\ \A m \in Intents :
              IF m.kind = "drop" THEN Cardinality(Drops(Append(q, m))) = Cardinality(Drops(q)) + 1
                                 ELSE Drops(Append(q, m)) = Drops(q)
         /\ q # <<>> => IF Head(q).kind = "drop"
                        THEN Cardinality(Drops(Tail(q))) <= Cardinality(Drops(q)) - 1
                        ELSE Cardinality(Drops(Tail(q))) <= Cardinality(Drops(q))
<1>1. IsFiniteSet(Drops(q)) /\ Cardinality(Drops(q)) \in Nat
  <2>1. IsFiniteSet(1 .. Len(q)) /\ Drops(q) \in SUBSET (1 .. Len(q))
    BY FS_Interval DEF Drops
  <2> QED
    BY <2>1, FS_Subset, FS_CardinalityType
<1>2. ASSUME NEW m \in Intents
      PROVE  IF m.kind = "drop" THEN Cardinality(Drops(Append(q, m))) = Cardinality(Drops(q)) + 1
                                ELSE Drops(Append(q, m)) = Drops(q)
  <2> DEFINE more == Append(q, m)
             last == Len(q) + 1
  <2>1. /\ DOMAIN more = 1 .. last /\ DOMAIN q = 1 .. Len(q) /\ Len(q) \in Nat
        /\ \A i \in 1 .. Len(q) : more[i] = q[i]
        /\ more[last] = m
    OBVIOUS
  <2>2. last \notin Drops(q)
    BY <2>1 DEF Drops
  <2> HIDE DEF more
  <2>3. CASE m.kind = "drop"
    <3>1. Drops(more) = Drops(q) \cup {last}
      BY <2>1, <2>3 DEF Drops
    <3> QED
      BY <1>1, <2>2, <2>3, <3>1, FS_AddElement DEF more
  <2>4. CASE m.kind # "drop"
    <3>1. Drops(more) = Drops(q)
      BY <2>1, <2>4 DEF Drops
    <3> QED
      BY <2>4, <3>1 DEF more
  <2> QED
    BY <2>3, <2>4
<1>3. ASSUME q # <<>>
      PROVE  IF Head(q).kind = "drop"
             THEN Cardinality(Drops(Tail(q))) <= Cardinality(Drops(q)) - 1
             ELSE Cardinality(Drops(Tail(q))) <= Cardinality(Drops(q))
  <2> DEFINE rest == Tail(q)
             later == Drops(q) \ {1}
             f == [i \in Drops(rest) |-> i + 1]
  <2>1. /\ DOMAIN rest = 1 .. (Len(q) - 1) /\ DOMAIN q = 1 .. Len(q) /\ Len(q) \in Nat \ {0}
        /\ \A i \in 1 .. (Len(q) - 1) : rest[i] = q[i + 1]
        /\ Head(q) = q[1]
    BY <1>3
  <2> HIDE DEF rest
  <2>2. \A i \in Drops(rest) : i + 1 \in later /\ i \in Nat
    BY <2>1 DEF Drops
  <2>3. f \in Injection(Drops(rest), later)
    BY <2>2 DEF Injection, IsInjective
  <2>4. IsFiniteSet(later)
        /\ Cardinality(later) = IF 1 \in Drops(q) THEN Cardinality(Drops(q)) - 1
                                                  ELSE Cardinality(Drops(q))
    BY <1>1, FS_RemoveElement
  <2>5. Cardinality(Drops(rest)) <= Cardinality(later)
    BY <2>3, <2>4, FS_Injection
  <2>6. 1 \in Drops(q) <=> Head(q).kind = "drop"
    BY <2>1 DEF Drops
  <2> QED
    BY <2>4, <2>5, <2>6 DEF rest
<1> QED
  BY <1>1, <1>2, <1>3

-----------------------------------------------------------------------------
(* What a step of another actor leaves sound                               *)

\* Vids given out keep what they have or are cleared; what was written stays written, or is all
\* there was.
Grown ==
  /\ nextVid' >= nextVid
  /\ \A v \in Vids : v < nextVid =>
       ground'[v] <= ground[v] /\ (stored'[v] >= stored[v] \/ stored'[v] >= ground'[v])

\* What was sound is sound after that.
LEMMA SoundStays ==
  ASSUME TypeOK, TypeOK', Grown
  PROVE  /\ SoundIntents \subseteq SoundIntents'
         /\ SoundResults \subseteq SoundResults'
         /\ \A s \in Sessions : InHand(s) /\ UNCHANGED <<at[s], left[s], vid[s]>> => InHand(s)'
<1>1. /\ nextVid \in Nat /\ nextVid' \in Nat /\ nextVid' >= nextVid /\ Vids \subseteq Nat
      /\ \A v \in Vids : /\ ground[v] \in Nat /\ ground'[v] \in Nat
                         /\ stored[v] \in Nat /\ stored'[v] \in Nat
  <2>1. nextVid \in Nat /\ nextVid' \in Nat /\ nextVid' >= nextVid /\ Vids \subseteq Nat
    BY Limits DEF TypeOK, Vids, Grown
  <2>2. ground \in [Vids -> Counts] /\ ground' \in [Vids -> Counts] /\ Counts \subseteq Nat
    BY Limits DEF TypeOK, Counts
  <2>3. stored \in [Vids -> Nat] /\ stored' \in [Vids -> Nat]
    BY DEF TypeOK
  <2> QED
    BY <2>1, <2>2, <2>3
<1>2. ASSUME NEW v \in Vids, v < nextVid
      PROVE  /\ Behind(v)' /\ ground'[v] <= ground[v]
             /\ stored'[v] >= stored[v] \/ stored'[v] >= ground'[v]
  BY <1>1, <1>2 DEF Behind, Grown
<1>3. ASSUME NEW m \in SoundIntents PROVE m \in SoundIntents'
  <2>1. m \in Intents /\ m \in Intents'
    BY DEF SoundIntents, Intents, Counts
  <2>2. CASE m.kind = "drop"
    BY <2>1, <2>2 DEF SoundIntents
  <2>3. CASE m.kind # "drop"
    <3>1. PICK v \in Vids : v = m.vid
      BY <2>3 DEF SoundIntents, Behind
    <3>2. v < nextVid /\ (m.kind = "remove" => stored[v] >= ground[v])
      BY <2>3, <3>1 DEF SoundIntents, Behind
    <3>3. Behind(v)' /\ (m.kind = "remove" => stored'[v] >= ground'[v])
      BY <1>1, <1>2, <3>2
    <3> QED
      BY <2>1, <3>1, <3>3 DEF SoundIntents
  <2> QED
    BY <2>2, <2>3
<1>4. ASSUME NEW e \in SoundResults PROVE e \in SoundResults'
  <2>1. e \in Results /\ e \in Results' /\ e.count \in Nat
    BY Limits DEF SoundResults, Results, Counts
  <2>2. PICK v \in Vids : v = e.vid
    BY DEF SoundResults, Behind
  <2>3. v < nextVid /\ e.count >= ground[v]
    BY <2>2 DEF SoundResults, Behind
  <2>4. Behind(v)' /\ e.count >= ground'[v]
    BY <1>1, <1>2, <2>1, <2>3
  <2> QED
    BY <2>1, <2>2, <2>4 DEF SoundResults
<1>5. ASSUME NEW s \in Sessions, InHand(s), UNCHANGED <<at[s], left[s], vid[s]>>
      PROVE  InHand(s)'
  <2>1. CASE vid[s] = 0
    BY <1>5, <2>1 DEF InHand
  <2>2. CASE vid[s] # 0
    <3>1. PICK v \in Vids : v = vid[s]
      BY <1>5, <2>2 DEF InHand, Behind
    <3>2. v < nextVid /\ at[s] \in {"stack", "insert"} /\ stored[v] + left[s] >= ground[v]
      BY <1>5, <2>2, <3>1 DEF InHand, Behind
    <3>3. left[s] \in Nat
      BY Limits DEF TypeOK, Counts
    <3>4. Behind(v)' /\ stored'[v] + left[s] >= ground'[v]
      BY <1>1, <1>2, <3>2, <3>3
    <3> QED
      BY <1>5, <3>1, <3>2, <3>4 DEF InHand
  <2> QED
    BY <2>1, <2>2
<1> QED
  BY <1>3, <1>4, <1>5

\* The rows of the others stay theirs when a session writes free rows and rows of its own.
LEMMA OthersAgree ==
  ASSUME TypeOK, TypeOK', NEW s \in Sessions, NEW t \in Sessions \ {s}, RowChosen(t), Agree(t),
         UNCHANGED <<at[t], inv[t], row[t]>>,
         \A i \in Ids : \/ rows'[i] = rows[i]
                        \/ rows[i].owner # t /\ rows'[i].owner # t
  PROVE  Agree(t)'
<1>1. \A i \in Ids : OwnedRows(t)'[i] = OwnedRows(t)[i]
  BY DEF OwnedRows
<1>2. at[t] = "store" => rows'[row[t]].owner = t
  BY DEF RowChosen, Agree
<1> QED
  BY <1>1, <1>2 DEF Agree

\* A step of one session: what it must show.
LEMMA SessionKeeps ==
  ASSUME IInv, TypeOK', NEW s \in Sessions,
         UNCHANGED <<ground, nextVid>>, Grown,
         \A t \in Sessions \ {s} :
           UNCHANGED <<at[t], left[t], vid[t], row[t], inv[t], events[t]>>,
         DropsFit', intents' \in Seq(SoundIntents'), events'[s] \in Seq(SoundResults'),
         InHand(s)', RowChosen(s)', Undisturbed' => Undisturbed,
         \A i \in Ids : \/ rows'[i] = rows[i]
                        \/ /\ rows[i].owner \in {s, NoSession} \/ ~Undisturbed'
                           /\ rows'[i].owner \in {s, NoSession},
         Undisturbed' /\ Agree(s) => Agree(s)'
  PROVE  IInv'
<1>0. TypeOK
  BY DEF IInv
<1>1. ASSUME NEW t \in Sessions \ {s}
      PROVE  InHand(t)' /\ RowChosen(t)' /\ events'[t] \in Seq(SoundResults')
  <2>1. InHand(t)'
    BY <1>0, SoundStays DEF IInv
  <2>2. RowChosen(t)'
    BY DEF IInv, RowChosen
  <2>3. events[t] \in Seq(SoundResults) /\ SoundResults \subseteq SoundResults'
    BY <1>0, SoundStays DEF IInv, QueuesSound
  <2>4. events[t] \in Seq(SoundResults')
    BY <2>3, WiderSeq
  <2> QED
    BY <2>1, <2>2, <2>4
<1>2. RowsAgree'
  <2>1. SUFFICES ASSUME Undisturbed', NEW t \in Sessions PROVE Agree(t)'
    BY DEF RowsAgree
  <2>2. Undisturbed /\ Agree(t) /\ Agree(s) /\ RowChosen(t)
    BY <2>1 DEF IInv, RowsAgree
  <2>3. CASE t = s
    BY <2>1, <2>2, <2>3
  <2>4. CASE t # s
    <3>1. \A i \in Ids : rows'[i] = rows[i] \/ (rows[i].owner # t /\ rows'[i].owner # t)
      BY <2>1, <2>4, Limits
    <3>2. UNCHANGED <<at[t], inv[t], row[t]>>
      BY <2>4
    <3> QED
      BY <1>0, <2>2, <2>4, <3>1, <3>2, OthersAgree
  <2> QED
    BY <2>3, <2>4
<1>3. FreshIsFree' /\ QueuesSound'
  BY <1>1 DEF IInv, FreshIsFree, QueuesSound
<1> QED
  BY <1>1, <1>2, <1>3 DEF IInv

\* Nothing is forgotten where the ground and what was written stay.
LEMMA CalmGrown ==
  ASSUME TypeOK, UNCHANGED <<ground, nextVid, stored>>
  PROVE  Grown
<1>1. nextVid \in Nat /\ \A v \in Vids : ground[v] \in Nat /\ stored[v] \in Nat
  BY Limits DEF TypeOK, Counts
<1> QED
  BY <1>1 DEF Grown

\* Pieces that reach PostgreSQL are counted up to a whole stack (Taken).
LEMMA TakenGrown ==
  ASSUME TypeOK, NEW s \in Sessions, NEW n \in Nat, Taken(s, n), UNCHANGED <<ground, nextVid>>
  PROVE  /\ Grown
         /\ takers' \in [Vids -> SUBSET Sessions] /\ stored' \in [Vids -> Nat]
         /\ vid[s] # 0 => stored'[vid[s]] >= stored[vid[s]] + n
                           \/ stored'[vid[s]] >= ground[vid[s]]
<1>1. /\ nextVid \in Nat /\ StackLimit \in Nat
      /\ \A v \in Vids : ground[v] \in Nat /\ ground[v] <= StackLimit /\ stored[v] \in Nat
  BY Limits DEF TypeOK, Counts
<1>2. CASE vid[s] = 0
  <2>1. UNCHANGED <<takers, stored>>
    BY <1>2 DEF Taken
  <2>2. takers \in [Vids -> SUBSET Sessions] /\ stored \in [Vids -> Nat]
    BY DEF TypeOK
  <2> QED
    BY <1>2, <2>1, <2>2, CalmGrown
<1>3. CASE vid[s] # 0
  <2>1. PICK v \in Vids : v = vid[s]
    BY <1>3, Limits DEF TypeOK, Vids
  <2>2. /\ takers' = [takers EXCEPT ![v] = @ \cup {s}]
        /\ stored' = [stored EXCEPT ![v] = Lesser(stored[v] + n, StackLimit)]
    BY <1>3, <2>1 DEF Taken
  <2>3. /\ Lesser(stored[v] + n, StackLimit) \in Nat
        /\ Lesser(stored[v] + n, StackLimit) \in {stored[v] + n, StackLimit}
    BY <1>1, LesserOf
  <2>4. takers \in [Vids -> SUBSET Sessions] /\ stored \in [Vids -> Nat]
    BY DEF TypeOK
  <2>5. /\ takers' \in [Vids -> SUBSET Sessions] /\ stored' \in [Vids -> Nat]
        /\ stored'[v] = stored[v] + n \/ stored'[v] = StackLimit
        /\ \A w \in Vids \ {v} : stored'[w] = stored[w]
    BY <2>2, <2>3, <2>4
  <2>6. stored'[v] >= stored[v] + n \/ stored'[v] >= ground[v]
    BY <1>1, <2>5
  <2>7. \A w \in Vids : stored'[w] >= stored[w] \/ stored'[w] >= ground[w]
    BY <1>1, <2>5, <2>6
  <2> QED
    BY <1>1, <2>1, <2>5, <2>6, <2>7 DEF Grown
<1> QED
  BY <1>2, <1>3

\* A sound message joins the queue (Send).
LEMMA SendKeeps ==
  ASSUME IInv, TypeOK', Grown, UNCHANGED nextVid,
         NEW m \in Intents, intents' = Append(intents, m), m \in SoundIntents',
         m.kind = "drop" => MayDrop
  PROVE  intents' \in Seq(SoundIntents') /\ DropsFit'
<1>0. TypeOK /\ intents \in Seq(Intents) /\ nextVid \in Nat /\ MaxDrops \in Nat
  BY Limits DEF IInv, TypeOK
<1>1. intents' \in Seq(SoundIntents')
  <2>1. intents \in Seq(SoundIntents) /\ SoundIntents \subseteq SoundIntents'
    BY <1>0, SoundStays DEF IInv, QueuesSound
  <2>2. intents \in Seq(SoundIntents')
    BY <2>1, WiderSeq
  <2> QED
    BY <2>2, ElementsOf
<1>2. DropsFit'
  <2>1. Cardinality(Drops(intents)) \in Nat
    BY <1>0, DropsOf
  <2>2. CASE m.kind = "drop"
    <3>1. nextVid + Cardinality(Drops(intents)) <= MaxDrops
      BY <2>2 DEF MayDrop, Drops
    <3>2. Cardinality(Drops(intents')) = Cardinality(Drops(intents)) + 1
      BY <1>0, <2>2, DropsOf
    <3> QED
      BY <1>0, <2>1, <3>1, <3>2 DEF DropsFit
  <2>3. CASE m.kind # "drop"
    <3>1. Drops(intents') = Drops(intents)
      BY <1>0, <2>3, DropsOf
    <3> QED
      BY <3>1 DEF IInv, DropsFit
  <2> QED
    BY <2>2, <2>3
<1> QED
  BY <1>1, <1>2

\* A queue that nobody touches stays sound.
LEMMA QuietKeeps ==
  ASSUME IInv, TypeOK', Grown, UNCHANGED <<intents, nextVid>>
  PROVE  intents' \in Seq(SoundIntents') /\ DropsFit'
<1>1. intents \in Seq(SoundIntents) /\ SoundIntents \subseteq SoundIntents'
  BY SoundStays DEF IInv, QueuesSound
<1>2. intents \in Seq(SoundIntents')
  BY <1>1, WiderSeq
<1> QED
  BY <1>2 DEF IInv, DropsFit

\* So does a queue of answers, when the first is taken or all are dropped.
LEMMA AnswersKeep ==
  ASSUME IInv, TypeOK', Grown, NEW s \in Sessions,
         \/ events'[s] = events[s]
         \/ events[s] # <<>> /\ events'[s] = Tail(events[s])
         \/ events'[s] = <<>>
  PROVE  events'[s] \in Seq(SoundResults')
<1>1. events[s] \in Seq(SoundResults) /\ SoundResults \subseteq SoundResults'
  BY SoundStays DEF IInv, QueuesSound
<1>2. events[s] \in Seq(SoundResults')
  BY <1>1, WiderSeq
<1> QED
  BY <1>2, ElementsOf

-----------------------------------------------------------------------------
(* What a player asks for                                                  *)

\* A message is one (Send).
LEMMA Sent ==
  ASSUME TypeOK, NEW kind \in {"drop", "pickup", "remove"}, NEW s \in Sessions,
         NEW v \in 0 .. MaxDrops, NEW n \in Counts, Send(kind, s, v, n)
  PROVE  /\ intents' \in Seq(Intents)
         /\ \E m \in Intents : /\ intents' = Append(intents, m)
                               /\ m.kind = kind /\ m.by = s /\ m.vid = v /\ m.count = n
<1> DEFINE m == [kind |-> kind, by |-> s, vid |-> v, count |-> n]
<1>1. m \in Intents
  BY DEF Intents
<1>2. intents' = Append(intents, m) /\ intents \in Seq(Intents)
  BY DEF Send, TypeOK
<1>3. m.kind = kind /\ m.by = s /\ m.vid = v /\ m.count = n
  OBVIOUS
<1> QED
  BY <1>1, <1>2, <1>3, ElementsOf

\* The count of a stack is a number, and so is what is left of it (Stacks).
LEMMA StackOf ==
  ASSUME TypeOK, NEW s \in Sessions, NEW i \in Stacks(s)
  PROVE  /\ i \in Ids /\ i \in Nat /\ i \in 0 .. MaxRows /\ inv[s][i] \in Counts
         /\ inv[s][i] \in Nat /\ inv[s][i] > 0 /\ inv[s][i] <= StackLimit
         /\ \A n \in Nat : n <= inv[s][i] => inv[s][i] - n \in Counts
<1>1. i \in Ids /\ inv[s][i] \in Counts /\ inv[s][i] > 0
  BY DEF Stacks, TypeOK
<1> QED
  BY <1>1, Limits DEF Ids, Counts

\* A stack in an inventory that agrees is a row of the player.
LEMMA StackIsOwn ==
  ASSUME TypeOK, NEW s \in Sessions, NEW i \in Stacks(s), Agree(s),
         at[s] \in {"idle", "stack", "newRow", "insert"}
  PROVE  rows[i].owner = s
<1>1. i \in Ids /\ inv[s][i] > 0 /\ inv[s][i] = OwnedRows(s)[i]
  BY StackOf DEF Agree
<1> QED
  BY <1>1, Limits DEF OwnedRows

\* A mob leaves a piece on the ground (KillDrop).
LEMMA KillDropStep ==
  ASSUME IInv, NEW s \in Sessions, KillDrop(s)
  PROVE  IInv'
<1>0. TypeOK /\ MayDrop /\ Send("drop", s, 0, 1) /\ 0 \in 0 .. MaxDrops /\ 1 \in Counts
  BY Limits DEF IInv, KillDrop, Counts
<1>1. UNCHANGED <<at, left, vid, row, inv, pending, events, ground, nextVid, rows, takers, stored,
                  excuses, gifts, moves, cuts>>
  BY DEF KillDrop, handler, bounds
<1>2. PICK m \in Intents : intents' = Append(intents, m) /\ m.kind = "drop"
  BY <1>0, Sent
<1>3. TypeOK' /\ Grown
  <2>1. intents' \in Seq(Intents) /\ created' \in Nat
    BY <1>0, Sent DEF KillDrop, TypeOK
  <2> QED
    BY <1>0, <1>1, <2>1, CalmGrown DEF TypeOK
<1>4. intents' \in Seq(SoundIntents') /\ DropsFit'
  <2>1. m \in SoundIntents'
    BY <1>2 DEF SoundIntents, Intents, Counts
  <2> QED
    BY <1>0, <1>1, <1>2, <1>3, <2>1, SendKeeps
<1>5. events'[s] \in Seq(SoundResults')
  BY <1>1, <1>3, AnswersKeep
<1>6. InHand(s)' /\ RowChosen(s)'
  BY <1>0, <1>1, <1>3, SoundStays DEF IInv, RowChosen
<1>7. Undisturbed' = Undisturbed /\ (Agree(s) => Agree(s)')
  BY <1>1 DEF Undisturbed, Agree, OwnedRows
<1> QED
  BY <1>1, <1>3, <1>4, <1>5, <1>6, <1>7, SessionKeeps

\* Pieces leave the inventory for the ground (DropItem).
LEMMA DropItemStep ==
  ASSUME IInv, NEW s \in Sessions, DropItem(s)
  PROVE  IInv'
<1>0. TypeOK /\ MayDrop /\ at[s] = "idle" /\ 0 \in 0 .. MaxDrops
  BY Limits DEF IInv, DropItem
<1>1. PICK i \in Stacks(s) : \E w \in 1 .. StackLimit :
        /\ w <= inv[s][i] /\ Send("drop", s, 0, w)
        /\ inv' = [inv EXCEPT ![s][i] = @ - w]
        /\ row' = [row EXCEPT ![s] = i]
  BY DEF DropItem
<1>2. PICK want \in 1 .. StackLimit :
        /\ want <= inv[s][i] /\ Send("drop", s, 0, want)
        /\ inv' = [inv EXCEPT ![s][i] = @ - want]
        /\ row' = [row EXCEPT ![s] = i]
  BY <1>1
<1>3. /\ UNCHANGED <<left, vid, pending, events, ground, nextVid, rows, created, takers, stored,
                     excuses, gifts, moves, cuts>>
      /\ at' = [at EXCEPT ![s] = "store"]
  BY DEF DropItem, ghosts, bounds
<1>4. /\ i \in Ids /\ i \in 0 .. MaxRows /\ want \in Nat /\ want \in Counts
      /\ inv[s][i] - want \in Counts
  BY <1>0, <1>2, StackOf, Limits DEF Counts
<1>5. PICK m \in Intents : intents' = Append(intents, m) /\ m.kind = "drop"
  BY <1>0, <1>2, <1>4, Sent
<1>6. /\ inv' \in [Sessions -> [Ids -> Counts]]
      /\ \A k \in Ids \ {i} : inv'[s][k] = inv[s][k]
      /\ \A t \in Sessions \ {s} : inv'[t] = inv[t]
  <2>1. inv \in [Sessions -> [Ids -> Counts]]
    BY <1>0 DEF TypeOK
  <2> QED
    BY <1>2, <1>4, <2>1
<1>7. /\ at' \in [Sessions -> {"idle", "store", "stack", "newRow", "insert", "gone"}]
      /\ at'[s] = "store" /\ \A t \in Sessions \ {s} : at'[t] = at[t]
  BY <1>0, <1>3 DEF TypeOK
<1>8. /\ row' \in [Sessions -> 0 .. MaxRows]
      /\ row'[s] = i /\ \A t \in Sessions \ {s} : row'[t] = row[t]
  BY <1>0, <1>2, <1>4 DEF TypeOK
<1>9. TypeOK' /\ Grown
  <2>1. intents' \in Seq(Intents)
    BY <1>0, <1>2, <1>4, Sent
  <2> QED
    BY <1>0, <1>3, <1>6, <1>7, <1>8, <2>1, CalmGrown DEF TypeOK
<1>10. intents' \in Seq(SoundIntents') /\ DropsFit'
  <2>1. m \in SoundIntents'
    BY <1>5 DEF SoundIntents, Intents, Counts
  <2> QED
    BY <1>0, <1>3, <1>5, <1>9, <2>1, SendKeeps
<1>11. events'[s] \in Seq(SoundResults')
  BY <1>3, <1>9, AnswersKeep
<1>12. InHand(s)' /\ RowChosen(s)'
  <2>1. vid[s] = 0
    BY <1>0 DEF IInv, InHand
  <2> QED
    BY <1>3, <1>4, <1>8, <2>1 DEF InHand, RowChosen
<1>13. Undisturbed' = Undisturbed
  BY <1>3 DEF Undisturbed
<1>14. Agree(s) => Agree(s)'
  <2>1. SUFFICES ASSUME Agree(s) PROVE Agree(s)'
    OBVIOUS
  <2>2. rows[i].owner = s
    BY <1>0, <2>1, StackIsOwn
  <2>3. \A k \in Ids : inv[s][k] = OwnedRows(s)[k]
    BY <1>0, <2>1 DEF Agree
  <2>4. OwnedRows(s)' = OwnedRows(s) /\ rows' = rows
    BY <1>3 DEF OwnedRows
  <2> QED
    BY <1>6, <1>7, <1>8, <2>2, <2>3, <2>4 DEF Agree
<1>15. \A t \in Sessions \ {s} : UNCHANGED <<at[t], left[t], vid[t], row[t], inv[t], events[t]>>
  BY <1>3, <1>6, <1>7, <1>8
<1> QED
  BY <1>3, <1>9, <1>10, <1>11, <1>12, <1>13, <1>14, <1>15, SessionKeeps

\* A question about a vid that was given out (Pickup).
LEMMA PickupStep ==
  ASSUME IInv, NEW s \in Sessions, Pickup(s)
  PROVE  IInv'
<1>0. TypeOK /\ 0 \in Counts /\ MaxDrops \in Nat
  BY Limits DEF IInv, Counts
<1>1. PICK v \in Vids : /\ v < nextVid
                        /\ pending' = [pending EXCEPT ![s] = @ \cup {v}]
                        /\ Send("pickup", s, v, 0)
  BY DEF Pickup
<1>2. UNCHANGED <<at, left, vid, row, inv, events, ground, nextVid, rows, created, takers, stored,
                  excuses, gifts, moves, cuts>>
  BY DEF Pickup, handler, ghosts, bounds
<1>3. v \in 0 .. MaxDrops
  BY <1>0 DEF Vids
<1>4. PICK m \in Intents : intents' = Append(intents, m) /\ m.kind = "pickup" /\ m.vid = v
  BY <1>0, <1>1, <1>3, Sent
<1>5. TypeOK' /\ Grown
  <2>1. intents' \in Seq(Intents)
    BY <1>0, <1>1, <1>3, Sent
  <2>2. pending' \in [Sessions -> SUBSET Vids]
    BY <1>0, <1>1 DEF TypeOK
  <2> QED
    BY <1>0, <1>2, <2>1, <2>2, CalmGrown DEF TypeOK
<1>6. intents' \in Seq(SoundIntents') /\ DropsFit'
  <2>1. Behind(v)'
    BY <1>1, <1>2 DEF Behind
  <2>2. m \in Intents' /\ m.kind # "remove" /\ m.kind # "drop"
    BY <1>4 DEF Intents, Counts
  <2>3. m \in SoundIntents'
    BY <1>4, <2>1, <2>2 DEF SoundIntents
  <2> QED
    BY <1>2, <1>4, <1>5, <2>2, <2>3, SendKeeps
<1>7. events'[s] \in Seq(SoundResults')
  BY <1>2, <1>5, AnswersKeep
<1>8. InHand(s)' /\ RowChosen(s)'
  BY <1>0, <1>2, <1>5, SoundStays DEF IInv, RowChosen
<1>9. Undisturbed' = Undisturbed /\ (Agree(s) => Agree(s)')
  BY <1>2 DEF Undisturbed, Agree, OwnedRows
<1> QED
  BY <1>2, <1>5, <1>6, <1>7, <1>8, <1>9, SessionKeeps

\* A row is written or deleted; nothing else in PostgreSQL changes (Upsert, Delete).
LEMMA RowWritten ==
  ASSUME TypeOK, NEW s \in Sessions, NEW i \in Ids, NEW n \in Counts,
         Upsert(s, i, n) \/ (n = 0 /\ Delete(i))
  PROVE  /\ rows' \in [Ids -> [owner : Sessions \cup {NoSession}, count : Counts]]
         /\ rows'[i].owner \in {s, NoSession}
         /\ Upsert(s, i, n) => rows'[i].owner = s
         /\ \A k \in Ids \ {i} : rows'[k] = rows[k]
         /\ OwnedRows(s)'[i] = n
         /\ \A k \in Ids \ {i} : OwnedRows(s)'[k] = OwnedRows(s)[k]
<1>0. /\ rows \in [Ids -> [owner : Sessions \cup {NoSession}, count : Counts]]
      /\ 0 \in Counts /\ NoSession # s
  BY Limits DEF TypeOK, Counts
<1>1. CASE Upsert(s, i, n)
  <2>1. rows' = [rows EXCEPT ![i] = [owner |-> s, count |-> n]]
    BY <1>1 DEF Upsert
  <2>2. /\ rows'[i] = [owner |-> s, count |-> n] /\ \A k \in Ids \ {i} : rows'[k] = rows[k]
        /\ rows' \in [Ids -> [owner : Sessions \cup {NoSession}, count : Counts]]
    BY <1>0, <2>1
  <2> QED
    BY <2>2 DEF OwnedRows
<1>2. CASE n = 0 /\ Delete(i)
  <2>1. rows' = [rows EXCEPT ![i] = NoRow]
    BY <1>2 DEF Delete
  <2>2. /\ rows'[i] = [owner |-> NoSession, count |-> 0] /\ \A k \in Ids \ {i} : rows'[k] = rows[k]
        /\ rows' \in [Ids -> [owner : Sessions \cup {NoSession}, count : Counts]]
    BY <1>0, <2>1 DEF NoRow
  <2>3. rows'[i] # [owner |-> s, count |-> n]
    BY <1>0, <2>2
  <2>4. ~Upsert(s, i, n)
    BY <1>0, <2>3 DEF Upsert
  <2> QED
    BY <1>0, <1>2, <2>2, <2>4 DEF OwnedRows
<1> QED
  BY <1>1, <1>2

\* A part of a stack is taken off it (Split).
LEMMA SplitStep ==
  ASSUME IInv, NEW s \in Sessions, Split(s)
  PROVE  IInv'
<1>0. TypeOK /\ at[s] = "idle" /\ moves < MaxMoves
  BY DEF IInv, Split
<1>1. PICK i \in Stacks(s) : \E w \in 1 .. StackLimit :
        /\ w < inv[s][i] /\ inv' = [inv EXCEPT ![s][i] = @ - w]
        /\ Upsert(s, i, inv[s][i] - w) /\ left' = [left EXCEPT ![s] = w]
  BY DEF Split
<1>2. PICK want \in 1 .. StackLimit :
        /\ want < inv[s][i] /\ inv' = [inv EXCEPT ![s][i] = @ - want]
        /\ Upsert(s, i, inv[s][i] - want) /\ left' = [left EXCEPT ![s] = want]
  BY <1>1
<1>3. /\ UNCHANGED <<vid, row, pending, events, intents, ground, nextVid, created, takers, stored,
                     excuses, gifts, cuts>>
      /\ at' = [at EXCEPT ![s] = "newRow"] /\ moves' = moves + 1
  BY DEF Split, world, ghosts
<1>4. /\ i \in Ids /\ want \in Counts /\ inv[s][i] - want \in Counts
  BY <1>0, <1>2, StackOf, Limits DEF Counts
<1>5. /\ inv' \in [Sessions -> [Ids -> Counts]]
      /\ inv'[s][i] = inv[s][i] - want /\ \A k \in Ids \ {i} : inv'[s][k] = inv[s][k]
      /\ \A t \in Sessions \ {s} : inv'[t] = inv[t]
  <2>1. inv \in [Sessions -> [Ids -> Counts]]
    BY <1>0 DEF TypeOK
  <2> QED
    BY <1>2, <1>4, <2>1
<1>6. /\ at' \in [Sessions -> {"idle", "store", "stack", "newRow", "insert", "gone"}]
      /\ at'[s] = "newRow" /\ \A t \in Sessions \ {s} : at'[t] = at[t]
  BY <1>0, <1>3 DEF TypeOK
<1>7. /\ left' \in [Sessions -> Counts] /\ \A t \in Sessions \ {s} : left'[t] = left[t]
  BY <1>0, <1>2, <1>4 DEF TypeOK
<1>8. /\ rows' \in [Ids -> [owner : Sessions \cup {NoSession}, count : Counts]]
      /\ rows'[i].owner = s /\ \A k \in Ids \ {i} : rows'[k] = rows[k]
      /\ OwnedRows(s)'[i] = inv[s][i] - want
      /\ \A k \in Ids \ {i} : OwnedRows(s)'[k] = OwnedRows(s)[k]
  BY <1>0, <1>2, <1>4, RowWritten
<1>9. TypeOK' /\ Grown
  <2>1. moves' \in 0 .. MaxMoves
    BY <1>0, <1>3, Limits DEF TypeOK
  <2> QED
    BY <1>0, <1>3, <1>5, <1>6, <1>7, <1>8, <2>1, CalmGrown DEF TypeOK
<1>10. intents' \in Seq(SoundIntents') /\ DropsFit' /\ events'[s] \in Seq(SoundResults')
  BY <1>3, <1>9, QuietKeeps, AnswersKeep
<1>11. InHand(s)' /\ RowChosen(s)'
  <2>1. vid[s] = 0
    BY <1>0 DEF IInv, InHand
  <2> QED
    BY <1>3, <1>6, <2>1 DEF InHand, RowChosen
<1>12. Undisturbed' = Undisturbed
  BY <1>3 DEF Undisturbed
<1>13. Agree(s) => Agree(s)'
  BY <1>0, <1>5, <1>6, <1>8 DEF Agree
<1>14. rows[i].owner \in {s, NoSession} \/ ~Undisturbed'
  BY <1>0, <1>12, StackIsOwn DEF IInv, RowsAgree
<1>15. \A t \in Sessions \ {s} : UNCHANGED <<at[t], left[t], vid[t], row[t], inv[t], events[t]>>
  BY <1>3, <1>5, <1>6, <1>7
<1>16. \A k \in Ids : \/ rows'[k] = rows[k]
                      \/ /\ rows[k].owner \in {s, NoSession} \/ ~Undisturbed'
                         /\ rows'[k].owner \in {s, NoSession}
  BY <1>8, <1>14
<1> QED
  BY <1>3, <1>9, <1>10, <1>11, <1>12, <1>13, <1>15, <1>16, SessionKeeps

\* Pieces go from one stack to another (Merge).
LEMMA MergeStep ==
  ASSUME IInv, NEW s \in Sessions, Merge(s)
  PROVE  IInv'
<1>0. TypeOK /\ at[s] = "idle" /\ moves < MaxMoves
  BY DEF IInv, Merge
<1>1. PICK i \in Stacks(s) : \E j \in Room(s), w \in 1 .. StackLimit :
        LET add == Lesser(w, StackLimit - inv[s][j])
        IN  /\ i # j /\ w <= inv[s][i]
            /\ inv' = [inv EXCEPT ![s] = Moved(inv[s], i, j, add)]
            /\ Upsert(s, j, inv[s][j] + add) /\ row' = [row EXCEPT ![s] = i]
  BY DEF Merge
<1>2. PICK j \in Room(s) : \E w \in 1 .. StackLimit :
        LET add == Lesser(w, StackLimit - inv[s][j])
        IN  /\ i # j /\ w <= inv[s][i]
            /\ inv' = [inv EXCEPT ![s] = Moved(inv[s], i, j, add)]
            /\ Upsert(s, j, inv[s][j] + add) /\ row' = [row EXCEPT ![s] = i]
  BY <1>1
<1>3. PICK want \in 1 .. StackLimit :
        LET add == Lesser(want, StackLimit - inv[s][j])
        IN  /\ i # j /\ want <= inv[s][i]
            /\ inv' = [inv EXCEPT ![s] = Moved(inv[s], i, j, add)]
            /\ Upsert(s, j, inv[s][j] + add) /\ row' = [row EXCEPT ![s] = i]
  BY <1>2
<1>4. /\ UNCHANGED <<left, vid, pending, events, intents, ground, nextVid, created, takers, stored,
                     excuses, gifts, cuts>>
      /\ at' = [at EXCEPT ![s] = "store"] /\ moves' = moves + 1
  BY DEF Merge, world, ghosts
<1>5. /\ i \in Ids /\ i \in 0 .. MaxRows /\ j \in Ids /\ j \in Stacks(s)
      /\ inv[s][i] \in Nat /\ inv[s][j] \in Nat /\ inv[s][j] < StackLimit
      /\ inv[s][i] <= StackLimit /\ want \in Nat
  BY <1>0, StackOf DEF Room
<1>6. PICK n \in Nat : /\ n = Lesser(want, StackLimit - inv[s][j])
                       /\ n <= want /\ n <= StackLimit - inv[s][j]
  BY <1>5, LesserOf, Limits
<1>7. inv[s][i] - n \in Counts /\ inv[s][j] + n \in Counts
  BY <1>3, <1>5, <1>6, Limits DEF Counts
<1>8. /\ i # j /\ inv' = [inv EXCEPT ![s] = Moved(inv[s], i, j, n)]
      /\ Upsert(s, j, inv[s][j] + n) /\ row' = [row EXCEPT ![s] = i]
  BY <1>3, <1>6
<1>9. /\ inv' \in [Sessions -> [Ids -> Counts]]
      /\ inv'[s][j] = inv[s][j] + n
      /\ \A k \in Ids \ {i, j} : inv'[s][k] = inv[s][k]
      /\ \A t \in Sessions \ {s} : inv'[t] = inv[t]
  <2>1. inv \in [Sessions -> [Ids -> Counts]]
    BY <1>0 DEF TypeOK
  <2>2. /\ Moved(inv[s], i, j, n) \in [Ids -> Counts]
        /\ Moved(inv[s], i, j, n)[j] = inv[s][j] + n
        /\ \A k \in Ids \ {i, j} : Moved(inv[s], i, j, n)[k] = inv[s][k]
    BY <1>5, <1>7, <1>8, <2>1 DEF Moved
  <2> QED
    BY <1>8, <2>1, <2>2
<1>10. /\ at' \in [Sessions -> {"idle", "store", "stack", "newRow", "insert", "gone"}]
       /\ at'[s] = "store" /\ \A t \in Sessions \ {s} : at'[t] = at[t]
  BY <1>0, <1>4 DEF TypeOK
<1>11. /\ row' \in [Sessions -> 0 .. MaxRows]
       /\ row'[s] = i /\ \A t \in Sessions \ {s} : row'[t] = row[t]
  BY <1>0, <1>5, <1>8 DEF TypeOK
<1>12. /\ rows' \in [Ids -> [owner : Sessions \cup {NoSession}, count : Counts]]
       /\ rows'[j].owner = s /\ \A k \in Ids \ {j} : rows'[k] = rows[k]
       /\ OwnedRows(s)'[j] = inv[s][j] + n
       /\ \A k \in Ids \ {j} : OwnedRows(s)'[k] = OwnedRows(s)[k]
  BY <1>0, <1>5, <1>7, <1>8, RowWritten
<1>13. TypeOK' /\ Grown
  <2>1. moves' \in 0 .. MaxMoves
    BY <1>0, <1>4, Limits DEF TypeOK
  <2> QED
    BY <1>0, <1>4, <1>9, <1>10, <1>11, <1>12, <2>1, CalmGrown DEF TypeOK
<1>14. intents' \in Seq(SoundIntents') /\ DropsFit' /\ events'[s] \in Seq(SoundResults')
  BY <1>4, <1>13, QuietKeeps, AnswersKeep
<1>15. InHand(s)' /\ RowChosen(s)'
  <2>1. vid[s] = 0
    BY <1>0 DEF IInv, InHand
  <2> QED
    BY <1>4, <1>5, <1>10, <1>11, <2>1 DEF InHand, RowChosen
<1>16. Undisturbed' = Undisturbed
  BY <1>4 DEF Undisturbed
<1>17. Agree(s) => Agree(s)'
  <2>1. SUFFICES ASSUME Agree(s) PROVE Agree(s)'
    OBVIOUS
  <2>2. rows'[i].owner = s
    BY <1>0, <1>5, <1>8, <1>12, <2>1, StackIsOwn
  <2>3. \A k \in Ids : inv[s][k] = OwnedRows(s)[k]
    BY <1>0, <2>1 DEF Agree
  <2>4. \A k \in Ids \ {i} : inv'[s][k] = OwnedRows(s)'[k]
    BY <1>9, <1>12, <2>3
  <2> QED
    BY <1>10, <1>11, <2>2, <2>4 DEF Agree
<1>18. rows[j].owner \in {s, NoSession} \/ ~Undisturbed'
  BY <1>0, <1>5, <1>16, StackIsOwn DEF IInv, RowsAgree
<1>19. \A t \in Sessions \ {s} : UNCHANGED <<at[t], left[t], vid[t], row[t], inv[t], events[t]>>
  BY <1>4, <1>9, <1>10, <1>11
<1>20. \A k \in Ids : \/ rows'[k] = rows[k]
                      \/ /\ rows[k].owner \in {s, NoSession} \/ ~Undisturbed'
                         /\ rows'[k].owner \in {s, NoSession}
  BY <1>12, <1>18
<1> QED
  BY <1>4, <1>13, <1>14, <1>15, <1>16, <1>17, <1>19, <1>20, SessionKeeps

\* A reward is in hand before it is placed (Give).
LEMMA GiveStep ==
  ASSUME IInv, NEW s \in Sessions, Give(s)
  PROVE  IInv'
<1>0. TypeOK /\ at[s] = "idle" /\ gifts < MaxGifts
  BY DEF IInv, Give
<1>1. /\ UNCHANGED <<vid, row, inv, pending, events, intents, ground, nextVid, rows, takers,
                     stored, excuses, moves, cuts>>
      /\ gifts' = gifts + 1
  BY DEF Give, world
<1>2. PICK n \in 1 .. StackLimit : left' = [left EXCEPT ![s] = n] /\ created' = created + n
  BY DEF Give
<1>3. PICK phase \in {"stack", "newRow"} : at' = [at EXCEPT ![s] = phase]
  BY DEF Give
<1>4. n \in Counts /\ n \in Nat
  BY Limits DEF Counts
<1>5. /\ at' \in [Sessions -> {"idle", "store", "stack", "newRow", "insert", "gone"}]
      /\ at'[s] = phase /\ \A t \in Sessions \ {s} : at'[t] = at[t]
  BY <1>0, <1>3 DEF TypeOK
<1>6. /\ left' \in [Sessions -> Counts] /\ \A t \in Sessions \ {s} : left'[t] = left[t]
  BY <1>0, <1>2, <1>4 DEF TypeOK
<1>7. TypeOK' /\ Grown
  <2>1. gifts' \in 0 .. MaxGifts /\ created' \in Nat
    BY <1>0, <1>1, <1>2, <1>4, Limits DEF TypeOK
  <2> QED
    BY <1>0, <1>1, <1>5, <1>6, <2>1, CalmGrown DEF TypeOK
<1>8. intents' \in Seq(SoundIntents') /\ DropsFit' /\ events'[s] \in Seq(SoundResults')
  BY <1>1, <1>7, QuietKeeps, AnswersKeep
<1>9. InHand(s)' /\ RowChosen(s)'
  <2>1. vid[s] = 0
    BY <1>0 DEF IInv, InHand
  <2> QED
    BY <1>1, <1>5, <2>1 DEF InHand, RowChosen
<1>10. Undisturbed' = Undisturbed /\ (Agree(s) => Agree(s)')
  BY <1>0, <1>1, <1>5 DEF Undisturbed, Agree, OwnedRows
<1>11. \A t \in Sessions \ {s} : UNCHANGED <<at[t], left[t], vid[t], row[t], inv[t], events[t]>>
  BY <1>1, <1>5, <1>6
<1> QED
  BY <1>1, <1>7, <1>8, <1>9, <1>10, <1>11, SessionKeeps

-----------------------------------------------------------------------------
(* What a handler goes on with                                             *)

\* A handler that ends leaves nothing in hand (Done).
LEMMA HandlerEnds ==
  ASSUME TypeOK, NEW s \in Sessions, Done(s)
  PROVE  /\ at' \in [Sessions -> {"idle", "store", "stack", "newRow", "insert", "gone"}]
         /\ left' \in [Sessions -> Counts] /\ vid' \in [Sessions -> 0 .. MaxDrops]
         /\ row' \in [Sessions -> 0 .. MaxRows]
         /\ at'[s] = "idle" /\ vid'[s] = 0 /\ InHand(s)' /\ RowChosen(s)'
         /\ \A t \in Sessions \ {s} : UNCHANGED <<at[t], left[t], vid[t], row[t]>>
<1>1. /\ at' \in [Sessions -> {"idle", "store", "stack", "newRow", "insert", "gone"}]
      /\ at'[s] = "idle" /\ \A t \in Sessions \ {s} : at'[t] = at[t]
  BY DEF TypeOK, Done
<1>2. /\ left' \in [Sessions -> Counts] /\ \A t \in Sessions \ {s} : left'[t] = left[t]
  <2>1. left \in [Sessions -> Counts] /\ 0 \in Counts
    BY Limits DEF TypeOK, Counts
  <2> QED
    BY <2>1 DEF Done
<1>3. /\ vid' \in [Sessions -> 0 .. MaxDrops]
      /\ vid'[s] = 0 /\ \A t \in Sessions \ {s} : vid'[t] = vid[t]
  <2>1. vid \in [Sessions -> 0 .. MaxDrops] /\ 0 \in 0 .. MaxDrops
    BY Limits DEF TypeOK
  <2> QED
    BY <2>1 DEF Done
<1>4. /\ row' \in [Sessions -> 0 .. MaxRows] /\ \A t \in Sessions \ {s} : row'[t] = row[t]
  <2>1. row \in [Sessions -> 0 .. MaxRows] /\ 0 \in 0 .. MaxRows
    BY Limits DEF TypeOK
  <2> QED
    BY <2>1 DEF Done
<1> QED
  BY <1>1, <1>2, <1>3, <1>4 DEF InHand, RowChosen

\* The ground item in hand is asked to be removed, if there is one (StackDone, Insert).
LEMMA RemovalSent ==
  ASSUME TypeOK, NEW s \in Sessions,
         IF vid[s] = 0 THEN UNCHANGED intents ELSE Send("remove", s, vid[s], 0)
  PROVE  intents' \in Seq(Intents)
<1>1. vid[s] \in 0 .. MaxDrops /\ 0 \in Counts /\ intents \in Seq(Intents)
  BY Limits DEF TypeOK, Counts
<1> QED
  BY <1>1, Sent

\* That message is sound when the pieces were written.
LEMMA RemovalKeeps ==
  ASSUME IInv, TypeOK', Grown, NEW s \in Sessions, UNCHANGED <<nextVid, ground>>,
         IF vid[s] = 0 THEN UNCHANGED intents ELSE Send("remove", s, vid[s], 0),
         vid[s] # 0 => stored'[vid[s]] >= ground[vid[s]]
  PROVE  intents' \in Seq(SoundIntents') /\ DropsFit'
<1>0. TypeOK /\ 0 \in Counts /\ vid[s] \in 0 .. MaxDrops
  <2>1. TypeOK
    BY DEF IInv
  <2>2. vid \in [Sessions -> 0 .. MaxDrops]
    BY <2>1 DEF TypeOK
  <2>3. 0 \in Counts
    BY Limits DEF Counts
  <2> QED
    BY <2>1, <2>2, <2>3
<1>1. CASE vid[s] = 0
  BY <1>1, QuietKeeps
<1>2. CASE vid[s] # 0
  <2>1. Behind(vid[s]) /\ Send("remove", s, vid[s], 0)
    BY <1>2 DEF IInv, InHand
  <2>2. PICK m \in Intents : intents' = Append(intents, m) /\ m.kind = "remove" /\ m.vid = vid[s]
    BY <1>0, <2>1, Sent
  <2>3. Behind(m.vid)' /\ stored'[m.vid] >= ground'[m.vid]
    BY <1>2, <2>1, <2>2 DEF Behind
  <2>4. m \in SoundIntents'
    BY <2>2, <2>3 DEF SoundIntents, Intents, Counts
  <2> QED
    BY <2>2, <2>4, SendKeeps
<1> QED
  BY <1>1, <1>2

\* The row of a stack that shrank is written (StoreRow).
LEMMA StoreRowStep ==
  ASSUME IInv, NEW s \in Sessions, StoreRow(s)
  PROVE  IInv'
<1>0. TypeOK /\ at[s] = "store" /\ row[s] \in Ids
  BY DEF IInv, StoreRow, RowChosen
<1>1. UNCHANGED <<left, vid, inv, pending, events, intents, ground, nextVid, created, takers,
                  stored, excuses, gifts, moves, cuts>>
  BY DEF StoreRow, world, ghosts, bounds
<1>2. PICK i \in Ids : i = row[s]
  BY <1>0
<1>3. PICK n \in Counts : n = inv[s][i]
  BY <1>0 DEF TypeOK
<1>4. Upsert(s, i, n) \/ (n = 0 /\ Delete(i))
  BY <1>2, <1>3 DEF StoreRow, Store
<1>5. /\ rows' \in [Ids -> [owner : Sessions \cup {NoSession}, count : Counts]]
      /\ rows'[i].owner \in {s, NoSession} /\ \A k \in Ids \ {i} : rows'[k] = rows[k]
      /\ OwnedRows(s)'[i] = n
      /\ \A k \in Ids \ {i} : OwnedRows(s)'[k] = OwnedRows(s)[k]
  BY <1>0, <1>4, RowWritten
<1>6. /\ at' \in [Sessions -> {"idle", "store", "stack", "newRow", "insert", "gone"}]
      /\ at'[s] = "idle" /\ \A t \in Sessions \ {s} : at'[t] = at[t]
  BY <1>0 DEF TypeOK, StoreRow
<1>7. /\ row' \in [Sessions -> 0 .. MaxRows] /\ \A t \in Sessions \ {s} : row'[t] = row[t]
  <2>1. row \in [Sessions -> 0 .. MaxRows] /\ 0 \in 0 .. MaxRows
    BY <1>0, Limits DEF TypeOK
  <2> QED
    BY <2>1 DEF StoreRow
<1>8. TypeOK' /\ Grown
  BY <1>0, <1>1, <1>5, <1>6, <1>7, CalmGrown DEF TypeOK
<1>9. intents' \in Seq(SoundIntents') /\ DropsFit' /\ events'[s] \in Seq(SoundResults')
  BY <1>1, <1>8, QuietKeeps, AnswersKeep
<1>10. InHand(s)' /\ RowChosen(s)'
  <2>1. vid[s] = 0
    BY <1>0 DEF IInv, InHand
  <2> QED
    BY <1>1, <1>6, <2>1 DEF InHand, RowChosen
<1>11. Undisturbed' = Undisturbed
  BY <1>1 DEF Undisturbed
<1>12. Agree(s) => Agree(s)'
  <2>1. SUFFICES ASSUME Agree(s) PROVE Agree(s)'
    OBVIOUS
  <2>2. \A k \in Ids \ {i} : inv[s][k] = OwnedRows(s)[k]
    BY <1>0, <1>2, <2>1 DEF Agree
  <2>3. \A k \in Ids : inv'[s][k] = OwnedRows(s)'[k]
    BY <1>1, <1>3, <1>5, <2>2
  <2> QED
    BY <1>6, <2>3 DEF Agree
<1>13. rows[i].owner \in {s, NoSession} \/ ~Undisturbed'
  BY <1>0, <1>2, <1>11 DEF IInv, RowsAgree, Agree
<1>14. \A t \in Sessions \ {s} : UNCHANGED <<at[t], left[t], vid[t], row[t], inv[t], events[t]>>
  BY <1>1, <1>6, <1>7
<1>15. \A k \in Ids : \/ rows'[k] = rows[k]
                      \/ /\ rows[k].owner \in {s, NoSession} \/ ~Undisturbed'
                         /\ rows'[k].owner \in {s, NoSession}
  BY <1>5, <1>13
<1> QED
  BY <1>1, <1>8, <1>9, <1>10, <1>11, <1>12, <1>14, <1>15, SessionKeeps

\* The first answer leaves its queue (PickupRefused, Take).
LEMMA AnswerTaken ==
  ASSUME TypeOK, NEW s \in Sessions, events[s] # <<>>,
         pending' = [pending EXCEPT ![s] = @ \ {Head(events[s]).vid}],
         events' = [events EXCEPT ![s] = Tail(@)]
  PROVE  /\ pending' \in [Sessions -> SUBSET Vids] /\ events' \in [Sessions -> Seq(Results)]
         /\ events'[s] = Tail(events[s])
         /\ \A t \in Sessions \ {s} : events'[t] = events[t]
<1>1. events \in [Sessions -> Seq(Results)] /\ pending \in [Sessions -> SUBSET Vids]
  BY DEF TypeOK
<1>2. Tail(events[s]) \in Seq(Results)
  BY <1>1, ElementsOf
<1> QED
  BY <1>1, <1>2

\* The item stays on the ground (PickupRefused).
LEMMA PickupRefusedStep ==
  ASSUME IInv, NEW s \in Sessions, PickupRefused(s)
  PROVE  IInv'
<1>0. TypeOK /\ events[s] # <<>>
  BY DEF IInv, PickupRefused
<1>1. UNCHANGED <<at, left, vid, row, inv, intents, ground, nextVid, rows, created, takers,
                  stored, excuses, gifts, moves, cuts>>
  BY DEF PickupRefused, handler, world, ghosts, bounds
<1>2. /\ pending' \in [Sessions -> SUBSET Vids] /\ events' \in [Sessions -> Seq(Results)]
      /\ events'[s] = Tail(events[s]) /\ \A t \in Sessions \ {s} : events'[t] = events[t]
  BY <1>0, AnswerTaken DEF PickupRefused
<1>3. TypeOK' /\ Grown
  BY <1>0, <1>1, <1>2, CalmGrown DEF TypeOK
<1>4. intents' \in Seq(SoundIntents') /\ DropsFit' /\ events'[s] \in Seq(SoundResults')
  BY <1>0, <1>1, <1>2, <1>3, QuietKeeps, AnswersKeep
<1>5. InHand(s)' /\ RowChosen(s)'
  BY <1>0, <1>1, <1>3, SoundStays DEF IInv, RowChosen
<1>6. Undisturbed' = Undisturbed /\ (Agree(s) => Agree(s)')
  BY <1>1 DEF Undisturbed, Agree, OwnedRows
<1> QED
  BY <1>1, <1>2, <1>3, <1>4, <1>5, <1>6, SessionKeeps

\* The count of the answer is in hand (Take).
LEMMA TakeStep ==
  ASSUME IInv, NEW s \in Sessions, Take(s)
  PROVE  IInv'
<1>0. TypeOK /\ events[s] # <<>> /\ at[s] = "idle"
  BY DEF IInv, Take, TakeInHand
<1>1. PICK e \in SoundResults : e = Head(events[s])
  BY <1>0, ElementsOf DEF IInv, QueuesSound
<1>2. /\ UNCHANGED <<row, inv, intents, ground, nextVid, rows, created, takers, stored,
                     gifts, moves, cuts>>
      /\ at' = [at EXCEPT ![s] = "stack"] /\ left' = [left EXCEPT ![s] = e.count]
      /\ vid' = [vid EXCEPT ![s] = e.vid]
      /\ events' = [events EXCEPT ![s] = Tail(@)]
      /\ pending' = [pending EXCEPT ![s] = @ \ {Head(events[s]).vid}]
      /\ excuses' = IF Contended(s, e.vid) THEN excuses \cup {"raced"} ELSE excuses
  BY <1>1 DEF Take, TakeInHand, world, bounds
<1>3. /\ e.count \in Counts /\ e.vid \in Vids /\ e.vid \in 0 .. MaxDrops
      /\ Behind(e.vid) /\ e.count >= ground[e.vid]
  BY Limits DEF SoundResults, Results, Vids
<1>4. /\ pending' \in [Sessions -> SUBSET Vids] /\ events' \in [Sessions -> Seq(Results)]
      /\ events'[s] = Tail(events[s]) /\ \A t \in Sessions \ {s} : events'[t] = events[t]
  BY <1>0, <1>2, AnswerTaken
<1>5. /\ at' \in [Sessions -> {"idle", "store", "stack", "newRow", "insert", "gone"}]
      /\ at'[s] = "stack" /\ \A t \in Sessions \ {s} : at'[t] = at[t]
  BY <1>0, <1>2 DEF TypeOK
<1>6. /\ left' \in [Sessions -> Counts] /\ left'[s] = e.count
      /\ \A t \in Sessions \ {s} : left'[t] = left[t]
  BY <1>0, <1>2, <1>3 DEF TypeOK
<1>7. /\ vid' \in [Sessions -> 0 .. MaxDrops] /\ vid'[s] = e.vid
      /\ \A t \in Sessions \ {s} : vid'[t] = vid[t]
  BY <1>0, <1>2, <1>3 DEF TypeOK
<1>8. TypeOK' /\ Grown
  <2>1. excuses' \subseteq Excuses
    BY <1>0, <1>2 DEF TypeOK, Excuses
  <2> QED
    BY <1>0, <1>2, <1>4, <1>5, <1>6, <1>7, <2>1, CalmGrown DEF TypeOK
<1>9. intents' \in Seq(SoundIntents') /\ DropsFit' /\ events'[s] \in Seq(SoundResults')
  BY <1>0, <1>2, <1>4, <1>8, QuietKeeps, AnswersKeep
<1>10. InHand(s)' /\ RowChosen(s)'
  <2>1. /\ stored[e.vid] \in Nat /\ ground[e.vid] \in Nat /\ e.count \in Nat
    BY <1>0, <1>3, Limits DEF TypeOK, Counts
  <2>2. stored[e.vid] + e.count >= ground[e.vid]
    BY <1>3, <2>1
  <2>3. Behind(e.vid)'
    BY <1>2, <1>3 DEF Behind
  <2> QED
    BY <1>2, <1>5, <1>6, <1>7, <2>2, <2>3 DEF InHand, RowChosen
<1>11. Undisturbed' => Undisturbed
  BY <1>2 DEF Undisturbed
<1>12. Agree(s) => Agree(s)'
  BY <1>0, <1>2, <1>5 DEF Agree, OwnedRows
<1>13. \A t \in Sessions \ {s} : UNCHANGED <<at[t], left[t], vid[t], row[t], inv[t], events[t]>>
  BY <1>2, <1>4, <1>5, <1>6, <1>7
<1> QED
  BY <1>2, <1>8, <1>9, <1>10, <1>11, <1>12, <1>13, SessionKeeps

\* A stack with room takes what fits (Stack).
LEMMA StackStep ==
  ASSUME IInv, NEW s \in Sessions, Stack(s)
  PROVE  IInv'
<1>0. TypeOK /\ at[s] = "stack" /\ Room(s) # {}
  BY DEF IInv, Stack
<1>1. PICK i \in Room(s) : i = Min(Room(s))
  <2>1. Room(s) \in SUBSET Nat
    BY <1>0, StackOf DEF Room
  <2> QED
    BY <1>0, <2>1, SmallestIsIn
<1>2. /\ i \in Ids /\ i \in Stacks(s) /\ inv[s][i] \in Nat /\ inv[s][i] < StackLimit
      /\ left[s] \in Nat /\ left[s] <= StackLimit
  BY <1>0, StackOf, Limits DEF Room, TypeOK, Counts
<1>3. PICK n \in Nat : /\ n = Lesser(StackLimit - inv[s][i], left[s])
                       /\ n <= StackLimit - inv[s][i] /\ n <= left[s]
  BY <1>2, LesserOf, Limits
<1>4. /\ inv' = [inv EXCEPT ![s][i] = @ + n] /\ Upsert(s, i, inv[s][i] + n)
      /\ left' = [left EXCEPT ![s] = @ - n] /\ Taken(s, n)
  BY <1>1, <1>3 DEF Stack
<1>5. UNCHANGED <<at, vid, row, pending, events, intents, ground, nextVid, created, excuses,
                  gifts, moves, cuts>>
  BY DEF Stack, world, bounds
<1>6. inv[s][i] + n \in Counts /\ left[s] - n \in Counts /\ left[s] - n \in Nat
  BY <1>2, <1>3, Limits DEF Counts
<1>7. /\ inv' \in [Sessions -> [Ids -> Counts]]
      /\ inv'[s][i] = inv[s][i] + n /\ \A k \in Ids \ {i} : inv'[s][k] = inv[s][k]
      /\ \A t \in Sessions \ {s} : inv'[t] = inv[t]
  <2>1. inv \in [Sessions -> [Ids -> Counts]]
    BY <1>0 DEF TypeOK
  <2> QED
    BY <1>2, <1>4, <1>6, <2>1
<1>8. /\ left' \in [Sessions -> Counts] /\ left'[s] = left[s] - n
      /\ \A t \in Sessions \ {s} : left'[t] = left[t]
  <2>1. left \in [Sessions -> Counts]
    BY <1>0 DEF TypeOK
  <2> QED
    BY <1>4, <1>6, <2>1
<1>9. /\ rows' \in [Ids -> [owner : Sessions \cup {NoSession}, count : Counts]]
      /\ rows'[i].owner = s /\ \A k \in Ids \ {i} : rows'[k] = rows[k]
      /\ OwnedRows(s)'[i] = inv[s][i] + n
      /\ \A k \in Ids \ {i} : OwnedRows(s)'[k] = OwnedRows(s)[k]
  BY <1>0, <1>2, <1>4, <1>6, RowWritten
<1>10. /\ Grown /\ takers' \in [Vids -> SUBSET Sessions] /\ stored' \in [Vids -> Nat]
       /\ vid[s] # 0 => stored'[vid[s]] >= stored[vid[s]] + n \/ stored'[vid[s]] >= ground[vid[s]]
  BY <1>0, <1>4, <1>5, TakenGrown
<1>11. TypeOK'
  BY <1>0, <1>5, <1>7, <1>8, <1>9, <1>10 DEF TypeOK
<1>12. intents' \in Seq(SoundIntents') /\ DropsFit' /\ events'[s] \in Seq(SoundResults')
  BY <1>5, <1>10, <1>11, QuietKeeps, AnswersKeep
<1>13. InHand(s)' /\ RowChosen(s)'
  <2>1. SUFFICES ASSUME vid[s] # 0 PROVE InHand(s)'
    BY <1>0, <1>5 DEF InHand, RowChosen
  <2>2. Behind(vid[s]) /\ stored[vid[s]] + left[s] >= ground[vid[s]]
    BY <2>1 DEF IInv, InHand
  <2>3. PICK v \in Vids : v = vid[s]
    BY <2>2 DEF Behind
  <2>4. stored[v] \in Nat /\ stored'[v] \in Nat /\ ground[v] \in Nat
    BY <1>0, <1>10, Limits DEF TypeOK, Counts
  <2>5. stored'[v] + left'[s] >= ground[v]
    BY <1>2, <1>3, <1>6, <1>8, <1>10, <2>1, <2>2, <2>3, <2>4
  <2>6. Behind(v)'
    BY <1>5, <2>2, <2>3 DEF Behind
  <2> QED
    BY <1>0, <1>5, <2>3, <2>5, <2>6 DEF InHand
<1>14. Undisturbed' = Undisturbed
  BY <1>5 DEF Undisturbed
<1>15. Agree(s) => Agree(s)'
  <2>1. SUFFICES ASSUME Agree(s) PROVE Agree(s)'
    OBVIOUS
  <2>2. \A k \in Ids \ {i} : inv[s][k] = OwnedRows(s)[k]
    BY <1>0, <2>1 DEF Agree
  <2>3. \A k \in Ids : inv'[s][k] = OwnedRows(s)'[k]
    BY <1>7, <1>9, <2>2
  <2> QED
    BY <1>0, <1>5, <2>3 DEF Agree
<1>16. rows[i].owner \in {s, NoSession} \/ ~Undisturbed'
  BY <1>0, <1>2, <1>14, StackIsOwn DEF IInv, RowsAgree
<1>17. \A t \in Sessions \ {s} : UNCHANGED <<at[t], left[t], vid[t], row[t], inv[t], events[t]>>
  BY <1>5, <1>7, <1>8
<1>18. \A k \in Ids : \/ rows'[k] = rows[k]
                      \/ /\ rows[k].owner \in {s, NoSession} \/ ~Undisturbed'
                         /\ rows'[k].owner \in {s, NoSession}
  BY <1>9, <1>16
<1> QED
  BY <1>5, <1>10, <1>11, <1>12, <1>13, <1>14, <1>15, <1>17, <1>18, SessionKeeps

\* Every piece found a stack (StackDone).
LEMMA StackDoneStep ==
  ASSUME IInv, NEW s \in Sessions, StackDone(s)
  PROVE  IInv'
<1>0. TypeOK /\ at[s] = "stack" /\ left[s] = 0 /\ Done(s)
      /\ IF vid[s] = 0 THEN UNCHANGED intents ELSE Send("remove", s, vid[s], 0)
  BY DEF IInv, StackDone
<1>1. UNCHANGED <<inv, pending, events, ground, nextVid, rows, created, takers, stored, excuses,
                  gifts, moves, cuts>>
  BY DEF StackDone, ghosts, bounds
<1>2. /\ at' \in [Sessions -> {"idle", "store", "stack", "newRow", "insert", "gone"}]
      /\ left' \in [Sessions -> Counts] /\ vid' \in [Sessions -> 0 .. MaxDrops]
      /\ row' \in [Sessions -> 0 .. MaxRows]
      /\ at'[s] = "idle" /\ InHand(s)' /\ RowChosen(s)'
      /\ \A t \in Sessions \ {s} : UNCHANGED <<at[t], left[t], vid[t], row[t]>>
  BY <1>0, HandlerEnds
<1>3. TypeOK' /\ Grown
  <2>1. intents' \in Seq(Intents)
    BY <1>0, RemovalSent
  <2> QED
    BY <1>0, <1>1, <1>2, <2>1, CalmGrown DEF TypeOK
<1>4. intents' \in Seq(SoundIntents') /\ DropsFit'
  <2>1. ASSUME vid[s] # 0 PROVE stored'[vid[s]] >= ground[vid[s]]
    <3>1. vid[s] \in Vids /\ stored[vid[s]] + left[s] >= ground[vid[s]]
      BY <2>1 DEF IInv, InHand, Behind
    <3>2. stored[vid[s]] \in Nat /\ stored' = stored
      BY <1>0, <1>1, <3>1 DEF TypeOK
    <3> QED
      BY <1>0, <3>1, <3>2
  <2> QED
    BY <1>0, <1>1, <1>3, <2>1, RemovalKeeps
<1>5. events'[s] \in Seq(SoundResults')
  BY <1>1, <1>3, AnswersKeep
<1>6. Undisturbed' = Undisturbed /\ (Agree(s) => Agree(s)')
  BY <1>0, <1>1, <1>2 DEF Undisturbed, Agree, OwnedRows
<1> QED
  BY <1>1, <1>2, <1>3, <1>4, <1>5, <1>6, SessionKeeps

\* The rest does not fit (NoCell).
LEMMA NoCellStep ==
  ASSUME IInv, NEW s \in Sessions, NoCell(s)
  PROVE  IInv'
<1>0. TypeOK /\ at[s] = "stack" /\ Done(s)
  BY DEF IInv, NoCell
<1>1. /\ UNCHANGED <<inv, pending, events, intents, ground, nextVid, rows, created, takers, stored,
                     gifts, moves, cuts>>
      /\ excuses' = excuses \/ excuses' = excuses \cup {"full"}
  BY DEF NoCell, world, bounds
<1>2. /\ at' \in [Sessions -> {"idle", "store", "stack", "newRow", "insert", "gone"}]
      /\ left' \in [Sessions -> Counts] /\ vid' \in [Sessions -> 0 .. MaxDrops]
      /\ row' \in [Sessions -> 0 .. MaxRows]
      /\ at'[s] = "idle" /\ InHand(s)' /\ RowChosen(s)'
      /\ \A t \in Sessions \ {s} : UNCHANGED <<at[t], left[t], vid[t], row[t]>>
  BY <1>0, HandlerEnds
<1>3. TypeOK' /\ Grown
  <2>1. excuses' \subseteq Excuses
    BY <1>0, <1>1 DEF TypeOK, Excuses
  <2> QED
    BY <1>0, <1>1, <1>2, <2>1, CalmGrown DEF TypeOK
<1>4. intents' \in Seq(SoundIntents') /\ DropsFit' /\ events'[s] \in Seq(SoundResults')
  BY <1>1, <1>3, QuietKeeps, AnswersKeep
<1>5. (Undisturbed' => Undisturbed) /\ (Agree(s) => Agree(s)')
  BY <1>0, <1>1, <1>2 DEF Undisturbed, Agree, OwnedRows
<1> QED
  BY <1>1, <1>2, <1>3, <1>4, <1>5, SessionKeeps

\* The id of a new row is read (AllocateId).
LEMMA AllocateIdStep ==
  ASSUME IInv, NEW s \in Sessions, AllocateId(s)
  PROVE  IInv'
<1>0. /\ TypeOK /\ at[s] \in {"stack", "newRow"} /\ NextId \in Ids
      /\ row' = [row EXCEPT ![s] = NextId] /\ at' = [at EXCEPT ![s] = "insert"]
  BY DEF IInv, AllocateId
<1>1. UNCHANGED <<left, vid, inv, pending, events, intents, ground, nextVid, rows, created, takers,
                  stored, excuses, gifts, moves, cuts>>
  BY DEF AllocateId, world, ghosts, bounds
<1>2. PICK i \in Ids : i = NextId
  BY <1>0
<1>3. /\ row' \in [Sessions -> 0 .. MaxRows] /\ row'[s] = i
      /\ \A t \in Sessions \ {s} : row'[t] = row[t]
  <2>1. row \in [Sessions -> 0 .. MaxRows] /\ i \in 0 .. MaxRows
    BY <1>0, Limits DEF TypeOK, Ids
  <2> QED
    BY <1>0, <1>2, <2>1
<1>4. /\ at' \in [Sessions -> {"idle", "store", "stack", "newRow", "insert", "gone"}]
      /\ at'[s] = "insert" /\ \A t \in Sessions \ {s} : at'[t] = at[t]
  BY <1>0 DEF TypeOK
<1>5. TypeOK' /\ Grown
  BY <1>0, <1>1, <1>3, <1>4, CalmGrown DEF TypeOK
<1>6. intents' \in Seq(SoundIntents') /\ DropsFit' /\ events'[s] \in Seq(SoundResults')
  BY <1>1, <1>5, QuietKeeps, AnswersKeep
<1>7. InHand(s)' /\ RowChosen(s)'
  <2>1. InHand(s)
    BY DEF IInv
  <2> QED
    BY <1>1, <1>3, <1>4, <2>1 DEF InHand, RowChosen, Behind
<1>8. Undisturbed' = Undisturbed /\ (Agree(s) => Agree(s)')
  BY <1>0, <1>1, <1>4 DEF Undisturbed, Agree, OwnedRows
<1>9. \A t \in Sessions \ {s} : UNCHANGED <<at[t], left[t], vid[t], row[t], inv[t], events[t]>>
  BY <1>1, <1>3, <1>4
<1> QED
  BY <1>1, <1>5, <1>6, <1>7, <1>8, <1>9, SessionKeeps

\* The rest is written as a new row (Insert).
LEMMA InsertStep ==
  ASSUME IInv, NEW s \in Sessions, Insert(s)
  PROVE  IInv'
<1>0. /\ TypeOK /\ at[s] = "insert" /\ row[s] \in Ids /\ left[s] \in Counts /\ left[s] \in Nat
      /\ Done(s) /\ Taken(s, left[s])
      /\ IF vid[s] = 0 THEN UNCHANGED intents ELSE Send("remove", s, vid[s], 0)
  BY Limits DEF IInv, Insert, RowChosen, TypeOK, Counts
<1>1. PICK i \in Ids : i = row[s]
  BY <1>0
<1>2. PICK n \in Counts : n = left[s] /\ n \in Nat
  BY <1>0
<1>3. /\ Upsert(s, i, n) /\ inv' = [inv EXCEPT ![s][i] = n]
      /\ excuses' = IF rows[i] = NoRow THEN excuses ELSE excuses \cup {"sameRow"}
      /\ UNCHANGED <<pending, events, ground, nextVid, created, gifts, moves, cuts>>
  BY <1>1, <1>2 DEF Insert, bounds
<1>4. /\ at' \in [Sessions -> {"idle", "store", "stack", "newRow", "insert", "gone"}]
      /\ left' \in [Sessions -> Counts] /\ vid' \in [Sessions -> 0 .. MaxDrops]
      /\ row' \in [Sessions -> 0 .. MaxRows]
      /\ at'[s] = "idle" /\ InHand(s)' /\ RowChosen(s)'
      /\ \A t \in Sessions \ {s} : UNCHANGED <<at[t], left[t], vid[t], row[t]>>
  BY <1>0, HandlerEnds
<1>5. /\ inv' \in [Sessions -> [Ids -> Counts]]
      /\ inv'[s][i] = n /\ \A k \in Ids \ {i} : inv'[s][k] = inv[s][k]
      /\ \A t \in Sessions \ {s} : inv'[t] = inv[t]
  <2>1. inv \in [Sessions -> [Ids -> Counts]]
    BY <1>0 DEF TypeOK
  <2> QED
    BY <1>3, <2>1
<1>6. /\ rows' \in [Ids -> [owner : Sessions \cup {NoSession}, count : Counts]]
      /\ rows'[i].owner = s /\ \A k \in Ids \ {i} : rows'[k] = rows[k]
      /\ OwnedRows(s)'[i] = n
      /\ \A k \in Ids \ {i} : OwnedRows(s)'[k] = OwnedRows(s)[k]
  BY <1>0, <1>3, RowWritten
<1>7. /\ Grown /\ takers' \in [Vids -> SUBSET Sessions] /\ stored' \in [Vids -> Nat]
      /\ vid[s] # 0 => stored'[vid[s]] >= stored[vid[s]] + n \/ stored'[vid[s]] >= ground[vid[s]]
  BY <1>0, <1>2, <1>3, TakenGrown
<1>8. TypeOK'
  <2>1. intents' \in Seq(Intents)
    BY <1>0, RemovalSent
  <2>2. excuses' \subseteq Excuses
    BY <1>0, <1>3 DEF TypeOK, Excuses
  <2> QED
    BY <1>0, <1>3, <1>4, <1>5, <1>6, <1>7, <2>1, <2>2 DEF TypeOK
<1>9. intents' \in Seq(SoundIntents') /\ DropsFit'
  <2>1. ASSUME vid[s] # 0 PROVE stored'[vid[s]] >= ground[vid[s]]
    <3>1. vid[s] \in Vids /\ stored[vid[s]] + left[s] >= ground[vid[s]]
      BY <2>1 DEF IInv, InHand, Behind
    <3>2. stored[vid[s]] \in Nat /\ stored'[vid[s]] \in Nat /\ ground[vid[s]] \in Nat
      BY <1>0, <1>7, <3>1, Limits DEF TypeOK, Counts
    <3> QED
      BY <1>2, <1>7, <2>1, <3>1, <3>2
  <2> QED
    BY <1>0, <1>3, <1>7, <1>8, <2>1, RemovalKeeps
<1>10. events'[s] \in Seq(SoundResults')
  BY <1>3, <1>7, <1>8, AnswersKeep
<1>11. Undisturbed' => Undisturbed /\ rows[i] = NoRow
  BY <1>3 DEF Undisturbed
<1>12. Agree(s) => Agree(s)'
  <2>1. SUFFICES ASSUME Agree(s) PROVE Agree(s)'
    OBVIOUS
  <2>2. \A k \in Ids \ {i} : inv[s][k] = OwnedRows(s)[k]
    BY <1>0, <2>1 DEF Agree
  <2>3. \A k \in Ids : inv'[s][k] = OwnedRows(s)'[k]
    BY <1>5, <1>6, <2>2
  <2> QED
    BY <1>4, <2>3 DEF Agree
<1>13. rows[i].owner \in {s, NoSession} \/ ~Undisturbed'
  BY <1>11 DEF NoRow
<1>14. \A t \in Sessions \ {s} : UNCHANGED <<at[t], left[t], vid[t], row[t], inv[t], events[t]>>
  BY <1>3, <1>4, <1>5
<1>15. \A k \in Ids : \/ rows'[k] = rows[k]
                      \/ /\ rows[k].owner \in {s, NoSession} \/ ~Undisturbed'
                         /\ rows'[k].owner \in {s, NoSession}
  BY <1>6, <1>13
<1> QED
  BY <1>3, <1>4, <1>7, <1>8, <1>9, <1>10, <1>11, <1>12, <1>14, <1>15, SessionKeeps

-----------------------------------------------------------------------------
(* Connections end and begin                                               *)

\* A queue whose questions lose their sender asks the same (Orphaned).
LEMMA OrphanedAsks ==
  ASSUME NEW q \in Seq(Intents), NEW s \in Sessions
  PROVE  /\ Orphaned(q, s) \in Seq(Intents)
         /\ q \in Seq(SoundIntents) => Orphaned(q, s) \in Seq(SoundIntents)
         /\ Drops(Orphaned(q, s)) = Drops(q)
<1> DEFINE r == Orphaned(q, s)
<1>1. DOMAIN q = 1 .. Len(q) /\ Len(q) \in Nat /\ DOMAIN r = 1 .. Len(q)
  BY DEF Orphaned
<1>2. ASSUME NEW i \in 1 .. Len(q)
      PROVE  r[i] \in Intents /\ r[i].kind = q[i].kind /\ r[i].vid = q[i].vid
  <2>1. PICK m \in Intents : m = q[i]
    BY <1>2
  <2>2. r[i] = IF m.by = s THEN [m EXCEPT !.by = NoSession] ELSE m
    BY <1>1, <2>1 DEF Orphaned
  <2>3. /\ [m EXCEPT !.by = NoSession] \in Intents
        /\ [m EXCEPT !.by = NoSession].kind = m.kind /\ [m EXCEPT !.by = NoSession].vid = m.vid
    BY DEF Intents
  <2> QED
    BY <2>1, <2>2, <2>3
<1>3. r \in Seq(Intents)
  <2>1. r = [i \in 1 .. Len(q) |-> r[i]]
    BY <1>1 DEF Orphaned
  <2> HIDE DEF r
  <2> QED
    BY <1>1, <1>2, <2>1
<1>4. ASSUME q \in Seq(SoundIntents) PROVE r \in Seq(SoundIntents)
  <2>1. ASSUME NEW i \in 1 .. Len(q) PROVE r[i] \in SoundIntents
    <3>1. q[i] \in SoundIntents
      BY <1>4, ElementsOf
    <3> HIDE DEF r
    <3> QED
      BY <1>2, <3>1 DEF SoundIntents
  <2>2. r = [i \in 1 .. Len(q) |-> r[i]]
    BY <1>1 DEF Orphaned
  <2> HIDE DEF r
  <2> QED
    BY <1>1, <2>1, <2>2
<1>5. Drops(r) = Drops(q)
  <2> HIDE DEF r
  <2> QED
    BY <1>1, <1>2 DEF Drops
<1> QED
  BY <1>3, <1>4, <1>5

\* What the handler had not written is forgotten (Disconnect).
LEMMA DisconnectStep ==
  ASSUME IInv, NEW s \in Sessions, Disconnect(s)
  PROVE  IInv'
<1>0. TypeOK /\ intents \in Seq(Intents)
  BY DEF IInv, TypeOK
<1>1. /\ UNCHANGED <<ground, nextVid, rows, created, takers, stored, gifts, moves>>
      /\ at' = [at EXCEPT ![s] = "gone"] /\ left' = [left EXCEPT ![s] = 0]
      /\ vid' = [vid EXCEPT ![s] = 0] /\ row' = [row EXCEPT ![s] = 0]
      /\ inv' = [inv EXCEPT ![s] = [i \in Ids |-> 0]]
      /\ pending' = [pending EXCEPT ![s] = {}]
      /\ events' = [events EXCEPT ![s] = <<>>] /\ intents' = Orphaned(intents, s)
  BY DEF Disconnect
<1>2. /\ excuses' = excuses \/ excuses' = excuses \cup {"cut"}
      /\ cuts' = cuts \/ (cuts < MaxCuts /\ cuts' = cuts + 1)
  BY DEF Disconnect
<1>3. /\ at' \in [Sessions -> {"idle", "store", "stack", "newRow", "insert", "gone"}]
      /\ at'[s] = "gone" /\ \A t \in Sessions \ {s} : at'[t] = at[t]
  BY <1>0, <1>1 DEF TypeOK
<1>4. /\ left' \in [Sessions -> Counts] /\ \A t \in Sessions \ {s} : left'[t] = left[t]
  <2>1. left \in [Sessions -> Counts] /\ 0 \in Counts
    BY <1>0, Limits DEF TypeOK, Counts
  <2> QED
    BY <1>1, <2>1
<1>5. /\ vid' \in [Sessions -> 0 .. MaxDrops] /\ vid'[s] = 0
      /\ \A t \in Sessions \ {s} : vid'[t] = vid[t]
  <2>1. vid \in [Sessions -> 0 .. MaxDrops] /\ 0 \in 0 .. MaxDrops
    BY <1>0, Limits DEF TypeOK
  <2> QED
    BY <1>1, <2>1
<1>6. /\ row' \in [Sessions -> 0 .. MaxRows] /\ \A t \in Sessions \ {s} : row'[t] = row[t]
  <2>1. row \in [Sessions -> 0 .. MaxRows] /\ 0 \in 0 .. MaxRows
    BY <1>0, Limits DEF TypeOK
  <2> QED
    BY <1>1, <2>1
<1>7. /\ inv' \in [Sessions -> [Ids -> Counts]] /\ \A t \in Sessions \ {s} : inv'[t] = inv[t]
  <2>1. inv \in [Sessions -> [Ids -> Counts]] /\ [i \in Ids |-> 0] \in [Ids -> Counts]
    BY <1>0, Limits DEF TypeOK, Counts
  <2> QED
    BY <1>1, <2>1
<1>8. pending' \in [Sessions -> SUBSET Vids]
  BY <1>0, <1>1 DEF TypeOK
<1>9. /\ events' \in [Sessions -> Seq(Results)] /\ events'[s] = <<>>
      /\ \A t \in Sessions \ {s} : events'[t] = events[t]
  <2>1. events \in [Sessions -> Seq(Results)] /\ <<>> \in Seq(Results)
    BY <1>0 DEF TypeOK
  <2> QED
    BY <1>1, <2>1
<1>10. TypeOK' /\ Grown
  <2>1. intents' \in Seq(Intents)
    BY <1>0, <1>1, OrphanedAsks
  <2>2. excuses' \subseteq Excuses /\ cuts' \in 0 .. MaxCuts
    <3>1. excuses \subseteq Excuses /\ "cut" \in Excuses /\ cuts \in 0 .. MaxCuts
      BY <1>0 DEF TypeOK, Excuses
    <3>2. excuses' \subseteq Excuses
      BY <1>2, <3>1
    <3>3. cuts' \in 0 .. MaxCuts
      BY <1>2, <3>1, Limits
    <3> QED
      BY <3>2, <3>3
  <2> QED
    BY <1>0, <1>1, <1>3, <1>4, <1>5, <1>6, <1>7, <1>8, <1>9, <2>1, <2>2, CalmGrown DEF TypeOK
<1>11. intents' \in Seq(SoundIntents') /\ DropsFit'
  <2>1. intents' \in Seq(SoundIntents) /\ Drops(intents') = Drops(intents)
    BY <1>0, <1>1, OrphanedAsks DEF IInv, QueuesSound
  <2>2. SoundIntents \subseteq SoundIntents'
    BY <1>0, <1>10, SoundStays
  <2>3. intents' \in Seq(SoundIntents')
    BY <2>1, <2>2, WiderSeq
  <2> QED
    BY <1>1, <2>1, <2>3 DEF IInv, DropsFit
<1>12. events'[s] \in Seq(SoundResults')
  BY <1>9, <1>10, AnswersKeep
<1>13. InHand(s)' /\ RowChosen(s)'
  BY <1>3, <1>5 DEF InHand, RowChosen
<1>14. (Undisturbed' => Undisturbed) /\ (Agree(s) => Agree(s)')
  BY <1>2, <1>3 DEF Undisturbed, Agree
<1>15. \A t \in Sessions \ {s} : UNCHANGED <<at[t], left[t], vid[t], row[t], inv[t], events[t]>>
  BY <1>3, <1>4, <1>5, <1>6, <1>7, <1>9
<1> QED
  BY <1>1, <1>10, <1>11, <1>12, <1>13, <1>14, <1>15, SessionKeeps

\* The inventory is what PostgreSQL has (Enter).
LEMMA EnterStep ==
  ASSUME IInv, NEW s \in Sessions, Enter(s)
  PROVE  IInv'
<1>0. TypeOK /\ at[s] = "gone"
  BY DEF IInv, Enter
<1>1. /\ UNCHANGED <<left, vid, row, pending, events, intents, ground, nextVid, rows, created,
                     takers, stored, excuses, gifts, moves, cuts>>
      /\ at' = [at EXCEPT ![s] = "idle"] /\ inv' = [inv EXCEPT ![s] = OwnedRows(s)]
  BY DEF Enter, world, ghosts, bounds
<1>2. /\ inv' \in [Sessions -> [Ids -> Counts]] /\ inv'[s] = OwnedRows(s)
      /\ \A t \in Sessions \ {s} : inv'[t] = inv[t]
  <2>1. inv \in [Sessions -> [Ids -> Counts]]
    BY <1>0 DEF TypeOK
  <2>2. \A i \in Ids : rows[i].count \in Counts
    BY <1>0 DEF TypeOK
  <2>3. 0 \in Counts
    BY Limits DEF Counts
  <2>4. OwnedRows(s) \in [Ids -> Counts]
    BY <2>2, <2>3 DEF OwnedRows
  <2> QED
    BY <1>1, <2>1, <2>4
<1>3. /\ at' \in [Sessions -> {"idle", "store", "stack", "newRow", "insert", "gone"}]
      /\ at'[s] = "idle" /\ \A t \in Sessions \ {s} : at'[t] = at[t]
  BY <1>0, <1>1 DEF TypeOK
<1>4. TypeOK' /\ Grown
  BY <1>0, <1>1, <1>2, <1>3, CalmGrown DEF TypeOK
<1>5. intents' \in Seq(SoundIntents') /\ DropsFit' /\ events'[s] \in Seq(SoundResults')
  BY <1>1, <1>4, QuietKeeps, AnswersKeep
<1>6. InHand(s)' /\ RowChosen(s)'
  <2>1. vid[s] = 0
    BY <1>0 DEF IInv, InHand
  <2> QED
    BY <1>1, <1>3, <2>1 DEF InHand, RowChosen
<1>7. Undisturbed' = Undisturbed
  BY <1>1 DEF Undisturbed
<1>8. Agree(s) => Agree(s)'
  <2>1. OwnedRows(s)' = OwnedRows(s)
    BY <1>1 DEF OwnedRows
  <2> QED
    BY <1>2, <1>3, <2>1 DEF Agree
<1>9. \A t \in Sessions \ {s} : UNCHANGED <<at[t], left[t], vid[t], row[t], inv[t], events[t]>>
  BY <1>1, <1>2, <1>3
<1> QED
  BY <1>1, <1>4, <1>5, <1>6, <1>7, <1>8, <1>9, SessionKeeps

-----------------------------------------------------------------------------
(* The world task                                                          *)

\* A step of the world: what it must show.
LEMMA WorldKeeps ==
  ASSUME IInv, TypeOK', Grown, UNCHANGED <<at, left, vid, row, inv, rows, excuses>>,
         intents # <<>>, intents' = Tail(intents), FreshIsFree',
         nextVid' = IF Head(intents).kind = "drop" THEN nextVid + 1 ELSE nextVid,
         \A s \in Sessions : events'[s] \in Seq(SoundResults')
  PROVE  IInv'
<1>0. /\ TypeOK /\ intents \in Seq(Intents) /\ intents' \in Seq(Intents)
      /\ nextVid \in Nat /\ MaxDrops \in Nat
  BY Limits DEF IInv, TypeOK
<1>1. intents' \in Seq(SoundIntents')
  <2>1. intents \in Seq(SoundIntents) /\ SoundIntents \subseteq SoundIntents'
    BY <1>0, SoundStays DEF IInv, QueuesSound
  <2>2. intents \in Seq(SoundIntents')
    BY <2>1, WiderSeq
  <2> QED
    BY <2>2, ElementsOf
<1>2. DropsFit'
  <2>1. /\ Cardinality(Drops(intents)) \in Nat /\ Cardinality(Drops(intents')) \in Nat
        /\ IF Head(intents).kind = "drop"
           THEN Cardinality(Drops(intents')) <= Cardinality(Drops(intents)) - 1
           ELSE Cardinality(Drops(intents')) <= Cardinality(Drops(intents))
    BY <1>0, DropsOf
  <2>2. nextVid + Cardinality(Drops(intents)) <= MaxDrops + 1
    BY DEF IInv, DropsFit
  <2> QED
    BY <1>0, <2>1, <2>2 DEF DropsFit
<1>3. \A s \in Sessions : InHand(s)' /\ RowChosen(s)'
  BY <1>0, SoundStays DEF IInv, RowChosen
<1>4. RowsAgree'
  BY DEF IInv, RowsAgree, Undisturbed, Agree, OwnedRows
<1> QED
  BY <1>1, <1>2, <1>3, <1>4 DEF IInv, QueuesSound

\* An item is put on the ground (WorldDrop).
LEMMA WorldDropStep ==
  ASSUME IInv, WorldDrop
  PROVE  IInv' /\ \A v \in Vids : ground'[v] = ground[v] \/ ground[v] = 0
<1>0. /\ TypeOK /\ intents # <<>> /\ Head(intents).kind = "drop"
      /\ intents \in Seq(Intents) /\ nextVid \in Nat \ {0} /\ MaxDrops \in Nat
  BY Limits DEF IInv, TypeOK, WorldDrop
<1>1. /\ UNCHANGED <<at, left, vid, row, inv, pending, events, rows, created, takers, stored,
                     excuses, gifts, moves, cuts>>
      /\ ground' = [ground EXCEPT ![nextVid] = Head(intents).count]
      /\ nextVid' = nextVid + 1 /\ intents' = Tail(intents)
  BY DEF WorldDrop, handler, ghosts, bounds
<1>2. nextVid <= MaxDrops /\ nextVid \in Vids
  <2>1. /\ Tail(intents) \in Seq(Intents)
        /\ Cardinality(Drops(Tail(intents))) <= Cardinality(Drops(intents)) - 1
        /\ Cardinality(Drops(intents)) \in Nat
    BY <1>0, DropsOf, ElementsOf
  <2>2. Cardinality(Drops(Tail(intents))) \in Nat
    BY <2>1, DropsOf
  <2>3. nextVid + Cardinality(Drops(intents)) <= MaxDrops + 1
    BY DEF IInv, DropsFit
  <2> QED
    BY <1>0, <2>1, <2>2, <2>3 DEF Vids
<1>3. PICK n \in Counts : n = Head(intents).count
  <2>1. Head(intents) \in Intents
    BY <1>0, ElementsOf
  <2> QED
    BY <2>1 DEF Intents
<1>4. /\ ground' \in [Vids -> Counts] /\ \A v \in Vids \ {nextVid} : ground'[v] = ground[v]
  BY <1>0, <1>1, <1>2, <1>3 DEF TypeOK
<1>5. TypeOK'
  <2>1. intents' \in Seq(Intents) /\ nextVid' \in 1 .. MaxDrops + 1
    BY <1>0, <1>1, <1>2, ElementsOf
  <2> QED
    BY <1>0, <1>1, <1>4, <2>1 DEF TypeOK
<1>6. Vids \subseteq Nat /\ \A v \in Vids : ground[v] \in Nat /\ stored[v] \in Nat
  BY <1>0, Limits DEF TypeOK, Vids, Counts
<1>7. Grown
  <2>1. \A v \in Vids : v < nextVid => ground'[v] = ground[v] /\ stored'[v] = stored[v]
    BY <1>0, <1>1, <1>4, <1>6
  <2> QED
    BY <1>0, <1>1, <1>6, <2>1 DEF Grown
<1>8. FreshIsFree'
  <2>1. ASSUME NEW v \in Vids, v >= nextVid + 1 PROVE ground'[v] = 0
    <3>1. v \in Nat /\ v # nextVid /\ v >= nextVid
      BY <1>0, <1>6, <2>1
    <3> QED
      BY <1>4, <3>1 DEF IInv, FreshIsFree
  <2> QED
    BY <1>1, <2>1 DEF FreshIsFree
<1>9. \A s \in Sessions : events'[s] \in Seq(SoundResults')
  BY <1>1, <1>5, <1>7, AnswersKeep
<1>10. ground[nextVid] = 0
  BY <1>0, <1>2 DEF IInv, FreshIsFree
<1>11. IInv'
  BY <1>0, <1>1, <1>5, <1>7, <1>8, <1>9, WorldKeeps
<1> QED
  BY <1>4, <1>10, <1>11

\* A question is answered with what the ground has now (WorldPickup).
LEMMA WorldPickupStep ==
  ASSUME IInv, WorldPickup
  PROVE  IInv'
<1>0. /\ TypeOK /\ intents # <<>> /\ Head(intents).kind = "pickup"
      /\ intents \in Seq(Intents)
  BY DEF IInv, TypeOK, WorldPickup
<1>1. /\ UNCHANGED <<at, left, vid, row, inv, pending, ground, nextVid, rows, created, takers,
                     stored, excuses, gifts, moves, cuts>>
      /\ intents' = Tail(intents)
  BY DEF WorldPickup, handler, ghosts, bounds
<1>2. PICK q \in SoundIntents : q = Head(intents)
  BY <1>0, ElementsOf DEF IInv, QueuesSound
<1>3. /\ q.kind = "pickup" /\ q.vid \in Vids /\ Behind(q.vid)
      /\ q.by \in Sessions \cup {NoSession}
  BY <1>0, <1>2 DEF SoundIntents, Behind, Intents
<1>4. PICK v \in Vids : v = q.vid
  BY <1>3
<1>5. PICK n \in Counts : n = ground[v]
  BY <1>0 DEF TypeOK
<1> DEFINE e == [vid |-> v, count |-> n]
<1>6. e \in SoundResults /\ e \in Results
  <2>1. n \in Nat
    BY Limits DEF Counts
  <2> QED
    BY <1>3, <1>4, <1>5, <2>1 DEF SoundResults, Results
<1>7. events' = IF q.by = NoSession THEN events ELSE [events EXCEPT ![q.by] = Append(@, e)]
  BY <1>2, <1>4, <1>5 DEF WorldPickup
<1>8. \A s \in Sessions : events'[s] = events[s] \/ events'[s] = Append(events[s], e)
  <2>1. events \in [Sessions -> Seq(Results)]
    BY <1>0 DEF TypeOK
  <2> HIDE DEF e
  <2> QED
    BY <1>3, <1>7, <2>1
<1>9. TypeOK' /\ Grown
  <2>1. events \in [Sessions -> Seq(Results)]
    BY <1>0 DEF TypeOK
  <2>2. \A s \in Sessions : Append(events[s], e) \in Seq(Results)
    BY <1>6, <2>1, ElementsOf
  <2>3. events' \in [Sessions -> Seq(Results)]
    <3> HIDE DEF e
    <3> QED
      BY <1>3, <1>7, <2>1, <2>2
  <2>4. intents' \in Seq(Intents)
    BY <1>0, <1>1, ElementsOf
  <2> QED
    BY <1>0, <1>1, <2>3, <2>4, CalmGrown DEF TypeOK
<1>10. \A s \in Sessions : events'[s] \in Seq(SoundResults')
  <2>1. SUFFICES ASSUME NEW s \in Sessions PROVE events'[s] \in Seq(SoundResults')
    OBVIOUS
  <2>2. events[s] \in Seq(SoundResults) /\ SoundResults \subseteq SoundResults'
    BY <1>0, <1>9, SoundStays DEF IInv, QueuesSound
  <2>3. events'[s] \in Seq(SoundResults)
    <3> HIDE DEF e
    <3> QED
      BY <1>6, <1>8, <2>2, ElementsOf
  <2> QED
    BY <2>2, <2>3, WiderSeq
<1>11. FreshIsFree' /\ nextVid' = IF Head(intents).kind = "drop" THEN nextVid + 1 ELSE nextVid
  BY <1>0, <1>1 DEF IInv, FreshIsFree
<1> QED
  BY <1>0, <1>1, <1>9, <1>10, <1>11, WorldKeeps

\* An item leaves the ground, and its pieces were written (WorldRemove).
LEMMA WorldRemoveStep ==
  ASSUME IInv, WorldRemove
  PROVE  IInv' /\ \A v \in Vids : ground'[v] = ground[v] \/ stored[v] >= ground[v]
<1>0. /\ TypeOK /\ intents # <<>> /\ Head(intents).kind = "remove"
      /\ intents \in Seq(Intents)
  BY DEF IInv, TypeOK, WorldRemove
<1>1. /\ UNCHANGED <<at, left, vid, row, inv, pending, events, nextVid, rows, created, takers,
                     stored, excuses, gifts, moves, cuts>>
      /\ intents' = Tail(intents) /\ ground' = [ground EXCEPT ![Head(intents).vid] = 0]
  BY DEF WorldRemove, handler, ghosts, bounds
<1>2. PICK q \in SoundIntents : q = Head(intents)
  BY <1>0, ElementsOf DEF IInv, QueuesSound
<1>3. q.kind = "remove" /\ q.vid \in Vids /\ stored[q.vid] >= ground[q.vid]
  BY <1>0, <1>2 DEF SoundIntents, Behind
<1>4. PICK v \in Vids : v = q.vid /\ stored[v] >= ground[v]
  BY <1>3
<1>5. /\ ground' \in [Vids -> Counts] /\ ground'[v] = 0
      /\ \A w \in Vids \ {v} : ground'[w] = ground[w]
  <2>1. ground \in [Vids -> Counts] /\ 0 \in Counts
    BY <1>0, Limits DEF TypeOK, Counts
  <2> QED
    BY <1>1, <1>2, <1>4, <2>1
<1>6. TypeOK'
  <2>1. intents' \in Seq(Intents)
    BY <1>0, <1>1, ElementsOf
  <2> QED
    BY <1>0, <1>1, <1>5, <2>1 DEF TypeOK
<1>7. nextVid \in Nat /\ \A w \in Vids : ground[w] \in Nat /\ stored[w] \in Nat
  BY <1>0, Limits DEF TypeOK, Counts
<1>8. Grown
  <2>1. \A w \in Vids : ground'[w] <= ground[w] /\ stored'[w] >= stored[w]
    BY <1>1, <1>5, <1>7
  <2> QED
    BY <1>1, <1>7, <2>1 DEF Grown
<1>9. \A s \in Sessions : events'[s] \in Seq(SoundResults')
  BY <1>1, <1>6, <1>8, AnswersKeep
<1>10. FreshIsFree' /\ nextVid' = IF Head(intents).kind = "drop" THEN nextVid + 1 ELSE nextVid
  BY <1>0, <1>1, <1>5 DEF IInv, FreshIsFree
<1>11. IInv'
  BY <1>0, <1>1, <1>6, <1>8, <1>9, <1>10, WorldKeeps
<1> QED
  BY <1>4, <1>5, <1>11

-----------------------------------------------------------------------------
(* The theorems                                                            *)

\* The channel starts with empty inventories, an empty ground and no row.
LEMMA InitInv == Init => IInv
<1> SUFFICES ASSUME Init PROVE IInv
  OBVIOUS
<1>0. 0 \in Counts /\ 0 \in 0 .. MaxDrops /\ 0 \in 0 .. MaxRows
  BY Limits DEF Counts
<1>1. TypeOK
  <2>1. /\ at = [s \in Sessions |-> "idle"] /\ left = [s \in Sessions |-> 0]
        /\ vid = [s \in Sessions |-> 0] /\ row = [s \in Sessions |-> 0]
        /\ inv = [s \in Sessions |-> [i \in Ids |-> 0]]
        /\ pending = [s \in Sessions |-> {}] /\ events = [s \in Sessions |-> <<>>]
        /\ intents = <<>> /\ ground = [v \in Vids |-> 0] /\ nextVid = 1
        /\ rows = [i \in Ids |-> NoRow] /\ created = 0 /\ takers = [v \in Vids |-> {}]
        /\ stored = [v \in Vids |-> 0] /\ excuses = {} /\ gifts = 0 /\ moves = 0 /\ cuts = 0
    BY DEF Init
  <2>2. /\ at \in [Sessions -> {"idle", "store", "stack", "newRow", "insert", "gone"}]
        /\ left \in [Sessions -> Counts] /\ vid \in [Sessions -> 0 .. MaxDrops]
        /\ row \in [Sessions -> 0 .. MaxRows]
    BY <1>0, <2>1
  <2>3. inv \in [Sessions -> [Ids -> Counts]] /\ pending \in [Sessions -> SUBSET Vids]
    BY <1>0, <2>1
  <2>4. events \in [Sessions -> Seq(Results)] /\ intents \in Seq(Intents)
    BY <2>1
  <2>5. ground \in [Vids -> Counts] /\ stored \in [Vids -> Nat]
        /\ takers \in [Vids -> SUBSET Sessions]
    BY <1>0, <2>1
  <2>6. rows \in [Ids -> [owner : Sessions \cup {NoSession}, count : Counts]]
    BY <1>0, <2>1 DEF NoRow
  <2>7. /\ nextVid \in 1 .. MaxDrops + 1 /\ created \in Nat /\ excuses \subseteq Excuses
        /\ gifts \in 0 .. MaxGifts /\ moves \in 0 .. MaxMoves /\ cuts \in 0 .. MaxCuts
    BY <2>1, Limits
  <2> QED
    BY <2>2, <2>3, <2>4, <2>5, <2>6, <2>7 DEF TypeOK
<1>2. DropsFit
  <2>1. Drops(intents) = {}
    BY DEF Init, Drops
  <2>2. Cardinality(Drops(intents)) = 0
    BY <2>1, FS_EmptySet, Zenon
  <2>3. nextVid = 1
    BY DEF Init
  <2> QED
    BY <2>2, <2>3, Limits DEF DropsFit
<1>3. QueuesSound
  BY DEF Init, QueuesSound
<1>4. FreshIsFree
  BY DEF Init, FreshIsFree
<1>5. \A s \in Sessions : InHand(s) /\ RowChosen(s)
  BY DEF Init, InHand, RowChosen
<1>6. RowsAgree
  <2>1. ASSUME NEW s \in Sessions, NEW i \in Ids PROVE inv[s][i] = OwnedRows(s)[i]
    <3>1. inv[s][i] = 0 /\ rows[i].owner = NoSession /\ NoSession # s
      BY Limits DEF Init, NoRow
    <3> QED
      BY <3>1 DEF OwnedRows
  <2> QED
    BY <2>1 DEF Init, RowsAgree, Agree
<1> QED
  BY <1>1, <1>2, <1>3, <1>4, <1>5, <1>6 DEF IInv

\* No step of the world, a session or a connection breaks it.
LEMMA NextInv == IInv /\ [Next]_vars => IInv'
<1> SUFFICES ASSUME IInv, [Next]_vars PROVE IInv'
  OBVIOUS
<1>1. CASE UNCHANGED vars
  <2>1. UNCHANGED <<at, left, vid, row, inv, pending, events, intents, ground, nextVid, rows,
                    created, takers, stored, excuses, gifts, moves, cuts>>
    BY <1>1 DEF vars, handler, world, ghosts, bounds
  <2>2. TypeOK' /\ DropsFit' /\ FreshIsFree'
    BY <2>1 DEF IInv, TypeOK, DropsFit, Drops, FreshIsFree
  <2>3. QueuesSound'
    BY <2>1 DEF IInv, QueuesSound, SoundIntents, SoundResults, Behind
  <2>4. (\A s \in Sessions : InHand(s) /\ RowChosen(s))' /\ RowsAgree'
    BY <2>1 DEF IInv, InHand, Behind, RowChosen, RowsAgree, Undisturbed, Agree, OwnedRows
  <2> QED
    BY <2>2, <2>3, <2>4 DEF IInv
<1>2. CASE World
  BY <1>2, WorldDropStep, WorldPickupStep, WorldRemoveStep DEF World
<1>3. ASSUME NEW s \in Sessions, Handle(s) PROVE IInv'
  BY <1>3, StoreRowStep, PickupRefusedStep, TakeStep, StackStep, StackDoneStep, NoCellStep,
     AllocateIdStep, InsertStep DEF Handle
<1>4. ASSUME NEW s \in Sessions, Ask(s) PROVE IInv'
  BY <1>4, KillDropStep, DropItemStep, PickupStep, SplitStep, MergeStep, GiveStep DEF Ask
<1> QED
  BY <1>1, <1>2, <1>3, <1>4, DisconnectStep, EnterStep DEF Next

\* The sessions leave the ground to the world.
LEMMA SessionsLeaveGround ==
  ASSUME NEW s \in Sessions, Handle(s) \/ Ask(s) \/ Disconnect(s) \/ Enter(s)
  PROVE  UNCHANGED ground
<1>1. CASE Handle(s)
  BY <1>1 DEF Handle, StoreRow, PickupRefused, Take, TakeInHand, Stack, StackDone, NoCell,
              AllocateId, Insert, world
<1>2. CASE Ask(s)
  BY <1>2 DEF Ask, KillDrop, DropItem, Pickup, Split, Merge, Give, world
<1> QED
  BY <1>1, <1>2 DEF Disconnect, Enter, world

\* The queues, the ground, the sessions and player.item are consistent in every reachable state
\* (items.rs, events.rs, ecs/systems/items.rs).
THEOREM GroundIsConsistent == Spec => []IInv
BY InitInv, NextInv, PTL DEF Spec

\* Every variable keeps its type; a drop always finds a vid (VidAlloc).
THEOREM GroundTypeCorrect == Spec => []TypeOK
<1>1. IInv => TypeOK
  BY DEF IInv
<1> QED
  BY <1>1, GroundIsConsistent, PTL

\* Unless two sessions wrote the same row id or a handler was cut, PostgreSQL holds exactly the
\* inventory of every session between two handlers (drop_item, PickupResult, handle_move).
THEOREM RowsStayInventories == Spec => []RowsMatchInventory
<1>1. IInv => RowsMatchInventory
  <2>1. SUFFICES ASSUME IInv, Undisturbed, NEW s \in Sessions, at[s] = "idle"
                 PROVE  inv[s] = OwnedRows(s)
    BY DEF RowsMatchInventory, Undisturbed
  <2>2. Agree(s) /\ inv \in [Sessions -> [Ids -> Counts]]
    BY <2>1 DEF IInv, RowsAgree, TypeOK
  <2>3. \A i \in Ids : inv[s][i] = OwnedRows(s)[i]
    BY <2>1, <2>2 DEF Agree
  <2>4. inv[s] = [i \in Ids |-> inv[s][i]]
    BY <2>2
  <2>5. OwnedRows(s) = [i \in Ids |-> OwnedRows(s)[i]]
    BY DEF OwnedRows
  <2> HIDE DEF OwnedRows
  <2> QED
    BY <2>3, <2>4, <2>5
<1> QED
  BY <1>1, GroundIsConsistent, PTL

\* An item leaves the ground only after all its pieces were written to player.item, whatever is
\* raced or cut (process_pickup, remove_item, PickupResult).
THEOREM ItemsLeaveStored == Spec => LeavesGroundStored
<1> DEFINE Leaving == \A v \in Vids : ground[v] > 0 /\ ground'[v] = 0 => stored[v] >= ground[v]
<1>1. IInv /\ [Next]_vars => Leaving
  <2>1. SUFFICES ASSUME IInv, [Next]_vars, NEW v \in Vids, ground[v] > 0, ground'[v] = 0
                 PROVE  stored[v] >= ground[v]
    OBVIOUS
  <2>2. ground[v] \in Nat /\ ~(0 > 0)
    BY <2>1, Limits DEF IInv, TypeOK, Counts
  <2>3. ground' # ground
    BY <2>1, <2>2
  <2>4. World
    BY <2>1, <2>3, SessionsLeaveGround DEF Next, vars, world
  <2>5. CASE WorldDrop
    BY <2>1, <2>2, <2>5, WorldDropStep
  <2>6. CASE WorldPickup
    BY <2>3, <2>6 DEF WorldPickup
  <2>7. CASE WorldRemove
    BY <2>1, <2>2, <2>7, WorldRemoveStep
  <2> QED
    BY <2>4, <2>5, <2>6, <2>7 DEF World
<1>2. IInv /\ [Next]_vars => [Leaving]_vars
  BY <1>1
<1> QED
  BY <1>2, GroundIsConsistent, PTL DEF Spec, LeavesGroundStored

-----------------------------------------------------------------------------
(* Smallest numbers and steps upwards                                      *)

\* Numbers have a least (the smallest place that is bad).
LEMMA LeastOf ==
  ASSUME NEW T, T \subseteq Nat, T # {}
  PROVE  \E x \in T : \A y \in T : x <= y
<1>1. PICK x \in T : \A y \in T : <<y, x>> \notin OpToRel(<, Nat)
  BY NatLessThanWellFounded, WFMin, Zenon
<1>2. \A y \in T : ~(y < x)
  BY <1>1 DEF OpToRel
<1> QED
  BY <1>2

\* What holds at the start and passes from each place to the next holds everywhere.
LEMMA Climb ==
  ASSUME NEW N \in Nat, NEW Good, 0 \in Good, \A i \in 1 .. N : i - 1 \in Good => i \in Good
  PROVE  \A i \in 0 .. N : i \in Good
<1> DEFINE Bad == (0 .. N) \ Good
<1> SUFFICES ASSUME Bad # {} PROVE FALSE
  OBVIOUS
<1>1. PICK n \in Bad : \A k \in Bad : n <= k
  <2>1. Bad \subseteq Nat
    OBVIOUS
  <2> HIDE DEF Bad
  <2> QED
    BY <2>1, LeastOf
<1>2. n \in 1 .. N /\ n - 1 \in 0 .. N
  OBVIOUS
<1>3. n - 1 \in Good
  BY <1>1, <1>2
<1> QED
  BY <1>2, <1>3

-----------------------------------------------------------------------------
(* Sums over finite sets                                                   *)

AnyOf(T) == CHOOSE x \in T : TRUE

\* g is the sum of f over every subset of U, taken element by element (MapThenFoldSet).
Recurs(g, f, U) ==
  g[{}] = 0 /\ \A T \in SUBSET U : T # {} => g[T] = f[AnyOf(T)] + g[T \ {AnyOf(T)}]
Sums(g, f, U) == g \in [SUBSET U -> Int] /\ Recurs(g, f, U)

\* The subsets of a finite set shrink by one element at a time.
LEMMA Subsets ==
  ASSUME NEW U, IsFiniteSet(U), NEW T \in SUBSET U
  PROVE  /\ IsFiniteSet(T) /\ Cardinality(T) \in 0 .. Cardinality(U) /\ Cardinality(U) \in Nat
         /\ T # {} => AnyOf(T) \in T /\ Cardinality(T) # 0
         /\ Cardinality(T) = 0 => T = {}
         /\ \A x \in T : T \ {x} \in SUBSET U /\ Cardinality(T \ {x}) = Cardinality(T) - 1
<1>1. IsFiniteSet(T) /\ Cardinality(T) <= Cardinality(U) /\ Cardinality(U) \in Nat
      /\ Cardinality(T) \in Nat
  BY FS_Subset, FS_CardinalityType
<1>2. T # {} => AnyOf(T) \in T
  BY DEF AnyOf
<1>3. Cardinality(T) = 0 <=> T = {}
  BY <1>1, FS_EmptySet
<1>4. \A x \in T : Cardinality(T \ {x}) = Cardinality(T) - 1
  BY <1>1, FS_RemoveElement
<1> QED
  BY <1>1, <1>2, <1>3, <1>4

\* Sums of every subset exist.
LEMMA SumsExist ==
  ASSUME NEW U, IsFiniteSet(U), NEW f \in [U -> Int]
  PROVE  \E g : Sums(g, f, U)
<1> DEFINE N == Cardinality(U)
           Step(g, T) == IF T = {} THEN 0 ELSE f[AnyOf(T)] + g[T \ {AnyOf(T)}]
           Good == {n \in 0 .. N : \E g \in [SUBSET U -> Int] :
                      \A T \in SUBSET U : Cardinality(T) <= n => g[T] = Step(g, T)}
<1>1. N \in Nat /\ U \in SUBSET U /\ {} \in SUBSET U
  BY FS_CardinalityType
<1>2. ASSUME NEW g \in [SUBSET U -> Int], NEW T \in SUBSET U PROVE Step(g, T) \in Int
  BY Subsets
<1>3. 0 \in Good
  <2> DEFINE g == [T \in SUBSET U |-> 0]
  <2>1. \A T \in SUBSET U : Cardinality(T) <= 0 => g[T] = Step(g, T)
    <3> SUFFICES ASSUME NEW T \in SUBSET U, Cardinality(T) <= 0 PROVE g[T] = Step(g, T)
      OBVIOUS
    <3>1. T = {}
      BY Subsets
    <3> QED
      BY <3>1
  <2>2. g \in [SUBSET U -> Int]
    OBVIOUS
  <2> HIDE DEF g, Step
  <2> QED
    BY <1>1, <2>1, <2>2
<1>4. ASSUME NEW n \in 1 .. N, n - 1 \in Good PROVE n \in Good
  <2>1. PICK g \in [SUBSET U -> Int] :
               \A T \in SUBSET U : Cardinality(T) <= n - 1 => g[T] = Step(g, T)
    BY <1>4
  <2> DEFINE h == [T \in SUBSET U |-> Step(g, T)]
  <2>2. h \in [SUBSET U -> Int]
    BY <1>2
  <2>3. ASSUME NEW T \in SUBSET U, Cardinality(T) <= n - 1 PROVE h[T] = g[T]
    BY <2>1, <2>3
  <2>4. ASSUME NEW T \in SUBSET U, Cardinality(T) <= n PROVE h[T] = Step(h, T)
    <3>1. CASE T = {}
      BY <3>1
    <3>2. CASE T # {}
      <4>1. T \ {AnyOf(T)} \in SUBSET U /\ Cardinality(T \ {AnyOf(T)}) <= n - 1
        BY <1>1, <2>4, <3>2, Subsets
      <4>2. h[T \ {AnyOf(T)}] = g[T \ {AnyOf(T)}]
        BY <2>3, <4>1
      <4> QED
        BY <3>2, <4>2
    <3> QED
      BY <3>1, <3>2
  <2> HIDE DEF h, Step
  <2> QED
    BY <1>1, <2>2, <2>4
<1>5. N \in Good
  <2> HIDE DEF Good, N
  <2> QED
    BY <1>1, <1>3, <1>4, Climb
<1>6. PICK g \in [SUBSET U -> Int] : \A T \in SUBSET U : Cardinality(T) <= N => g[T] = Step(g, T)
  BY <1>5
<1>7. ASSUME NEW T \in SUBSET U PROVE g[T] = Step(g, T)
  BY <1>6, Subsets
<1> QED
  BY <1>1, <1>7 DEF Sums, Recurs

\* The sum does not depend on which element is taken first.
InAnyOrder(g, f, U) == \A T \in SUBSET U : \A x \in T : g[T] = f[x] + g[T \ {x}]

\* Whichever element goes first, the sum is the same.
LEMMA AnyOrder ==
  ASSUME NEW U, IsFiniteSet(U), NEW f \in [U -> Int], NEW g, Sums(g, f, U)
  PROVE  InAnyOrder(g, f, U)
<1> DEFINE N == Cardinality(U)
           Good == {n \in 0 .. N : \A T \in SUBSET U : Cardinality(T) = n =>
                      \A x \in T : g[T] = f[x] + g[T \ {x}]}
<1>1. N \in Nat
  BY FS_CardinalityType
<1>2. 0 \in Good
  BY <1>1, Subsets
<1>3. ASSUME NEW n \in 1 .. N, n - 1 \in Good PROVE n \in Good
  <2> SUFFICES ASSUME NEW T \in SUBSET U, Cardinality(T) = n, NEW x \in T
               PROVE  g[T] = f[x] + g[T \ {x}]
    OBVIOUS
  <2> DEFINE y == AnyOf(T)
  <2>1. y \in T /\ g[T] = f[y] + g[T \ {y}]
    BY DEF AnyOf, Sums, Recurs
  <2> HIDE DEF y
  <2>2. CASE x = y
    BY <2>1, <2>2
  <2>3. CASE x # y
    <3>1. /\ T \ {x} \in SUBSET U /\ Cardinality(T \ {x}) = n - 1
          /\ T \ {y} \in SUBSET U /\ Cardinality(T \ {y}) = n - 1
      BY <2>1, Subsets
    <3>2. g[T \ {y}] = f[x] + g[(T \ {y}) \ {x}]
      BY <1>3, <2>3, <3>1
    <3>3. g[T \ {x}] = f[y] + g[(T \ {x}) \ {y}]
      BY <1>3, <2>1, <2>3, <3>1
    <3>4. (T \ {x}) \ {y} = (T \ {y}) \ {x} /\ (T \ {x}) \ {y} \in SUBSET U
      OBVIOUS
    <3>5. f[x] \in Int /\ f[y] \in Int /\ g[(T \ {y}) \ {x}] \in Int
      BY <2>1, <3>4 DEF Sums, Recurs
    <3>6. \A a, b, c \in Int : a + (b + c) = b + (a + c)
      OBVIOUS
    <3>7. g[T] = f[y] + (f[x] + g[(T \ {y}) \ {x}])
      BY <2>1, <3>2
    <3>8. f[x] + g[T \ {x}] = f[x] + (f[y] + g[(T \ {y}) \ {x}])
      BY <3>3, <3>4
    <3> HIDE DEF Good
    <3> QED
      BY <3>5, <3>6, <3>7, <3>8
  <2> QED
    BY <2>2, <2>3
<1>4. \A n \in 0 .. N : n \in Good
  <2> HIDE DEF Good, N
  <2> QED
    BY <1>1, <1>2, <1>3, Climb
<1>5. \A T \in SUBSET U : \A x \in T : g[T] = f[x] + g[T \ {x}]
  BY <1>4, Subsets
<1> QED
  BY <1>5 DEF InAnyOrder

\* Two sums agree on what both are sums of.
LEMMA SumsAgree ==
  ASSUME NEW U, IsFiniteSet(U), NEW f \in [U -> Int], NEW g, Sums(g, f, U),
         NEW V, V \subseteq U, NEW h, Recurs(h, f, V)
  PROVE  \A T \in SUBSET V : h[T] = g[T]
<1> DEFINE N == Cardinality(U)
           Good == {n \in 0 .. N : \A T \in SUBSET V : Cardinality(T) = n => h[T] = g[T]}
<1>1. N \in Nat
  BY FS_CardinalityType
<1>2. 0 \in Good
  <2>1. \A T \in SUBSET V : Cardinality(T) = 0 => T = {}
    BY Subsets
  <2>2. h[{}] = g[{}]
    BY DEF Sums, Recurs
  <2> QED
    BY <1>1, <2>1, <2>2
<1>3. ASSUME NEW n \in 1 .. N, n - 1 \in Good PROVE n \in Good
  <2> SUFFICES ASSUME NEW T \in SUBSET V, Cardinality(T) = n PROVE h[T] = g[T]
    OBVIOUS
  <2>1. T \in SUBSET U /\ T # {}
    BY FS_EmptySet
  <2>2. AnyOf(T) \in T /\ T \ {AnyOf(T)} \in SUBSET V /\ Cardinality(T \ {AnyOf(T)}) = n - 1
    BY <2>1, Subsets
  <2>3. h[T \ {AnyOf(T)}] = g[T \ {AnyOf(T)}]
    BY <1>3, <2>2
  <2> QED
    BY <2>1, <2>2, <2>3 DEF Sums, Recurs
<1>4. \A n \in 0 .. N : n \in Good
  <2> HIDE DEF Good, N
  <2> QED
    BY <1>1, <1>2, <1>3, Climb
<1> QED
  BY <1>4, Subsets

\* The sum of f over U.
Total(f, U) == (CHOOSE g : Sums(g, f, U))[U]

\* The sum over a finite set is a number, and the only one.
LEMMA TotalIs ==
  ASSUME NEW U, IsFiniteSet(U), NEW f \in [U -> Int]
  PROVE  /\ Sums(CHOOSE g : Sums(g, f, U), f, U)
         /\ Total(f, U) \in Int
         /\ \A g : Sums(g, f, U) => Total(f, U) = g[U]
<1>1. Sums(CHOOSE g : Sums(g, f, U), f, U)
  BY SumsExist
<1> DEFINE c == CHOOSE g : Sums(g, f, U)
<1>2. Sums(c, f, U) /\ Total(f, U) = c[U]
  BY <1>1 DEF Total
<1> HIDE DEF c
<1>3. c[U] \in Int
  BY <1>2 DEF Sums, Recurs
<1>4. ASSUME NEW g, Sums(g, f, U) PROVE c[U] = g[U]
  BY <1>2, <1>4, SumsAgree DEF Sums
<1> QED
  BY <1>1, <1>2, <1>3, <1>4

\* What the recursion of MapThenFoldSet computes is the sum.
LEMMA RecursionSums ==
  ASSUME NEW U, IsFiniteSet(U), NEW f \in [U -> Int], NEW iter, Recurs(iter, f, U)
  PROVE  Total(f, U) = iter[U]
<1>1. PICK g : Sums(g, f, U)
  BY SumsExist
<1>2. iter[U] = g[U]
  BY <1>1, SumsAgree
<1> QED
  BY <1>1, <1>2, TotalIs

\* One element is set aside.
LEMMA TotalWith ==
  ASSUME NEW U, IsFiniteSet(U), NEW f \in [U -> Int], NEW i \in U
  PROVE  Total(f, U) = f[i] + Total([j \in U \ {i} |-> f[j]], U \ {i})
<1> DEFINE V == U \ {i}
           e == [j \in V |-> f[j]]
<1>1. PICK g : Sums(g, f, U)
  BY SumsExist
<1>2. IsFiniteSet(V) /\ e \in [V -> Int] /\ V \subseteq U
  BY FS_Subset
<1>3. PICK k : Sums(k, e, V)
  <2> HIDE DEF e, V
  <2> QED
    BY <1>2, SumsExist
<1>4. Recurs(k, f, V)
  <2>1. \A T \in SUBSET V : T # {} => AnyOf(T) \in V
    BY DEF AnyOf
  <2>2. \A T \in SUBSET V : T # {} => e[AnyOf(T)] = f[AnyOf(T)]
    BY <2>1
  <2> HIDE DEF e, V
  <2> QED
    BY <1>3, <2>2 DEF Sums, Recurs
<1>5. k[V] = g[V]
  <2> HIDE DEF e, V
  <2> QED
    BY <1>1, <1>2, <1>4, SumsAgree
<1>6. Total(f, U) = g[U] /\ Total(e, V) = k[V]
  <2>1. Total(f, U) = g[U]
    BY <1>1, TotalIs
  <2> HIDE DEF e, V
  <2> QED
    BY <1>2, <1>3, <2>1, TotalIs
<1>7. g[U] = f[i] + g[V]
  BY <1>1, AnyOrder DEF InAnyOrder
<1> QED
  BY <1>5, <1>6, <1>7

\* One value changes.
LEMMA TotalChanges ==
  ASSUME NEW U, IsFiniteSet(U), NEW f \in [U -> Int], NEW h \in [U -> Int], NEW i \in U,
         \A j \in U \ {i} : h[j] = f[j]
  PROVE  Total(h, U) = Total(f, U) - f[i] + h[i]
<1> DEFINE e == [j \in U \ {i} |-> f[j]]
<1>1. e = [j \in U \ {i} |-> h[j]]
  OBVIOUS
<1>2. e \in [U \ {i} -> Int] /\ IsFiniteSet(U \ {i})
  BY FS_Subset
<1>3. Total(e, U \ {i}) \in Int
  <2> HIDE DEF e
  <2> QED
    BY <1>2, TotalIs
<1>4. Total(f, U) = f[i] + Total(e, U \ {i})
  BY TotalWith
<1>5. Total(h, U) = h[i] + Total(e, U \ {i})
  <2>1. Total(h, U) = h[i] + Total([j \in U \ {i} |-> h[j]], U \ {i})
    BY TotalWith
  <2> QED
    BY <1>1, <2>1
<1>6. f[i] \in Int /\ h[i] \in Int
  OBVIOUS
<1> QED
  BY <1>3, <1>4, <1>5, <1>6

\* A sum, and its steps whatever is taken first.
LEMMA SumInAnyOrder ==
  ASSUME NEW U, IsFiniteSet(U), NEW f \in [U -> Int]
  PROVE  \E g : Sums(g, f, U) /\ Total(f, U) = g[U] /\ InAnyOrder(g, f, U)
<1>1. PICK g : Sums(g, f, U)
  BY SumsExist
<1>2. Total(f, U) = g[U]
  BY <1>1, TotalIs
<1>3. InAnyOrder(g, f, U)
  BY <1>1, AnyOrder
<1> QED
  BY <1>1, <1>2, <1>3

\* The same values at other places.
LEMMA TotalMoves ==
  ASSUME NEW U, IsFiniteSet(U), NEW f \in [U -> Int],
         NEW V, IsFiniteSet(V), NEW e \in [V -> Int],
         NEW b \in Bijection(V, U),
         \A x \in V : e[x] = f[b[x]]
  PROVE  Total(e, V) = Total(f, U)
<1>0. /\ b \in [V -> U] /\ \A x, y \in V : b[x] = b[y] => x = y
      /\ \A u \in U : \E x \in V : b[x] = u
  BY DEF Bijection, Injection, Surjection, IsInjective
<1>1. PICK g : Sums(g, f, U) /\ Total(f, U) = g[U] /\ InAnyOrder(g, f, U)
  BY SumInAnyOrder
<1>2. PICK k : Sums(k, e, V) /\ Total(e, V) = k[V]
  BY SumInAnyOrder
<1> DEFINE image == [T \in SUBSET V |-> {b[x] : x \in T}]
           h == [T \in SUBSET V |-> g[image[T]]]
<1>3. Recurs(h, e, V)
  <2>1. h[{}] = 0
    <3>1. image[{}] = {}
      OBVIOUS
    <3> QED
      BY <1>1, <3>1 DEF Sums, Recurs
  <2>2. ASSUME NEW T \in SUBSET V, T # {}
        PROVE  h[T] = e[AnyOf(T)] + h[T \ {AnyOf(T)}]
    <3> DEFINE x == AnyOf(T)
    <3>1. x \in T
      BY <2>2 DEF AnyOf
    <3> HIDE DEF x
    <3>2. image[T] \in SUBSET U /\ b[x] \in image[T]
      BY <1>0, <3>1
    <3>3. image[T \ {x}] = image[T] \ {b[x]}
      BY <1>0, <3>1
    <3>4. g[image[T]] = f[b[x]] + g[image[T] \ {b[x]}]
      <4> HIDE DEF image
      <4> QED
        BY <1>1, <3>2 DEF InAnyOrder
    <3>5. h[T] = g[image[T]] /\ h[T \ {x}] = g[image[T \ {x}]]
      <4> HIDE DEF image
      <4> QED
        OBVIOUS
    <3>6. e[x] = f[b[x]]
      BY <3>1
    <3> HIDE DEF h, image
    <3> QED
      BY <3>3, <3>4, <3>5, <3>6 DEF x
  <2> HIDE DEF h
  <2> QED
    BY <2>1, <2>2 DEF Recurs
<1>4. h[V] = k[V]
  <2> HIDE DEF h
  <2> QED
    BY <1>2, <1>3, SumsAgree
<1>5. h[V] = g[U]
  <2>1. image[V] = U
    BY <1>0
  <2> QED
    BY <2>1
<1> QED
  BY <1>1, <1>2, <1>4, <1>5

\* A sum of zeros is zero.
LEMMA TotalOfNothing ==
  ASSUME NEW U, IsFiniteSet(U), NEW f \in [U -> Int], \A j \in U : f[j] = 0
  PROVE  Total(f, U) = 0
<1>1. PICK g : Sums(g, f, U)
  BY SumsExist
<1>2. Total(f, U) = g[U]
  BY <1>1, TotalIs
<1> DEFINE h == [T \in SUBSET U |-> 0]
<1>3. Recurs(h, f, U)
  BY Subsets DEF Recurs
<1>4. h[U] = g[U]
  <2> HIDE DEF h
  <2> QED
    BY <1>1, <1>3, SumsAgree
<1> QED
  BY <1>2, <1>4

-----------------------------------------------------------------------------
(* Who has an item in hand, and who may still take it                      *)

\* The places in the queues of the questions of s about v, of the removals of v and of the
\* answers about v.
Questions(q, s, v) == {i \in DOMAIN q : q[i].kind = "pickup" /\ q[i].by = s /\ q[i].vid = v}
Removals(q, v) == {i \in DOMAIN q : q[i].kind = "remove" /\ q[i].vid = v}
Answers(q, v) == {i \in DOMAIN q : q[i].vid = v}

\* Between handlers a session has nothing in hand.
HandEmpty(s) == at[s] \in {"idle", "store", "gone"} => left[s] = 0 /\ vid[s] = 0

\* An item is in one hand, all of it until the first piece is placed, and who has it in hand has
\* asked nothing more about it.
OneHand(s) ==
  vid[s] # 0 =>
    /\ takers[vid[s]] \subseteq {s}
    /\ \A t \in Sessions : vid[t] = vid[s] => t = s
    /\ takers[vid[s]] = {} => left[s] = ground[vid[s]] /\ left[s] > 0
    /\ Questions(intents, s, vid[s]) = {} /\ Answers(events[s], vid[s]) = {}

\* An item of which pieces were placed is in hand, about to be removed, or gone.
WhoTook(v) ==
  /\ v >= nextVid => takers[v] = {}
  /\ Removals(intents, v) # {} => takers[v] # {}
  /\ takers[v] # {} => \/ \E s \in Sessions : vid[s] = v
                       \/ Removals(intents, v) # {}
                       \/ ground[v] = 0

\* At most one question or answer about an item is under way to or from a session.
OneQuestion(s, v) ==
  /\ \A i, j \in Questions(intents, s, v) : i = j
  /\ \A i, j \in Answers(events[s], v) : i = j
  /\ Questions(intents, s, v) = {} \/ Answers(events[s], v) = {}
  /\ v \notin pending[s] => Questions(intents, s, v) = {} /\ Answers(events[s], v) = {}

\* Who placed pieces of an item and asks again finds nothing there; as long as nobody did, the
\* answers are what the ground has.
LateQuestion(s, v) ==
  /\ s \in takers[v] =>
       /\ \A i \in Questions(intents, s, v) :
            ground[v] = 0 \/ \E j \in Removals(intents, v) : j < i
       /\ \A i \in Answers(events[s], v) : events[s][i].count = 0
  /\ takers[v] = {} => \A i \in Answers(events[s], v) : events[s][i].count = ground[v]

Orderly == /\ \A s \in Sessions : HandEmpty(s) /\ OneHand(s)
           /\ \A v \in Vids : WhoTook(v)
           /\ \A s \in Sessions, v \in Vids : OneQuestion(s, v) /\ LateQuestion(s, v)
Clean == excuses = {}

\* A message joins the queue (Send).
LEMMA QueueAppended ==
  ASSUME NEW q \in Seq(Intents), NEW m \in Intents, NEW s \in Sessions, NEW v \in Vids
  PROVE  /\ Questions(Append(q, m), s, v) =
              IF m.kind = "pickup" /\ m.by = s /\ m.vid = v
              THEN Questions(q, s, v) \cup {Len(q) + 1} ELSE Questions(q, s, v)
         /\ Removals(Append(q, m), v) =
              IF m.kind = "remove" /\ m.vid = v
              THEN Removals(q, v) \cup {Len(q) + 1} ELSE Removals(q, v)
         /\ \A i \in Questions(q, s, v) \cup Removals(q, v) : i \in 1 .. Len(q)
<1> DEFINE more == Append(q, m)
           last == Len(q) + 1
<1>1. /\ DOMAIN more = (DOMAIN q) \cup {last} /\ DOMAIN q = 1 .. Len(q) /\ Len(q) \in Nat
      /\ \A i \in 1 .. Len(q) : more[i] = q[i]
      /\ more[last] = m /\ last \notin DOMAIN q
  OBVIOUS
<1> HIDE DEF more, last
<1>2. Questions(more, s, v) = IF m.kind = "pickup" /\ m.by = s /\ m.vid = v
                              THEN Questions(q, s, v) \cup {last} ELSE Questions(q, s, v)
  BY <1>1 DEF Questions
<1>3. Removals(more, v) = IF m.kind = "remove" /\ m.vid = v
                          THEN Removals(q, v) \cup {last} ELSE Removals(q, v)
  BY <1>1 DEF Removals
<1>4. \A i \in Questions(q, s, v) \cup Removals(q, v) : i \in 1 .. Len(q)
  BY <1>1 DEF Questions, Removals
<1> QED
  BY <1>2, <1>3, <1>4 DEF more, last

\* The world takes the message at the head (World).
LEMMA TailOf ==
  ASSUME NEW S, NEW q \in Seq(S), q # <<>>
  PROVE  /\ \A i \in DOMAIN Tail(q) : i \in Nat \ {0} /\ i + 1 \in DOMAIN q /\ Tail(q)[i] = q[i + 1]
         /\ \A i \in DOMAIN q : /\ i \in Nat \ {0}
                                /\ i # 1 => i - 1 \in DOMAIN Tail(q) /\ Tail(q)[i - 1] = q[i]
         /\ 1 \in DOMAIN q /\ Head(q) = q[1]
<1> DEFINE rest == Tail(q)
<1>1. /\ DOMAIN rest = 1 .. (Len(q) - 1) /\ DOMAIN q = 1 .. Len(q) /\ Len(q) \in Nat \ {0}
      /\ \A i \in 1 .. (Len(q) - 1) : rest[i] = q[i + 1]
      /\ Head(q) = q[1]
  OBVIOUS
<1> HIDE DEF rest
<1>2. /\ \A i \in DOMAIN rest : i \in Nat \ {0} /\ i + 1 \in DOMAIN q /\ rest[i] = q[i + 1]
      /\ \A i \in DOMAIN q : /\ i \in Nat \ {0}
                             /\ i # 1 => i - 1 \in DOMAIN rest /\ rest[i - 1] = q[i]
      /\ 1 \in DOMAIN q /\ Head(q) = q[1]
  BY <1>1
<1> QED
  BY <1>2 DEF rest

\* The questions left when the head of the queue is gone (World).
LEMMA QuestionsShifted ==
  ASSUME NEW q \in Seq(Intents), q # <<>>, NEW s \in Sessions, NEW v \in Vids
  PROVE  /\ \A i \in Questions(Tail(q), s, v) : i \in Nat \ {0} /\ i + 1 \in Questions(q, s, v)
         /\ 1 \in Questions(q, s, v) <=>
              Head(q).kind = "pickup" /\ Head(q).by = s /\ Head(q).vid = v
<1>1. /\ \A i \in DOMAIN Tail(q) : i \in Nat \ {0} /\ i + 1 \in DOMAIN q /\ Tail(q)[i] = q[i + 1]
      /\ 1 \in DOMAIN q /\ Head(q) = q[1]
  BY TailOf
<1>2. \A i \in Questions(Tail(q), s, v) : i \in Nat \ {0} /\ i + 1 \in Questions(q, s, v)
  BY <1>1, Zenon DEF Questions
<1>3. 1 \in Questions(q, s, v) <=> Head(q).kind = "pickup" /\ Head(q).by = s /\ Head(q).vid = v
  BY <1>1, Zenon DEF Questions
<1> QED
  BY <1>2, <1>3

\* The removals left when the head of the queue is gone (World).
LEMMA RemovalsShifted ==
  ASSUME NEW q \in Seq(Intents), q # <<>>, NEW v \in Vids
  PROVE  /\ \A i \in Removals(Tail(q), v) : i \in Nat \ {0} /\ i + 1 \in Removals(q, v)
         /\ \A i \in Removals(q, v) :
              i \in Nat \ {0} /\ (i # 1 => i - 1 \in Removals(Tail(q), v))
         /\ 1 \in Removals(q, v) <=> Head(q).kind = "remove" /\ Head(q).vid = v
<1>1. /\ \A i \in DOMAIN Tail(q) : i \in Nat \ {0} /\ i + 1 \in DOMAIN q /\ Tail(q)[i] = q[i + 1]
      /\ \A i \in DOMAIN q : /\ i \in Nat \ {0}
                             /\ i # 1 => i - 1 \in DOMAIN Tail(q) /\ Tail(q)[i - 1] = q[i]
      /\ 1 \in DOMAIN q /\ Head(q) = q[1]
  BY TailOf
<1>2. \A i \in Removals(Tail(q), v) : i \in Nat \ {0} /\ i + 1 \in Removals(q, v)
  BY <1>1, Zenon DEF Removals
<1>3. \A i \in Removals(q, v) : i \in Nat \ {0} /\ (i # 1 => i - 1 \in Removals(Tail(q), v))
  BY <1>1, Zenon DEF Removals
<1>4. 1 \in Removals(q, v) <=> Head(q).kind = "remove" /\ Head(q).vid = v
  BY <1>1, Zenon DEF Removals
<1> QED
  BY <1>2, <1>3, <1>4

\* A session takes the answer at the head (Take, PickupRefused).
LEMMA AnswersShifted ==
  ASSUME NEW q \in Seq(Results), q # <<>>, NEW v \in Vids
  PROVE  /\ \A i \in Answers(Tail(q), v) :
              i \in Nat \ {0} /\ i + 1 \in Answers(q, v) /\ Tail(q)[i] = q[i + 1]
         /\ 1 \in Answers(q, v) <=> Head(q).vid = v
         /\ Head(q) = q[1]
<1>1. /\ \A i \in DOMAIN Tail(q) : i \in Nat \ {0} /\ i + 1 \in DOMAIN q /\ Tail(q)[i] = q[i + 1]
      /\ 1 \in DOMAIN q /\ Head(q) = q[1]
  BY TailOf
<1>2. \A i \in Answers(Tail(q), v) :
        i \in Nat \ {0} /\ i + 1 \in Answers(q, v) /\ Tail(q)[i] = q[i + 1]
  BY <1>1, Zenon DEF Answers
<1>3. 1 \in Answers(q, v) <=> Head(q).vid = v
  BY <1>1, Zenon DEF Answers
<1> QED
  BY <1>1, <1>2, <1>3

\* An answer joins the queue of the session (WorldPickup).
LEMMA AnswersAppended ==
  ASSUME NEW q \in Seq(Results), NEW e \in Results, NEW v \in Vids
  PROVE  /\ Answers(Append(q, e), v) =
              IF e.vid = v THEN Answers(q, v) \cup {Len(q) + 1} ELSE Answers(q, v)
         /\ \A i \in Answers(q, v) : i \in 1 .. Len(q) /\ Append(q, e)[i] = q[i]
         /\ Append(q, e)[Len(q) + 1] = e
<1> DEFINE more == Append(q, e)
           last == Len(q) + 1
<1>1. /\ DOMAIN more = (DOMAIN q) \cup {last} /\ DOMAIN q = 1 .. Len(q) /\ Len(q) \in Nat
      /\ \A i \in 1 .. Len(q) : more[i] = q[i]
      /\ more[last] = e /\ last \notin DOMAIN q
  OBVIOUS
<1> HIDE DEF more, last
<1>2. Answers(more, v) = IF e.vid = v THEN Answers(q, v) \cup {last} ELSE Answers(q, v)
  BY <1>1 DEF Answers
<1>3. \A i \in Answers(q, v) : i \in 1 .. Len(q) /\ more[i] = q[i]
  BY <1>1 DEF Answers
<1> QED
  BY <1>1, <1>2, <1>3 DEF more, last

\* The questions of a closed connection are nobody's; its removals stay (Orphaned).
LEMMA QueueOrphaned ==
  ASSUME NEW q \in Seq(Intents), NEW s \in Sessions, NEW t \in Sessions, NEW v \in Vids
  PROVE  /\ Questions(Orphaned(q, s), t, v) = IF t = s THEN {} ELSE Questions(q, t, v)
         /\ Removals(Orphaned(q, s), v) = Removals(q, v)
<1> DEFINE o == Orphaned(q, s)
<1>1. \A i \in DOMAIN q : q[i] \in Intents
  OBVIOUS
<1>2. /\ DOMAIN o = DOMAIN q
      /\ \A i \in DOMAIN q :
           /\ o[i].kind = q[i].kind /\ o[i].vid = q[i].vid
           /\ o[i].by = IF q[i].by = s THEN NoSession ELSE q[i].by
  BY <1>1 DEF Orphaned, Intents
<1>3. NoSession # t
  BY Limits
<1> HIDE DEF o
<1>4. Questions(o, t, v) = IF t = s THEN {} ELSE Questions(q, t, v)
  BY <1>2, <1>3 DEF Questions
<1>5. Removals(o, v) = Removals(q, v)
  BY <1>2 DEF Removals
<1> QED
  BY <1>4, <1>5 DEF o

\* Where the questions, the answers and the removals stay, so does their order.
LEMMA SameQuestions ==
  ASSUME NEW s \in Sessions, NEW v \in Vids, OneQuestion(s, v), LateQuestion(s, v),
         UNCHANGED <<events[s], pending[s], ground[v], takers[v]>>,
         Questions(intents', s, v) = Questions(intents, s, v),
         Removals(intents', v) = Removals(intents, v)
  PROVE  OneQuestion(s, v)' /\ LateQuestion(s, v)'
<1>1. OneQuestion(s, v)'
  BY DEF OneQuestion
<1>2. LateQuestion(s, v)'
  BY DEF LateQuestion
<1> QED
  BY <1>1, <1>2

\* A step of one session that takes nothing in hand and places nothing from the ground: what it
\* must show.
LEMMA SessionInOrder ==
  ASSUME Orderly, NEW s \in Sessions, UNCHANGED <<ground, takers, nextVid>>, vid'[s] = vid[s],
         \A t \in Sessions \ {s} :
           /\ UNCHANGED <<at[t], left[t], vid[t], events[t], pending[t]>>
           /\ \A v \in Vids : Questions(intents', t, v) = Questions(intents, t, v),
         \A v \in Vids : Removals(intents', v) = Removals(intents, v),
         HandEmpty(s)', OneHand(s)', \A v \in Vids : OneQuestion(s, v)' /\ LateQuestion(s, v)',
         \A t \in Sessions : vid[t] # 0 => vid[t] \in Vids
  PROVE  Orderly'
<1>1. ASSUME NEW t \in Sessions \ {s} PROVE HandEmpty(t)' /\ OneHand(t)'
  <2>1. HandEmpty(t)'
    BY DEF Orderly, HandEmpty
  <2>2. \A r \in Sessions : vid'[r] = vid[r]
    OBVIOUS
  <2>3. OneHand(t)'
    BY <2>2 DEF Orderly, OneHand
  <2> QED
    BY <2>1, <2>3
<1>2. ASSUME NEW v \in Vids PROVE WhoTook(v)'
  <2>1. WhoTook(v) /\ \A r \in Sessions : vid'[r] = vid[r]
    BY DEF Orderly
  <2> QED
    BY <2>1 DEF WhoTook
<1>3. ASSUME NEW t \in Sessions \ {s}, NEW v \in Vids
      PROVE  OneQuestion(t, v)' /\ LateQuestion(t, v)'
  BY SameQuestions DEF Orderly
<1> QED
  BY <1>1, <1>2, <1>3 DEF Orderly

\* A vid in hand is one of the ground.
LEMMA VidsInHand ==
  ASSUME TypeOK, NEW s \in Sessions, vid[s] # 0
  PROVE  vid[s] \in Vids
BY Limits DEF TypeOK, Vids

\* A step that asks nothing, answers nothing and leaves the ground alone.
LEMMA Unasked ==
  ASSUME IInv, Orderly, NEW s \in Sessions,
         UNCHANGED <<vid, events, pending, ground, takers, nextVid>>,
         \A t \in Sessions \ {s} : UNCHANGED <<at[t], left[t]>>,
         vid[s] # 0 => left'[s] = left[s], HandEmpty(s)',
         \/ intents' = intents
         \/ \E m \in Intents : m.kind = "drop" /\ intents' = Append(intents, m)
  PROVE  Orderly'
<1>0. TypeOK /\ intents \in Seq(Intents)
  BY DEF IInv, TypeOK
<1>1. ASSUME NEW t \in Sessions, NEW v \in Vids
      PROVE  /\ Questions(intents', t, v) = Questions(intents, t, v)
             /\ Removals(intents', v) = Removals(intents, v)
  <2>1. CASE intents' = intents
    BY <2>1
  <2>2. ASSUME NEW m \in Intents, m.kind = "drop", intents' = Append(intents, m)
        PROVE  /\ Questions(intents', t, v) = Questions(intents, t, v)
               /\ Removals(intents', v) = Removals(intents, v)
    BY <1>0, <2>2, QueueAppended
  <2> QED
    BY <2>1, <2>2
<1>2. OneHand(s)'
  <2>1. CASE vid[s] = 0
    BY <2>1 DEF OneHand
  <2>2. CASE vid[s] # 0
    <3>1. PICK v \in Vids : v = vid[s]
      BY <1>0, <2>2, VidsInHand
    <3>2. /\ takers[v] \subseteq {s}
          /\ \A t \in Sessions : vid[t] = v => t = s
          /\ takers[v] = {} => left[s] = ground[v] /\ left[s] > 0
          /\ Questions(intents, s, v) = {} /\ Answers(events[s], v) = {}
      BY <2>2, <3>1 DEF Orderly, OneHand
    <3> QED
      BY <1>1, <2>2, <3>1, <3>2 DEF OneHand
  <2> QED
    BY <2>1, <2>2
<1>3. ASSUME NEW v \in Vids PROVE OneQuestion(s, v)' /\ LateQuestion(s, v)'
  BY <1>1, SameQuestions DEF Orderly
<1>4. \A t \in Sessions \ {s} :
         /\ UNCHANGED <<at[t], left[t], vid[t], events[t], pending[t]>>
         /\ \A v \in Vids : Questions(intents', t, v) = Questions(intents, t, v)
  BY <1>1
<1> QED
  BY <1>0, <1>1, <1>2, <1>3, <1>4, VidsInHand, SessionInOrder

\* A drop of a mob asks for nothing (KillDrop).
LEMMA KillDropInOrder ==
  ASSUME IInv, Orderly, NEW s \in Sessions, KillDrop(s)
  PROVE  Orderly'
<1>1. /\ UNCHANGED <<at, left, vid, events, pending, ground, takers, nextVid>>
      /\ \E m \in Intents : m.kind = "drop" /\ intents' = Append(intents, m)
  BY Limits DEF KillDrop, Send, handler, Intents, Counts
<1>2. HandEmpty(s)'
  BY <1>1 DEF Orderly, HandEmpty
<1> QED
  BY <1>1, <1>2, Unasked

\* A drop asks for nothing (DropItem).
LEMMA DropItemInOrder ==
  ASSUME IInv, Orderly, NEW s \in Sessions, DropItem(s)
  PROVE  Orderly'
<1>1. /\ UNCHANGED <<left, vid, events, pending, ground, takers, nextVid>>
      /\ at[s] = "idle" /\ at' = [at EXCEPT ![s] = "store"]
  BY DEF DropItem, ghosts
<1>2. \E m \in Intents : m.kind = "drop" /\ intents' = Append(intents, m)
  <2>1. PICK want \in 1 .. StackLimit : Send("drop", s, 0, want)
    BY DEF DropItem
  <2> QED
    BY <2>1, Limits DEF Send, Intents, Counts
<1>3. HandEmpty(s)' /\ \A t \in Sessions \ {s} : UNCHANGED <<at[t], left[t]>>
  BY <1>1 DEF Orderly, HandEmpty, IInv, TypeOK
<1> QED
  BY <1>1, <1>2, <1>3, Unasked

\* Writing a row asks for nothing (StoreRow).
LEMMA StoreRowInOrder ==
  ASSUME IInv, Orderly, NEW s \in Sessions, StoreRow(s)
  PROVE  Orderly'
<1>1. /\ UNCHANGED <<left, vid, events, pending, intents, ground, takers, nextVid>>
      /\ at[s] = "store" /\ at' = [at EXCEPT ![s] = "idle"]
  BY DEF StoreRow, ghosts, world
<1>2. HandEmpty(s)' /\ \A t \in Sessions \ {s} : UNCHANGED <<at[t], left[t]>>
  BY <1>1 DEF Orderly, HandEmpty, IInv, TypeOK
<1> QED
  BY <1>1, <1>2, Unasked

\* A split asks for nothing (Split).
LEMMA SplitInOrder ==
  ASSUME IInv, Orderly, NEW s \in Sessions, Split(s)
  PROVE  Orderly'
<1>1. PICK want \in 1 .. StackLimit : left' = [left EXCEPT ![s] = want]
  BY DEF Split
<1>2. /\ UNCHANGED <<vid, events, pending, intents, ground, takers, nextVid>>
      /\ at[s] = "idle" /\ at' = [at EXCEPT ![s] = "newRow"]
  BY DEF Split, ghosts, world
<1>3. HandEmpty(s)' /\ vid[s] = 0 /\ \A t \in Sessions \ {s} : UNCHANGED <<at[t], left[t]>>
  BY <1>1, <1>2 DEF Orderly, HandEmpty, IInv, TypeOK
<1> QED
  BY <1>2, <1>3, Unasked

\* A merge asks for nothing (Merge).
LEMMA MergeInOrder ==
  ASSUME IInv, Orderly, NEW s \in Sessions, Merge(s)
  PROVE  Orderly'
<1>1. /\ UNCHANGED <<left, vid, events, pending, intents, ground, takers, nextVid>>
      /\ at[s] = "idle" /\ at' = [at EXCEPT ![s] = "store"]
  BY DEF Merge, ghosts, world
<1>2. HandEmpty(s)' /\ \A t \in Sessions \ {s} : UNCHANGED <<at[t], left[t]>>
  BY <1>1 DEF Orderly, HandEmpty, IInv, TypeOK
<1> QED
  BY <1>1, <1>2, Unasked

\* A reward is no ground item (Give).
LEMMA GiveInOrder ==
  ASSUME IInv, Orderly, NEW s \in Sessions, Give(s)
  PROVE  Orderly'
<1>1. PICK n \in 1 .. StackLimit : left' = [left EXCEPT ![s] = n]
  BY DEF Give
<1>2. /\ UNCHANGED <<vid, events, pending, intents, ground, takers, nextVid>>
      /\ at[s] = "idle"
      /\ at' = [at EXCEPT ![s] = "stack"] \/ at' = [at EXCEPT ![s] = "newRow"]
  BY DEF Give, world
<1>3. at'[s] \in {"stack", "newRow"} /\ \A t \in Sessions \ {s} : UNCHANGED <<at[t], left[t]>>
  BY <1>1, <1>2 DEF IInv, TypeOK
<1>4. HandEmpty(s)' /\ vid[s] = 0
  BY <1>2, <1>3 DEF Orderly, HandEmpty
<1> QED
  BY <1>2, <1>3, <1>4, Unasked

\* Choosing an id asks for nothing (AllocateId).
LEMMA AllocateIdInOrder ==
  ASSUME IInv, Orderly, NEW s \in Sessions, AllocateId(s)
  PROVE  Orderly'
<1>1. /\ UNCHANGED <<left, vid, events, pending, intents, ground, takers, nextVid>>
      /\ at' = [at EXCEPT ![s] = "insert"]
  BY DEF AllocateId, ghosts, world
<1>2. HandEmpty(s)' /\ \A t \in Sessions \ {s} : UNCHANGED <<at[t], left[t]>>
  BY <1>1 DEF HandEmpty, IInv, TypeOK
<1> QED
  BY <1>1, <1>2, Unasked

\* Who enters has asked for nothing (Enter).
LEMMA EnterInOrder ==
  ASSUME IInv, Orderly, NEW s \in Sessions, Enter(s)
  PROVE  Orderly'
<1>1. /\ UNCHANGED <<left, vid, events, pending, intents, ground, takers, nextVid>>
      /\ at[s] = "gone" /\ at' = [at EXCEPT ![s] = "idle"]
  BY DEF Enter, ghosts, world
<1>2. HandEmpty(s)' /\ \A t \in Sessions \ {s} : UNCHANGED <<at[t], left[t]>>
  BY <1>1 DEF Orderly, HandEmpty, IInv, TypeOK
<1> QED
  BY <1>1, <1>2, Unasked

\* A question is asked when no other about the item is under way; who placed pieces of it comes
\* after the removal (handle_pickup).
LEMMA PickupInOrder ==
  ASSUME IInv, Orderly, NEW s \in Sessions, Pickup(s)
  PROVE  Orderly'
<1>0. TypeOK /\ intents \in Seq(Intents) /\ at[s] = "idle"
  BY DEF IInv, TypeOK, Pickup
<1>1. PICK v \in Vids : /\ v \notin pending[s] /\ pending' = [pending EXCEPT ![s] = @ \cup {v}]
                        /\ Send("pickup", s, v, 0)
  BY DEF Pickup
<1>2. UNCHANGED <<at, left, vid, events, ground, takers, nextVid>>
  BY DEF Pickup, handler, ghosts
<1>3. PICK m \in Intents : /\ m.kind = "pickup" /\ m.by = s /\ m.vid = v
                           /\ intents' = Append(intents, m)
  BY <1>1, Limits DEF Send, Intents, Counts, Vids
<1>4. ASSUME NEW t \in Sessions, NEW w \in Vids
      PROVE  /\ Questions(intents', t, w) = IF t = s /\ w = v
                                            THEN Questions(intents, t, w) \cup {Len(intents) + 1}
                                            ELSE Questions(intents, t, w)
             /\ Removals(intents', w) = Removals(intents, w)
             /\ \A i \in Removals(intents, w) : i < Len(intents) + 1
  <2>1. \A i \in Removals(intents, w) : i \in 1 .. Len(intents)
    BY <1>0, <1>3, QueueAppended
  <2>2. Len(intents) \in Nat
    BY <1>0
  <2> QED
    BY <1>0, <1>3, <2>1, <2>2, QueueAppended
<1>5. pending'[s] = pending[s] \cup {v} /\ \A t \in Sessions \ {s} : pending'[t] = pending[t]
  BY <1>0, <1>1 DEF TypeOK
<1>6. vid[s] = 0 /\ HandEmpty(s)' /\ OneHand(s)'
  BY <1>0, <1>2 DEF Orderly, HandEmpty, OneHand
<1>7. ASSUME NEW w \in Vids PROVE OneQuestion(s, w)' /\ LateQuestion(s, w)'
  <2>1. CASE w # v
    <3>1. w \in pending'[s] <=> w \in pending[s]
      BY <1>5, <2>1
    <3>2. /\ OneQuestion(s, w) /\ LateQuestion(s, w)
          /\ UNCHANGED <<events[s], ground[w], takers[w]>>
          /\ Questions(intents', s, w) = Questions(intents, s, w)
          /\ Removals(intents', w) = Removals(intents, w)
      BY <1>2, <1>4, <2>1 DEF Orderly
    <3>3. OneQuestion(s, w)'
      BY <3>1, <3>2 DEF OneQuestion
    <3>4. LateQuestion(s, w)'
      BY <3>2 DEF LateQuestion
    <3> QED
      BY <3>3, <3>4
  <2>2. CASE w = v
    <3>1. Questions(intents, s, v) = {} /\ Answers(events[s], v) = {}
      BY <1>1 DEF Orderly, OneQuestion
    <3>2. OneQuestion(s, w)'
      BY <1>2, <1>4, <1>5, <2>2, <3>1 DEF OneQuestion
    <3>3. s \in takers[v] => ground[v] = 0 \/ Removals(intents, v) # {}
      <4>1. ASSUME NEW t \in Sessions, vid[t] = v PROVE s \notin takers[v]
        <5>1. v # 0
          BY DEF Vids
        <5>2. takers[v] \subseteq {t} /\ t # s
          BY <1>6, <4>1, <5>1 DEF Orderly, OneHand
        <5> QED
          BY <5>2
      <4> QED
        BY <4>1 DEF Orderly, WhoTook
    <3>4. LateQuestion(s, w)'
      BY <1>2, <1>4, <2>2, <3>1, <3>3 DEF LateQuestion
    <3> QED
      BY <3>2, <3>4
  <2> QED
    BY <2>1, <2>2
<1>8. \A t \in Sessions \ {s} :
         /\ UNCHANGED <<at[t], left[t], vid[t], events[t], pending[t]>>
         /\ \A w \in Vids : Questions(intents', t, w) = Questions(intents, t, w)
  BY <1>2, <1>4, <1>5
<1> QED
  BY <1>0, <1>2, <1>4, <1>6, <1>7, <1>8, VidsInHand, SessionInOrder

\* With its answer taken nothing about the item is under way any more (Take, PickupRefused).
LEMMA AnswerConsumed ==
  ASSUME TypeOK, Orderly, NEW s \in Sessions, events[s] # <<>>, events'[s] = Tail(events[s]),
         pending'[s] = pending[s] \ {Head(events[s]).vid}, UNCHANGED <<intents, ground, takers>>
  PROVE  /\ \A v \in Vids : OneQuestion(s, v)' /\ LateQuestion(s, v)'
         /\ Questions(intents, s, Head(events[s]).vid) = {}
         /\ Answers(Tail(events[s]), Head(events[s]).vid) = {}
<1>0. events[s] \in Seq(Results)
  BY DEF TypeOK
<1>1. PICK v \in Vids : v = Head(events[s]).vid
  <2>1. Head(events[s]) \in Results
    BY <1>0, ElementsOf
  <2> QED
    BY <2>1 DEF Results
<1>2. ASSUME NEW w \in Vids
      PROVE  \A i \in Answers(events'[s], w) : /\ i \in Nat \ {0} /\ i + 1 \in Answers(events[s], w)
                                               /\ events'[s][i] = events[s][i + 1]
  <2>1. \A i \in Answers(Tail(events[s]), w) :
          /\ i \in Nat \ {0} /\ i + 1 \in Answers(events[s], w)
          /\ Tail(events[s])[i] = events[s][i + 1]
    BY <1>0, AnswersShifted
  <2> QED
    BY <2>1
<1>3. 1 \in Answers(events[s], v)
  BY <1>0, <1>1, AnswersShifted
<1>4. Questions(intents, s, v) = {} /\ Answers(events'[s], v) = {}
  <2>1. Questions(intents, s, v) = {}
    BY <1>3 DEF Orderly, OneQuestion
  <2>2. ASSUME NEW i \in Answers(events'[s], v) PROVE FALSE
    <3>1. i \in Nat \ {0} /\ i + 1 \in Answers(events[s], v)
      BY <1>2
    <3>2. i + 1 = 1
      BY <1>3, <3>1 DEF Orderly, OneQuestion
    <3> QED
      BY <3>1, <3>2
  <2> QED
    BY <2>1, <2>2
<1>5. ASSUME NEW w \in Vids PROVE OneQuestion(s, w)' /\ LateQuestion(s, w)'
  <2>1. CASE w = v
    <3>1. OneQuestion(s, w)'
      BY <1>4, <2>1 DEF OneQuestion
    <3>2. LateQuestion(s, w)'
      BY <1>4, <2>1 DEF LateQuestion
    <3> QED
      BY <3>1, <3>2
  <2>2. CASE w # v
    <3>1. OneQuestion(s, w) /\ LateQuestion(s, w) /\ (w \in pending'[s] <=> w \in pending[s])
      BY <1>1, <2>2 DEF Orderly
    <3>2. \A i, j \in Answers(events'[s], w) : i = j
      <4>1. SUFFICES ASSUME NEW i \in Answers(events'[s], w), NEW j \in Answers(events'[s], w)
                     PROVE  i = j
        OBVIOUS
      <4>2. /\ i \in Nat \ {0} /\ i + 1 \in Answers(events[s], w)
            /\ j \in Nat \ {0} /\ j + 1 \in Answers(events[s], w)
        BY <1>2
      <4>3. i + 1 = j + 1
        BY <3>1, <4>2 DEF OneQuestion
      <4> QED
        BY <4>2, <4>3
    <3>3. Answers(events[s], w) = {} => Answers(events'[s], w) = {}
      BY <1>2
    <3>4. OneQuestion(s, w)'
      BY <3>1, <3>2, <3>3 DEF OneQuestion
    <3>5. /\ s \in takers'[w] => \A i \in Answers(events'[s], w) : events'[s][i].count = 0
          /\ takers'[w] = {} => \A i \in Answers(events'[s], w) : events'[s][i].count = ground'[w]
      <4>1. ASSUME NEW i \in Answers(events'[s], w)
            PROVE  /\ s \in takers[w] => events'[s][i].count = 0
                   /\ takers[w] = {} => events'[s][i].count = ground[w]
        <5>1. i + 1 \in Answers(events[s], w) /\ events'[s][i] = events[s][i + 1]
          BY <1>2
        <5>2. /\ s \in takers[w] => events[s][i + 1].count = 0
              /\ takers[w] = {} => events[s][i + 1].count = ground[w]
          BY <3>1, <5>1 DEF LateQuestion
        <5> QED
          BY <5>1, <5>2
      <4> QED
        BY <4>1
    <3>6. s \in takers'[w] => \A i \in Questions(intents', s, w) :
                                ground'[w] = 0 \/ \E j \in Removals(intents', w) : j < i
      BY <3>1 DEF LateQuestion
    <3>7. LateQuestion(s, w)'
      BY <3>5, <3>6 DEF LateQuestion
    <3> QED
      BY <3>4, <3>7
  <2> QED
    BY <2>1, <2>2
<1> QED
  BY <1>1, <1>4, <1>5

\* An answer that is refused leaves the vid free to be asked for (PickupRefused).
LEMMA PickupRefusedInOrder ==
  ASSUME IInv, Orderly, NEW s \in Sessions, PickupRefused(s)
  PROVE  Orderly'
<1>0. TypeOK /\ at[s] = "idle" /\ events[s] # <<>>
  BY DEF IInv, PickupRefused
<1>1. /\ UNCHANGED <<at, left, vid, intents, ground, takers, nextVid>>
      /\ pending' = [pending EXCEPT ![s] = @ \ {Head(events[s]).vid}]
      /\ events' = [events EXCEPT ![s] = Tail(@)]
  BY DEF PickupRefused, handler, world, ghosts
<1>2. /\ pending'[s] = pending[s] \ {Head(events[s]).vid} /\ events'[s] = Tail(events[s])
      /\ \A t \in Sessions \ {s} : UNCHANGED <<events[t], pending[t]>>
  BY <1>0, <1>1 DEF TypeOK
<1>3. HandEmpty(s)' /\ OneHand(s)'
  BY <1>0, <1>1 DEF Orderly, HandEmpty, OneHand
<1>4. \A v \in Vids : OneQuestion(s, v)' /\ LateQuestion(s, v)'
  BY <1>0, <1>1, <1>2, AnswerConsumed
<1> QED
  BY <1>0, <1>1, <1>2, <1>3, <1>4, VidsInHand, SessionInOrder

\* Only a session with nothing in hand leaves cleanly.
LEMMA DisconnectInOrder ==
  ASSUME IInv, Orderly, NEW s \in Sessions, Disconnect(s), Clean'
  PROVE  Orderly'
<1>0. TypeOK /\ intents \in Seq(Intents)
  BY DEF IInv, TypeOK
<1>1. /\ UNCHANGED <<ground, takers, nextVid>>
      /\ at' = [at EXCEPT ![s] = "gone"] /\ left' = [left EXCEPT ![s] = 0]
      /\ vid' = [vid EXCEPT ![s] = 0]
      /\ pending' = [pending EXCEPT ![s] = {}] /\ events' = [events EXCEPT ![s] = <<>>]
      /\ intents' = Orphaned(intents, s)
  BY DEF Disconnect
<1>2. at[s] = "idle"
  BY DEF Disconnect, Clean
<1>3. /\ at'[s] = "gone" /\ left'[s] = 0 /\ vid'[s] = 0 /\ pending'[s] = {} /\ events'[s] = <<>>
      /\ \A t \in Sessions \ {s} : UNCHANGED <<at[t], left[t], vid[t], events[t], pending[t]>>
  BY <1>0, <1>1 DEF TypeOK
<1>4. vid[s] = 0 /\ HandEmpty(s)' /\ OneHand(s)'
  BY <1>2, <1>3 DEF Orderly, HandEmpty, OneHand
<1>5. ASSUME NEW t \in Sessions, NEW v \in Vids
      PROVE  /\ Questions(intents', t, v) = IF t = s THEN {} ELSE Questions(intents, t, v)
             /\ Removals(intents', v) = Removals(intents, v)
  BY <1>0, <1>1, QueueOrphaned
<1>6. ASSUME NEW v \in Vids PROVE OneQuestion(s, v)' /\ LateQuestion(s, v)'
  <2>1. Questions(intents', s, v) = {} /\ Answers(events'[s], v) = {}
    BY <1>3, <1>5 DEF Answers
  <2> QED
    BY <2>1 DEF OneQuestion, LateQuestion
<1> QED
  BY <1>0, <1>1, <1>3, <1>4, <1>5, <1>6, VidsInHand, SessionInOrder

\* Unless two sessions race for it, who takes an item in hand takes all of it, and nobody has
\* placed a piece of it (Take).
LEMMA TakenWhole ==
  ASSUME IInv, Orderly, NEW s \in Sessions, Take(s), Clean'
  PROVE  \E v \in Vids :
           /\ Head(events[s]).vid = v /\ Head(events[s]).count = ground[v] /\ ground[v] > 0
           /\ vid' = [vid EXCEPT ![s] = v] /\ left' = [left EXCEPT ![s] = ground[v]]
           /\ vid[s] = 0 /\ left[s] = 0 /\ takers[v] = {} /\ Removals(intents, v) = {}
           /\ \A t \in Sessions : vid[t] # v
<1>0. TypeOK /\ events[s] # <<>> /\ at[s] = "idle" /\ Head(events[s]).count > 0
  BY DEF IInv, Take, TakeInHand
<1>1. PICK e \in Results : e = Head(events[s])
  BY <1>0, ElementsOf DEF TypeOK
<1>2. PICK v \in Vids : v = e.vid
  BY DEF Results
<1>3. /\ vid' = [vid EXCEPT ![s] = v] /\ left' = [left EXCEPT ![s] = e.count]
      /\ ~Contended(s, v) /\ v # 0
  <2>1. excuses' = IF Contended(s, v) THEN excuses \cup {"raced"} ELSE excuses
    BY <1>1, <1>2 DEF Take, TakeInHand
  <2>2. vid' = [vid EXCEPT ![s] = v] /\ left' = [left EXCEPT ![s] = e.count]
    BY <1>1, <1>2 DEF Take, TakeInHand
  <2>3. ~Contended(s, v)
    BY <2>1 DEF Clean
  <2>4. v # 0
    BY DEF Vids
  <2> QED
    BY <2>2, <2>3, <2>4
<1>4. vid[s] = 0 /\ left[s] = 0
  BY <1>0 DEF Orderly, HandEmpty
<1>5. takers[v] \subseteq {s} /\ \A t \in Sessions : vid[t] # v
  BY <1>3, <1>4 DEF Contended
<1>6. 1 \in Answers(events[s], v) /\ events[s][1] = e
  <2>1. events[s] \in Seq(Results)
    BY <1>0 DEF TypeOK
  <2> QED
    BY <1>0, <1>1, <1>2, <2>1, AnswersShifted
<1>7. takers[v] = {} /\ e.count = ground[v]
  <2>1. LateQuestion(s, v) /\ e.count # 0
    BY <1>0, <1>1 DEF Orderly, Results, Counts
  <2>2. s \notin takers[v]
    BY <1>6, <2>1 DEF LateQuestion
  <2>3. takers[v] = {}
    BY <1>5, <2>2
  <2> QED
    BY <1>6, <2>1, <2>3 DEF LateQuestion
<1>8. Removals(intents, v) = {}
  BY <1>7 DEF Orderly, WhoTook
<1> QED
  BY <1>0, <1>1, <1>2, <1>3, <1>4, <1>5, <1>7, <1>8

\* The hands of the others stay as they are when the item is not theirs.
LEMMA OtherHands ==
  ASSUME TypeOK, Orderly, NEW s \in Sessions, NEW t \in Sessions \ {s}, NEW v \in Vids,
         vid'[s] \in {v, 0}, vid[t] # v, \A r \in Sessions \ {s} : vid'[r] = vid[r],
         UNCHANGED <<at[t], left[t], events[t], ground>>,
         \A w \in Vids \ {v} : takers'[w] = takers[w],
         \A w \in Vids : Questions(intents', t, w) = Questions(intents, t, w)
  PROVE  HandEmpty(t)' /\ OneHand(t)'
<1>1. HandEmpty(t)' /\ vid'[t] = vid[t]
  BY DEF Orderly, HandEmpty
<1>2. CASE vid[t] = 0
  BY <1>1, <1>2 DEF OneHand
<1>3. CASE vid[t] # 0
  <2>1. PICK w \in Vids \ {v} : w = vid[t]
    BY <1>3, VidsInHand
  <2>2. /\ takers[w] \subseteq {t}
        /\ \A r \in Sessions : vid[r] = w => r = t
        /\ takers[w] = {} => left[t] = ground[w] /\ left[t] > 0
        /\ Questions(intents, t, w) = {} /\ Answers(events[t], w) = {}
    BY <1>3, <2>1 DEF Orderly, OneHand
  <2>3. \A r \in Sessions : vid'[r] = w => r = t
    BY <1>3, <2>1, <2>2
  <2> QED
    BY <1>1, <2>1, <2>2, <2>3 DEF OneHand
<1> QED
  BY <1>1, <1>2, <1>3

\* The item goes into one hand, whole (Take).
LEMMA TakeInOrder ==
  ASSUME IInv, Orderly, NEW s \in Sessions, Take(s), Clean'
  PROVE  Orderly'
<1>0. TypeOK /\ events[s] # <<>> /\ at[s] = "idle"
  BY DEF IInv, Take, TakeInHand
<1>1. PICK v \in Vids :
        /\ Head(events[s]).vid = v /\ Head(events[s]).count = ground[v] /\ ground[v] > 0
        /\ vid' = [vid EXCEPT ![s] = v] /\ left' = [left EXCEPT ![s] = ground[v]]
        /\ vid[s] = 0 /\ left[s] = 0 /\ takers[v] = {} /\ Removals(intents, v) = {}
        /\ \A t \in Sessions : vid[t] # v
  BY TakenWhole
<1>2. /\ UNCHANGED <<intents, ground, takers, nextVid>>
      /\ at' = [at EXCEPT ![s] = "stack"]
      /\ pending' = [pending EXCEPT ![s] = @ \ {Head(events[s]).vid}]
      /\ events' = [events EXCEPT ![s] = Tail(@)]
  BY DEF Take, TakeInHand, world
<1>3. /\ at'[s] = "stack" /\ left'[s] = ground[v] /\ vid'[s] = v
      /\ pending'[s] = pending[s] \ {Head(events[s]).vid} /\ events'[s] = Tail(events[s])
      /\ \A t \in Sessions \ {s} : UNCHANGED <<at[t], left[t], vid[t], events[t], pending[t]>>
  BY <1>0, <1>1, <1>2 DEF TypeOK
<1>4. /\ \A w \in Vids : OneQuestion(s, w)' /\ LateQuestion(s, w)'
      /\ Questions(intents, s, v) = {} /\ Answers(events'[s], v) = {}
  BY <1>0, <1>1, <1>2, <1>3, AnswerConsumed
<1>5. HandEmpty(s)'
  BY <1>3 DEF HandEmpty
<1>6. OneHand(s)'
  <2>1. \A t \in Sessions : vid'[t] = v => t = s
    BY <1>1, <1>3
  <2> QED
    BY <1>1, <1>2, <1>3, <1>4, <2>1 DEF OneHand
<1>7. ASSUME NEW t \in Sessions \ {s} PROVE HandEmpty(t)' /\ OneHand(t)'
  BY <1>0, <1>1, <1>2, <1>3, OtherHands
<1>8. ASSUME NEW w \in Vids PROVE WhoTook(w)'
  <2>1. ASSUME NEW t \in Sessions, vid[t] = w PROVE vid'[t] = w
    <3>1. w # 0
      BY DEF Vids
    <3> QED
      BY <1>1, <1>3, <2>1, <3>1
  <2>2. WhoTook(w)
    BY DEF Orderly
  <2> QED
    BY <1>2, <2>1, <2>2 DEF WhoTook
<1>9. ASSUME NEW t \in Sessions \ {s}, NEW w \in Vids
      PROVE  OneQuestion(t, w)' /\ LateQuestion(t, w)'
  BY <1>2, <1>3, SameQuestions DEF Orderly
<1> QED
  BY <1>4, <1>5, <1>6, <1>7, <1>8, <1>9 DEF Orderly

\* What a session with an item in hand knows of it.
LEMMA Holding ==
  ASSUME IInv, Orderly, NEW s \in Sessions, vid[s] # 0
  PROVE  \E v \in Vids :
           /\ v = vid[s] /\ v # 0 /\ v < nextVid /\ takers[v] \subseteq {s}
           /\ \A t \in Sessions \ {s} : vid[t] # v
           /\ takers[v] = {} => left[s] = ground[v] /\ left[s] > 0
           /\ Questions(intents, s, v) = {} /\ Answers(events[s], v) = {}
BY VidsInHand DEF IInv, InHand, Behind, Orderly, OneHand

\* Placing pieces makes the session the only taker (Stack).
LEMMA StackInOrder ==
  ASSUME IInv, Orderly, NEW s \in Sessions, Stack(s)
  PROVE  Orderly'
<1>0. TypeOK /\ at[s] = "stack"
  BY DEF IInv, Stack
<1>1. /\ UNCHANGED <<at, vid, events, pending, intents, ground, nextVid>>
      /\ \E n : left' = [left EXCEPT ![s] = @ - n] /\ Taken(s, n)
  BY DEF Stack, world
<1>2. \A t \in Sessions \ {s} : left'[t] = left[t]
  BY <1>0, <1>1 DEF TypeOK
<1>3. HandEmpty(s)'
  BY <1>0, <1>1 DEF HandEmpty
<1>4. CASE vid[s] = 0
  <2>1. UNCHANGED takers
    BY <1>1, <1>4 DEF Taken
  <2> QED
    BY <1>1, <1>2, <1>3, <1>4, <2>1, Unasked
<1>5. CASE vid[s] # 0
  <2>1. PICK v \in Vids :
          /\ v = vid[s] /\ v # 0 /\ v < nextVid /\ takers[v] \subseteq {s}
          /\ \A t \in Sessions \ {s} : vid[t] # v
          /\ takers[v] = {} => left[s] = ground[v] /\ left[s] > 0
          /\ Questions(intents, s, v) = {} /\ Answers(events[s], v) = {}
    BY <1>5, Holding
  <2>2. takers'[v] = {s} /\ \A w \in Vids \ {v} : takers'[w] = takers[w]
    BY <1>0, <1>1, <1>5, <2>1 DEF Taken, TypeOK
  <2>3. OneHand(s)'
    BY <1>1, <2>1, <2>2 DEF OneHand
  <2>4. ASSUME NEW t \in Sessions \ {s} PROVE HandEmpty(t)' /\ OneHand(t)'
    BY <1>0, <1>1, <1>2, <2>1, <2>2, OtherHands
  <2>5. ASSUME NEW w \in Vids PROVE WhoTook(w)'
    <3>1. CASE w = v
      <4>1. v \in Nat /\ nextVid \in Nat
        BY <1>0, Limits DEF TypeOK, Vids
      <4> QED
        BY <1>1, <2>1, <2>2, <3>1, <4>1 DEF WhoTook
    <3>2. CASE w # v
      <4>1. takers'[w] = takers[w] /\ WhoTook(w)
        BY <2>2, <3>2 DEF Orderly
      <4> QED
        BY <1>1, <4>1 DEF WhoTook
    <3> QED
      BY <3>1, <3>2
  <2>6. ASSUME NEW t \in Sessions, NEW w \in Vids PROVE OneQuestion(t, w)' /\ LateQuestion(t, w)'
    <3>1. OneQuestion(t, w)'
      <4>1. OneQuestion(t, w)
        BY DEF Orderly
      <4> QED
        BY <1>1, <4>1 DEF OneQuestion
    <3>2. CASE w # v
      BY <1>1, <2>2, <3>2, SameQuestions DEF Orderly
    <3>3. CASE w = v /\ t = s
      BY <1>1, <2>1, <2>2, <3>1, <3>3 DEF LateQuestion
    <3>4. CASE w = v /\ t # s
      BY <2>2, <3>1, <3>4 DEF LateQuestion
    <3> QED
      BY <3>2, <3>3, <3>1, <3>4
  <2> QED
    BY <1>3, <2>3, <2>4, <2>5, <2>6 DEF Orderly
<1> QED
  BY <1>4, <1>5

\* The last piece is placed and the removal is sent (StackDone, Insert).
LEMMA RemovalInOrder ==
  ASSUME IInv, Orderly, NEW s \in Sessions, vid[s] # 0, Done(s),
         UNCHANGED <<events, pending, ground, nextVid>>, Send("remove", s, vid[s], 0),
         takers' = [takers EXCEPT ![vid[s]] = @ \cup {s}]
  PROVE  Orderly'
<1>0. TypeOK /\ intents \in Seq(Intents)
  BY DEF IInv, TypeOK
<1>1. PICK v \in Vids :
        /\ v = vid[s] /\ v # 0 /\ v < nextVid /\ takers[v] \subseteq {s}
        /\ \A t \in Sessions \ {s} : vid[t] # v
        /\ takers[v] = {} => left[s] = ground[v] /\ left[s] > 0
        /\ Questions(intents, s, v) = {} /\ Answers(events[s], v) = {}
  BY Holding
<1>2. PICK m \in Intents : m.kind = "remove" /\ m.vid = v /\ intents' = Append(intents, m)
  BY <1>1, Limits DEF Send, Intents, Counts, Vids
<1>3. ASSUME NEW t \in Sessions, NEW w \in Vids
      PROVE  /\ Questions(intents', t, w) = Questions(intents, t, w)
             /\ w # v => Removals(intents', w) = Removals(intents, w)
             /\ w = v => Removals(intents', w) # {}
  BY <1>0, <1>2, QueueAppended
<1>4. /\ at'[s] = "idle" /\ left'[s] = 0 /\ vid'[s] = 0
      /\ \A t \in Sessions \ {s} : UNCHANGED <<at[t], left[t], vid[t]>>
  BY <1>0 DEF Done, TypeOK
<1>5. takers'[v] = {s} /\ \A w \in Vids \ {v} : takers'[w] = takers[w]
  BY <1>0, <1>1 DEF TypeOK
<1>6. HandEmpty(s)' /\ OneHand(s)'
  BY <1>4 DEF HandEmpty, OneHand
<1>7. ASSUME NEW t \in Sessions \ {s} PROVE HandEmpty(t)' /\ OneHand(t)'
  <2>1. \A w \in Vids : Questions(intents', t, w) = Questions(intents, t, w)
    BY <1>3
  <2> QED
    BY <1>0, <1>1, <1>4, <1>5, <2>1, OtherHands
<1>8. ASSUME NEW w \in Vids PROVE WhoTook(w)'
  <2>1. CASE w = v
    <3>1. v \in Nat /\ nextVid \in Nat
      BY <1>0, Limits DEF TypeOK, Vids
    <3> QED
      BY <1>1, <1>3, <1>5, <2>1, <3>1 DEF WhoTook
  <2>2. CASE w # v
    <3>1. takers'[w] = takers[w] /\ WhoTook(w) /\ Removals(intents', w) = Removals(intents, w)
      BY <1>3, <1>5, <2>2 DEF Orderly
    <3>2. ASSUME NEW t \in Sessions, vid[t] = w PROVE vid'[t] = w
      BY <1>1, <1>4, <2>2, <3>2
    <3> QED
      BY <3>1, <3>2 DEF WhoTook
  <2> QED
    BY <2>1, <2>2
<1>9. ASSUME NEW t \in Sessions, NEW w \in Vids PROVE OneQuestion(t, w)' /\ LateQuestion(t, w)'
  <2>0. Questions(intents', t, w) = Questions(intents, t, w)
    BY <1>3
  <2>1. OneQuestion(t, w)'
    <3>1. OneQuestion(t, w)
      BY DEF Orderly
    <3> QED
      BY <2>0, <3>1 DEF OneQuestion
  <2>2. CASE w # v
    BY <1>3, <1>5, <2>2, SameQuestions DEF Orderly
  <2>3. CASE w = v /\ t = s
    <3>1. Questions(intents', s, v) = {} /\ Answers(events'[s], v) = {}
      BY <1>1, <2>0, <2>3
    <3> QED
      BY <1>5, <2>1, <2>3, <3>1 DEF LateQuestion
  <2>4. CASE w = v /\ t # s
    <3>1. t \notin takers'[v] /\ takers'[v] # {}
      BY <1>5, <2>4
    <3> QED
      BY <2>1, <2>4, <3>1 DEF LateQuestion
  <2> QED
    BY <2>1, <2>2, <2>3, <2>4
<1> QED
  BY <1>6, <1>7, <1>8, <1>9 DEF Orderly

\* A handler that ends asks for the removal of what it took (StackDone).
LEMMA StackDoneInOrder ==
  ASSUME IInv, Orderly, NEW s \in Sessions, StackDone(s)
  PROVE  Orderly'
<1>0. TypeOK /\ left[s] = 0
  BY DEF IInv, StackDone
<1>1. /\ UNCHANGED <<events, pending, ground, nextVid, takers>> /\ Done(s)
      /\ IF vid[s] = 0 THEN UNCHANGED intents ELSE Send("remove", s, vid[s], 0)
  BY DEF StackDone, ghosts
<1>2. CASE vid[s] = 0
  <2>1. /\ at'[s] = "idle" /\ left'[s] = 0 /\ UNCHANGED vid
        /\ \A t \in Sessions \ {s} : UNCHANGED <<at[t], left[t]>>
    BY <1>0, <1>1, <1>2 DEF Done, TypeOK
  <2>2. HandEmpty(s)'
    BY <1>2, <2>1 DEF HandEmpty
  <2> QED
    BY <1>1, <1>2, <2>1, <2>2, Unasked
<1>3. CASE vid[s] # 0
  <2>1. PICK v \in Vids :
          /\ v = vid[s] /\ takers[v] \subseteq {s}
          /\ takers[v] = {} => left[s] = ground[v] /\ left[s] > 0
    BY <1>3, Holding
  <2>2. takers[v] = {s}
    BY <1>0, <2>1
  <2>3. takers' = [takers EXCEPT ![vid[s]] = @ \cup {s}]
    BY <1>0, <1>1, <2>1, <2>2 DEF TypeOK
  <2> QED
    BY <1>1, <1>3, <2>3, RemovalInOrder
<1> QED
  BY <1>2, <1>3

\* The rest reaches a new row and the removal is asked for (Insert).
LEMMA InsertInOrder ==
  ASSUME IInv, Orderly, NEW s \in Sessions, Insert(s)
  PROVE  Orderly'
<1>0. TypeOK
  BY DEF IInv
<1>1. /\ UNCHANGED <<events, pending, ground, nextVid>> /\ Done(s)
      /\ IF vid[s] = 0 THEN UNCHANGED intents ELSE Send("remove", s, vid[s], 0)
      /\ Taken(s, left[s])
  BY DEF Insert
<1>2. CASE vid[s] = 0
  <2>1. /\ at'[s] = "idle" /\ left'[s] = 0 /\ UNCHANGED <<vid, takers>>
        /\ \A t \in Sessions \ {s} : UNCHANGED <<at[t], left[t]>>
    BY <1>0, <1>1, <1>2 DEF Done, Taken, TypeOK
  <2>2. HandEmpty(s)'
    BY <1>2, <2>1 DEF HandEmpty
  <2> QED
    BY <1>1, <1>2, <2>1, <2>2, Unasked
<1>3. CASE vid[s] # 0
  BY <1>1, <1>3, RemovalInOrder DEF Taken
<1> QED
  BY <1>2, <1>3

\* An item that does not fit stays on the ground whole (NoCell).
LEMMA NoCellInOrder ==
  ASSUME IInv, Orderly, NEW s \in Sessions, NoCell(s), Clean'
  PROVE  Orderly'
<1>0. TypeOK
  BY DEF IInv
<1>1. UNCHANGED <<events, pending, intents, ground, nextVid, takers>> /\ Done(s)
  BY DEF NoCell, world
<1>2. vid[s] # 0 /\ takers[vid[s]] = {}
  BY DEF NoCell, Clean
<1>3. PICK v \in Vids : v = vid[s] /\ v # 0 /\ \A t \in Sessions \ {s} : vid[t] # v
  BY <1>2, Holding
<1>4. /\ at'[s] = "idle" /\ left'[s] = 0 /\ vid'[s] = 0
      /\ \A t \in Sessions \ {s} : UNCHANGED <<at[t], left[t], vid[t]>>
  BY <1>0, <1>1 DEF Done, TypeOK
<1>5. HandEmpty(s)' /\ OneHand(s)'
  BY <1>4 DEF HandEmpty, OneHand
<1>6. ASSUME NEW t \in Sessions \ {s} PROVE HandEmpty(t)' /\ OneHand(t)'
  BY <1>0, <1>1, <1>3, <1>4, OtherHands
<1>7. ASSUME NEW w \in Vids PROVE WhoTook(w)'
  <2>1. WhoTook(w)
    BY DEF Orderly
  <2>2. CASE w = v
    BY <1>1, <1>2, <1>3, <2>1, <2>2 DEF WhoTook
  <2>3. CASE w # v
    <3>1. ASSUME NEW t \in Sessions, vid[t] = w PROVE vid'[t] = w
      BY <1>3, <1>4, <2>3, <3>1
    <3> QED
      BY <1>1, <2>1, <3>1 DEF WhoTook
  <2> QED
    BY <2>2, <2>3
<1>8. ASSUME NEW t \in Sessions, NEW w \in Vids PROVE OneQuestion(t, w)' /\ LateQuestion(t, w)'
  BY <1>1, SameQuestions DEF Orderly
<1> QED
  BY <1>5, <1>6, <1>7, <1>8 DEF Orderly

\* The item keeps its count, or a removal takes it away.
KeptOrRemoved(v) ==
  \/ ground'[v] = ground[v] /\ 1 \notin Removals(intents, v)
  \/ ground'[v] = 0 /\ takers[v] # {}

\* What the order of the queues says of a session and an item while the world takes the head.
LEMMA HeadTaken ==
  ASSUME TypeOK, Orderly, intents # <<>>, intents' = Tail(intents), UNCHANGED takers,
         NEW s \in Sessions, UNCHANGED <<events[s], pending[s]>>,
         NEW v \in Vids, KeptOrRemoved(v)
  PROVE  OneQuestion(s, v)' /\ LateQuestion(s, v)'
<1>0. intents \in Seq(Intents)
  BY DEF TypeOK
<1>1. /\ \A i \in Questions(intents', s, v) : i \in Nat \ {0} /\ i + 1 \in Questions(intents, s, v)
      /\ \A i \in Removals(intents, v) :
           i \in Nat \ {0} /\ (i # 1 => i - 1 \in Removals(intents', v))
  BY <1>0, QuestionsShifted, RemovalsShifted
<1>2. OneQuestion(s, v) /\ LateQuestion(s, v)
  BY DEF Orderly
<1>3. OneQuestion(s, v)'
  <2>1. ASSUME NEW i \in Questions(intents', s, v), NEW j \in Questions(intents', s, v)
        PROVE  i = j
    <3>1. i \in Nat \ {0} /\ j \in Nat \ {0} /\ i + 1 = j + 1
      BY <1>1, <1>2 DEF OneQuestion
    <3> QED
      BY <3>1
  <2>2. Questions(intents, s, v) = {} => Questions(intents', s, v) = {}
    BY <1>1
  <2> QED
    BY <1>2, <2>1, <2>2 DEF OneQuestion
<1>4. ASSUME s \in takers[v], NEW i \in Questions(intents', s, v)
      PROVE  ground'[v] = 0 \/ \E j \in Removals(intents', v) : j < i
  <2>1. CASE ground'[v] = 0
    BY <2>1
  <2>2. CASE ground'[v] = ground[v] /\ 1 \notin Removals(intents, v)
    <3>1. i \in Nat \ {0} /\ i + 1 \in Questions(intents, s, v)
      BY <1>1
    <3>2. CASE ground[v] = 0
      BY <2>2, <3>2
    <3>3. ASSUME NEW j \in Removals(intents, v), j < i + 1
          PROVE  \E k \in Removals(intents', v) : k < i
      <4>1. j \in Nat \ {0} /\ j # 1
        BY <1>1, <2>2
      <4>2. j - 1 \in Removals(intents', v) /\ j - 1 < i
        BY <1>1, <3>1, <3>3, <4>1
      <4> QED
        BY <4>2
    <3> QED
      BY <1>2, <1>4, <3>1, <3>2, <3>3 DEF LateQuestion
  <2> QED
    BY <2>1, <2>2 DEF KeptOrRemoved
<1>5. /\ s \in takers[v] => \A i \in Answers(events[s], v) : events[s][i].count = 0
      /\ takers[v] = {} => \A i \in Answers(events[s], v) : events[s][i].count = ground[v]
  BY <1>2 DEF LateQuestion
<1>6. takers[v] = {} => ground'[v] = ground[v]
  BY DEF KeptOrRemoved
<1>7. LateQuestion(s, v)'
  BY <1>4, <1>5, <1>6 DEF LateQuestion
<1> QED
  BY <1>3, <1>7

\* What it says of the item.
LEMMA HeadTakenOf ==
  ASSUME TypeOK, Orderly, intents # <<>>, intents' = Tail(intents), UNCHANGED <<takers, vid>>,
         nextVid' \in {nextVid, nextVid + 1}, NEW v \in Vids, KeptOrRemoved(v)
  PROVE  WhoTook(v)'
<1>0. intents \in Seq(Intents) /\ nextVid \in Nat /\ v \in Nat
  BY Limits DEF TypeOK, Vids
<1>1. /\ \A i \in Removals(intents', v) : i + 1 \in Removals(intents, v)
      /\ \A i \in Removals(intents, v) : i # 1 => i - 1 \in Removals(intents', v)
  BY <1>0, RemovalsShifted
<1>2. WhoTook(v)
  BY DEF Orderly
<1>3. v >= nextVid' => takers[v] = {}
  BY <1>0, <1>2 DEF WhoTook
<1>4. Removals(intents', v) # {} => takers[v] # {}
  BY <1>1, <1>2 DEF WhoTook
<1>5. ASSUME takers[v] # {}
      PROVE  (\E t \in Sessions : vid[t] = v) \/ Removals(intents', v) # {} \/ ground'[v] = 0
  BY <1>1, <1>2, <1>5 DEF WhoTook, KeptOrRemoved
<1> QED
  BY <1>3, <1>4, <1>5 DEF WhoTook

\* What it says of a hand.
LEMMA HeadTakenFrom ==
  ASSUME TypeOK, Orderly, intents # <<>>, intents' = Tail(intents),
         UNCHANGED <<at, left, vid, takers>>, NEW s \in Sessions,
         vid[s] # 0 => KeptOrRemoved(vid[s]) /\ Answers(events'[s], vid[s]) = {}
  PROVE  HandEmpty(s)' /\ OneHand(s)'
<1>1. HandEmpty(s)'
  BY DEF Orderly, HandEmpty
<1>2. CASE vid[s] = 0
  BY <1>1, <1>2 DEF OneHand
<1>3. CASE vid[s] # 0
  <2>1. PICK v \in Vids : v = vid[s]
    BY <1>3, VidsInHand
  <2>2. /\ takers[v] \subseteq {s}
        /\ \A r \in Sessions : vid[r] = v => r = s
        /\ takers[v] = {} => left[s] = ground[v] /\ left[s] > 0
        /\ Questions(intents, s, v) = {}
    BY <1>3, <2>1 DEF Orderly, OneHand
  <2>3. Questions(intents', s, v) = {}
    <3>1. intents \in Seq(Intents)
      BY DEF TypeOK
    <3>2. \A i \in Questions(intents', s, v) : i + 1 \in Questions(intents, s, v)
      BY <3>1, QuestionsShifted
    <3> QED
      BY <2>2, <3>2
  <2>4. takers[v] = {} => ground'[v] = ground[v]
    BY <1>3, <2>1 DEF KeptOrRemoved
  <2>5. OneHand(s)'
    BY <1>3, <2>1, <2>2, <2>3, <2>4 DEF OneHand
  <2> QED
    BY <1>1, <2>5
<1> QED
  BY <1>2, <1>3

\* A new item has no taker yet (WorldDrop).
LEMMA WorldDropInOrder ==
  ASSUME IInv, Orderly, WorldDrop
  PROVE  Orderly'
<1>0. TypeOK /\ intents # <<>> /\ intents \in Seq(Intents) /\ Head(intents).kind = "drop"
  BY DEF IInv, TypeOK, WorldDrop
<1>1. /\ UNCHANGED <<at, left, vid, events, pending, takers>> /\ intents' = Tail(intents)
      /\ ground' = [ground EXCEPT ![nextVid] = Head(intents).count] /\ nextVid' = nextVid + 1
  BY DEF WorldDrop, handler, ghosts
<1>2. ASSUME NEW v \in Vids, v # nextVid PROVE KeptOrRemoved(v)
  <2>1. ground'[v] = ground[v]
    BY <1>0, <1>1, <1>2 DEF TypeOK
  <2>2. ASSUME 1 \in Removals(intents, v) PROVE FALSE
    BY <1>0, <2>2 DEF Removals
  <2> QED
    BY <2>1, <2>2 DEF KeptOrRemoved
<1>3. nextVid \in Nat
  BY <1>0, Limits DEF TypeOK
<1>4. ASSUME NEW s \in Sessions PROVE HandEmpty(s)' /\ OneHand(s)'
  <2>1. ASSUME vid[s] # 0 PROVE KeptOrRemoved(vid[s]) /\ Answers(events'[s], vid[s]) = {}
    <3>1. PICK v \in Vids : v = vid[s] /\ v < nextVid /\ Answers(events[s], v) = {}
      BY <2>1, Holding
    <3>2. v # nextVid
      BY <1>3, <3>1 DEF Vids
    <3> QED
      BY <1>1, <1>2, <3>1, <3>2
  <2> QED
    BY <1>0, <1>1, <2>1, HeadTakenFrom
<1>5. ASSUME NEW v \in Vids, v = nextVid
      PROVE  /\ takers[v] = {} /\ WhoTook(v)'
             /\ \A s \in Sessions : OneQuestion(s, v)' /\ LateQuestion(s, v)'
  <2>1. takers[v] = {} /\ Removals(intents, v) = {}
    BY <1>3, <1>5 DEF Orderly, WhoTook
  <2>2. ASSUME NEW s \in Sessions
        PROVE  Questions(intents', s, v) = {} /\ Answers(events[s], v) = {}
    <3>1. ASSUME NEW i \in Questions(intents', s, v) PROVE FALSE
      <4>1. i + 1 \in Questions(intents, s, v)
        BY <1>0, <1>1, QuestionsShifted
      <4>2. intents[i + 1].kind = "pickup" /\ intents[i + 1].vid = v /\ i + 1 \in DOMAIN intents
        BY <4>1 DEF Questions
      <4>3. intents[i + 1] \in SoundIntents
        <5>1. intents \in Seq(SoundIntents)
          BY DEF IInv, QueuesSound
        <5> QED
          BY <4>2, <5>1
      <4>4. v < nextVid
        BY <4>2, <4>3 DEF SoundIntents, Behind
      <4> QED
        BY <1>3, <1>5, <4>4
    <3>2. ASSUME NEW i \in Answers(events[s], v) PROVE FALSE
      <4>1. events[s][i].vid = v /\ i \in DOMAIN events[s]
        BY <3>2 DEF Answers
      <4>2. events[s][i] \in SoundResults
        <5>1. events[s] \in Seq(SoundResults)
          BY DEF IInv, QueuesSound
        <5> QED
          BY <4>1, <5>1
      <4>3. v < nextVid
        BY <4>1, <4>2 DEF SoundResults, Behind
      <4> QED
        BY <1>3, <1>5, <4>3
    <3> QED
      BY <3>1, <3>2
  <2>3. Removals(intents', v) = {}
    BY <1>0, <1>1, <2>1, RemovalsShifted
  <2>4. WhoTook(v)'
    BY <1>1, <2>1, <2>3 DEF WhoTook
  <2>5. ASSUME NEW s \in Sessions PROVE OneQuestion(s, v)' /\ LateQuestion(s, v)'
    <3>1. Questions(intents', s, v) = {} /\ Answers(events'[s], v) = {}
      BY <1>1, <2>2
    <3> QED
      BY <3>1 DEF OneQuestion, LateQuestion
  <2> QED
    BY <2>1, <2>4, <2>5
<1>6. ASSUME NEW v \in Vids PROVE WhoTook(v)'
  BY <1>0, <1>1, <1>2, <1>5, HeadTakenOf
<1>7. ASSUME NEW s \in Sessions, NEW v \in Vids PROVE OneQuestion(s, v)' /\ LateQuestion(s, v)'
  BY <1>0, <1>1, <1>2, <1>5, HeadTaken
<1> QED
  BY <1>4, <1>6, <1>7 DEF Orderly

\* A question is answered with what the ground has, which nobody else has in hand (WorldPickup).
LEMMA WorldPickupInOrder ==
  ASSUME IInv, Orderly, WorldPickup
  PROVE  Orderly'
<1>0. TypeOK /\ intents # <<>> /\ intents \in Seq(Intents) /\ Head(intents).kind = "pickup"
  BY DEF IInv, TypeOK, WorldPickup
<1>1. /\ UNCHANGED <<at, left, vid, pending, ground, takers, nextVid>> /\ intents' = Tail(intents)
  BY DEF WorldPickup, handler, ghosts
<1>2. PICK q \in SoundIntents : q = Head(intents)
  BY <1>0, ElementsOf DEF IInv, QueuesSound
<1>3. PICK v \in Vids : v = q.vid
  BY <1>0, <1>2 DEF SoundIntents, Behind
<1>4. q.by \in Sessions \cup {NoSession} /\ NoSession \notin Sessions
  BY <1>2, Limits DEF SoundIntents, Intents
<1>5. PICK e \in Results : e.vid = v /\ e.count = ground[v] /\ e = [vid |-> v, count |-> ground[v]]
  BY <1>0 DEF TypeOK, Results
<1>6. /\ \A t \in Sessions : t # q.by => events'[t] = events[t]
      /\ q.by \in Sessions => events'[q.by] = Append(events[q.by], e)
  <2>1. events' = IF q.by = NoSession THEN events ELSE [events EXCEPT ![q.by] = Append(@, e)]
    BY <1>2, <1>3, <1>5 DEF WorldPickup
  <2>2. events \in [Sessions -> Seq(Results)]
    BY <1>0 DEF TypeOK
  <2> QED
    BY <1>4, <2>1, <2>2
<1>7. ASSUME NEW w \in Vids PROVE KeptOrRemoved(w)
  <2>1. 1 \notin Removals(intents, w)
    BY <1>0, RemovalsShifted
  <2> QED
    BY <1>1, <2>1 DEF KeptOrRemoved
<1>8. ASSUME NEW w \in Vids PROVE WhoTook(w)'
  BY <1>0, <1>1, <1>7, HeadTakenOf
<1>9. ASSUME NEW t \in Sessions \ {q.by}
      PROVE  /\ HandEmpty(t)' /\ OneHand(t)'
             /\ \A w \in Vids : OneQuestion(t, w)' /\ LateQuestion(t, w)'
  <2>1. UNCHANGED <<events[t], pending[t]>>
    BY <1>1, <1>6
  <2>2. \A w \in Vids : OneQuestion(t, w)' /\ LateQuestion(t, w)'
    BY <1>0, <1>1, <1>7, <2>1, HeadTaken
  <2>3. ASSUME vid[t] # 0 PROVE KeptOrRemoved(vid[t]) /\ Answers(events'[t], vid[t]) = {}
    BY <1>7, <2>1, <2>3, Holding
  <2> QED
    BY <1>0, <1>1, <2>2, <2>3, HeadTakenFrom
<1>10. ASSUME NEW s \in Sessions, s = q.by
       PROVE  /\ HandEmpty(s)' /\ OneHand(s)'
              /\ \A w \in Vids : OneQuestion(s, w)' /\ LateQuestion(s, w)'
  <2>1. events[s] \in Seq(Results) /\ events'[s] = Append(events[s], e) /\ Len(events[s]) \in Nat
    BY <1>0, <1>6, <1>10 DEF TypeOK
  <2>2. 1 \in Questions(intents, s, v)
    BY <1>0, <1>2, <1>3, <1>10, QuestionsShifted
  <2>3. Answers(events[s], v) = {} /\ v \in pending[s]
    BY <2>2 DEF Orderly, OneQuestion
  <2>4. Questions(intents', s, v) = {}
    <3>1. ASSUME NEW i \in Questions(intents', s, v) PROVE FALSE
      <4>1. i \in Nat \ {0} /\ i + 1 \in Questions(intents, s, v)
        BY <1>0, <1>1, QuestionsShifted
      <4>2. i + 1 = 1
        BY <2>2, <4>1 DEF Orderly, OneQuestion
      <4> QED
        BY <4>1, <4>2
    <3> QED
      BY <3>1
  <2>5. Answers(events'[s], v) = {Len(events[s]) + 1} /\ events'[s][Len(events[s]) + 1].count = ground[v]
    BY <1>5, <2>1, <2>3, AnswersAppended
  <2>6. OneQuestion(s, v)'
    BY <1>1, <2>3, <2>4, <2>5 DEF OneQuestion
  <2>7. s \in takers[v] => ground[v] = 0
    <3>1. ASSUME NEW j \in Removals(intents, v), j < 1 PROVE FALSE
      <4>1. j \in Nat \ {0}
        BY <1>0, RemovalsShifted
      <4> QED
        BY <3>1, <4>1
    <3> QED
      BY <2>2, <3>1 DEF Orderly, LateQuestion
  <2>8. LateQuestion(s, v)'
    BY <1>1, <2>4, <2>5, <2>7 DEF LateQuestion
  <2>9. ASSUME NEW w \in Vids, w # v
        PROVE  /\ Answers(events'[s], w) = Answers(events[s], w)
               /\ OneQuestion(s, w)' /\ LateQuestion(s, w)'
    <3>1. /\ Answers(events'[s], w) = Answers(events[s], w)
          /\ \A i \in Answers(events[s], w) : events'[s][i] = events[s][i]
      BY <1>5, <2>1, <2>9, AnswersAppended
    <3>2. /\ \A i \in Questions(intents', s, w) : i \in Nat \ {0} /\ i + 1 \in Questions(intents, s, w)
          /\ \A i \in Removals(intents, w) : i \in Nat \ {0} /\ i - 1 \in Removals(intents', w)
      <4>1. 1 \notin Removals(intents, w)
        BY <1>0, RemovalsShifted
      <4> QED
        BY <1>0, <1>1, <4>1, QuestionsShifted, RemovalsShifted
    <3>3. OneQuestion(s, w) /\ LateQuestion(s, w)
      BY DEF Orderly
    <3>4. ASSUME NEW i \in Questions(intents', s, w), NEW j \in Questions(intents', s, w)
          PROVE  i = j
      <4>1. i \in Nat /\ j \in Nat /\ i + 1 = j + 1
        BY <3>2, <3>3 DEF OneQuestion
      <4> QED
        BY <4>1
    <3>5. Questions(intents, s, w) = {} => Questions(intents', s, w) = {}
      BY <3>2
    <3>6. OneQuestion(s, w)'
      BY <1>1, <3>1, <3>3, <3>4, <3>5 DEF OneQuestion
    <3>7. ASSUME s \in takers[w], ground[w] # 0, NEW i \in Questions(intents', s, w)
          PROVE  \E j \in Removals(intents', w) : j < i
      <4>1. i \in Nat \ {0} /\ i + 1 \in Questions(intents, s, w)
        BY <3>2
      <4>2. PICK j \in Removals(intents, w) : j < i + 1
        BY <3>3, <3>7, <4>1 DEF LateQuestion
      <4>3. j \in Nat \ {0} /\ j - 1 \in Removals(intents', w)
        BY <3>2
      <4>4. j - 1 < i
        BY <4>1, <4>2, <4>3
      <4> QED
        BY <4>3, <4>4
    <3>8. /\ s \in takers[w] => \A i \in Answers(events'[s], w) : events'[s][i].count = 0
          /\ takers[w] = {} => \A i \in Answers(events'[s], w) : events'[s][i].count = ground[w]
      BY <3>1, <3>3 DEF LateQuestion
    <3>9. LateQuestion(s, w)'
      BY <1>1, <3>7, <3>8 DEF LateQuestion
    <3> QED
      BY <3>1, <3>6, <3>9
  <2>10. ASSUME vid[s] # 0 PROVE KeptOrRemoved(vid[s]) /\ Answers(events'[s], vid[s]) = {}
    <3>1. PICK w \in Vids : /\ w = vid[s] /\ Questions(intents, s, w) = {}
                            /\ Answers(events[s], w) = {}
      BY <2>10, Holding
    <3>2. w # v
      BY <2>2, <3>1
    <3> QED
      BY <1>7, <2>9, <3>1, <3>2
  <2>11. HandEmpty(s)' /\ OneHand(s)'
    BY <1>0, <1>1, <2>10, HeadTakenFrom
  <2> QED
    BY <2>6, <2>8, <2>9, <2>11
<1> QED
  BY <1>8, <1>9, <1>10 DEF Orderly

\* Only what was placed leaves the ground (WorldRemove).
LEMMA WorldRemoveInOrder ==
  ASSUME IInv, Orderly, WorldRemove
  PROVE  Orderly'
<1>0. TypeOK /\ intents # <<>> /\ intents \in Seq(Intents) /\ Head(intents).kind = "remove"
  BY DEF IInv, TypeOK, WorldRemove
<1>1. /\ UNCHANGED <<at, left, vid, events, pending, takers, nextVid>> /\ intents' = Tail(intents)
      /\ ground' = [ground EXCEPT ![Head(intents).vid] = 0]
  BY DEF WorldRemove, handler, ghosts
<1>2. ASSUME NEW v \in Vids PROVE KeptOrRemoved(v)
  <2>1. CASE v = Head(intents).vid
    <3>1. ground'[v] = 0
      BY <1>0, <1>1, <2>1 DEF TypeOK
    <3>2. 1 \in Removals(intents, v)
      BY <1>0, <2>1, RemovalsShifted
    <3>3. takers[v] # {}
      BY <3>2 DEF Orderly, WhoTook
    <3> QED
      BY <3>1, <3>3 DEF KeptOrRemoved
  <2>2. CASE v # Head(intents).vid
    <3>1. ground'[v] = ground[v]
      BY <1>0, <1>1, <2>2 DEF TypeOK
    <3>2. 1 \notin Removals(intents, v)
      BY <1>0, <2>2, RemovalsShifted
    <3> QED
      BY <3>1, <3>2 DEF KeptOrRemoved
  <2> QED
    BY <2>1, <2>2
<1>3. ASSUME NEW s \in Sessions PROVE HandEmpty(s)' /\ OneHand(s)'
  <2>1. ASSUME vid[s] # 0 PROVE KeptOrRemoved(vid[s]) /\ Answers(events'[s], vid[s]) = {}
    BY <1>1, <1>2, <2>1, Holding
  <2> QED
    BY <1>0, <1>1, <2>1, HeadTakenFrom
<1>4. ASSUME NEW v \in Vids PROVE WhoTook(v)'
  BY <1>0, <1>1, <1>2, HeadTakenOf
<1>5. ASSUME NEW s \in Sessions, NEW v \in Vids PROVE OneQuestion(s, v)' /\ LateQuestion(s, v)'
  BY <1>0, <1>1, <1>2, HeadTaken
<1> QED
  BY <1>3, <1>4, <1>5 DEF Orderly

\* The order holds before anybody acts.
LEMMA InitOrderly == Init => Orderly
<1> SUFFICES ASSUME Init PROVE Orderly
  OBVIOUS
<1>1. ASSUME NEW s \in Sessions PROVE HandEmpty(s) /\ OneHand(s)
  BY DEF Init, HandEmpty, OneHand
<1>2. ASSUME NEW s \in Sessions, NEW v \in Vids
      PROVE  /\ Questions(intents, s, v) = {} /\ Removals(intents, v) = {}
             /\ Answers(events[s], v) = {} /\ takers[v] = {}
  BY DEF Init, Questions, Removals, Answers
<1>3. ASSUME NEW v \in Vids PROVE WhoTook(v)
  <2>1. Removals(intents, v) = {} /\ takers[v] = {}
    BY DEF Init, Removals
  <2> QED
    BY <2>1 DEF WhoTook
<1>4. ASSUME NEW s \in Sessions, NEW v \in Vids PROVE OneQuestion(s, v) /\ LateQuestion(s, v)
  BY <1>2 DEF OneQuestion, LateQuestion
<1> QED
  BY <1>1, <1>3, <1>4 DEF Orderly

\* Nothing takes an excuse back.
LEMMA ExcusesStay ==
  ASSUME [Next]_vars, Clean'
  PROVE  Clean
<1>1. CASE UNCHANGED vars
  BY <1>1 DEF vars, ghosts, Clean
<1>2. CASE World
  BY <1>2 DEF World, WorldDrop, WorldPickup, WorldRemove, ghosts, Clean
<1>3. ASSUME NEW s \in Sessions, Handle(s) PROVE Clean
  <2>1. excuses \subseteq excuses'
    BY <1>3 DEF Handle, StoreRow, PickupRefused, Take, TakeInHand, Stack, StackDone, NoCell,
                AllocateId, Insert, ghosts
  <2> QED
    BY <2>1 DEF Clean
<1>4. ASSUME NEW s \in Sessions, Ask(s) PROVE Clean
  BY <1>4 DEF Ask, KillDrop, DropItem, Pickup, Split, Merge, Give, ghosts, Clean
<1>5. ASSUME NEW s \in Sessions, Disconnect(s) \/ Enter(s) PROVE Clean
  BY <1>5 DEF Disconnect, Enter, ghosts, Clean
<1> QED
  BY <1>1, <1>2, <1>3, <1>4, <1>5 DEF Next

\* No step breaks the order, as long as nothing is excused.
LEMMA NextOrderly ==
  ASSUME IInv, Orderly, [Next]_vars, Clean'
  PROVE  Orderly'
<1>1. CASE UNCHANGED vars
  <2>1. UNCHANGED <<at, left, vid, pending, events, intents, ground, nextVid, takers>>
    BY <1>1 DEF vars, handler, world, ghosts
  <2> QED
    <3>1. ASSUME NEW s \in Sessions PROVE HandEmpty(s)' /\ OneHand(s)'
      BY <2>1 DEF Orderly, HandEmpty, OneHand
    <3>2. ASSUME NEW v \in Vids PROVE WhoTook(v)'
      <4>1. WhoTook(v)
        BY DEF Orderly
      <4> QED
        BY <2>1, <4>1 DEF WhoTook
    <3>3. ASSUME NEW s \in Sessions, NEW v \in Vids PROVE OneQuestion(s, v)' /\ LateQuestion(s, v)'
      BY <2>1, SameQuestions DEF Orderly
    <3> QED
      BY <3>1, <3>2, <3>3 DEF Orderly
<1>2. CASE World
  BY <1>2, WorldDropInOrder, WorldPickupInOrder, WorldRemoveInOrder DEF World
<1>3. ASSUME NEW s \in Sessions, Handle(s) PROVE Orderly'
  BY <1>3, StoreRowInOrder, PickupRefusedInOrder, TakeInOrder, StackInOrder, StackDoneInOrder,
     NoCellInOrder, AllocateIdInOrder, InsertInOrder DEF Handle
<1>4. ASSUME NEW s \in Sessions, Ask(s) PROVE Orderly'
  BY <1>4, KillDropInOrder, DropItemInOrder, PickupInOrder, SplitInOrder, MergeInOrder,
     GiveInOrder DEF Ask
<1> QED
  BY <1>1, <1>2, <1>3, <1>4, DisconnectInOrder, EnterInOrder DEF Next

-----------------------------------------------------------------------------
(* The pieces, as sums                                                     *)

Share(s) == IF at[s] = "gone" THEN Total(OwnedRows(s), Ids) ELSE Total(inv[s], Ids) + left[s]
Shares == [s \in Sessions |-> Share(s)]
DropCounts(q) == [i \in DOMAIN q |-> IF q[i].kind = "drop" THEN q[i].count ELSE 0]
FallingIn(q) == Total(DropCounts(q), DOMAIN q)
Lying == Total(OnTheGround, Vids)
Counted == Total(Shares, Sessions) + Lying + FallingIn(intents)

\* SumFunction is the sum over the domain.
LEMMA FunctionSum ==
  ASSUME NEW U, IsFiniteSet(U), NEW f \in [U -> Int]
  PROVE  SumFunction(f) = Total(f, U)
<1> DEFINE Rec(g) == [T \in SUBSET U |-> IF T = {} THEN 0 ELSE f[AnyOf(T)] + g[T \ {AnyOf(T)}]]
           iter == CHOOSE g : g = Rec(g)
<1>1. SumFunction(f) = iter[U]
  <2>1. DOMAIN f = U
    OBVIOUS
  <2> QED
    BY <2>1, Zenon DEF SumFunction, SumFunctionOnSet, FoldFunctionOnSet, MapThenFoldSet, AnyOf
<1>2. PICK g : Sums(g, f, U)
  BY SumsExist
<1>3. g = Rec(g)
  BY <1>2 DEF Sums, Recurs
<1>4. iter = Rec(iter)
  <2> HIDE DEF Rec
  <2> QED
    BY <1>3
<1>5. Recurs(iter, f, U)
  <2> HIDE DEF iter
  <2> QED
    BY <1>4 DEF Recurs
<1>6. iter[U] = Total(f, U)
  <2> HIDE DEF iter
  <2> QED
    BY <1>5, RecursionSums
<1> QED
  BY <1>1, <1>6

\* The sums run over finitely many rows, items, players and messages.
LEMMA FiniteParts ==
  /\ IsFiniteSet(Ids) /\ IsFiniteSet(Vids) /\ IsFiniteSet(Sessions)
  /\ \A q \in Seq(Intents) : IsFiniteSet(DOMAIN q)
<1>1. IsFiniteSet(1 .. MaxRows) /\ IsFiniteSet(1 .. MaxDrops)
  BY Limits, FS_Interval
<1>2. ASSUME NEW q \in Seq(Intents) PROVE IsFiniteSet(DOMAIN q)
  <2>1. DOMAIN q = 1 .. Len(q) /\ Len(q) \in Int /\ 1 \in Int
    OBVIOUS
  <2> QED
    BY <2>1, FS_Interval
<1> QED
  BY <1>1, <1>2, SessionsAssumption DEF Ids, Vids

\* What is summed are numbers.
LEMMA QueueSumTypes ==
  ASSUME NEW q \in Seq(Intents)
  PROVE  DropCounts(q) \in [DOMAIN q -> Int] /\ FallingIn(q) \in Int
<1>1. \A i \in DOMAIN q : q[i].count \in Int
  <2>1. \A i \in DOMAIN q : q[i] \in Intents
    OBVIOUS
  <2> QED
    BY <2>1, Limits DEF Intents, Counts
<1>2. DropCounts(q) \in [DOMAIN q -> Int]
  BY <1>1 DEF DropCounts
<1> QED
  BY <1>2, FiniteParts, TotalIs DEF FallingIn

SumsTyped ==
  /\ \A s \in Sessions : /\ inv[s] \in [Ids -> Int] /\ OwnedRows(s) \in [Ids -> Int]
                         /\ Total(inv[s], Ids) \in Int /\ Total(OwnedRows(s), Ids) \in Int
                         /\ left[s] \in Int /\ Share(s) \in Int
  /\ Shares \in [Sessions -> Int] /\ Total(Shares, Sessions) \in Int
  /\ OnTheGround \in [Vids -> Int] /\ Lying \in Int
  /\ FallingIn(intents) \in Int

\* What is summed are numbers, in this state ...
LEMMA SumTypes == TypeOK => SumsTyped
<1> SUFFICES ASSUME TypeOK PROVE SumsTyped
  OBVIOUS
<1>0. Counts \subseteq Int /\ StackLimit \in Nat
  BY Limits DEF Counts
<1>1. ASSUME NEW s \in Sessions
      PROVE  /\ inv[s] \in [Ids -> Int] /\ OwnedRows(s) \in [Ids -> Int]
             /\ Total(inv[s], Ids) \in Int /\ Total(OwnedRows(s), Ids) \in Int
             /\ left[s] \in Int /\ Share(s) \in Int
  <2>1. inv[s] \in [Ids -> Int] /\ left[s] \in Int
    <3>1. inv[s] \in [Ids -> Counts] /\ left[s] \in Counts
      BY DEF TypeOK
    <3> QED
      BY <1>0, <3>1
  <2>2. \A i \in Ids : rows[i].count \in Int
    BY <1>0 DEF TypeOK
  <2>3. OwnedRows(s) \in [Ids -> Int]
    BY <2>2 DEF OwnedRows
  <2>4. Total(inv[s], Ids) \in Int /\ Total(OwnedRows(s), Ids) \in Int
    BY <2>1, <2>3, FiniteParts, TotalIs
  <2> QED
    BY <2>1, <2>3, <2>4 DEF Share
<1>2. Shares \in [Sessions -> Int]
  BY <1>1 DEF Shares
<1>3. OnTheGround \in [Vids -> Int]
  <2>1. \A v \in Vids : ground[v] \in Int
    BY <1>0 DEF TypeOK
  <2> QED
    BY <2>1 DEF OnTheGround
<1>5. Total(Shares, Sessions) \in Int /\ Lying \in Int
  BY <1>2, <1>3, FiniteParts, TotalIs DEF Lying
<1>4. FallingIn(intents) \in Int
  BY QueueSumTypes DEF TypeOK
<1> QED
  BY <1>1, <1>2, <1>3, <1>4, <1>5 DEF SumsTyped

\* ... and in the next one.
LEMMA SumTypesNext == TypeOK' => SumsTyped'
BY SumTypes, PTL

\* Pieces is the sum that the proofs count with.
LEMMA PiecesAre ==
  ASSUME TypeOK
  PROVE  Pieces = Counted
<1>1. OfThePlayers = Shares
  <2>1. ASSUME NEW s \in Sessions
        PROVE  /\ SumFunction(OwnedRows(s)) = Total(OwnedRows(s), Ids)
               /\ SumFunction(inv[s]) = Total(inv[s], Ids)
    BY FiniteParts, SumTypes, FunctionSum DEF SumsTyped
  <2> QED
    BY <2>1 DEF OfThePlayers, Shares, Share
<1>2. SumFunction(Shares) = Total(Shares, Sessions)
  BY FiniteParts, SumTypes, FunctionSum DEF SumsTyped
<1>3. SumFunction(OnTheGround) = Lying
  BY FiniteParts, SumTypes, FunctionSum DEF Lying, SumsTyped
<1>4. SumFunction(Falling) = FallingIn(intents)
  <2>1. Falling = DropCounts(intents) /\ intents \in Seq(Intents)
    BY DEF Falling, DropCounts, TypeOK
  <2>2. DropCounts(intents) \in [DOMAIN intents -> Int] /\ IsFiniteSet(DOMAIN intents)
    BY <2>1, QueueSumTypes, FiniteParts
  <2> QED
    BY <2>1, <2>2, FunctionSum DEF FallingIn
<1> QED
  BY <1>1, <1>2, <1>3, <1>4 DEF Pieces, Counted

\* A drop joins the queue, or something that is no drop (Send).
LEMMA FallingAppended ==
  ASSUME NEW q \in Seq(Intents), NEW m \in Intents
  PROVE  FallingIn(Append(q, m)) = FallingIn(q) + IF m.kind = "drop" THEN m.count ELSE 0
<1> DEFINE more == Append(q, m)
           last == Len(q) + 1
           f == DropCounts(more)
<1>1. /\ DOMAIN more = (DOMAIN q) \cup {last}
      /\ \A i \in DOMAIN q : more[i] = q[i]
      /\ more[last] = m /\ last \notin DOMAIN q /\ more \in Seq(Intents)
  OBVIOUS
<1>2. f \in [DOMAIN more -> Int] /\ IsFiniteSet(DOMAIN more) /\ FallingIn(q) \in Int
  <2> HIDE DEF more
  <2> QED
    BY <1>1, QueueSumTypes, FiniteParts
<1>3. [i \in (DOMAIN more) \ {last} |-> f[i]] = DropCounts(q)
  <2> HIDE DEF more, last
  <2>1. (DOMAIN more) \ {last} = DOMAIN q
    BY <1>1
  <2> QED
    BY <1>1, <2>1 DEF DropCounts
<1>4. f[last] = IF m.kind = "drop" THEN m.count ELSE 0
  <2> HIDE DEF more, last
  <2> QED
    BY <1>1 DEF DropCounts
<1>5. last \in DOMAIN more /\ (DOMAIN more) \ {last} = DOMAIN q
  <2> HIDE DEF more, last
  <2> QED
    BY <1>1
<1>6. f[last] \in Int
  <2> HIDE DEF more, last, f
  <2> QED
    BY <1>2, <1>5
<1>7. Total(f, DOMAIN more) = f[last] + FallingIn(q)
  <2>1. Total(f, DOMAIN more)
          = f[last] + Total([i \in (DOMAIN more) \ {last} |-> f[i]], (DOMAIN more) \ {last})
    <3> HIDE DEF more, last, f
    <3> QED
      BY <1>2, <1>5, TotalWith
  <2> HIDE DEF more, last, f
  <2> QED
    BY <1>3, <1>5, <2>1 DEF FallingIn
<1>8. FallingIn(more) = Total(f, DOMAIN more)
  BY DEF FallingIn
<1> HIDE DEF more, last, f
<1> QED
  BY <1>2, <1>4, <1>6, <1>7, <1>8 DEF more

\* The head leaves the queue (World).
LEMMA FallingShifted ==
  ASSUME NEW q \in Seq(Intents), q # <<>>
  PROVE  FallingIn(Tail(q)) = FallingIn(q) - IF Head(q).kind = "drop" THEN Head(q).count ELSE 0
<1> DEFINE rest == Tail(q)
           D == (DOMAIN q) \ {1}
           f == DropCounts(q)
           e == [i \in D |-> f[i]]
           V == DOMAIN rest
           k == DropCounts(rest)
           b == [i \in V |-> i + 1]
<1>1. /\ \A i \in DOMAIN rest : i \in Nat \ {0} /\ i + 1 \in DOMAIN q /\ rest[i] = q[i + 1]
      /\ \A i \in DOMAIN q : i \in Nat \ {0} /\ (i # 1 => i - 1 \in DOMAIN rest)
      /\ 1 \in DOMAIN q /\ Head(q) = q[1] /\ rest \in Seq(Intents)
  <2>1. rest \in Seq(Intents)
    BY ElementsOf
  <2> QED
    BY <2>1, TailOf
<1>2. /\ f \in [DOMAIN q -> Int] /\ IsFiniteSet(DOMAIN q) /\ FallingIn(q) \in Int
      /\ DropCounts(rest) \in [DOMAIN rest -> Int] /\ IsFiniteSet(DOMAIN rest)
      /\ FallingIn(rest) \in Int
  <2> HIDE DEF rest
  <2> QED
    BY <1>1, QueueSumTypes, FiniteParts
<1> HIDE DEF rest
<1>3. f[1] = IF Head(q).kind = "drop" THEN Head(q).count ELSE 0
  BY <1>1 DEF DropCounts
<1>4. FallingIn(q) = f[1] + Total(e, D)
  <2>1. Total(f, DOMAIN q) = f[1] + Total(e, D)
    <3> HIDE DEF f
    <3> QED
      BY <1>1, <1>2, TotalWith
  <2> QED
    BY <2>1 DEF FallingIn
<1>5. Total(k, V) = Total(e, D)
  <2>1. e \in [D -> Int] /\ IsFiniteSet(D)
    <3> HIDE DEF f
    <3> QED
      BY <1>2, FS_Subset
  <2>2. /\ b \in [V -> D]
        /\ \A x, y \in V : b[x] = b[y] => x = y
    BY <1>1
  <2>3. \A u \in D : \E x \in V : b[x] = u
    <3>1. SUFFICES ASSUME NEW u \in D PROVE \E x \in V : b[x] = u
      OBVIOUS
    <3>2. u - 1 \in V /\ u \in Nat
      BY <1>1
    <3>3. b[u - 1] = u
      BY <3>2
    <3> QED
      BY <3>2, <3>3
  <2>4. \A x \in V : k[x] = e[b[x]]
    BY <1>1 DEF DropCounts
  <2>5. k \in [V -> Int] /\ IsFiniteSet(V)
    BY <1>2
  <2>6. b \in Bijection(V, D)
    BY <2>2, <2>3 DEF Bijection, Injection, Surjection, IsInjective
  <2> HIDE DEF e, b, D, V, k
  <2> QED
    BY <2>1, <2>4, <2>5, <2>6, TotalMoves
<1>6. FallingIn(rest) = Total(k, V)
  BY DEF FallingIn
<1>7. f[1] \in Int
  <2> HIDE DEF f
  <2> QED
    BY <1>1, <1>2
<1> HIDE DEF f, e, D, V, k
<1>8. FallingIn(q) = f[1] + FallingIn(rest)
  BY <1>4, <1>5, <1>6
<1>9. FallingIn(rest) = FallingIn(q) - f[1]
  BY <1>2, <1>7, <1>8
<1> QED
  BY <1>3, <1>9 DEF rest

\* Closing a connection leaves what is falling alone (Orphaned).
LEMMA FallingOrphaned ==
  ASSUME NEW q \in Seq(Intents), NEW s \in Sessions
  PROVE  FallingIn(Orphaned(q, s)) = FallingIn(q)
<1>1. \A i \in DOMAIN q : q[i] \in Intents
  OBVIOUS
<1>2. /\ DOMAIN Orphaned(q, s) = DOMAIN q
      /\ \A i \in DOMAIN q : /\ Orphaned(q, s)[i].kind = q[i].kind
                             /\ Orphaned(q, s)[i].count = q[i].count
  BY <1>1 DEF Orphaned, Intents
<1>3. DropCounts(Orphaned(q, s)) = DropCounts(q)
  BY <1>2 DEF DropCounts
<1> QED
  BY <1>2, <1>3 DEF FallingIn

-----------------------------------------------------------------------------
(* What one step of one session moves                                      *)

Even == Counted = created

\* What the session and the places all share have, less what was created.
Local(s) == Share(s) + Lying + FallingIn(intents) - created

\* What a session has of its own does not change by the steps of another.
LEMMA OtherShare ==
  ASSUME TypeOK, TypeOK', NEW t \in Sessions, UNCHANGED <<at[t], inv[t], left[t]>>,
         \A i \in Ids : \/ rows'[i] = rows[i]
                        \/ rows[i].owner # t /\ rows'[i].owner # t
  PROVE  Share(t)' = Share(t)
<1>1. OwnedRows(t)' = OwnedRows(t)
  BY DEF OwnedRows
<1> QED
  BY <1>1 DEF Share

\* The sum stays as long as what one session and the common places have does.
LEMMA EvenLocally ==
  ASSUME TypeOK, TypeOK', Even, NEW s \in Sessions,
         \A t \in Sessions \ {s} : UNCHANGED <<at[t], inv[t], left[t]>>,
         \A i \in Ids : \/ rows'[i] = rows[i]
                        \/ rows[i].owner \in {s, NoSession} /\ rows'[i].owner \in {s, NoSession},
         Local(s)' = Local(s)
  PROVE  Even'
<1>1. ASSUME NEW t \in Sessions \ {s} PROVE Share(t)' = Share(t)
  <2>1. \A i \in Ids : \/ rows'[i] = rows[i]
                       \/ rows[i].owner # t /\ rows'[i].owner # t
    BY Limits
  <2> QED
    BY <2>1, OtherShare
<1>2. /\ Shares \in [Sessions -> Int] /\ Total(Shares, Sessions) \in Int
      /\ Lying \in Int /\ FallingIn(intents) \in Int /\ Share(s) \in Int /\ created \in Int
  <2>1. created \in Nat
    BY DEF TypeOK
  <2> QED
    BY <2>1, SumTypes DEF SumsTyped
<1>3. /\ Shares' \in [Sessions -> Int] /\ Total(Shares', Sessions) \in Int
      /\ Lying' \in Int /\ FallingIn(intents)' \in Int /\ Share(s)' \in Int /\ created' \in Int
  <2>1. created' \in Nat
    BY DEF TypeOK
  <2> QED
    BY <2>1, SumTypesNext DEF SumsTyped
<1>4. /\ Shares[s] = Share(s) /\ Shares'[s] = Share(s)'
      /\ \A t \in Sessions \ {s} : Shares'[t] = Shares[t]
  BY <1>1 DEF Shares
<1>5. Total(Shares', Sessions) = Total(Shares, Sessions) - Share(s) + Share(s)'
  BY <1>2, <1>3, <1>4, FiniteParts, TotalChanges
<1>6. Local(s) = Share(s) + Lying + FallingIn(intents) - created
  BY DEF Local
<1>7. Local(s)' = Share(s)' + Lying' + FallingIn(intents)' - created'
  BY DEF Local
<1>8. Total(Shares, Sessions) + Lying + FallingIn(intents) = created
  BY DEF Even, Counted
<1>9. Total(Shares', Sessions) + Lying' + FallingIn(intents)' = created'
  BY <1>2, <1>3, <1>5, <1>6, <1>7, <1>8
<1> QED
  BY <1>9 DEF Even, Counted

\* One entry of an inventory changes.
LEMMA BagChanges ==
  ASSUME TypeOK, TypeOK', NEW s \in Sessions, NEW i \in Ids,
         \A k \in Ids \ {i} : inv'[s][k] = inv[s][k]
  PROVE  Total(inv'[s], Ids) = Total(inv[s], Ids) - inv[s][i] + inv'[s][i]
<1>1. inv[s] \in [Ids -> Int] /\ inv'[s] \in [Ids -> Int]
  <2>1. Counts \subseteq Int
    BY Limits DEF Counts
  <2>2. inv[s] \in [Ids -> Counts] /\ inv'[s] \in [Ids -> Counts]
    BY DEF TypeOK
  <2> QED
    BY <2>1, <2>2
<1> QED
  BY <1>1, FiniteParts, TotalChanges

\* What the ground has stays when nobody claims another item.
LEMMA GroundAlone ==
  ASSUME TypeOK, TypeOK', UNCHANGED <<ground, vid>>,
         \A v \in Vids : Removals(intents', v) = {} <=> Removals(intents, v) = {}
  PROVE  Lying' = Lying
<1>1. ASSUME NEW v \in Vids PROVE Claimed(v)' <=> Claimed(v)
  <2>1. Removals(intents', v) = {} <=> Removals(intents, v) = {}
    OBVIOUS
  <2> QED
    BY <2>1 DEF Claimed, Removals
<1>2. OnTheGround' = OnTheGround
  BY <1>1 DEF OnTheGround
<1> QED
  BY <1>2 DEF Lying

\* One item changes hands or its count.
LEMMA GroundChanges ==
  ASSUME TypeOK, TypeOK', NEW v \in Vids,
         \A w \in Vids \ {v} :
           /\ ground'[w] = ground[w]
           /\ Removals(intents', w) = {} <=> Removals(intents, w) = {}
           /\ (\E t \in Sessions : vid'[t] = w) <=> (\E t \in Sessions : vid[t] = w)
  PROVE  Lying' = Lying - OnTheGround[v] + OnTheGround'[v]
<1>1. ASSUME NEW w \in Vids \ {v} PROVE Claimed(w)' <=> Claimed(w)
  <2>1. Removals(intents', w) = {} <=> Removals(intents, w) = {}
    OBVIOUS
  <2>2. (\E t \in Sessions : vid'[t] = w) <=> (\E t \in Sessions : vid[t] = w)
    OBVIOUS
  <2> QED
    BY <2>1, <2>2 DEF Claimed, Removals
<1>2. \A w \in Vids \ {v} : OnTheGround'[w] = OnTheGround[w]
  BY <1>1 DEF OnTheGround
<1>3. OnTheGround \in [Vids -> Int]
  BY SumTypes DEF SumsTyped
<1>4. OnTheGround' \in [Vids -> Int]
  BY SumTypesNext DEF SumsTyped
<1> QED
  BY <1>2, <1>3, <1>4, FiniteParts, TotalChanges DEF Lying

\* A session in the game moves pieces between its inventory, its hand, the ground and the queue.
LEMMA EvenInGame ==
  ASSUME TypeOK, TypeOK', Even, NEW s \in Sessions, at[s] # "gone", at'[s] # "gone",
         \A t \in Sessions \ {s} : UNCHANGED <<at[t], inv[t], left[t]>>,
         \A i \in Ids : \/ rows'[i] = rows[i]
                        \/ rows[i].owner \in {s, NoSession} /\ rows'[i].owner \in {s, NoSession},
         (Total(inv'[s], Ids) - Total(inv[s], Ids)) + (left'[s] - left[s]) + (Lying' - Lying)
           + (FallingIn(intents') - FallingIn(intents)) = created' - created
  PROVE  Even'
<1>1. Local(s) = Total(inv[s], Ids) + left[s] + Lying + FallingIn(intents) - created
  BY DEF Local, Share
<1>2. Local(s)' = Total(inv'[s], Ids) + left'[s] + Lying' + FallingIn(intents') - created'
  BY DEF Local, Share
<1>3. /\ Total(inv[s], Ids) \in Int /\ left[s] \in Int /\ Lying \in Int
      /\ FallingIn(intents) \in Int /\ created \in Int
  <2>1. created \in Nat
    BY DEF TypeOK
  <2> QED
    BY <2>1, SumTypes DEF SumsTyped
<1>4. /\ Total(inv'[s], Ids) \in Int /\ left'[s] \in Int /\ Lying' \in Int
      /\ FallingIn(intents') \in Int /\ created' \in Int
  <2>1. created' \in Nat
    BY DEF TypeOK
  <2> QED
    BY <2>1, SumTypesNext DEF SumsTyped
<1>5. Local(s)' = Local(s)
  BY <1>1, <1>2, <1>3, <1>4
<1> QED
  BY <1>5, EvenLocally

\* The numbers of a state.
LEMMA Numbers ==
  ASSUME TypeOK, NEW s \in Sessions
  PROVE  /\ Total(inv[s], Ids) \in Int /\ left[s] \in Int /\ Lying \in Int
         /\ FallingIn(intents) \in Int /\ created \in Int
<1>1. created \in Nat
  BY DEF TypeOK
<1> QED
  BY <1>1, SumTypes DEF SumsTyped

\* A question or a drop joins the queue.
LEMMA SentEven ==
  ASSUME TypeOK, TypeOK', UNCHANGED <<ground, vid>>, NEW m \in Intents, m.kind # "remove",
         intents' = Append(intents, m)
  PROVE  /\ Lying' = Lying
         /\ FallingIn(intents') = FallingIn(intents) + IF m.kind = "drop" THEN m.count ELSE 0
<1>0. intents \in Seq(Intents)
  BY DEF TypeOK
<1>1. FallingIn(intents') = FallingIn(intents) + IF m.kind = "drop" THEN m.count ELSE 0
  BY <1>0, FallingAppended
<1>2. ASSUME NEW v \in Vids, NEW s \in Sessions PROVE Removals(intents', v) = Removals(intents, v)
  BY <1>0, QueueAppended
<1>3. CASE Sessions = {}
  <2>1. ASSUME NEW v \in Vids PROVE Removals(Append(intents, m), v) = Removals(intents, v)
    BY <1>0 DEF Removals
  <2> QED
    BY <1>1, <2>1, GroundAlone
<1>4. CASE Sessions # {}
  BY <1>1, <1>2, <1>4, GroundAlone
<1> QED
  BY <1>3, <1>4

\* Nobody claims or drops anything.
LEMMA QuietEven ==
  ASSUME TypeOK, TypeOK', UNCHANGED <<ground, vid, intents>>
  PROVE  Lying' = Lying /\ FallingIn(intents') = FallingIn(intents)
BY GroundAlone

\* A row is written that was the session's own or nobody's.
LEMMA OwnRows ==
  ASSUME TypeOK, NEW s \in Sessions, NEW i \in Ids, NEW n \in Counts,
         Upsert(s, i, n) \/ (n = 0 /\ Delete(i)), rows[i].owner \in {s, NoSession}
  PROVE  \A k \in Ids : \/ rows'[k] = rows[k]
                        \/ rows[k].owner \in {s, NoSession} /\ rows'[k].owner \in {s, NoSession}
<1>1. rows'[i].owner \in {s, NoSession} /\ \A k \in Ids \ {i} : rows'[k] = rows[k]
  BY RowWritten
<1> QED
  BY <1>1

\* A stack of the session is its own row.
LEMMA OwnStack ==
  ASSUME IInv, Clean, NEW s \in Sessions, NEW i \in Stacks(s),
         at[s] \in {"idle", "stack", "newRow", "insert"}
  PROVE  rows[i].owner \in {s, NoSession} /\ Agree(s)
<1>1. Agree(s)
  BY DEF IInv, RowsAgree, Undisturbed, Clean
<1> QED
  BY <1>1, StackIsOwn DEF IInv

\* A mob leaves one piece, counted as created (KillDrop).
LEMMA KillDropEven ==
  ASSUME IInv, IInv', Even, NEW s \in Sessions, KillDrop(s)
  PROVE  Even'
<1>0. TypeOK /\ TypeOK' /\ 1 \in Counts /\ 0 \in 0 .. MaxDrops
  BY Limits DEF IInv, Counts
<1>1. /\ UNCHANGED <<at, left, vid, inv, ground, rows>> /\ at[s] = "idle"
      /\ created' = created + 1 /\ Send("drop", s, 0, 1)
  BY DEF KillDrop, handler
<1>2. PICK m \in Intents : intents' = Append(intents, m) /\ m.kind = "drop" /\ m.count = 1
  BY <1>0, <1>1, Sent
<1>3. Lying' = Lying /\ FallingIn(intents') = FallingIn(intents) + 1
  BY <1>0, <1>1, <1>2, SentEven
<1> QED
  BY <1>0, <1>1, <1>3, Numbers, EvenInGame

\* Pieces go from the inventory to the queue (DropItem).
LEMMA DropItemEven ==
  ASSUME IInv, IInv', Even, NEW s \in Sessions, DropItem(s)
  PROVE  Even'
<1>0. TypeOK /\ TypeOK' /\ 0 \in 0 .. MaxDrops
  BY Limits DEF IInv
<1>1. PICK i \in Stacks(s) : \E w \in 1 .. StackLimit :
        w <= inv[s][i] /\ Send("drop", s, 0, w) /\ inv' = [inv EXCEPT ![s][i] = @ - w]
  BY DEF DropItem
<1>2. PICK want \in 1 .. StackLimit :
        want <= inv[s][i] /\ Send("drop", s, 0, want) /\ inv' = [inv EXCEPT ![s][i] = @ - want]
  BY <1>1
<1>3. /\ UNCHANGED <<left, vid, ground, rows, created>> /\ at[s] = "idle"
      /\ at' = [at EXCEPT ![s] = "store"]
  BY DEF DropItem, ghosts
<1>4. i \in Ids /\ inv[s][i] \in Nat /\ want \in Counts /\ want \in Nat
  BY <1>0, StackOf, Limits DEF Counts
<1>5. PICK m \in Intents : intents' = Append(intents, m) /\ m.kind = "drop" /\ m.count = want
  BY <1>0, <1>2, <1>4, Sent
<1>6. Lying' = Lying /\ FallingIn(intents') = FallingIn(intents) + want
  BY <1>0, <1>3, <1>5, SentEven
<1>7. /\ inv'[s][i] = inv[s][i] - want /\ \A k \in Ids \ {i} : inv'[s][k] = inv[s][k]
      /\ \A t \in Sessions \ {s} : inv'[t] = inv[t]
  <2>1. inv \in [Sessions -> [Ids -> Counts]]
    BY <1>0 DEF TypeOK
  <2> QED
    BY <1>2, <1>4, <2>1
<1>8. Total(inv'[s], Ids) = Total(inv[s], Ids) - inv[s][i] + inv'[s][i]
  BY <1>0, <1>4, <1>7, BagChanges
<1>9. Total(inv'[s], Ids) = Total(inv[s], Ids) - want
  BY <1>0, <1>4, <1>7, <1>8, Numbers
<1>10. at'[s] = "store" /\ \A t \in Sessions \ {s} : at'[t] = at[t]
  BY <1>0, <1>3 DEF TypeOK
<1> QED
  BY <1>0, <1>3, <1>4, <1>6, <1>7, <1>9, <1>10, Numbers, EvenInGame

\* Writing a row moves nothing (StoreRow).
LEMMA StoreRowEven ==
  ASSUME IInv, IInv', Even, Clean, NEW s \in Sessions, StoreRow(s)
  PROVE  Even'
<1>0. TypeOK /\ TypeOK' /\ at[s] = "store" /\ row[s] \in Ids
  BY DEF IInv, StoreRow, RowChosen
<1>1. UNCHANGED <<left, vid, inv, intents, ground, created>> /\ at' = [at EXCEPT ![s] = "idle"]
  BY DEF StoreRow, world, ghosts
<1>2. PICK i \in Ids : i = row[s]
  BY <1>0
<1>3. PICK n \in Counts : n = inv[s][i]
  <2>1. inv \in [Sessions -> [Ids -> Counts]]
    BY <1>0 DEF TypeOK
  <2> QED
    BY <2>1
<1>4. Upsert(s, i, n) \/ (n = 0 /\ Delete(i))
  BY <1>2, <1>3 DEF StoreRow, Store
<1>5. rows[i].owner \in {s, NoSession}
  BY <1>0, <1>2 DEF IInv, RowsAgree, Agree, Undisturbed, Clean
<1>6. \A k \in Ids : \/ rows'[k] = rows[k]
                     \/ rows[k].owner \in {s, NoSession} /\ rows'[k].owner \in {s, NoSession}
  BY <1>0, <1>4, <1>5, OwnRows
<1>7. at'[s] = "idle" /\ \A t \in Sessions \ {s} : at'[t] = at[t]
  BY <1>0, <1>1 DEF TypeOK
<1>8. Lying' = Lying /\ FallingIn(intents') = FallingIn(intents)
  BY <1>0, <1>1, QuietEven
<1> QED
  BY <1>0, <1>1, <1>6, <1>7, <1>8, Numbers, EvenInGame

\* A question moves nothing (Pickup).
LEMMA PickupEven ==
  ASSUME IInv, IInv', Even, NEW s \in Sessions, Pickup(s)
  PROVE  Even'
<1>0. TypeOK /\ TypeOK' /\ 0 \in Counts
  BY Limits DEF IInv, Counts
<1>1. UNCHANGED <<at, left, vid, inv, ground, rows, created>> /\ at[s] = "idle"
  BY DEF Pickup, handler, ghosts
<1>2. PICK v \in Vids : Send("pickup", s, v, 0)
  BY DEF Pickup
<1>3. v \in 0 .. MaxDrops
  BY Limits DEF Vids
<1>4. PICK m \in Intents : intents' = Append(intents, m) /\ m.kind = "pickup"
  BY <1>0, <1>2, <1>3, Sent
<1>5. Lying' = Lying /\ FallingIn(intents') = FallingIn(intents) + 0
  BY <1>0, <1>1, <1>4, SentEven
<1> QED
  BY <1>0, <1>1, <1>5, Numbers, EvenInGame

\* An answer that is refused moves nothing (PickupRefused).
LEMMA PickupRefusedEven ==
  ASSUME IInv, IInv', Even, NEW s \in Sessions, PickupRefused(s)
  PROVE  Even'
<1>0. TypeOK /\ TypeOK'
  BY DEF IInv
<1>1. UNCHANGED <<at, left, vid, inv, intents, ground, rows, created>> /\ at[s] = "idle"
  BY DEF PickupRefused, handler, world, ghosts
<1>2. Lying' = Lying /\ FallingIn(intents') = FallingIn(intents)
  BY <1>0, <1>1, QuietEven
<1> QED
  BY <1>0, <1>1, <1>2, Numbers, EvenInGame

\* Choosing an id moves nothing (AllocateId).
LEMMA AllocateIdEven ==
  ASSUME IInv, IInv', Even, NEW s \in Sessions, AllocateId(s)
  PROVE  Even'
<1>0. TypeOK /\ TypeOK' /\ at[s] # "gone"
  BY DEF IInv, AllocateId
<1>1. /\ UNCHANGED <<left, vid, inv, intents, ground, rows, created>>
      /\ at' = [at EXCEPT ![s] = "insert"]
  BY DEF AllocateId, world, ghosts
<1>2. Lying' = Lying /\ FallingIn(intents') = FallingIn(intents)
  BY <1>0, <1>1, QuietEven
<1>3. at'[s] = "insert" /\ \A t \in Sessions \ {s} : at'[t] = at[t]
  BY <1>0, <1>1 DEF TypeOK
<1> QED
  BY <1>0, <1>1, <1>2, <1>3, Numbers, EvenInGame

\* Pieces go from the inventory to the hand (Split).
LEMMA SplitEven ==
  ASSUME IInv, IInv', Orderly, Even, Clean, NEW s \in Sessions, Split(s)
  PROVE  Even'
<1>0. TypeOK /\ TypeOK' /\ at[s] = "idle" /\ left[s] = 0
  BY DEF IInv, Split, Orderly, HandEmpty
<1>1. PICK i \in Stacks(s) : \E w \in 1 .. StackLimit :
        /\ w < inv[s][i] /\ inv' = [inv EXCEPT ![s][i] = @ - w]
        /\ Upsert(s, i, inv[s][i] - w) /\ left' = [left EXCEPT ![s] = w]
  BY DEF Split
<1>2. PICK want \in 1 .. StackLimit :
        /\ want < inv[s][i] /\ inv' = [inv EXCEPT ![s][i] = @ - want]
        /\ Upsert(s, i, inv[s][i] - want) /\ left' = [left EXCEPT ![s] = want]
  BY <1>1
<1>3. UNCHANGED <<vid, intents, ground, created>> /\ at' = [at EXCEPT ![s] = "newRow"]
  BY DEF Split, world, ghosts
<1>4. i \in Ids /\ inv[s][i] \in Nat /\ want \in Nat /\ inv[s][i] - want \in Counts
  BY <1>0, <1>2, StackOf, Limits DEF Counts
<1>5. /\ inv'[s][i] = inv[s][i] - want /\ \A k \in Ids \ {i} : inv'[s][k] = inv[s][k]
      /\ \A t \in Sessions \ {s} : inv'[t] = inv[t]
  <2>1. inv \in [Sessions -> [Ids -> Counts]]
    BY <1>0 DEF TypeOK
  <2> QED
    BY <1>2, <1>4, <2>1
<1>6. Total(inv'[s], Ids) = Total(inv[s], Ids) - want
  <2>1. Total(inv'[s], Ids) = Total(inv[s], Ids) - inv[s][i] + inv'[s][i]
    BY <1>0, <1>4, <1>5, BagChanges
  <2> QED
    BY <1>0, <1>4, <1>5, <2>1, Numbers
<1>7. /\ at'[s] = "newRow" /\ left'[s] = want
      /\ \A t \in Sessions \ {s} : UNCHANGED <<at[t], left[t]>>
  BY <1>0, <1>2, <1>3 DEF TypeOK
<1>8. \A k \in Ids : \/ rows'[k] = rows[k]
                     \/ rows[k].owner \in {s, NoSession} /\ rows'[k].owner \in {s, NoSession}
  <2>1. rows[i].owner \in {s, NoSession}
    BY <1>0, OwnStack
  <2> QED
    BY <1>0, <1>2, <1>4, <2>1, OwnRows
<1>9. Lying' = Lying /\ FallingIn(intents') = FallingIn(intents)
  BY <1>0, <1>3, QuietEven
<1> QED
  BY <1>0, <1>3, <1>4, <1>5, <1>6, <1>7, <1>8, <1>9, Numbers, EvenInGame

\* Pieces that go from one stack to another stay in the bag (Moved).
LEMMA MovedKeeps ==
  ASSUME NEW bag \in [Ids -> Int], NEW i \in Ids, NEW j \in Ids, i # j, NEW n \in Int
  PROVE  Total(Moved(bag, i, j, n), Ids) = Total(bag, Ids)
<1> DEFINE less == [k \in Ids |-> IF k = i THEN bag[k] - n ELSE bag[k]]
<1>1. /\ less \in [Ids -> Int] /\ less[i] = bag[i] - n /\ less[j] = bag[j]
      /\ \A k \in Ids \ {i} : less[k] = bag[k]
  OBVIOUS
<1>2. /\ Moved(bag, i, j, n) \in [Ids -> Int] /\ Moved(bag, i, j, n)[j] = bag[j] + n
      /\ \A k \in Ids \ {j} : Moved(bag, i, j, n)[k] = less[k]
  BY DEF Moved
<1>3. bag[i] \in Int /\ bag[j] \in Int /\ Total(bag, Ids) \in Int
  BY FiniteParts, TotalIs
<1> HIDE DEF less
<1>4. Total(less, Ids) = Total(bag, Ids) - bag[i] + less[i]
  BY <1>1, FiniteParts, TotalChanges
<1>5. Total(Moved(bag, i, j, n), Ids) = Total(less, Ids) - less[j] + Moved(bag, i, j, n)[j]
  BY <1>1, <1>2, FiniteParts, TotalChanges
<1> QED
  BY <1>1, <1>2, <1>3, <1>4, <1>5

\* Pieces stay in the inventory (Merge).
LEMMA MergeEven ==
  ASSUME IInv, IInv', Even, Clean, NEW s \in Sessions, Merge(s)
  PROVE  Even'
<1>0. TypeOK /\ TypeOK' /\ at[s] = "idle"
  BY DEF IInv, Merge
<1>1. PICK i \in Stacks(s) : \E j \in Room(s), w \in 1 .. StackLimit :
        LET add == Lesser(w, StackLimit - inv[s][j])
        IN  /\ i # j /\ w <= inv[s][i]
            /\ inv' = [inv EXCEPT ![s] = Moved(inv[s], i, j, add)]
            /\ Upsert(s, j, inv[s][j] + add)
  BY DEF Merge
<1>2. PICK j \in Room(s) : \E w \in 1 .. StackLimit :
        LET add == Lesser(w, StackLimit - inv[s][j])
        IN  /\ i # j /\ w <= inv[s][i]
            /\ inv' = [inv EXCEPT ![s] = Moved(inv[s], i, j, add)]
            /\ Upsert(s, j, inv[s][j] + add)
  BY <1>1
<1>3. PICK want \in 1 .. StackLimit :
        LET add == Lesser(want, StackLimit - inv[s][j])
        IN  /\ i # j /\ want <= inv[s][i]
            /\ inv' = [inv EXCEPT ![s] = Moved(inv[s], i, j, add)]
            /\ Upsert(s, j, inv[s][j] + add)
  BY <1>2
<1>4. UNCHANGED <<left, vid, intents, ground, created>> /\ at' = [at EXCEPT ![s] = "store"]
  BY DEF Merge, world, ghosts
<1>5. /\ i \in Ids /\ j \in Ids /\ j \in Stacks(s) /\ want \in Nat
      /\ inv[s][j] \in Nat /\ inv[s][j] < StackLimit
  BY <1>0, StackOf DEF Room
<1>6. PICK n \in Nat : /\ n = Lesser(want, StackLimit - inv[s][j])
                       /\ n <= StackLimit - inv[s][j]
  <2>1. StackLimit - inv[s][j] \in Nat
    BY <1>5, Limits
  <2> QED
    BY <1>5, <2>1, LesserOf
<1>7. inv[s][j] + n \in Counts
  BY <1>5, <1>6, Limits DEF Counts
<1>8. /\ i # j /\ inv' = [inv EXCEPT ![s] = Moved(inv[s], i, j, n)]
      /\ Upsert(s, j, inv[s][j] + n)
  BY <1>3, <1>6
<1>9. inv'[s] = Moved(inv[s], i, j, n) /\ \A t \in Sessions \ {s} : inv'[t] = inv[t]
  BY <1>0, <1>8 DEF TypeOK
<1>10. Total(inv'[s], Ids) = Total(inv[s], Ids)
  <2>1. inv[s] \in [Ids -> Int] /\ n \in Int
    BY <1>0, SumTypes DEF SumsTyped
  <2> QED
    BY <1>5, <1>8, <1>9, <2>1, MovedKeeps
<1>11. at'[s] = "store" /\ \A t \in Sessions \ {s} : at'[t] = at[t]
  BY <1>0, <1>4 DEF TypeOK
<1>12. \A k \in Ids : \/ rows'[k] = rows[k]
                      \/ rows[k].owner \in {s, NoSession} /\ rows'[k].owner \in {s, NoSession}
  <2>1. rows[j].owner \in {s, NoSession}
    BY <1>0, <1>5, OwnStack
  <2> QED
    BY <1>0, <1>5, <1>7, <1>8, <2>1, OwnRows
<1>13. Lying' = Lying /\ FallingIn(intents') = FallingIn(intents)
  BY <1>0, <1>4, QuietEven
<1> QED
  BY <1>0, <1>4, <1>9, <1>10, <1>11, <1>12, <1>13, Numbers, EvenInGame

\* A reward is created in the hand (Give).
LEMMA GiveEven ==
  ASSUME IInv, IInv', Orderly, Even, NEW s \in Sessions, Give(s)
  PROVE  Even'
<1>0. TypeOK /\ TypeOK' /\ at[s] = "idle" /\ left[s] = 0
  BY DEF IInv, Give, Orderly, HandEmpty
<1>1. UNCHANGED <<vid, inv, intents, ground, rows>>
  BY DEF Give, world
<1>2. PICK n \in 1 .. StackLimit : left' = [left EXCEPT ![s] = n] /\ created' = created + n
  BY DEF Give
<1>3. PICK phase \in {"stack", "newRow"} : at' = [at EXCEPT ![s] = phase]
  BY DEF Give
<1>4. /\ at'[s] = phase /\ left'[s] = n /\ n \in Nat
      /\ \A t \in Sessions \ {s} : UNCHANGED <<at[t], left[t]>>
  BY <1>0, <1>2, <1>3 DEF TypeOK
<1>5. Lying' = Lying /\ FallingIn(intents') = FallingIn(intents)
  BY <1>0, <1>1, QuietEven
<1> QED
  BY <1>0, <1>1, <1>2, <1>4, <1>5, Numbers, EvenInGame

\* Pieces go from the hand to the inventory (Stack).
LEMMA StackEven ==
  ASSUME IInv, IInv', Even, Clean, NEW s \in Sessions, Stack(s)
  PROVE  Even'
<1>0. TypeOK /\ TypeOK' /\ at[s] = "stack" /\ Room(s) # {}
  BY DEF IInv, Stack
<1>1. PICK i \in Room(s) : i = Min(Room(s))
  <2>1. Room(s) \in SUBSET Nat
    BY <1>0, StackOf DEF Room
  <2> QED
    BY <1>0, <2>1, SmallestIsIn
<1>2. /\ i \in Ids /\ i \in Stacks(s) /\ inv[s][i] \in Nat /\ inv[s][i] < StackLimit
      /\ left[s] \in Nat
  <2>1. left[s] \in Counts
    BY <1>0 DEF TypeOK
  <2>2. i \in Stacks(s) /\ inv[s][i] < StackLimit
    BY DEF Room
  <2> QED
    BY <1>0, <2>1, <2>2, StackOf, Limits DEF Counts
<1>3. PICK n \in Nat : /\ n = Lesser(StackLimit - inv[s][i], left[s])
                       /\ n <= StackLimit - inv[s][i]
  <2>1. StackLimit - inv[s][i] \in Nat
    BY <1>2, Limits
  <2> QED
    BY <1>2, <2>1, LesserOf
<1>4. /\ inv' = [inv EXCEPT ![s][i] = @ + n] /\ Upsert(s, i, inv[s][i] + n)
      /\ left' = [left EXCEPT ![s] = @ - n]
  BY <1>1, <1>3 DEF Stack
<1>5. UNCHANGED <<at, vid, intents, ground, created>>
  BY DEF Stack, world
<1>6. inv[s][i] + n \in Counts
  BY <1>2, <1>3, Limits DEF Counts
<1>7. /\ inv'[s][i] = inv[s][i] + n /\ \A k \in Ids \ {i} : inv'[s][k] = inv[s][k]
      /\ \A t \in Sessions \ {s} : inv'[t] = inv[t]
  <2>1. inv \in [Sessions -> [Ids -> Counts]]
    BY <1>0 DEF TypeOK
  <2> QED
    BY <1>2, <1>4, <1>6, <2>1
<1>8. Total(inv'[s], Ids) = Total(inv[s], Ids) + n
  <2>1. Total(inv'[s], Ids) = Total(inv[s], Ids) - inv[s][i] + inv'[s][i]
    BY <1>0, <1>2, <1>7, BagChanges
  <2> QED
    BY <1>0, <1>2, <1>7, <2>1, Numbers
<1>9. left'[s] = left[s] - n /\ \A t \in Sessions \ {s} : left'[t] = left[t]
  <2>1. left \in [Sessions -> Counts]
    BY <1>0 DEF TypeOK
  <2> QED
    BY <1>4, <2>1
<1>10. \A k \in Ids : \/ rows'[k] = rows[k]
                      \/ rows[k].owner \in {s, NoSession} /\ rows'[k].owner \in {s, NoSession}
  <2>1. rows[i].owner \in {s, NoSession}
    BY <1>0, <1>2, OwnStack
  <2> QED
    BY <1>0, <1>2, <1>4, <1>6, <2>1, OwnRows
<1>11. Lying' = Lying /\ FallingIn(intents') = FallingIn(intents)
  BY <1>0, <1>5, QuietEven
<1> QED
  BY <1>0, <1>2, <1>5, <1>7, <1>8, <1>9, <1>10, <1>11, Numbers, EvenInGame

\* A handler that asks for the removal of what it had in hand leaves it claimed.
LEMMA RemovalEven ==
  ASSUME IInv, IInv', NEW s \in Sessions, Done(s), UNCHANGED ground,
         IF vid[s] = 0 THEN UNCHANGED intents ELSE Send("remove", s, vid[s], 0)
  PROVE  Lying' = Lying /\ FallingIn(intents') = FallingIn(intents)
<1>0. TypeOK /\ TypeOK' /\ intents \in Seq(Intents) /\ FallingIn(intents) \in Int
  BY SumTypes DEF IInv, TypeOK, SumsTyped
<1>1. vid'[s] = 0 /\ \A t \in Sessions \ {s} : vid'[t] = vid[t]
  BY <1>0 DEF Done, TypeOK
<1>2. CASE vid[s] = 0
  <2>1. vid' = vid
    BY <1>0, <1>2 DEF Done, TypeOK
  <2> QED
    BY <1>0, <1>2, <2>1, QuietEven
<1>3. CASE vid[s] # 0
  <2>1. PICK v \in Vids : v = vid[s]
    BY <1>0, <1>3, VidsInHand
  <2>2. PICK m \in Intents : intents' = Append(intents, m) /\ m.kind = "remove" /\ m.vid = v
    BY <1>3, <2>1, Limits DEF Send, Intents, Counts, Vids
  <2>3. FallingIn(intents') = FallingIn(intents)
    BY <1>0, <2>2, FallingAppended
  <2>4. /\ Removals(intents', v) # {}
        /\ \A w \in Vids \ {v} : Removals(intents', w) = Removals(intents, w)
    BY <1>0, <2>2, QueueAppended
  <2>5. \A w \in Vids \ {v} : (\E t \in Sessions : vid'[t] = w) <=> (\E t \in Sessions : vid[t] = w)
    <3>1. \A w \in Vids : w # 0
      BY DEF Vids
    <3> QED
      BY <1>1, <2>1, <3>1
  <2>6. Lying' = Lying - OnTheGround[v] + OnTheGround'[v]
    BY <1>0, <2>4, <2>5, GroundChanges
  <2>7. Claimed(v) /\ Claimed(v)'
    BY <2>1, <2>4 DEF Claimed, Removals
  <2>8. OnTheGround[v] = 0 /\ OnTheGround'[v] = 0
    BY <2>7 DEF OnTheGround
  <2>9. Lying \in Int
    BY <1>0, Numbers
  <2> QED
    BY <2>3, <2>6, <2>8, <2>9
<1> QED
  BY <1>2, <1>3

\* The hand is empty and the item stays claimed (StackDone).
LEMMA StackDoneEven ==
  ASSUME IInv, IInv', Even, NEW s \in Sessions, StackDone(s)
  PROVE  Even'
<1>0. /\ TypeOK /\ TypeOK' /\ at[s] = "stack" /\ left[s] = 0 /\ Done(s)
      /\ IF vid[s] = 0 THEN UNCHANGED intents ELSE Send("remove", s, vid[s], 0)
  BY DEF IInv, StackDone
<1>1. UNCHANGED <<inv, ground, rows, created>>
  BY DEF StackDone, ghosts
<1>2. Lying' = Lying /\ FallingIn(intents') = FallingIn(intents)
  BY <1>0, <1>1, RemovalEven
<1>3. /\ at'[s] = "idle" /\ left'[s] = 0
      /\ \A t \in Sessions \ {s} : UNCHANGED <<at[t], left[t]>>
  BY <1>0 DEF Done, TypeOK
<1> QED
  BY <1>0, <1>1, <1>2, <1>3, Numbers, EvenInGame

\* Pieces go from the hand to a row that was empty (Insert).
LEMMA InsertEven ==
  ASSUME IInv, IInv', Even, Clean', NEW s \in Sessions, Insert(s)
  PROVE  Even'
<1>0. /\ TypeOK /\ TypeOK' /\ at[s] = "insert" /\ row[s] \in Ids /\ left[s] \in Counts
      /\ left[s] \in Nat /\ Done(s)
      /\ IF vid[s] = 0 THEN UNCHANGED intents ELSE Send("remove", s, vid[s], 0)
  <2>1. TypeOK /\ TypeOK' /\ at[s] = "insert" /\ row[s] \in Ids
    BY DEF IInv, Insert, RowChosen
  <2>2. left[s] \in Counts
    BY DEF IInv, TypeOK
  <2>3. left[s] \in Nat
    BY <2>2, Limits DEF Counts
  <2> QED
    BY <2>1, <2>2, <2>3 DEF Insert
<1>1. PICK i \in Ids : i = row[s]
  BY <1>0
<1>2. PICK n \in Counts : n = left[s] /\ n \in Nat
  BY <1>0
<1>3. /\ Upsert(s, i, n) /\ inv' = [inv EXCEPT ![s][i] = n]
      /\ excuses' = IF rows[i] = NoRow THEN excuses ELSE excuses \cup {"sameRow"}
      /\ UNCHANGED <<ground, created>>
  BY <1>1, <1>2 DEF Insert
<1>4. rows[i] = NoRow /\ Clean
  BY <1>3 DEF Clean
<1>5. inv[s][i] = 0
  <2>1. Agree(s)
    BY <1>4 DEF IInv, RowsAgree, Undisturbed, Clean
  <2>2. OwnedRows(s)[i] = 0
    BY <1>4, Limits DEF OwnedRows, NoRow
  <2> QED
    BY <1>0, <2>1, <2>2 DEF Agree
<1>6. /\ inv'[s][i] = n /\ \A k \in Ids \ {i} : inv'[s][k] = inv[s][k]
      /\ \A t \in Sessions \ {s} : inv'[t] = inv[t]
  <2>1. inv \in [Sessions -> [Ids -> Counts]]
    BY <1>0 DEF TypeOK
  <2> QED
    BY <1>3, <2>1
<1>7. Total(inv'[s], Ids) = Total(inv[s], Ids) + n
  <2>1. Total(inv'[s], Ids) = Total(inv[s], Ids) - inv[s][i] + inv'[s][i]
    BY <1>0, <1>6, BagChanges
  <2> QED
    BY <1>0, <1>2, <1>5, <1>6, <2>1, Numbers
<1>8. /\ at'[s] = "idle" /\ left'[s] = 0
      /\ \A t \in Sessions \ {s} : UNCHANGED <<at[t], left[t]>>
  BY <1>0 DEF Done, TypeOK
<1>9. \A k \in Ids : \/ rows'[k] = rows[k]
                     \/ rows[k].owner \in {s, NoSession} /\ rows'[k].owner \in {s, NoSession}
  <2>1. rows[i].owner \in {s, NoSession}
    BY <1>4 DEF NoRow
  <2> QED
    BY <1>0, <1>3, <2>1, OwnRows
<1>10. Lying' = Lying /\ FallingIn(intents') = FallingIn(intents)
  BY <1>0, <1>3, RemovalEven
<1> QED
  BY <1>0, <1>2, <1>3, <1>6, <1>7, <1>8, <1>9, <1>10, Numbers, EvenInGame

\* The whole item goes from the ground to the hand (Take).
LEMMA TakeEven ==
  ASSUME IInv, IInv', Orderly, Even, Clean', NEW s \in Sessions, Take(s)
  PROVE  Even'
<1>0. TypeOK /\ TypeOK' /\ at[s] = "idle"
  BY DEF IInv, Take, TakeInHand
<1>1. /\ UNCHANGED <<inv, intents, ground, rows, created>>
      /\ at' = [at EXCEPT ![s] = "stack"]
  BY DEF Take, TakeInHand, world
<1>2. PICK v \in Vids :
        /\ ground[v] > 0
        /\ vid' = [vid EXCEPT ![s] = v] /\ left' = [left EXCEPT ![s] = ground[v]]
        /\ vid[s] = 0 /\ left[s] = 0 /\ Removals(intents, v) = {}
        /\ \A t \in Sessions : vid[t] # v
  BY TakenWhole
<1>3. ground[v] \in Int
  <2>1. ground[v] \in Counts
    BY <1>0 DEF TypeOK
  <2> QED
    BY <2>1, Limits DEF Counts
<1>4. /\ at'[s] = "stack" /\ left'[s] = ground[v] /\ vid'[s] = v
      /\ \A t \in Sessions \ {s} : UNCHANGED <<at[t], left[t], vid[t]>>
  BY <1>0, <1>1, <1>2 DEF TypeOK
<1>5. Lying' = Lying - ground[v]
  <2>1. \A w \in Vids \ {v} : (\E t \in Sessions : vid'[t] = w) <=> (\E t \in Sessions : vid[t] = w)
    <3>1. \A w \in Vids : w # 0
      BY DEF Vids
    <3> QED
      BY <1>2, <1>4, <3>1
  <2>2. Lying' = Lying - OnTheGround[v] + OnTheGround'[v]
    BY <1>0, <1>1, <2>1, GroundChanges
  <2>3. Claimed(v)' /\ ~Claimed(v)
    BY <1>2, <1>4 DEF Claimed, Removals
  <2>4. OnTheGround[v] = ground[v] /\ OnTheGround'[v] = 0
    BY <2>3 DEF OnTheGround
  <2> QED
    BY <1>0, <1>3, <2>2, <2>4, Numbers
<1>6. FallingIn(intents') = FallingIn(intents)
  BY <1>1
<1>7. (Total(inv'[s], Ids) - Total(inv[s], Ids)) + (left'[s] - left[s]) + (Lying' - Lying)
        + (FallingIn(intents') - FallingIn(intents)) = created' - created
  <2>1. left[s] = 0
    BY <1>2
  <2> QED
    BY <1>0, <1>1, <1>3, <1>4, <1>5, <1>6, <2>1, Numbers
<1>8. \A t \in Sessions \ {s} : UNCHANGED <<at[t], inv[t], left[t]>>
  BY <1>1, <1>4
<1>9. at[s] # "gone" /\ at'[s] # "gone" /\ rows' = rows
  BY <1>0, <1>1, <1>4
<1> QED
  BY <1>0, <1>7, <1>8, <1>9, EvenInGame

\* The whole item goes back to the ground (NoCell).
LEMMA NoCellEven ==
  ASSUME IInv, IInv', Orderly, Even, Clean', NEW s \in Sessions, NoCell(s)
  PROVE  Even'
<1>0. TypeOK /\ TypeOK' /\ at[s] = "stack"
  BY DEF IInv, NoCell
<1>1. UNCHANGED <<inv, intents, ground, rows, created>> /\ Done(s)
  BY DEF NoCell, world
<1>2. vid[s] # 0 /\ takers[vid[s]] = {}
  BY DEF NoCell, Clean
<1>3. PICK v \in Vids : /\ v = vid[s] /\ left[s] = ground[v] /\ takers[v] = {}
                        /\ \A t \in Sessions \ {s} : vid[t] # v
  BY <1>2, Holding
<1>4. ground[v] \in Int
  <2>1. ground[v] \in Counts
    BY <1>0 DEF TypeOK
  <2> QED
    BY <2>1, Limits DEF Counts
<1>5. /\ at'[s] = "idle" /\ left'[s] = 0 /\ vid'[s] = 0
      /\ \A t \in Sessions \ {s} : UNCHANGED <<at[t], left[t], vid[t]>>
  BY <1>0, <1>1 DEF Done, TypeOK
<1>6. Lying' = Lying + ground[v]
  <2>0. \A w \in Vids : w # 0
    BY DEF Vids
  <2>1. \A w \in Vids \ {v} : (\E t \in Sessions : vid'[t] = w) <=> (\E t \in Sessions : vid[t] = w)
    BY <1>3, <1>5, <2>0
  <2>2. Lying' = Lying - OnTheGround[v] + OnTheGround'[v]
    BY <1>0, <1>1, <2>1, GroundChanges
  <2>3. Removals(intents, v) = {}
    BY <1>3 DEF Orderly, WhoTook
  <2>4. Claimed(v) /\ ~Claimed(v)'
    BY <1>1, <1>3, <1>5, <2>0, <2>3 DEF Claimed, Removals
  <2>5. OnTheGround[v] = 0 /\ OnTheGround'[v] = ground[v]
    BY <1>1, <2>4 DEF OnTheGround
  <2> QED
    BY <1>0, <1>4, <2>2, <2>5, Numbers
<1>7. FallingIn(intents') = FallingIn(intents)
  BY <1>1
<1> QED
  BY <1>0, <1>1, <1>3, <1>4, <1>5, <1>6, <1>7, Numbers, EvenInGame

\* What was in memory is what the rows have (Disconnect).
LEMMA DisconnectEven ==
  ASSUME IInv, IInv', Orderly, Even, Clean', NEW s \in Sessions, Disconnect(s)
  PROVE  Even'
<1>0. TypeOK /\ TypeOK' /\ intents \in Seq(Intents)
  BY DEF IInv, TypeOK
<1>1. /\ UNCHANGED <<ground, rows, created>> /\ at' = [at EXCEPT ![s] = "gone"]
      /\ left' = [left EXCEPT ![s] = 0] /\ vid' = [vid EXCEPT ![s] = 0]
      /\ inv' = [inv EXCEPT ![s] = [i \in Ids |-> 0]] /\ intents' = Orphaned(intents, s)
  BY DEF Disconnect
<1>2. at[s] = "idle" /\ Clean
  BY DEF Disconnect, Clean
<1>3. left[s] = 0 /\ vid[s] = 0
  BY <1>2 DEF Orderly, HandEmpty
<1>4. /\ at'[s] = "gone" /\ vid' = vid
      /\ \A t \in Sessions \ {s} : UNCHANGED <<at[t], left[t], inv[t]>>
  BY <1>0, <1>1, <1>3 DEF TypeOK
<1>5. inv[s] = OwnedRows(s)
  <2>1. Agree(s) /\ inv[s] \in [Ids -> Counts]
    BY <1>0, <1>2 DEF IInv, RowsAgree, Undisturbed, Clean, TypeOK
  <2>2. \A i \in Ids : inv[s][i] = OwnedRows(s)[i]
    BY <1>2, <2>1 DEF Agree
  <2>3. OwnedRows(s) = [i \in Ids |-> OwnedRows(s)[i]]
    BY DEF OwnedRows
  <2> HIDE DEF OwnedRows
  <2> QED
    BY <2>1, <2>2, <2>3
<1>6. OwnedRows(s)' = OwnedRows(s)
  BY <1>1 DEF OwnedRows
<1>7. Share(s)' = Share(s)
  <2>1. Share(s) = Total(OwnedRows(s), Ids) + 0
    BY <1>2, <1>3, <1>5 DEF Share
  <2>2. Share(s)' = Total(OwnedRows(s), Ids)
    BY <1>4, <1>6 DEF Share
  <2>3. Total(OwnedRows(s), Ids) \in Int
    BY <1>0, SumTypes DEF SumsTyped
  <2> QED
    BY <2>1, <2>2, <2>3
<1>8. Lying' = Lying
  <2>1. \A v \in Vids : Removals(intents', v) = Removals(intents, v)
    BY <1>0, <1>1, QueueOrphaned
  <2> QED
    BY <1>0, <1>1, <1>4, <2>1, GroundAlone
<1>9. FallingIn(intents)' = FallingIn(intents)
  BY <1>0, <1>1, FallingOrphaned
<1>10. Local(s)' = Local(s)
  BY <1>1, <1>7, <1>8, <1>9 DEF Local
<1> QED
  BY <1>0, <1>1, <1>4, <1>10, EvenLocally

\* What the rows have is what is in memory (Enter).
LEMMA EnterEven ==
  ASSUME IInv, IInv', Orderly, Even, NEW s \in Sessions, Enter(s)
  PROVE  Even'
<1>0. TypeOK /\ TypeOK' /\ at[s] = "gone" /\ left[s] = 0
  BY DEF IInv, Enter, Orderly, HandEmpty
<1>1. /\ UNCHANGED <<left, vid, intents, ground, rows, created>>
      /\ at' = [at EXCEPT ![s] = "idle"] /\ inv' = [inv EXCEPT ![s] = OwnedRows(s)]
  BY DEF Enter, world, ghosts
<1>2. /\ at'[s] = "idle" /\ inv'[s] = OwnedRows(s)
      /\ \A t \in Sessions \ {s} : UNCHANGED <<at[t], left[t], inv[t]>>
  BY <1>0, <1>1 DEF TypeOK
<1>3. Share(s)' = Share(s)
  <2>1. Share(s) = Total(OwnedRows(s), Ids)
    BY <1>0 DEF Share
  <2>2. Share(s)' = Total(OwnedRows(s), Ids) + 0
    BY <1>0, <1>1, <1>2 DEF Share
  <2>3. Total(OwnedRows(s), Ids) \in Int
    BY <1>0, SumTypes DEF SumsTyped
  <2> QED
    BY <2>1, <2>2, <2>3
<1>4. Lying' = Lying /\ FallingIn(intents)' = FallingIn(intents)
  BY <1>0, <1>1, QuietEven
<1>5. Local(s)' = Local(s)
  BY <1>1, <1>3, <1>4 DEF Local
<1> QED
  BY <1>0, <1>1, <1>2, <1>5, EvenLocally

\* The world moves pieces from the queue to the ground.
LEMMA WorldEven ==
  ASSUME TypeOK, TypeOK', Even, UNCHANGED <<at, left, inv, rows, created>>,
         (Lying' - Lying) + (FallingIn(intents') - FallingIn(intents)) = 0
  PROVE  Even'
<1>1. Shares' = Shares
  BY DEF Shares, Share, OwnedRows
<1>2. Total(Shares, Sessions) \in Int /\ Lying \in Int /\ FallingIn(intents) \in Int
  BY SumTypes DEF SumsTyped
<1>3. Lying' \in Int /\ FallingIn(intents') \in Int
  BY SumTypesNext DEF SumsTyped
<1>4. Total(Shares, Sessions) + Lying + FallingIn(intents) = created
  BY DEF Even, Counted
<1>5. Total(Shares', Sessions) + Lying' + FallingIn(intents') = created'
  BY <1>1, <1>2, <1>3, <1>4
<1> QED
  BY <1>5 DEF Even, Counted

\* What the head of the queue is not about stays asked for.
LEMMA RemovalsLeft ==
  ASSUME NEW q \in Seq(Intents), q # <<>>, NEW v \in Vids,
         ~(Head(q).kind = "remove" /\ Head(q).vid = v)
  PROVE  Removals(Tail(q), v) = {} <=> Removals(q, v) = {}
<1>1. /\ \A i \in Removals(Tail(q), v) : i + 1 \in Removals(q, v)
      /\ 1 \notin Removals(q, v)
      /\ \A i \in Removals(q, v) : i # 1 => i - 1 \in Removals(Tail(q), v)
  BY RemovalsShifted
<1>2. ASSUME NEW i \in Removals(Tail(q), v) PROVE Removals(q, v) # {}
  BY <1>1
<1>3. ASSUME NEW i \in Removals(q, v) PROVE Removals(Tail(q), v) # {}
  BY <1>1
<1> QED
  BY <1>2, <1>3

\* Pieces go from the queue to the ground (WorldDrop).
LEMMA WorldDropEven ==
  ASSUME IInv, IInv', Even, WorldDrop
  PROVE  Even'
<1>0. /\ TypeOK /\ TypeOK' /\ intents # <<>> /\ Head(intents).kind = "drop"
      /\ intents \in Seq(Intents) /\ nextVid \in Nat \ {0} /\ MaxDrops \in Nat
  <2>1. TypeOK /\ TypeOK'
    BY DEF IInv
  <2>2. intents # <<>> /\ Head(intents).kind = "drop"
    BY DEF WorldDrop
  <2>3. intents \in Seq(Intents) /\ nextVid \in 1 .. MaxDrops + 1
    BY <2>1 DEF TypeOK
  <2> QED
    BY <2>1, <2>2, <2>3, Limits
<1>1. /\ UNCHANGED <<at, left, vid, inv, rows, created>>
      /\ ground' = [ground EXCEPT ![nextVid] = Head(intents).count]
      /\ intents' = Tail(intents)
  BY DEF WorldDrop, handler, ghosts
<1>2. nextVid \in Vids
  <2>1. /\ Tail(intents) \in Seq(Intents)
        /\ Cardinality(Drops(Tail(intents))) <= Cardinality(Drops(intents)) - 1
        /\ Cardinality(Drops(intents)) \in Nat
    BY <1>0, DropsOf, ElementsOf
  <2>2. Cardinality(Drops(Tail(intents))) \in Nat
    BY <2>1, DropsOf
  <2>3. nextVid + Cardinality(Drops(intents)) <= MaxDrops + 1
    BY DEF IInv, DropsFit
  <2> QED
    BY <1>0, <2>1, <2>2, <2>3 DEF Vids
<1>3. PICK v \in Vids : v = nextVid
  BY <1>2
<1>4. PICK n \in Counts : n = Head(intents).count /\ n \in Int
  <2>1. Head(intents) \in Intents
    BY <1>0, ElementsOf
  <2> QED
    BY <2>1, Limits DEF Intents, Counts
<1>5. ground[v] = 0 /\ ground'[v] = n /\ \A w \in Vids \ {v} : ground'[w] = ground[w]
  <2>1. ground[v] = 0
    BY <1>0, <1>3 DEF IInv, FreshIsFree
  <2> QED
    BY <1>0, <1>1, <1>3, <1>4, <2>1 DEF TypeOK
<1>6. \A w \in Vids : Removals(Tail(intents), w) = {} <=> Removals(intents, w) = {}
  BY <1>0, RemovalsLeft
<1>7. Removals(intents, v) = {}
  <2>1. SUFFICES ASSUME NEW i \in Removals(intents, v) PROVE FALSE
    OBVIOUS
  <2>2. intents[i] \in SoundIntents /\ intents[i].kind = "remove" /\ intents[i].vid = v
    BY DEF Removals, IInv, QueuesSound
  <2> QED
    BY <1>0, <1>3, <2>2 DEF SoundIntents, Behind
<1>8. \A t \in Sessions : vid[t] # v
  <2>1. \A t \in Sessions : vid[t] # 0 => Behind(vid[t])
    BY DEF IInv, InHand
  <2> QED
    BY <1>0, <1>3, <2>1 DEF Behind
<1>9. Lying' = Lying + n
  <2>1. Lying' = Lying - OnTheGround[v] + OnTheGround'[v]
    BY <1>0, <1>1, <1>5, <1>6, GroundChanges
  <2>2. ~Claimed(v)'
    BY <1>1, <1>6, <1>7, <1>8 DEF Claimed, Removals
  <2>3. OnTheGround[v] = 0 /\ OnTheGround'[v] = n
    BY <1>5, <2>2 DEF OnTheGround
  <2>4. Lying \in Int
    BY <1>0, SumTypes DEF SumsTyped
  <2> QED
    BY <1>4, <2>1, <2>3, <2>4
<1>10. FallingIn(intents') = FallingIn(intents) - n /\ FallingIn(intents) \in Int
  <2>1. FallingIn(intents) \in Int
    BY <1>0, SumTypes DEF SumsTyped
  <2> QED
    BY <1>0, <1>1, <1>4, <2>1, FallingShifted
<1>11. Lying \in Int
  BY <1>0, SumTypes DEF SumsTyped
<1> QED
  BY <1>0, <1>1, <1>4, <1>9, <1>10, <1>11, WorldEven

\* An answer moves nothing (WorldPickup).
LEMMA WorldPickupEven ==
  ASSUME IInv, IInv', Even, WorldPickup
  PROVE  Even'
<1>0. /\ TypeOK /\ TypeOK' /\ intents # <<>> /\ Head(intents).kind = "pickup"
      /\ intents \in Seq(Intents)
  BY DEF IInv, TypeOK, WorldPickup
<1>1. UNCHANGED <<at, left, vid, inv, ground, rows, created>> /\ intents' = Tail(intents)
  BY DEF WorldPickup, handler, ghosts
<1>2. Lying' = Lying
  BY <1>0, <1>1, RemovalsLeft, GroundAlone
<1>3. FallingIn(intents') = FallingIn(intents) - 0
  BY <1>0, <1>1, FallingShifted
<1>4. Lying \in Int /\ FallingIn(intents) \in Int
  BY <1>0, SumTypes DEF SumsTyped
<1> QED
  BY <1>0, <1>1, <1>2, <1>3, <1>4, WorldEven

\* What is removed was claimed (WorldRemove).
LEMMA WorldRemoveEven ==
  ASSUME IInv, IInv', Even, WorldRemove
  PROVE  Even'
<1>0. /\ TypeOK /\ TypeOK' /\ intents # <<>> /\ Head(intents).kind = "remove"
      /\ intents \in Seq(Intents)
  BY DEF IInv, TypeOK, WorldRemove
<1>1. /\ UNCHANGED <<at, left, vid, inv, rows, created>> /\ intents' = Tail(intents)
      /\ ground' = [ground EXCEPT ![Head(intents).vid] = 0]
  BY DEF WorldRemove, handler, ghosts
<1>2. PICK v \in Vids : v = Head(intents).vid
  <2>1. Head(intents) \in SoundIntents
    BY <1>0, ElementsOf DEF IInv, QueuesSound
  <2> QED
    BY <1>0, <2>1 DEF SoundIntents, Behind
<1>3. ground'[v] = 0 /\ \A w \in Vids \ {v} : ground'[w] = ground[w]
  BY <1>0, <1>1, <1>2 DEF TypeOK
<1>4. \A w \in Vids \ {v} : Removals(Tail(intents), w) = {} <=> Removals(intents, w) = {}
  BY <1>0, <1>2, RemovalsLeft
<1>5. Removals(intents, v) # {}
  BY <1>0, <1>2, RemovalsShifted
<1>6. Lying' = Lying
  <2>1. Lying' = Lying - OnTheGround[v] + OnTheGround'[v]
    BY <1>0, <1>1, <1>3, <1>4, GroundChanges
  <2>2. Claimed(v)
    BY <1>5 DEF Claimed, Removals
  <2>3. OnTheGround[v] = 0 /\ OnTheGround'[v] = 0
    BY <1>3, <2>2 DEF OnTheGround
  <2>4. Lying \in Int
    BY <1>0, SumTypes DEF SumsTyped
  <2> QED
    BY <2>1, <2>3, <2>4
<1>7. FallingIn(intents') = FallingIn(intents) - 0
  BY <1>0, <1>1, FallingShifted
<1>8. Lying \in Int /\ FallingIn(intents) \in Int
  BY <1>0, SumTypes DEF SumsTyped
<1> QED
  BY <1>0, <1>1, <1>6, <1>7, <1>8, WorldEven

\* There is nothing before anybody acts.
LEMMA InitEven == Init => Even
<1> SUFFICES ASSUME Init PROVE Even
  OBVIOUS
<1>0. TypeOK
  BY InitInv DEF IInv
<1>1. /\ at = [s \in Sessions |-> "idle"] /\ left = [s \in Sessions |-> 0]
      /\ inv = [s \in Sessions |-> [i \in Ids |-> 0]]
      /\ intents = <<>> /\ ground = [v \in Vids |-> 0] /\ created = 0
  BY DEF Init
<1>2. Total(Shares, Sessions) = 0
  <2>1. ASSUME NEW s \in Sessions PROVE Share(s) = 0
    <3>1. inv[s] \in [Ids -> Int] /\ \A i \in Ids : inv[s][i] = 0
      BY <1>1
    <3>2. Total(inv[s], Ids) = 0
      BY <3>1, FiniteParts, TotalOfNothing
    <3> QED
      BY <1>1, <3>2 DEF Share
  <2>2. Shares \in [Sessions -> Int] /\ \A s \in Sessions : Shares[s] = 0
    BY <2>1 DEF Shares
  <2> QED
    BY <2>2, FiniteParts, TotalOfNothing
<1>3. Lying = 0
  <2>1. OnTheGround \in [Vids -> Int] /\ \A v \in Vids : OnTheGround[v] = 0
    BY <1>1 DEF OnTheGround
  <2> QED
    BY <2>1, FiniteParts, TotalOfNothing DEF Lying
<1>4. FallingIn(intents) = 0
  <2>1. intents \in Seq(Intents) /\ DOMAIN intents = {}
    BY <1>1
  <2>2. DropCounts(intents) \in [DOMAIN intents -> Int] /\ IsFiniteSet(DOMAIN intents)
    BY <2>1, QueueSumTypes, FiniteParts
  <2> QED
    BY <2>1, <2>2, TotalOfNothing DEF FallingIn
<1> QED
  BY <1>1, <1>2, <1>3, <1>4 DEF Even, Counted

\* No step of the world, a session or a connection creates or destroys pieces.
LEMMA NextEven ==
  ASSUME IInv, IInv', Orderly, Even, [Next]_vars, Clean'
  PROVE  Even'
<1>0. Clean
  BY ExcusesStay
<1>1. CASE UNCHANGED vars
  <2>1. UNCHANGED <<at, left, vid, inv, intents, ground, rows, created>>
    BY <1>1 DEF vars, handler, world, ghosts
  <2>2. Lying' = Lying /\ FallingIn(intents') = FallingIn(intents)
    BY <2>1, QuietEven DEF IInv
  <2>3. Lying \in Int /\ FallingIn(intents) \in Int
    BY SumTypes DEF IInv, SumsTyped
  <2> QED
    BY <2>1, <2>2, <2>3, WorldEven DEF IInv
<1>2. CASE World
  BY <1>2, WorldDropEven, WorldPickupEven, WorldRemoveEven DEF World
<1>3. ASSUME NEW s \in Sessions, Handle(s) PROVE Even'
  BY <1>0, <1>3, StoreRowEven, PickupRefusedEven, TakeEven, StackEven, StackDoneEven, NoCellEven,
     AllocateIdEven, InsertEven DEF Handle
<1>4. ASSUME NEW s \in Sessions, Ask(s) PROVE Even'
  BY <1>0, <1>4, KillDropEven, DropItemEven, PickupEven, SplitEven, MergeEven, GiveEven DEF Ask
<1> QED
  BY <1>1, <1>2, <1>3, <1>4, DisconnectEven, EnterEven DEF Next

-----------------------------------------------------------------------------
(* No piece is lost                                                        *)

\* Pieces appear only when a mob, a quest or a game master creates them and never vanish, as long
\* as none of the four things happened that the code leaves open.
THEOREM PiecesStay == Spec => []PiecesConserved
<1> DEFINE EInv == IInv /\ (Clean => Orderly /\ Even)
<1>1. Init => EInv
  BY InitInv, InitOrderly, InitEven
<1>2. EInv /\ [Next]_vars => EInv'
  <2>1. SUFFICES ASSUME EInv, [Next]_vars PROVE EInv'
    OBVIOUS
  <2>2. IInv /\ IInv'
    BY <2>1, NextInv
  <2>3. ASSUME Clean' PROVE Orderly' /\ Even'
    <3>1. Orderly /\ Even
      BY <2>1, <2>3, ExcusesStay
    <3> QED
      BY <2>1, <2>2, <2>3, <3>1, NextOrderly, NextEven
  <2> QED
    BY <2>2, <2>3
<1>3. EInv => PiecesConserved
  <2>1. SUFFICES ASSUME EInv, Clean PROVE Pieces = created
    BY DEF PiecesConserved, Clean
  <2>2. TypeOK /\ Counted = created
    BY <2>1 DEF IInv, Even
  <2> QED
    BY <2>2, PiecesAre
<1> QED
  BY <1>1, <1>2, <1>3, PTL DEF Spec
=============================================================================
