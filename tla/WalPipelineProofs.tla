-------------------------- MODULE WalPipelineProofs --------------------------
(***************************************************************************)
(* Proofs about WalPipeline for every number of sessions, batch size and   *)
(* bound: its type invariant, the inductive invariant IInv that ties a     *)
(* batch to its file and to the audit, the refinement of DurableWrites,    *)
(* the order of the commits, and that a replay keeps the players: the      *)
(* statements of a file, run twice, do what they did once.                 *)
(***************************************************************************)
EXTENDS WalPipeline, TLAPS, WellFoundedInduction, SequenceTheorems

-----------------------------------------------------------------------------
(* Transactions keep the type of the database                              *)

\* A non-empty set of naturals has a least element.
LEMMA LeastElement ==
  ASSUME NEW T, T \subseteq Nat, T # {}
  PROVE  \E x \in T : \A y \in T : x <= y
<1>1. PICK x \in T : \A y \in T : <<y, x>> \notin OpToRel(<, Nat)
  BY NatLessThanWellFounded, WFMin, Zenon
<1>2. \A y \in T : ~(y < x)
  BY <1>1 DEF OpToRel
<1> QED
  BY <1>2

\* One statement maps players to players (Execute).
LEMMA ExecuteType ==
  ASSUME NEW d \in Players, NEW m \in Mutations
  PROVE  Execute(d, m) \in Players
BY DEF Execute, Players, Mutations, MutationIds

\* What holds at the start and passes from each place to the next holds everywhere.
LEMMA Climb ==
  ASSUME NEW N \in Nat, NEW Good, 0 \in Good, \A i \in 1 .. N : i - 1 \in Good => i \in Good
  PROVE  \A i \in 0 .. N : i \in Good
<1> DEFINE Bad == (0 .. N) \ Good
<1> SUFFICES ASSUME Bad # {} PROVE FALSE
  OBVIOUS
<1>1. PICK n \in Bad : \A k \in Bad : n <= k
  <2>1. Bad \subseteq Nat
    OBVIOUS
  <2> HIDE DEF Bad
  <2> QED
    BY <2>1, LeastElement
<1>2. n \in 1 .. N /\ n - 1 \in 0 .. N
  OBVIOUS
<1>3. n - 1 \in Good
  BY <1>1, <1>2
<1> QED
  BY <1>2, <1>3

\* g is what a transaction computes of d, statement by statement (ExecuteAll).
Runs(g, d, muts, skip) ==
  /\ g \in [0 .. Len(muts) -> Players] /\ g[0] = d
  /\ \A i \in 1 .. Len(muts) :
       g[i] = IF muts[i].id \in skip THEN g[i - 1] ELSE Execute(g[i - 1], muts[i])

\* Every transaction has one: the recursion is unfolded by Climb, once to find g and once to
\* find that ExecuteAll computes it.
LEMMA RunExists ==
  ASSUME NEW d \in Players, NEW muts \in Seq(Mutations), NEW skip
  PROVE  \E g : Runs(g, d, muts, skip) /\ ExecuteAll(d, muts, skip) = g[Len(muts)]
<1> DEFINE
      N == Len(muts)
      Step(f, i) == IF i = 0 THEN d
                    ELSE IF muts[i].id \in skip THEN f[i - 1]
                    ELSE Execute(f[i - 1], muts[i])
      Fold(n) == {f \in [0 .. n -> Players] : \A i \in 0 .. n : f[i] = Step(f, i)}
      Some == {n \in 0 .. N : Fold(n) # {}}
<1>1. N \in Nat /\ \A i \in 1 .. N : muts[i] \in Mutations
  OBVIOUS
<1>2. 0 \in Some
  <2>1. [i \in 0 .. 0 |-> d] \in Fold(0)
    OBVIOUS
  <2> QED
    BY <1>1, <2>1
<1>3. ASSUME NEW n \in 1 .. N, NEW f \in Fold(n - 1)
      PROVE  Fold(n) # {}
  <2> DEFINE g == [i \in 0 .. n |-> IF i < n THEN f[i] ELSE Step(f, n)]
  <2>1. Step(f, n) \in Players
    <3>1. f[n - 1] \in Players
      BY <1>1
    <3>2. Execute(f[n - 1], muts[n]) \in Players
      BY <3>1, <1>1, ExecuteType
    <3> QED
      BY <3>1, <3>2
  <2>2. g \in [0 .. n -> Players]
    BY <2>1, <1>1
  <2>3. \A i \in 0 .. n : g[i] = Step(g, i)
    <3> TAKE i \in 0 .. n
    <3>1. CASE i < n
      BY <3>1, <1>1
    <3>2. CASE i = n
      BY <3>2, <1>1
    <3> QED
      BY <3>1, <3>2, <1>1
  <2> QED
    BY <2>2, <2>3
<1>4. \A i \in 0 .. N : i \in Some
  <2>1. \A i \in 1 .. N : i - 1 \in Some => i \in Some
    <3> HIDE DEF Fold
    <3> QED
      BY <1>1, <1>3
  <2> HIDE DEF Some
  <2> QED
    BY <1>1, <1>2, <2>1, Climb
<1>5. PICK f \in Fold(N) : TRUE
  BY <1>4, <1>1
<1> DEFINE after == CHOOSE g : g = [i \in 0 .. N |-> Step(g, i)]
<1>6. f = [i \in 0 .. N |-> Step(f, i)]
  BY <1>5
<1>7. after = [i \in 0 .. N |-> Step(after, i)]
  BY <1>6
<1> HIDE DEF after
<1> DEFINE Well == {i \in 0 .. N : after[i] \in Players}
<1>8. \A i \in 0 .. N : i \in Well
  <2>1. 0 \in Well
    BY <1>7, <1>1
  <2>2. ASSUME NEW i \in 1 .. N, after[i - 1] \in Players PROVE after[i] \in Players
    <3>1. Execute(after[i - 1], muts[i]) \in Players
      BY <2>2, <1>1, ExecuteType
    <3> QED
      BY <1>7, <2>2, <3>1, <1>1
  <2>3. \A i \in 1 .. N : i - 1 \in Well => i \in Well
    BY <2>2
  <2> HIDE DEF Well
  <2> QED
    BY <1>1, <2>1, <2>3, Climb
<1>9. after \in [0 .. N -> Players]
  BY <1>7, <1>8
<1>10. Runs(after, d, muts, skip)
  <2>1. after[0] = d
    BY <1>7, <1>1
  <2>2. \A i \in 1 .. N : after[i] = IF muts[i].id \in skip THEN after[i - 1]
                                     ELSE Execute(after[i - 1], muts[i])
    <3> SUFFICES ASSUME NEW i \in 1 .. N
                 PROVE  after[i] = IF muts[i].id \in skip THEN after[i - 1]
                                   ELSE Execute(after[i - 1], muts[i])
      OBVIOUS
    <3>1. i \in 0 .. N /\ i # 0
      BY <1>1
    <3>2. after[i] = Step(after, i)
      <4> HIDE DEF Step
      <4> QED
        BY <1>7, <3>1
    <3> QED
      BY <3>1, <3>2
  <2> QED
    BY <1>9, <2>1, <2>2, Zenon DEF Runs
<1>11. ExecuteAll(d, muts, skip) = after[N]
  BY DEF ExecuteAll, after
<1> QED
  BY <1>10, <1>11

\* A transaction maps players to players, whatever it skips (ExecuteAll).
LEMMA ExecuteAllType ==
  ASSUME NEW d \in Players, NEW muts \in Seq(Mutations), NEW skip
  PROVE  ExecuteAll(d, muts, skip) \in Players
<1>1. PICK g : g \in [0 .. Len(muts) -> Players] /\ ExecuteAll(d, muts, skip) = g[Len(muts)]
  BY RunExists DEF Runs
<1>2. Len(muts) \in 0 .. Len(muts)
  OBVIOUS
<1> QED
  BY <1>1, <1>2

-----------------------------------------------------------------------------
(* Identifiers carried by sequences                                        *)

\* Where the identifiers of a message sequence go (queue and batch).
LEMMA IdsOfSequences ==
  ASSUME NEW S, NEW seq \in Seq(S)
  PROVE  /\ IdsOf(<<>>) = {}
         /\ \A m \in S : IdsOf(Append(seq, m)) = IdsOf(seq) \cup {m.id}
         /\ \A m \in S : IdsOf(<<m>>) = {m.id}
         /\ seq # <<>> => IdsOf(seq) = {Head(seq).id} \cup IdsOf(Tail(seq))
         /\ \A n \in 0 .. Len(seq) : IdsOf(SubSeq(seq, 1, n)) \subseteq IdsOf(seq)
<1>1. IdsOf(<<>>) = {}
  BY DEF IdsOf
<1>2. ASSUME NEW m \in S
      PROVE  IdsOf(Append(seq, m)) = IdsOf(seq) \cup {m.id}
  <2> DEFINE app == Append(seq, m)
  <2>1. /\ DOMAIN app = 1 .. Len(seq) + 1 /\ DOMAIN seq = 1 .. Len(seq)
        /\ Len(seq) \in Nat /\ app[Len(seq) + 1] = m
        /\ \A i \in 1 .. Len(seq) : app[i] = seq[i]
    OBVIOUS
  <2> HIDE DEF app
  <2>2. IdsOf(app) \subseteq IdsOf(seq) \cup {m.id}
    BY <2>1 DEF IdsOf
  <2>3. IdsOf(seq) \subseteq IdsOf(app) /\ m.id \in IdsOf(app)
    BY <2>1 DEF IdsOf
  <2> QED
    BY <2>2, <2>3 DEF app
<1>3. ASSUME NEW m \in S
      PROVE  IdsOf(<<m>>) = {m.id}
  BY DEF IdsOf
<1>4. ASSUME seq # <<>>
      PROVE  IdsOf(seq) = {Head(seq).id} \cup IdsOf(Tail(seq))
  <2> DEFINE tl == Tail(seq)
  <2>1. /\ DOMAIN tl = 1 .. Len(seq) - 1 /\ DOMAIN seq = 1 .. Len(seq)
        /\ Len(seq) \in Nat \ {0} /\ Head(seq) = seq[1]
        /\ \A i \in 1 .. Len(seq) - 1 : tl[i] = seq[i + 1]
    BY <1>4
  <2> HIDE DEF tl
  <2>2. IdsOf(tl) \subseteq IdsOf(seq) /\ Head(seq).id \in IdsOf(seq)
    <3>1. Head(seq).id \in IdsOf(seq)
      BY <2>1 DEF IdsOf
    <3>2. ASSUME NEW i \in 1 .. Len(seq) - 1
          PROVE  i + 1 \in DOMAIN seq /\ tl[i].id = seq[i + 1].id
      BY <2>1
    <3> QED
      BY <2>1, <3>1, <3>2 DEF IdsOf
  <2>3. IdsOf(seq) \subseteq {Head(seq).id} \cup IdsOf(tl)
    <3> SUFFICES ASSUME NEW i \in 1 .. Len(seq)
                 PROVE  seq[i].id \in {Head(seq).id} \cup IdsOf(tl)
      BY <2>1 DEF IdsOf
    <3>1. CASE i = 1
      BY <3>1, <2>1
    <3>2. CASE i # 1
      <4>1. i - 1 \in DOMAIN tl /\ tl[i - 1] = seq[i]
        BY <3>2, <2>1
      <4> QED
        BY <4>1 DEF IdsOf
    <3> QED
      BY <3>1, <3>2
  <2> QED
    BY <2>2, <2>3 DEF tl
<1>5. ASSUME NEW n \in 0 .. Len(seq)
      PROVE  IdsOf(SubSeq(seq, 1, n)) \subseteq IdsOf(seq)
  BY DEF IdsOf
<1> QED
  BY <1>1, <1>2, <1>3, <1>4, <1>5

\* What a sequence of files holds (FileIds).
HeldBy(fs) == UNION {IdsOf(fs[f].muts) : f \in DOMAIN fs}

\* What it holds after one is added or removed (Append, SubSeq, Tail).
LEMMA HeldByFiles ==
  ASSUME NEW fs \in Seq(WalFile)
  PROVE  /\ \A w \in WalFile : /\ Append(fs, w) \in Seq(WalFile)
                              /\ HeldBy(Append(fs, w)) = HeldBy(fs) \cup IdsOf(w.muts)
                              /\ Append(fs, w) # <<>>
                              /\ Append(fs, w)[Len(Append(fs, w))] = w
         /\ fs # <<>> => /\ Tail(fs) \in Seq(WalFile)
                        /\ Head(fs) \in WalFile
                        /\ HeldBy(fs) = HeldBy(Tail(fs)) \cup IdsOf(Head(fs).muts)
         /\ fs # <<>> => /\ SubSeq(fs, 1, Len(fs) - 1) \in Seq(WalFile)
                        /\ HeldBy(fs) = HeldBy(SubSeq(fs, 1, Len(fs) - 1))
                                          \cup IdsOf(fs[Len(fs)].muts)
<1>1. ASSUME NEW w \in WalFile
      PROVE  /\ Append(fs, w) \in Seq(WalFile)
             /\ HeldBy(Append(fs, w)) = HeldBy(fs) \cup IdsOf(w.muts)
             /\ Append(fs, w) # <<>>
             /\ Append(fs, w)[Len(Append(fs, w))] = w
  <2> DEFINE app == Append(fs, w)
  <2>1. /\ DOMAIN app = DOMAIN fs \cup {Len(fs) + 1} /\ app[Len(fs) + 1] = w
        /\ \A f \in DOMAIN fs : app[f] = fs[f]
        /\ app \in Seq(WalFile) /\ Len(app) = Len(fs) + 1 /\ app # <<>>
    OBVIOUS
  <2> HIDE DEF app
  <2>2. HeldBy(app) = HeldBy(fs) \cup IdsOf(w.muts)
    <3>1. HeldBy(app) \subseteq HeldBy(fs) \cup IdsOf(w.muts)
      BY <2>1 DEF HeldBy
    <3>2. HeldBy(fs) \subseteq HeldBy(app)
      BY <2>1 DEF HeldBy
    <3>3. IdsOf(w.muts) \subseteq HeldBy(app)
      BY <2>1 DEF HeldBy
    <3> QED
      BY <3>1, <3>2, <3>3
  <2> QED
    BY <2>1, <2>2 DEF app
<1>2. ASSUME fs # <<>>
      PROVE  /\ Tail(fs) \in Seq(WalFile)
             /\ Head(fs) \in WalFile
             /\ HeldBy(fs) = HeldBy(Tail(fs)) \cup IdsOf(Head(fs).muts)
  <2> DEFINE tl == Tail(fs)
  <2>1. /\ DOMAIN tl = 1 .. Len(fs) - 1 /\ DOMAIN fs = 1 .. Len(fs)
        /\ Len(fs) \in Nat \ {0} /\ Head(fs) = fs[1] /\ Head(fs) \in WalFile
        /\ \A f \in 1 .. Len(fs) - 1 : tl[f] = fs[f + 1]
        /\ tl \in Seq(WalFile)
    BY <1>2
  <2> HIDE DEF tl
  <2>2. IdsOf(Head(fs).muts) \subseteq HeldBy(fs)
    BY <2>1 DEF HeldBy
  <2>3. ASSUME NEW f \in DOMAIN tl
        PROVE  IdsOf(tl[f].muts) \subseteq HeldBy(fs)
    <3>1. f + 1 \in DOMAIN fs /\ tl[f] = fs[f + 1]
      BY <2>1
    <3> QED
      BY <3>1 DEF HeldBy
  <2>4. ASSUME NEW f \in DOMAIN fs
        PROVE  IdsOf(fs[f].muts) \subseteq HeldBy(tl) \cup IdsOf(Head(fs).muts)
    <3>1. CASE f = 1
      BY <3>1, <2>1
    <3>2. CASE f # 1
      <4>1. f - 1 \in DOMAIN tl /\ tl[f - 1] = fs[f]
        BY <3>2, <2>1
      <4> QED
        BY <4>1 DEF HeldBy
    <3> QED
      BY <3>1, <3>2
  <2>5. HeldBy(tl) \subseteq HeldBy(fs)
    BY <2>3 DEF HeldBy
  <2>6. HeldBy(fs) \subseteq HeldBy(tl) \cup IdsOf(Head(fs).muts)
    BY <2>4 DEF HeldBy
  <2> QED
    BY <2>1, <2>2, <2>5, <2>6 DEF tl
<1>3. ASSUME fs # <<>>
      PROVE  /\ SubSeq(fs, 1, Len(fs) - 1) \in Seq(WalFile)
             /\ HeldBy(fs) = HeldBy(SubSeq(fs, 1, Len(fs) - 1)) \cup IdsOf(fs[Len(fs)].muts)
  <2> DEFINE front == SubSeq(fs, 1, Len(fs) - 1)
  <2>1. /\ DOMAIN front = 1 .. Len(fs) - 1 /\ DOMAIN fs = 1 .. Len(fs)
        /\ Len(fs) \in Nat \ {0}
        /\ \A f \in 1 .. Len(fs) - 1 : front[f] = fs[f]
        /\ front \in Seq(WalFile)
    BY <1>3
  <2> HIDE DEF front
  <2>2. \A f \in DOMAIN fs : f \in DOMAIN front \/ f = Len(fs)
    BY <2>1
  <2>3. DOMAIN front \subseteq DOMAIN fs /\ Len(fs) \in DOMAIN fs
    BY <2>1
  <2>4. HeldBy(front) \subseteq HeldBy(fs)
    BY <2>1, <2>3 DEF HeldBy
  <2>5. IdsOf(fs[Len(fs)].muts) \subseteq HeldBy(fs)
    BY <2>3 DEF HeldBy
  <2>6. HeldBy(fs) \subseteq HeldBy(front) \cup IdsOf(fs[Len(fs)].muts)
    BY <2>1, <2>2 DEF HeldBy
  <2> QED
    BY <2>1, <2>4, <2>5, <2>6 DEF front
<1> QED
  BY <1>1, <1>2, <1>3

-----------------------------------------------------------------------------
(* What the shared parts of the actions do to the types                    *)

USE DEF sessionVars, workerVars, startVars, pgVars, bounds

\* The messages the worker tells apart (Msg).
LEMMA MessageTypes ==
  /\ \A m \in Msg : m.kind # "flush" => m \in Mutations
  /\ \A m \in Msg : m.kind = "flush" => m.by \in Sessions /\ m.id = 0
  /\ \A m \in Mutations : m.id \in MutationIds /\ m.id # 0
  /\ Mutations \subseteq Msg
BY BoundsAssumption DEF Msg, Mutations, Flushes, MutationIds

\* A transaction keeps PostgreSQL well typed (Commit).
LEMMA CommitType ==
  ASSUME TypeOK, NEW muts \in Seq(Mutations), Commit(muts)
  PROVE  /\ db' \in Players /\ ideal' \in Players /\ audit' \subseteq MutationIds
         /\ audit' = audit \cup IdsOf(muts)
<1>1. db' \in Players /\ ideal' \in Players
  BY ExecuteAllType DEF TypeOK, Commit
<1>2. IdsOf(muts) \subseteq MutationIds
  <2>1. \A i \in DOMAIN muts : muts[i] \in Mutations
    OBVIOUS
  <2>2. \A i \in DOMAIN muts : muts[i].id \in MutationIds
    BY <2>1, MessageTypes
  <2> QED
    BY <2>2 DEF IdsOf
<1> QED
  BY <1>1, <1>2 DEF TypeOK, Commit

\* The answer to a flush keeps the session well typed (Answer).
LEMMA AnswerType ==
  ASSUME TypeOK, NEW s \in Sessions \cup {NoSession}, NEW r \in {"ok", "err"}, Answer(s, r)
  PROVE  /\ mem' \in Players
         /\ caller' \in [Sessions -> {"idle", "gold", "flush", "wait"}]
         /\ unit' \in [Sessions -> [gold : 0 .. MaxMutations, row : 0 .. MaxMutations]]
         /\ answer' \in [Sessions -> {"none", "ok", "err"}]
<1>1. CASE s = NoSession
  BY <1>1 DEF Answer, TypeOK
<1>2. CASE s # NoSession
  <2>1. s \in Sessions
    BY <1>2
  <2>2. /\ answer' = [answer EXCEPT ![s] = r]
        /\ caller' = [caller EXCEPT ![s] = "idle"]
        /\ unit' = unit
    BY <1>2 DEF Answer
  <2>3. mem' \in Players
    <3>1. CASE r # "ok"
      BY <1>2, <3>1 DEF Answer, TypeOK
    <3>2. CASE r = "ok"
      <4> DEFINE p == [gold |-> unit[s].gold, items |-> mem[s].items \cup ({unit[s].row} \ {0})]
      <4>1. mem' = [mem EXCEPT ![s] = p]
        BY <1>2, <3>2 DEF Answer
      <4>2. p \in [gold : 0 .. MaxMutations, items : SUBSET MutationIds]
        <5>1. unit[s].gold \in 0 .. MaxMutations /\ unit[s].row \in 0 .. MaxMutations
          BY <2>1 DEF TypeOK
        <5>2. mem[s].items \in SUBSET MutationIds
          BY <2>1 DEF TypeOK, Players
        <5>3. {unit[s].row} \ {0} \subseteq MutationIds
          BY <5>1, BoundsAssumption DEF MutationIds
        <5> QED
          BY <5>1, <5>2, <5>3
      <4>3. mem \in Players
        BY DEF TypeOK
      <4> HIDE DEF p
      <4> QED
        BY <4>1, <4>2, <4>3, <2>1 DEF Players
    <3> QED
      BY <3>1, <3>2
  <2> QED
    BY <2>1, <2>2, <2>3 DEF TypeOK
<1> QED
  BY <1>1, <1>2

\* What a file cut short may hold (CutShort).
LEMMA CutShortFacts ==
  ASSUME TypeOK, CutShort
  PROVE  /\ files' \in Seq(WalFile)
         /\ \A f \in DOMAIN files' : Len(files'[f].muts) <= MaxBatch
         /\ HeldBy(files) \subseteq HeldBy(files')
         /\ HeldBy(files') \subseteq HeldBy(files) \cup IdsOf(batch)
<1>1. CASE files' = files
  BY <1>1 DEF TypeOK
<1>2. CASE \E n \in 0 .. Len(batch), torn \in BOOLEAN :
             files' = Append(files, [muts |-> SubSeq(batch, 1, n), torn |-> torn])
  <2>1. PICK n \in 0 .. Len(batch), torn \in BOOLEAN :
               files' = Append(files, [muts |-> SubSeq(batch, 1, n), torn |-> torn])
    BY <1>2
  <2> DEFINE w == [muts |-> SubSeq(batch, 1, n), torn |-> torn]
  <2>2. batch \in Seq(Mutations) /\ Len(batch) <= MaxBatch /\ files \in Seq(WalFile)
    BY DEF TypeOK
  <2>3. SubSeq(batch, 1, n) \in Seq(Mutations) /\ Len(SubSeq(batch, 1, n)) = n
    BY <2>2
  <2>4. w \in WalFile /\ Len(w.muts) <= MaxBatch
    BY <2>2, <2>3, BatchAssumption DEF WalFile
  <2>5. IdsOf(w.muts) \subseteq IdsOf(batch)
    BY <2>2, IdsOfSequences
  <2>6. files' = Append(files, w)
    BY <2>1
  <2> HIDE DEF w
  <2>7. files' \in Seq(WalFile) /\ HeldBy(files') = HeldBy(files) \cup IdsOf(w.muts)
    BY <2>2, <2>4, <2>6, HeldByFiles
  <2>8. \A f \in DOMAIN files' : Len(files'[f].muts) <= MaxBatch
    BY <2>2, <2>4, <2>6 DEF TypeOK
  <2> QED
    BY <2>5, <2>7, <2>8
<1> QED
  BY <1>1, <1>2 DEF CutShort

-----------------------------------------------------------------------------
(* Every step keeps the types                                              *)

\* A bounded message is a message (Message).
LEMMA MessageType ==
  ASSUME TypeOK, issued < MaxMutations, NEW s \in Sessions,
         NEW kind \in {"save", "gold", "row"}, NEW pre \in 0 .. MaxMutations
  PROVE  /\ Message(issued + 1, s, kind, pre) \in Mutations
         /\ issued + 1 \in MutationIds /\ issued + 1 \in 0 .. MaxMutations
         /\ born \in 0 .. issued + 1
BY BoundsAssumption DEF TypeOK, Message, Mutations, MutationIds

\* A player's row can be given any gold and any items (Players).
LEMMA PlayersUpdate ==
  ASSUME NEW p \in Players, NEW s \in Sessions
  PROVE  /\ \A g \in 0 .. MaxMutations : [p EXCEPT ![s].gold = g] \in Players
         /\ \A i : [p EXCEPT ![s].items = @ \ {i}] \in Players
BY DEF Players

\* A session's step keeps the types (SessionStep).
LEMMA SessionType ==
  ASSUME IInv, NEW s \in Sessions, SessionStep(s)
  PROVE  TypeOK'
<1> USE DEF IInv
<1> USE MessageTypes, BoundsAssumption
<1>1. CASE Save(s)
  <2>1. Message(issued + 1, s, "save", 0) \in Mutations
    BY <1>1, MessageType DEF Save, Push
  <2>2. mem' \in Players
    <3>1. issued + 1 \in 0 .. MaxMutations /\ mem \in Players
      BY <1>1 DEF Save, Push, TypeOK
    <3>2. mem' = [mem EXCEPT ![s].gold = issued + 1]
      BY <1>1 DEF Save
    <3> QED
      BY <3>1, <3>2, PlayersUpdate
  <2>3. /\ issued' \in 0 .. MaxMutations /\ born' \in 0 .. issued'
        /\ queue' \in Seq(Msg)
    BY <1>1, <2>1 DEF Save, Push, TypeOK
  <2> QED
    BY <1>1, <2>2, <2>3 DEF Save, TypeOK
<1>2. CASE PushRow(s)
  <2>1. Message(issued + 1, s, "row", 0) \in Mutations
    BY <1>2, MessageType DEF PushRow, Push
  <2> QED
    BY <1>2, <2>1, MessageType DEF PushRow, Push, TypeOK
<1>3. CASE PushGold(s)
  <2>1. mem[s].gold \in 0 .. MaxMutations
    BY DEF TypeOK, Players
  <2>2. Message(issued + 1, s, "gold", mem[s].gold) \in Mutations
    BY <1>3, <2>1, MessageType DEF PushGold, Push
  <2>3. unit' \in [Sessions -> [gold : 0 .. MaxMutations, row : 0 .. MaxMutations]]
    BY <1>3, MessageType DEF PushGold, Push, TypeOK
  <2> QED
    BY <1>3, <2>2, <2>3, MessageType DEF PushGold, Push, TypeOK
<1>4. CASE SendFlush(s)
  <2>1. Message(0, s, "flush", 0) \in Msg
    BY DEF Message, Msg, Flushes
  <2> QED
    BY <1>4, <2>1 DEF SendFlush, TypeOK
<1>5. CASE Reload(s)
  BY <1>5 DEF Reload, TypeOK, Players
<1>6. CASE DropItem(s)
  <2>1. mem' \in Players /\ db' \in Players /\ ideal' \in Players
    <3>1. PICK i \in mem[s].items :
                 /\ mem' = [mem EXCEPT ![s].items = @ \ {i}]
                 /\ db' = [db EXCEPT ![s].items = @ \ {i}]
                 /\ ideal' = [ideal EXCEPT ![s].items = @ \ {i}]
      BY <1>6 DEF DropItem
    <3>2. mem \in Players /\ db \in Players /\ ideal \in Players
      BY DEF TypeOK
    <3> QED
      BY <3>1, <3>2, PlayersUpdate
  <2> QED
    BY <1>6, <2>1 DEF DropItem, TypeOK
<1> QED
  BY <1>1, <1>2, <1>3, <1>4, <1>5, <1>6 DEF SessionStep

\* A step of the batcher worker keeps the types (WorkerStep).
LEMMA WorkerType ==
  ASSUME IInv, WorkerStep
  PROVE  TypeOK'
<1> USE DEF IInv
<1> USE BoundsAssumption, BatchAssumption
<1>0. ASSUME Received
      PROVE  /\ Head(queue) \in Msg /\ queue' \in Seq(Msg)
             /\ Head(queue).kind # "flush" => Head(queue) \in Mutations
             /\ Head(queue).kind = "flush" => Head(queue).by \in Sessions
  BY <1>0, MessageTypes DEF Received, TypeOK
<1>1. CASE RecvFirst
  BY <1>1, <1>0 DEF RecvFirst, TypeOK
<1>2. CASE RecvIdleFlush
  <2>1. Received /\ Head(queue).by \in Sessions /\ Answer(Head(queue).by, "ok")
    BY <1>2, <1>0 DEF RecvIdleFlush
  <2> QED
    BY <1>2, <1>0, <2>1, AnswerType DEF RecvIdleFlush, TypeOK
<1>3. CASE CollectMutation
  BY <1>3, <1>0 DEF CollectMutation, TypeOK, BatchIsConsistent
<1>4. CASE CollectFlush
  BY <1>4, <1>0 DEF CollectFlush, TypeOK
<1>5. CASE CollectTimeout
  BY <1>5 DEF CollectTimeout, TimeoutPassed, TypeOK
<1>6. CASE Persist
  <2> DEFINE w == [muts |-> batch, torn |-> FALSE]
  <2>1. w \in WalFile /\ Len(w.muts) <= MaxBatch
    BY DEF WalFile, TypeOK
  <2>2. files' = Append(files, w)
    BY <1>6 DEF Persist
  <2> HIDE DEF w
  <2> QED
    BY <1>6, <2>1, <2>2 DEF Persist, TypeOK
<1>7. CASE PersistFail
  <2>1. Answer(ack, "err") /\ ack \in Sessions \cup {NoSession}
    BY <1>7 DEF PersistFail, Finish, TypeOK
  <2> QED
    BY <1>7, <2>1, AnswerType, CutShortFacts DEF PersistFail, Finish, Fault, TypeOK
<1>8. CASE ApplyCommit
  BY <1>8, CommitType DEF ApplyCommit, TypeOK
<1>9. CASE ApplyFail
  <2>1. Answer(ack, "err") /\ ack \in Sessions \cup {NoSession}
    BY <1>9 DEF ApplyFail, Finish, TypeOK
  <2>2. db' \in Players /\ ideal' \in Players /\ audit' \subseteq MutationIds
    BY <1>9, CommitType DEF ApplyFail, TypeOK
  <2> QED
    BY <1>9, <2>1, <2>2, AnswerType DEF ApplyFail, Finish, Fault, TypeOK
<1>10. CASE Remove
  <2>1. Answer(ack, "ok") /\ ack \in Sessions \cup {NoSession}
    BY <1>10 DEF Remove, Finish, TypeOK
  <2>2. files # <<>>
    BY <1>10 DEF Remove, FilesAreConsistent
  <2>3. /\ files' \in Seq(WalFile)
        /\ \A f \in DOMAIN files' : Len(files'[f].muts) <= MaxBatch
    BY <1>10, <2>2 DEF Remove, TypeOK
  <2> QED
    BY <1>10, <2>1, <2>3, AnswerType DEF Remove, Finish, TypeOK
<1>11. CASE RemoveFail
  <2>1. Answer(ack, "ok") /\ ack \in Sessions \cup {NoSession}
    BY <1>11 DEF RemoveFail, Finish, TypeOK
  <2> QED
    BY <1>11, <2>1, AnswerType DEF RemoveFail, Finish, Fault, TypeOK
<1> QED
  BY <1>1, <1>2, <1>3, <1>4, <1>5, <1>6, <1>7, <1>8, <1>9, <1>10, <1>11 DEF WorkerStep

\* A step of the start-up replay keeps the types (ReplayStep).
LEMMA ReplayType ==
  ASSUME IInv, ReplayStep
  PROVE  TypeOK'
<1> USE DEF IInv
<1> USE BoundsAssumption
<1>0. files # <<>> => Head(files).muts \in Seq(Mutations)
  <2>1. files # <<>> => Head(files) \in WalFile
    BY HeldByFiles DEF TypeOK
  <2> QED
    BY <2>1 DEF WalFile
<1>1. CASE ReplayApply
  <2>1. db' \in Players /\ ideal' \in Players /\ audit' \subseteq MutationIds
    BY <1>1, <1>0, CommitType DEF ReplayApply, Replaying
  <2> QED
    BY <1>1, <2>1 DEF ReplayApply, TypeOK
<1>2. CASE ReplayRemove
  <2>1. /\ files' \in Seq(WalFile)
        /\ \A f \in DOMAIN files' : Len(files'[f].muts) <= MaxBatch
    <3>1. \A f \in 1 .. Len(files) - 1 : f + 1 \in DOMAIN files /\ Tail(files)[f] = files[f + 1]
      BY <1>2 DEF ReplayRemove, Replaying, TypeOK
    <3> QED
      BY <1>2, <3>1 DEF ReplayRemove, Replaying, TypeOK
  <2> QED
    BY <1>2, <2>1 DEF ReplayRemove, TypeOK
<1>3. CASE ReplayDone
  BY <1>3 DEF ReplayDone, StartServing, TypeOK, Players
<1>4. CASE ReplayTorn
  BY <1>4 DEF ReplayTorn, StartServing, TypeOK, Players
<1>5. CASE ReplayFail
  <2>1. db' \in Players /\ ideal' \in Players /\ audit' \subseteq MutationIds
    BY <1>5, <1>0, CommitType DEF ReplayFail, TypeOK
  <2>2. mem' \in Players
    BY <1>5, <2>1 DEF ReplayFail, StartServing
  <2> QED
    BY <1>5, <2>1, <2>2 DEF ReplayFail, StartServing, Fault, TypeOK
<1> QED
  BY <1>1, <1>2, <1>3, <1>4, <1>5 DEF ReplayStep

\* So does a crash (Crash) ...
LEMMA CrashType ==
  ASSUME IInv, Crash
  PROVE  TypeOK'
<1> USE DEF IInv
<1>1. NewPlayers \in Players
  BY BoundsAssumption DEF NewPlayers, Players
<1>2. /\ files' \in Seq(WalFile)
      /\ \A f \in DOMAIN files' : Len(files'[f].muts) <= MaxBatch
  BY CutShortFacts DEF Crash, TypeOK
<1>3. NoUnit \in [gold : 0 .. MaxMutations, row : 0 .. MaxMutations]
  BY BoundsAssumption DEF NoUnit
<1> QED
  BY <1>1, <1>2, <1>3, BatchAssumption, BoundsAssumption DEF Crash, TypeOK

\* ... and therefore every step (Next).
LEMMA TypeInductive ==
  ASSUME IInv, [Next]_vars
  PROVE  TypeOK'
<1>1. CASE WorkerStep
  BY <1>1, WorkerType
<1>2. CASE ReplayStep
  BY <1>2, ReplayType
<1>3. CASE Crash
  BY <1>3, CrashType
<1>4. CASE \E s \in Sessions : SessionStep(s)
  BY <1>4, SessionType
<1>5. CASE UNCHANGED vars
  BY <1>5 DEF vars, TypeOK, IInv
<1> QED
  BY <1>1, <1>2, <1>3, <1>4, <1>5 DEF Next

-----------------------------------------------------------------------------
(* The inductive invariant                                                 *)

\* Where an identifier can move: the pending ones after a message is received,
\* and the files' after a file is added or removed.
LEMMA WhereIdsAre ==
  ASSUME TypeOK
  PROVE  /\ FileIds = HeldBy(files)
         /\ IdsOf(batch) \subseteq PendingIds /\ IdsOf(batch) \subseteq MutationIds
         /\ IdsOf(queue) \ {0} \subseteq PendingIds
         /\ queue # <<>> => IdsOf(queue) = {Head(queue).id} \cup IdsOf(Tail(queue))
<1>1. IdsOf(batch) \subseteq MutationIds
  <2>1. \A i \in DOMAIN batch : batch[i] \in Mutations
    BY DEF TypeOK
  <2> QED
    BY <2>1, MessageTypes DEF IdsOf
<1>2. queue # <<>> => IdsOf(queue) = {Head(queue).id} \cup IdsOf(Tail(queue))
  BY IdsOfSequences DEF TypeOK
<1> QED
  BY <1>1, <1>2 DEF FileIds, HeldBy, PendingIds, MutationIds

\* The batch and the worker's program counter agree after every step.
LEMMA BatchInductive ==
  ASSUME IInv, [Next]_vars
  PROVE  BatchIsConsistent'
<1> USE DEF IInv, BatchIsConsistent
<1>1. CASE WorkerStep
  <2>1. CASE RecvFirst
    BY <2>1, BatchAssumption DEF RecvFirst, Received
  <2>2. CASE RecvIdleFlush
    BY <2>2 DEF RecvIdleFlush, Received
  <2>3. CASE CollectMutation
    BY <2>3 DEF CollectMutation, Received, TypeOK
  <2>4. CASE CollectFlush
    BY <2>4 DEF CollectFlush, Received
  <2>5. CASE CollectTimeout
    BY <2>5 DEF CollectTimeout, TimeoutPassed
  <2>6. CASE Persist \/ ApplyCommit
    BY <2>6 DEF Persist, ApplyCommit
  <2>7. CASE PersistFail \/ ApplyFail \/ Remove \/ RemoveFail
    BY <2>7 DEF PersistFail, ApplyFail, Remove, RemoveFail, Finish
  <2> QED
    BY <1>1, <2>1, <2>2, <2>3, <2>4, <2>5, <2>6, <2>7 DEF WorkerStep
<1>2. CASE ReplayStep
  BY <1>2 DEF ReplayStep, ReplayApply, ReplayRemove, ReplayDone, ReplayTorn,
              ReplayFail, Replaying, StartServing
<1>3. CASE Crash
  BY <1>3 DEF Crash
<1>4. CASE \E s \in Sessions : SessionStep(s)
  BY <1>4 DEF SessionStep, Save, PushRow, PushGold, SendFlush, Reload, DropItem, Serving
<1>5. CASE UNCHANGED vars
  BY <1>5 DEF vars
<1> QED
  BY <1>1, <1>2, <1>3, <1>4, <1>5 DEF Next

\* The newest file is the batch being applied, and only committed files go.
LEMMA FilesInductive ==
  ASSUME IInv, [Next]_vars
  PROVE  FilesAreConsistent'
<1> USE DEF IInv, FilesAreConsistent
<1>1. CASE WorkerStep
  <2>1. CASE \/ RecvFirst \/ RecvIdleFlush \/ CollectMutation \/ CollectFlush
             \/ CollectTimeout
    BY <2>1 DEF RecvFirst, RecvIdleFlush, CollectMutation, CollectFlush,
                CollectTimeout, TimeoutPassed, Received
  <2>2. CASE Persist
    BY <2>2 DEF Persist, TypeOK, BatchIsConsistent
  <2>3. CASE ApplyCommit
    BY <2>3, CommitType DEF ApplyCommit, TypeOK, BatchIsConsistent
  <2>4. CASE PersistFail \/ ApplyFail \/ Remove \/ RemoveFail
    BY <2>4 DEF PersistFail, ApplyFail, Remove, RemoveFail, Finish, BatchIsConsistent
  <2> QED
    BY <1>1, <2>1, <2>2, <2>3, <2>4 DEF WorkerStep
<1>2. CASE ReplayStep
  <2>1. CASE ReplayApply
    BY <2>1 DEF ReplayApply, Replaying, Commit, BatchIsConsistent
  <2>2. CASE ReplayRemove \/ ReplayDone \/ ReplayTorn \/ ReplayFail
    BY <2>2 DEF ReplayRemove, ReplayDone, ReplayTorn, ReplayFail, Replaying,
                StartServing, BatchIsConsistent
  <2> QED
    BY <1>2, <2>1, <2>2 DEF ReplayStep
<1>3. CASE Crash
  BY <1>3 DEF Crash
<1>4. CASE \E s \in Sessions : SessionStep(s)
  BY <1>4 DEF SessionStep, Save, PushRow, PushGold, SendFlush, Reload, DropItem
<1>5. CASE UNCHANGED vars
  BY <1>5 DEF vars
<1> QED
  BY <1>1, <1>2, <1>3, <1>4, <1>5 DEF Next

-----------------------------------------------------------------------------
(* How a step moves mutations                                              *)

\* A mutation is born into the queue ...
Issues == /\ issued' = issued + 1
          /\ audit' = audit /\ FileIds' = FileIds
          /\ PendingIds' = PendingIds \cup {issued + 1}

\* ... pending ones reach the files or get lost ...
Settles == /\ issued' = issued /\ audit' = audit
           /\ FileIds \subseteq FileIds' /\ FileIds' \subseteq FileIds \cup PendingIds
           /\ PendingIds' \subseteq PendingIds

\* ... and those of the files are committed, after which they may leave.
Commits == /\ issued' = issued
           /\ audit \subseteq audit' /\ audit' \subseteq audit \cup FileIds
           /\ FileIds' \subseteq FileIds /\ FileIds \subseteq FileIds' \cup audit'
           /\ PendingIds' \subseteq PendingIds
           /\ PendingIds \subseteq PendingIds' \cup FileIds' \cup audit'

\* The sessions only issue: whatever else they do moves no mutation.
LEMMA SessionMovement ==
  ASSUME IInv, NEW s \in Sessions, SessionStep(s)
  PROVE  Issues \/ Settles
<1> USE DEF IInv
<1>1. ASSUME NEW m \in Msg, queue' = Append(queue, m), batch' = batch
      PROVE  PendingIds' = (PendingIds \cup {m.id}) \ {0}
  <2>1. IdsOf(queue') = IdsOf(queue) \cup {m.id}
    BY <1>1, IdsOfSequences DEF TypeOK
  <2> QED
    BY <1>1, <2>1 DEF PendingIds
<1>2. ASSUME NEW kind \in {"save", "gold", "row"}, NEW pre \in 0 .. MaxMutations,
             Push(Message(issued + 1, s, kind, pre)), files' = files, audit' = audit,
             batch' = batch
      PROVE  Issues
  <2>1. Message(issued + 1, s, kind, pre) \in Msg
    BY <1>2, MessageType, MessageTypes DEF Push
  <2>2. PendingIds' = (PendingIds \cup {issued + 1}) \ {0}
    BY <1>1, <1>2, <2>1 DEF Push, Message
  <2>3. issued + 1 # 0 /\ 0 \notin PendingIds
    BY DEF PendingIds, TypeOK
  <2> QED
    BY <1>2, <2>2, <2>3 DEF Issues, Push, FileIds
<1>3. CASE Save(s)
  <2>1. 0 \in 0 .. MaxMutations
    BY BoundsAssumption
  <2> QED
    BY <1>2, <1>3, <2>1 DEF Save
<1>4. CASE PushRow(s)
  <2>1. 0 \in 0 .. MaxMutations
    BY BoundsAssumption
  <2> QED
    BY <1>2, <1>4, <2>1 DEF PushRow
<1>5. CASE PushGold(s)
  <2>1. mem[s].gold \in 0 .. MaxMutations
    BY DEF TypeOK, Players
  <2> QED
    BY <1>2, <1>5, <2>1 DEF PushGold
<1>6. CASE SendFlush(s)
  <2>1. Message(0, s, "flush", 0) \in Msg
    BY DEF Message, Msg, Flushes
  <2>2. PendingIds' = (PendingIds \cup {0}) \ {0}
    BY <1>1, <1>6, <2>1 DEF SendFlush, Message
  <2> QED
    BY <1>6, <2>2 DEF SendFlush, Settles, FileIds, PendingIds
<1>7. CASE Reload(s) \/ DropItem(s)
  BY <1>7 DEF Reload, DropItem, Settles, FileIds, PendingIds
<1> QED
  BY <1>3, <1>4, <1>5, <1>6, <1>7 DEF SessionStep

\* The worker settles and commits: it commits, drops or deletes nothing that is
\* not on disk or committed.
LEMMA WorkerMovement ==
  ASSUME IInv, WorkerStep
  PROVE  Settles \/ Commits
<1> USE DEF IInv
<1>1. CASE RecvFirst \/ RecvIdleFlush \/ CollectMutation \/ CollectFlush
  <2>1. IdsOf(queue) = {Head(queue).id} \cup IdsOf(queue')
    BY <1>1, WhereIdsAre DEF RecvFirst, RecvIdleFlush, CollectMutation, CollectFlush, Received
  <2>2. IdsOf(batch') \subseteq IdsOf(batch) \cup {Head(queue).id}
    <3>1. CASE RecvFirst
      <4>1. Head(queue) \in Mutations
        BY <3>1, MessageTypes DEF RecvFirst, Received, TypeOK
      <4> QED
        BY <3>1, <4>1, IdsOfSequences DEF RecvFirst, TypeOK
    <3>2. CASE CollectMutation
      <4>1. Head(queue) \in Mutations
        BY <3>2, MessageTypes DEF CollectMutation, Received, TypeOK
      <4> QED
        BY <3>2, <4>1, IdsOfSequences DEF CollectMutation, TypeOK
    <3> QED
      BY <1>1, <3>1, <3>2 DEF RecvIdleFlush, CollectFlush
  <2>3. PendingIds' \subseteq PendingIds
    BY <2>1, <2>2 DEF PendingIds
  <2> QED
    BY <1>1, <2>3 DEF Settles, FileIds, RecvFirst, RecvIdleFlush, CollectMutation, CollectFlush
<1>2. CASE CollectTimeout
  BY <1>2 DEF CollectTimeout, Settles, FileIds, PendingIds
<1>3. CASE Persist
  <2> DEFINE w == [muts |-> batch, torn |-> FALSE]
  <2>1. w \in WalFile
    BY DEF WalFile, TypeOK
  <2>2. HeldBy(files') = HeldBy(files) \cup IdsOf(batch)
    BY <1>3, <2>1, HeldByFiles DEF Persist, TypeOK
  <2>3. FileIds' = FileIds \cup IdsOf(batch) /\ IdsOf(batch) \subseteq PendingIds
    BY <2>2, WhereIdsAre DEF FileIds, HeldBy
  <2> QED
    BY <1>3, <2>3 DEF Persist, Settles, PendingIds
<1>4. IdsOf(<<>>) = {}
  BY DEF IdsOf
<1>5. ASSUME batch' = <<>>, queue' = queue
      PROVE  PendingIds' \subseteq PendingIds /\ PendingIds \subseteq PendingIds' \cup IdsOf(batch)
  BY <1>4, <1>5 DEF PendingIds
<1>6. CASE PersistFail
  <2>1. PendingIds' \subseteq PendingIds
    BY <1>5, <1>6 DEF PersistFail, Finish
  <2>2. FileIds \subseteq FileIds' /\ FileIds' \subseteq FileIds \cup IdsOf(batch)
    BY <1>6, CutShortFacts DEF PersistFail, FileIds, HeldBy
  <2> QED
    BY <1>6, <2>1, <2>2, WhereIdsAre DEF PersistFail, Fault, Settles
<1>7. worker \in {"apply", "remove"} => IdsOf(batch) \subseteq FileIds
  <2>1. SUFFICES ASSUME worker \in {"apply", "remove"}
                 PROVE  IdsOf(batch) \subseteq FileIds
    OBVIOUS
  <2>2. Len(files) \in DOMAIN files /\ files[Len(files)].muts = batch
    BY <2>1 DEF FilesAreConsistent, TypeOK
  <2> QED
    BY <2>2 DEF FileIds
<1>8. CASE ApplyCommit
  <2>1. audit' = audit \cup IdsOf(batch)
    BY <1>8 DEF ApplyCommit, Commit
  <2> QED
    BY <1>7, <1>8, <2>1 DEF ApplyCommit, Commits, FileIds, PendingIds
<1>9. CASE ApplyFail
  <2>1. PendingIds' \subseteq PendingIds /\ PendingIds \subseteq PendingIds' \cup IdsOf(batch)
    BY <1>5, <1>9 DEF ApplyFail, Finish
  <2>2. audit' = audit \cup IdsOf(batch) \/ audit' = audit
    BY <1>9 DEF ApplyFail, Commit
  <2>3. FileIds' = FileIds /\ issued' = issued
    BY <1>9 DEF ApplyFail, Fault, FileIds
  <2> QED
    BY <1>7, <1>9, <2>1, <2>2, <2>3 DEF ApplyFail, Commits
<1>10. CASE Remove
  <2>1. PendingIds' \subseteq PendingIds /\ PendingIds \subseteq PendingIds' \cup IdsOf(batch)
    BY <1>5, <1>10 DEF Remove, Finish
  <2>2. /\ files # <<>> /\ files[Len(files)].muts = batch
        /\ IdsOf(batch) \subseteq audit
    BY <1>10 DEF Remove, FilesAreConsistent
  <2>3. HeldBy(files) = HeldBy(files') \cup IdsOf(batch)
    BY <1>10, <2>2, HeldByFiles DEF Remove, TypeOK
  <2>4. FileIds = FileIds' \cup IdsOf(batch)
    BY <2>3 DEF FileIds, HeldBy
  <2> QED
    BY <1>10, <2>1, <2>2, <2>4 DEF Remove, Commits
<1>11. CASE RemoveFail
  <2>1. PendingIds' \subseteq PendingIds
    BY <1>5, <1>11 DEF RemoveFail, Finish
  <2> QED
    BY <1>11, <2>1 DEF RemoveFail, Fault, Settles, FileIds
<1> QED
  BY <1>1, <1>2, <1>3, <1>6, <1>8, <1>9, <1>10, <1>11 DEF WorkerStep

\* The replay commits what the files hold and deletes what it committed.
LEMMA ReplayMovement ==
  ASSUME IInv, ReplayStep
  PROVE  Settles \/ Commits
<1> USE DEF IInv
<1>1. PendingIds' = PendingIds
  BY DEF ReplayStep, ReplayApply, ReplayRemove, ReplayDone, ReplayTorn, ReplayFail,
         StartServing, PendingIds
<1>2. files # <<>> => FileIds = HeldBy(Tail(files)) \cup IdsOf(Head(files).muts)
  BY HeldByFiles, WhereIdsAre DEF TypeOK
<1>3. CASE ReplayApply
  <2>1. audit' = audit \cup IdsOf(Head(files).muts) /\ files # <<>>
    BY <1>3 DEF ReplayApply, Replaying, Commit
  <2> QED
    BY <1>1, <1>2, <1>3, <2>1 DEF ReplayApply, Commits, FileIds
<1>4. CASE ReplayRemove
  <2>1. files # <<>> /\ files' = Tail(files) /\ IdsOf(Head(files).muts) \subseteq audit
    BY <1>4 DEF ReplayRemove, Replaying, FilesAreConsistent
  <2>2. FileIds = FileIds' \cup IdsOf(Head(files).muts)
    BY <1>2, <2>1 DEF FileIds, HeldBy
  <2> QED
    BY <1>1, <1>4, <2>1, <2>2 DEF ReplayRemove, Commits
<1>5. CASE ReplayDone \/ ReplayTorn
  BY <1>1, <1>5 DEF ReplayDone, ReplayTorn, StartServing, Settles, FileIds
<1>6. CASE ReplayFail
  <2>1. audit' = audit \cup IdsOf(Head(files).muts) \/ audit' = audit
    BY <1>6 DEF ReplayFail, Commit
  <2>2. files # <<>> /\ FileIds' = FileIds /\ issued' = issued
    BY <1>6 DEF ReplayFail, StartServing, Fault, FileIds
  <2> QED
    BY <1>1, <1>2, <2>1, <2>2 DEF Commits
<1> QED
  BY <1>3, <1>4, <1>5, <1>6 DEF ReplayStep

\* Every step moves mutations in one of the three ways (Next).
LEMMA Movement ==
  ASSUME IInv, [Next]_vars
  PROVE  Issues \/ Settles \/ Commits
<1>1. CASE Crash
  <2>1. PendingIds' = {}
    BY <1>1 DEF Crash, PendingIds, IdsOf
  <2>2. FileIds \subseteq FileIds' /\ FileIds' \subseteq FileIds \cup IdsOf(batch)
    BY <1>1, CutShortFacts DEF Crash, IInv, FileIds, HeldBy
  <2> QED
    BY <1>1, <2>1, <2>2, WhereIdsAre DEF Crash, Settles, IInv
<1>2. CASE UNCHANGED vars
  BY <1>2 DEF vars, Settles, FileIds, PendingIds
<1> QED
  BY <1>1, <1>2, SessionMovement, WorkerMovement, ReplayMovement DEF Next

-----------------------------------------------------------------------------
(* The theorems                                                            *)

\* The initial state satisfies the inductive invariant (Init).
LEMMA InitIInv == Init => IInv
<1> SUFFICES ASSUME Init PROVE IInv
  OBVIOUS
<1>1. TypeOK
  BY BoundsAssumption, BatchAssumption
  DEF Init, TypeOK, Players, NewPlayers, NoUnit
<1> QED
  BY <1>1, BatchAssumption DEF Init, IInv, BatchIsConsistent, FilesAreConsistent,
     NothingUnborn, FileIds, PendingIds, IdsOf

\* Every step keeps it (Next).
LEMMA IInvInductive == IInv /\ [Next]_vars => IInv'
<1> SUFFICES ASSUME IInv, [Next]_vars PROVE IInv'
  OBVIOUS
<1>1. TypeOK'
  BY TypeInductive
<1>2. BatchIsConsistent' /\ FilesAreConsistent'
  BY BatchInductive, FilesInductive
<1>3. NothingUnborn'
  <2>1. audit \cup FileIds \cup PendingIds \subseteq 1 .. issued /\ issued \in Nat
    BY BoundsAssumption DEF IInv, NothingUnborn, TypeOK
  <2>2. issued' \in Nat /\ 1 .. issued \subseteq 1 .. issued'
        /\ audit' \cup FileIds' \cup PendingIds' \subseteq 1 .. issued'
    BY <2>1, Movement DEF Issues, Settles, Commits
  <2> QED
    BY <2>2 DEF NothingUnborn
<1> QED
  BY <1>1, <1>2, <1>3 DEF IInv

\* The queue, the batch, the files and the audit stay consistent with one another
\* in every state (Batcher::spawn, WalSink::apply, replay_wal).
THEOREM PipelineIsConsistent == Spec => []IInv
BY InitIInv, IInvInductive, PTL DEF Spec

\* Every variable keeps its type, and no batch or file outgrows max_batch.
THEOREM TypeCorrect == Spec => []TypeOK
<1>1. IInv => TypeOK
  BY DEF IInv
<1> QED
  BY <1>1, PipelineIsConsistent, PTL
-----------------------------------------------------------------------------
(* The pipeline implements the life cycle of DurableWrites                 *)

StageMap == [i \in MutationIds |-> Stage(i)]

\* The stages of the model are those of the life cycle (Stage).
LEMMA StageTypes == StageMap \in [MutationIds -> Durable!Stages]
BY DEF StageMap, Stage, Durable!Stages

\* Nothing is born at the start (Init).
LEMMA InitStages == Init => Durable!Init
BY DEF Init, Durable!Init, Stage, FileIds, PendingIds, IdsOf, MutationIds

\* Each way of moving mutations is one action of the life cycle, or none (Next).
LEMMA StepStages ==
  ASSUME IInv, [Next]_vars
  PROVE  [Durable!Next]_StageMap
<1>0. /\ audit \cup FileIds \cup PendingIds \subseteq 1 .. issued /\ issued \in Nat
      /\ MutationIds \subseteq Nat
  BY BoundsAssumption DEF IInv, NothingUnborn, TypeOK, MutationIds
<1>1. StageMap' \in [MutationIds -> Durable!Stages]
  BY DEF StageMap, Stage, Durable!Stages
<1>2. \A i \in MutationIds : StageMap[i] = Stage(i) /\ StageMap'[i] = Stage(i)'
  BY DEF StageMap
<1>3. CASE Issues
  <2>1. ASSUME NEW i \in MutationIds
        PROVE  \/ Stage(i)' = Stage(i)
               \/ Stage(i) = "unborn" /\ Stage(i)' = "pending"
    BY <1>0, <1>3 DEF Issues, Stage
  <2> QED
    BY <1>1, <1>2, <2>1 DEF Durable!Next, Durable!Issue, Durable!Edge, StageMap
<1>4. CASE Settles
  <2>1. ASSUME NEW i \in MutationIds
        PROVE  \/ Stage(i)' = Stage(i)
               \/ Stage(i) = "pending" /\ Stage(i)' \in {"durable", "lost"}
    BY <1>0, <1>4 DEF Settles, Stage
  <2> QED
    BY <1>1, <1>2, <2>1 DEF Durable!Next, Durable!Settle, Durable!Edge, StageMap
<1>5. CASE Commits
  <2>1. ASSUME NEW i \in MutationIds
        PROVE  \/ Stage(i)' = Stage(i)
               \/ Stage(i) = "durable" /\ Stage(i)' = "committed"
    BY <1>0, <1>5 DEF Commits, Stage
  <2> QED
    BY <1>1, <1>2, <2>1 DEF Durable!Next, Durable!Commit, Durable!Edge, StageMap
<1> QED
  BY <1>3, <1>4, <1>5, Movement

\* Whatever crashes and errors happen, a mutation commits only from the disk, a
\* durable or committed one is never dropped, and a lost one never comes back.
THEOREM ImplementsLifeCycle == Spec => ImplementsDurableWrites
<1>1. IInv /\ [Next]_vars => [Durable!Next]_StageMap
  BY StepStages
<1> QED
  BY <1>1, InitStages, PipelineIsConsistent, PTL
  DEF Spec, ImplementsDurableWrites, Durable!Spec, StageMap

-----------------------------------------------------------------------------
(***************************************************************************)
(* The order in which WalPipeline handles what is pushed: a file is        *)
(* committed as a whole, commits follow the pushes, and flush() is a       *)
(* barrier.                                                                *)
(***************************************************************************)
USE DEF sessionVars, workerVars, startVars, pgVars, bounds

-----------------------------------------------------------------------------
(* The invariants                                                          *)

\* Everything of one set was issued before everything of the other.
Older(A, B) == \A x \in A, y \in B : x < y

\* The mutations that wait in the queue of the worker.
Waiting == IdsOf(queue) \ {0}

\* The queue is in the order of the pushes, and the worker has taken its front ...
QueueInOrder ==
  /\ \A i, j \in DOMAIN queue :
       i < j /\ queue[i].id # 0 /\ queue[j].id # 0 => queue[i].id < queue[j].id
  /\ Older(audit \cup FileIds \cup IdsOf(batch), Waiting)

\* ... the batch is younger than what is on disk or committed, until it is itself ...
BatchInOrder ==
  /\ worker \in {"recv", "collect", "persist"} => Older(audit \cup FileIds, IdsOf(batch))
  /\ worker = "apply" => Older(audit, IdsOf(batch))

\* ... the files, sorted by name, are in the order of their batches ...
FilesInOrder ==
  \A f, g \in DOMAIN files : f < g => Older(IdsOf(files[f].muts), IdsOf(files[g].muts))

\* ... and without errors nothing pushed since the start is dropped.
NothingDropped == faults = 0 => born + 1 .. issued \subseteq audit \cup IdsOf(batch) \cup Waiting

OrderInv == /\ IInv /\ QueueInOrder /\ BatchInOrder /\ FilesInOrder /\ NothingDropped
            /\ FileIsAtomic

\* Behind the flush of a session in the queue there is nothing of its unit ...
FlushIsLast ==
  \A k \in DOMAIN queue : queue[k].kind = "flush" =>
    /\ caller[queue[k].by] = "wait" /\ ack # queue[k].by
    /\ \A j \in DOMAIN queue : j > k => queue[j].id \notin UnitIds(queue[k].by)
    /\ \A j \in DOMAIN queue : queue[j].kind = "flush" /\ j # k => queue[j].by # queue[k].by

\* ... nor behind the flush that closed the batch.
AckIsLast ==
  ack # NoSession => /\ worker \in {"persist", "apply", "remove"} /\ caller[ack] = "wait"
                     /\ UnitIds(ack) \cap IdsOf(queue) = {}

\* A unit has been issued, and a session that pushes or waits has no answer yet.
UnitIsIssued ==
  \A s \in Sessions : /\ UnitIds(s) \subseteq 1 .. issued
                      /\ caller[s] \in {"gold", "flush", "wait"} => answer[s] = "none"

BarrierInv == IInv /\ FlushIsLast /\ AckIsLast /\ UnitIsIssued /\ FlushIsBarrier

-----------------------------------------------------------------------------
(* Ordered sequences                                                       *)

\* The messages of a sequence that carry a mutation are in the order of their numbers.
Ordered(seq) ==
  \A i, j \in DOMAIN seq : i < j /\ seq[i].id # 0 /\ seq[j].id # 0 => seq[i].id < seq[j].id

\* A younger message goes to the end, and the front is older than what is left.
LEMMA OrderedSequences ==
  ASSUME NEW seq \in Seq(Msg), Ordered(seq)
  PROVE  /\ \A m \in Msg : Older(IdsOf(seq) \ {0}, {m.id} \ {0}) => Ordered(Append(seq, m))
         /\ seq # <<>> => /\ Ordered(Tail(seq))
                         /\ Older({Head(seq).id} \ {0}, IdsOf(Tail(seq)) \ {0})
<1>1. ASSUME NEW m \in Msg, Older(IdsOf(seq) \ {0}, {m.id} \ {0}) PROVE Ordered(Append(seq, m))
  <2> DEFINE app == Append(seq, m)
  <2>1. /\ DOMAIN app = 1 .. Len(seq) + 1 /\ DOMAIN seq = 1 .. Len(seq) /\ Len(seq) \in Nat
        /\ app[Len(seq) + 1] = m /\ \A i \in 1 .. Len(seq) : app[i] = seq[i]
    OBVIOUS
  <2> HIDE DEF app
  <2>2. SUFFICES ASSUME NEW i \in DOMAIN app, NEW j \in DOMAIN app, i < j,
                        app[i].id # 0, app[j].id # 0
                 PROVE  app[i].id < app[j].id
    BY DEF Ordered, app
  <2>3. CASE j = Len(seq) + 1
    <3>1. i \in DOMAIN seq /\ app[i] = seq[i] /\ app[j] = m
      BY <2>1, <2>2, <2>3
    <3>2. seq[i].id \in IdsOf(seq) \ {0} /\ m.id \in {m.id} \ {0}
      BY <2>2, <3>1 DEF IdsOf
    <3> QED
      BY <1>1, <3>1, <3>2 DEF Older
  <2>4. CASE j # Len(seq) + 1
    <3>1. i \in DOMAIN seq /\ j \in DOMAIN seq /\ app[i] = seq[i] /\ app[j] = seq[j]
      BY <2>1, <2>2, <2>4
    <3> QED
      BY <2>2, <3>1 DEF Ordered
  <2> QED
    BY <2>3, <2>4
<1>2. ASSUME seq # <<>>
      PROVE  Ordered(Tail(seq)) /\ Older({Head(seq).id} \ {0}, IdsOf(Tail(seq)) \ {0})
  <2> DEFINE tl == Tail(seq)
  <2>1. /\ DOMAIN tl = 1 .. Len(seq) - 1 /\ DOMAIN seq = 1 .. Len(seq) /\ Len(seq) \in Nat \ {0}
        /\ Head(seq) = seq[1] /\ \A i \in 1 .. Len(seq) - 1 : tl[i] = seq[i + 1]
    BY <1>2
  <2> HIDE DEF tl
  <2>2. \A i \in DOMAIN tl : i + 1 \in DOMAIN seq /\ tl[i] = seq[i + 1] /\ i \in Nat /\ 1 < i + 1
    BY <2>1
  <2>3. 1 \in DOMAIN seq
    BY <2>1
  <2>4. Ordered(tl)
    <3> SUFFICES ASSUME NEW i \in DOMAIN tl, NEW j \in DOMAIN tl, i < j, tl[i].id # 0, tl[j].id # 0
                 PROVE  tl[i].id < tl[j].id
      BY DEF Ordered
    <3>1. i + 1 < j + 1
      BY <2>2
    <3> QED
      BY <2>2, <3>1 DEF Ordered
  <2>5. Older({Head(seq).id} \ {0}, IdsOf(tl) \ {0})
    <3> SUFFICES ASSUME NEW i \in DOMAIN tl, tl[i].id # 0, Head(seq).id # 0
                 PROVE  Head(seq).id < tl[i].id
      BY DEF Older, IdsOf
    <3> QED
      BY <2>1, <2>2, <2>3 DEF Ordered
  <2> QED
    BY <2>4, <2>5 DEF tl
<1> QED
  BY <1>1, <1>2

\* The files after one is added or removed are those of before (Append, SubSeq, Tail).
LEMMA FilesAfter ==
  ASSUME NEW fs \in Seq(WalFile)
  PROVE  /\ \A w \in WalFile :
              /\ DOMAIN Append(fs, w) = DOMAIN fs \cup {Len(fs) + 1}
              /\ Append(fs, w)[Len(fs) + 1] = w
              /\ \A f \in DOMAIN fs : Append(fs, w)[f] = fs[f] /\ f < Len(fs) + 1 /\ f \in Nat
         /\ fs # <<>> =>
              /\ \A f \in DOMAIN SubSeq(fs, 1, Len(fs) - 1) :
                   f \in DOMAIN fs /\ SubSeq(fs, 1, Len(fs) - 1)[f] = fs[f]
              /\ \A f \in DOMAIN Tail(fs) :
                   f \in Nat /\ f + 1 \in DOMAIN fs /\ Tail(fs)[f] = fs[f + 1] /\ f + 1 # 1
              /\ Head(fs) = fs[1] /\ 1 \in DOMAIN fs /\ Len(fs) \in DOMAIN fs
         /\ Len(fs) \in Nat
<1>1. ASSUME NEW w \in WalFile
      PROVE  /\ DOMAIN Append(fs, w) = DOMAIN fs \cup {Len(fs) + 1}
             /\ Append(fs, w)[Len(fs) + 1] = w
             /\ \A f \in DOMAIN fs : Append(fs, w)[f] = fs[f] /\ f < Len(fs) + 1 /\ f \in Nat
  OBVIOUS
<1>2. ASSUME fs # <<>>
      PROVE  /\ \A f \in DOMAIN SubSeq(fs, 1, Len(fs) - 1) :
                  f \in DOMAIN fs /\ SubSeq(fs, 1, Len(fs) - 1)[f] = fs[f]
             /\ \A f \in DOMAIN Tail(fs) :
                  f \in Nat /\ f + 1 \in DOMAIN fs /\ Tail(fs)[f] = fs[f + 1] /\ f + 1 # 1
             /\ Head(fs) = fs[1] /\ 1 \in DOMAIN fs /\ Len(fs) \in DOMAIN fs
  BY <1>2
<1> QED
  BY <1>1, <1>2

\* The numbers of what is on disk, committed, batched or waiting are positive integers.
LEMMA IdsAreNumbers ==
  ASSUME IInv
  PROVE  /\ audit \subseteq Nat /\ FileIds \subseteq Nat /\ IdsOf(batch) \subseteq Nat
         /\ Waiting \subseteq Nat /\ issued \in Nat
         /\ \A x \in audit \cup FileIds \cup IdsOf(batch) \cup Waiting : x < issued + 1
         /\ \A f \in DOMAIN files : IdsOf(files[f].muts) \subseteq FileIds
<1>1. issued \in Nat /\ audit \cup FileIds \cup PendingIds \subseteq 1 .. issued
  BY BoundsAssumption DEF IInv, TypeOK, NothingUnborn
<1>2. IdsOf(batch) \subseteq PendingIds /\ Waiting \subseteq PendingIds
  BY WhereIdsAre DEF IInv, Waiting
<1>3. \A f \in DOMAIN files : IdsOf(files[f].muts) \subseteq FileIds
  BY DEF FileIds
<1> QED
  BY <1>1, <1>2, <1>3

-----------------------------------------------------------------------------
(* What the steps do to the order                                          *)

\* A message is pushed: a flush, or the mutation that has just been issued (Push, SendFlush).
LEMMA PushOrder ==
  ASSUME OrderInv, NEW m \in Msg, m.id # 0 => m.id = issued + 1, queue' = Append(queue, m),
         UNCHANGED <<batch, files, audit, worker>>
  PROVE  /\ QueueInOrder' /\ BatchInOrder' /\ FilesInOrder' /\ FileIsAtomic'
         /\ Waiting' = Waiting \cup ({m.id} \ {0})
<1>1. IdsOf(queue') = IdsOf(queue) \cup {m.id}
  BY IdsOfSequences DEF OrderInv, IInv, TypeOK
<1>2. Waiting' = Waiting \cup ({m.id} \ {0})
  BY <1>1 DEF Waiting
<1>3. \A x \in audit \cup FileIds \cup IdsOf(batch) \cup Waiting : x < issued + 1
  BY IdsAreNumbers DEF OrderInv
<1>4. Older(audit \cup FileIds \cup IdsOf(batch), Waiting') /\ Older(Waiting, {m.id} \ {0})
  BY <1>2, <1>3 DEF Older, OrderInv, QueueInOrder
<1>5. Ordered(queue')
  BY <1>4, OrderedSequences DEF OrderInv, QueueInOrder, Ordered, IInv, TypeOK, Waiting
<1>6. FileIds' = FileIds
  BY DEF FileIds
<1>7. QueueInOrder'
  BY <1>4, <1>5, <1>6 DEF QueueInOrder, Ordered
<1> QED
  BY <1>2, <1>6, <1>7 DEF OrderInv, BatchInOrder, FilesInOrder, FileIsAtomic

\* The worker receives a message, and a mutation goes to the end of the batch (Received).
LEMMA ReceiveOrder ==
  ASSUME OrderInv, Received, UNCHANGED <<files, audit>>, worker \in {"recv", "collect"},
         \/ IdsOf(batch') = IdsOf(batch) \cup {Head(queue).id} /\ Head(queue).id # 0
         \/ batch' = batch /\ Head(queue).id = 0
  PROVE  /\ QueueInOrder' /\ BatchInOrder' /\ FilesInOrder' /\ FileIsAtomic'
         /\ IdsOf(batch) \cup Waiting = IdsOf(batch') \cup Waiting'
<1> DEFINE h == {Head(queue).id} \ {0}
<1>1. queue # <<>> /\ queue' = Tail(queue) /\ queue \in Seq(Msg)
  BY DEF Received, OrderInv, IInv, TypeOK
<1>2. Waiting = h \cup Waiting'
  BY <1>1, IdsOfSequences DEF Waiting
<1>3. Ordered(queue') /\ Older(h, Waiting')
  BY <1>1, OrderedSequences DEF OrderInv, QueueInOrder, Ordered, Waiting
<1>4. IdsOf(batch') = IdsOf(batch) \cup h /\ FileIds' = FileIds
  BY DEF FileIds
<1> HIDE DEF h
<1>5. Older(audit \cup FileIds \cup IdsOf(batch'), Waiting')
  BY <1>2, <1>3, <1>4 DEF OrderInv, QueueInOrder, Older
<1>6. QueueInOrder'
  BY <1>3, <1>4, <1>5 DEF QueueInOrder, Ordered
<1>7. Older(audit \cup FileIds, IdsOf(batch'))
  BY <1>2, <1>4 DEF OrderInv, QueueInOrder, BatchInOrder, Older
<1>8. BatchInOrder'
  BY <1>4, <1>7 DEF BatchInOrder, Older
<1> QED
  BY <1>2, <1>4, <1>6, <1>8 DEF OrderInv, FilesInOrder, FileIsAtomic

\* Nothing is pushed or received: what waits is younger than what there is elsewhere.
LEMMA QueueStays ==
  ASSUME QueueInOrder, queue' = queue,
         audit' \cup FileIds' \cup IdsOf(batch') \subseteq audit \cup FileIds \cup IdsOf(batch)
  PROVE  QueueInOrder' /\ Waiting' = Waiting
BY DEF QueueInOrder, Older, Waiting

\* The batch is written, whole or in part, after everything that is on disk (persist_batch).
LEMMA WriteOrder ==
  ASSUME OrderInv, worker = "persist", audit' = audit, NEW w \in WalFile,
         IdsOf(w.muts) \subseteq IdsOf(batch), files' = Append(files, w)
  PROVE  /\ FilesInOrder' /\ FileIsAtomic'
         /\ FileIds' \subseteq FileIds \cup IdsOf(batch)
<1>0. files \in Seq(WalFile)
  BY DEF OrderInv, IInv, TypeOK
<1>1. Older(audit \cup FileIds, IdsOf(w.muts))
  BY DEF OrderInv, BatchInOrder, Older
<1>2. audit \subseteq Nat /\ \A f \in DOMAIN files : IdsOf(files[f].muts) \subseteq FileIds
  BY IdsAreNumbers DEF OrderInv
<1>3. /\ DOMAIN files' = DOMAIN files \cup {Len(files) + 1} /\ files'[Len(files) + 1] = w
      /\ \A f \in DOMAIN files : files'[f] = files[f] /\ f < Len(files) + 1 /\ f \in Nat
      /\ Len(files) \in Nat
  BY <1>0, FilesAfter
<1>4. FilesInOrder'
  <2> SUFFICES ASSUME NEW f \in DOMAIN files', NEW g \in DOMAIN files', f < g
               PROVE  Older(IdsOf(files'[f].muts), IdsOf(files'[g].muts))
    BY DEF FilesInOrder
  <2>1. CASE f \in DOMAIN files /\ g \in DOMAIN files
    BY <1>3, <2>1 DEF OrderInv, FilesInOrder
  <2>2. CASE f \in DOMAIN files /\ g = Len(files) + 1
    BY <1>1, <1>2, <1>3, <2>2 DEF Older
  <2>3. CASE f = Len(files) + 1
    BY <1>3, <2>3
  <2> QED
    BY <1>3, <2>1, <2>2, <2>3
<1>5. IdsOf(w.muts) \cap audit = {}
  <2> SUFFICES ASSUME NEW x \in audit, x \in IdsOf(w.muts) PROVE FALSE
    OBVIOUS
  <2>1. x \in Nat /\ x < x
    BY <1>1, <1>2 DEF Older
  <2> QED
    BY <2>1
<1>6. FileIsAtomic'
  BY <1>3, <1>5 DEF OrderInv, FileIsAtomic
<1>7. HeldBy(files') = HeldBy(files) \cup IdsOf(w.muts)
  BY <1>0, HeldByFiles
<1> QED
  BY <1>4, <1>6, <1>7 DEF FileIds, HeldBy

\* One file is committed, and the others hold other mutations (PgMutationSink::apply).
LEMMA CommitIsAtomic ==
  ASSUME OrderInv, NEW k \in DOMAIN files, audit' = audit \cup IdsOf(files[k].muts),
         files' = files
  PROVE  FileIsAtomic'
<1> SUFFICES ASSUME NEW f \in DOMAIN files
             PROVE  IdsOf(files[f].muts) \subseteq audit' \/ IdsOf(files[f].muts) \cap audit' = {}
  BY DEF FileIsAtomic
<1>1. f \in Nat /\ k \in Nat
  BY DEF OrderInv, IInv, TypeOK
<1>2. IdsOf(files[f].muts) \subseteq Nat /\ IdsOf(files[k].muts) \subseteq Nat
  BY IdsAreNumbers DEF OrderInv
<1>3. CASE f = k
  BY <1>3
<1>4. CASE f < k
  <2>1. Older(IdsOf(files[f].muts), IdsOf(files[k].muts))
    BY <1>4 DEF OrderInv, FilesInOrder
  <2>2. IdsOf(files[f].muts) \cap IdsOf(files[k].muts) = {}
    BY <1>2, <2>1 DEF Older
  <2> QED
    BY <2>2 DEF OrderInv, FileIsAtomic
<1>5. CASE k < f
  <2>1. Older(IdsOf(files[k].muts), IdsOf(files[f].muts))
    BY <1>5 DEF OrderInv, FilesInOrder
  <2>2. IdsOf(files[f].muts) \cap IdsOf(files[k].muts) = {}
    BY <1>2, <2>1 DEF Older
  <2> QED
    BY <2>2 DEF OrderInv, FileIsAtomic
<1> QED
  BY <1>1, <1>3, <1>4, <1>5

\* The oldest or the newest file is deleted (Remove, ReplayRemove).
LEMMA DeleteOrder ==
  ASSUME OrderInv, files # <<>>, audit' = audit,
         files' = Tail(files) \/ files' = SubSeq(files, 1, Len(files) - 1)
  PROVE  FilesInOrder' /\ FileIsAtomic' /\ FileIds' \subseteq FileIds
<1>0. files \in Seq(WalFile)
  BY DEF OrderInv, IInv, TypeOK
<1>1. FileIds' \subseteq FileIds
  <2>1. FileIds = HeldBy(files) /\ FileIds' = HeldBy(files')
    BY DEF FileIds, HeldBy
  <2>2. HeldBy(files') \subseteq HeldBy(files)
    BY <1>0, HeldByFiles
  <2> QED
    BY <2>1, <2>2
<1>2. CASE files' = Tail(files)
  <2>1. \A f \in DOMAIN files' : f \in Nat /\ f + 1 \in DOMAIN files /\ files'[f] = files[f + 1]
    BY <1>0, <1>2, FilesAfter
  <2>2. FilesInOrder'
    <3> SUFFICES ASSUME NEW f \in DOMAIN files', NEW g \in DOMAIN files', f < g
                 PROVE  Older(IdsOf(files'[f].muts), IdsOf(files'[g].muts))
      BY DEF FilesInOrder
    <3>1. f + 1 < g + 1
      BY <2>1
    <3> QED
      BY <2>1, <3>1 DEF OrderInv, FilesInOrder
  <2> QED
    BY <1>1, <2>1, <2>2 DEF OrderInv, FileIsAtomic
<1>3. CASE files' = SubSeq(files, 1, Len(files) - 1)
  <2>1. \A f \in DOMAIN files' : f \in DOMAIN files /\ files'[f] = files[f]
    BY <1>0, <1>3, FilesAfter
  <2> QED
    BY <1>1, <2>1 DEF OrderInv, FilesInOrder, FileIsAtomic
<1> QED
  BY <1>2, <1>3

\* A session's step (SessionStep).
LEMMA SessionOrder ==
  ASSUME OrderInv, NEW s \in Sessions, SessionStep(s)
  PROVE  QueueInOrder' /\ BatchInOrder' /\ FilesInOrder' /\ FileIsAtomic' /\ NothingDropped'
<1>0. IInv /\ TypeOK /\ issued \in Nat /\ born \in Nat
  BY BoundsAssumption DEF OrderInv, IInv, TypeOK
<1>1. ASSUME NEW kind \in {"save", "gold", "row"}, NEW pre \in 0 .. MaxMutations,
             Push(Message(issued + 1, s, kind, pre)),
             UNCHANGED <<batch, files, audit, worker, born, faults>>
      PROVE  QueueInOrder' /\ BatchInOrder' /\ FilesInOrder' /\ FileIsAtomic' /\ NothingDropped'
  <2> DEFINE m == Message(issued + 1, s, kind, pre)
  <2>1. m \in Msg /\ m.id = issued + 1
    <3>1. m.id = issued + 1
      BY DEF Message
    <3> QED
      BY <1>0, <1>1, <3>1, MessageType, MessageTypes DEF Push
  <2>2. queue' = Append(queue, m) /\ issued' = issued + 1
    BY <1>1 DEF Push
  <2> HIDE DEF m
  <2>3. /\ QueueInOrder' /\ BatchInOrder' /\ FilesInOrder' /\ FileIsAtomic'
        /\ Waiting' = Waiting \cup {issued + 1}
    BY <1>0, <1>1, <2>1, <2>2, PushOrder
  <2>4. NothingDropped'
    BY <1>0, <1>1, <2>2, <2>3 DEF OrderInv, NothingDropped
  <2> QED
    BY <2>3, <2>4
<1>2. 0 \in 0 .. MaxMutations /\ mem[s].gold \in 0 .. MaxMutations
  BY <1>0, BoundsAssumption DEF TypeOK, Players
<1>3. CASE Save(s)
  BY <1>1, <1>2, <1>3 DEF Save
<1>4. CASE PushRow(s)
  BY <1>1, <1>2, <1>4 DEF PushRow
<1>5. CASE PushGold(s)
  BY <1>1, <1>2, <1>5 DEF PushGold
<1>6. CASE SendFlush(s)
  <2> DEFINE m == Message(0, s, "flush", 0)
  <2>1. m \in Msg /\ m.id = 0
    BY DEF Message, Msg, Flushes
  <2>2. queue' = Append(queue, m) /\ UNCHANGED <<batch, files, audit, worker, issued, born, faults>>
    BY <1>6 DEF SendFlush
  <2> HIDE DEF m
  <2>3. /\ QueueInOrder' /\ BatchInOrder' /\ FilesInOrder' /\ FileIsAtomic'
        /\ Waiting' = Waiting
    BY <2>1, <2>2, PushOrder
  <2> QED
    BY <2>2, <2>3 DEF OrderInv, NothingDropped
<1>7. CASE Reload(s) \/ DropItem(s)
  <2>1. UNCHANGED <<queue, batch, worker, files, audit, issued, born, faults>>
    BY <1>7 DEF Reload, DropItem
  <2>2. FileIds' = FileIds /\ Waiting' = Waiting
    BY <2>1 DEF FileIds, Waiting
  <2>3. QueueInOrder' /\ BatchInOrder'
    BY <2>1, <2>2 DEF OrderInv, QueueInOrder, BatchInOrder
  <2> QED
    BY <2>1, <2>2, <2>3 DEF OrderInv, FilesInOrder, FileIsAtomic, NothingDropped
<1> QED
  BY <1>3, <1>4, <1>5, <1>6, <1>7 DEF SessionStep

\* The worker takes messages (RecvFirst, RecvIdleFlush, CollectMutation, CollectFlush).
LEMMA TakingOrder ==
  ASSUME OrderInv, RecvFirst \/ RecvIdleFlush \/ CollectMutation \/ CollectFlush
  PROVE  QueueInOrder' /\ BatchInOrder' /\ FilesInOrder' /\ FileIsAtomic' /\ NothingDropped'
<1>1. /\ Received /\ UNCHANGED <<files, audit, issued, born, faults>>
      /\ worker \in {"recv", "collect"}
  BY DEF RecvFirst, RecvIdleFlush, CollectMutation, CollectFlush
<1>2. Head(queue) \in Msg /\ batch \in Seq(Mutations) /\ Mutations \subseteq Msg
  BY <1>1, MessageTypes DEF Received, OrderInv, IInv, TypeOK
<1>3. \/ IdsOf(batch') = IdsOf(batch) \cup {Head(queue).id} /\ Head(queue).id # 0
      \/ batch' = batch /\ Head(queue).id = 0
  <2>1. CASE RecvFirst
    <3>1. batch = <<>> /\ batch' = <<Head(queue)>> /\ Head(queue) \in Mutations
      BY <1>2, <2>1, MessageTypes DEF RecvFirst, OrderInv, IInv, BatchIsConsistent
    <3>2. IdsOf(batch') = {Head(queue).id} /\ IdsOf(batch) = {} /\ Head(queue).id # 0
      BY <1>2, <3>1, IdsOfSequences, MessageTypes
    <3> QED
      BY <3>2
  <2>2. CASE CollectMutation
    <3>1. batch' = Append(batch, Head(queue)) /\ Head(queue) \in Mutations
      BY <1>2, <2>2, MessageTypes DEF CollectMutation
    <3> QED
      BY <1>2, <3>1, IdsOfSequences, MessageTypes
  <2>3. CASE RecvIdleFlush \/ CollectFlush
    BY <1>2, <2>3, MessageTypes DEF RecvIdleFlush, CollectFlush
  <2> QED
    BY <2>1, <2>2, <2>3
<1>4. /\ QueueInOrder' /\ BatchInOrder' /\ FilesInOrder' /\ FileIsAtomic'
      /\ IdsOf(batch) \cup Waiting = IdsOf(batch') \cup Waiting'
  BY <1>1, <1>3, ReceiveOrder
<1>5. NothingDropped'
  BY <1>1, <1>4 DEF OrderInv, NothingDropped
<1> QED
  BY <1>4, <1>5

\* The worker writes, commits and deletes its batch (WalSink::apply).
LEMMA WritingOrder ==
  ASSUME OrderInv, \/ CollectTimeout \/ Persist \/ PersistFail \/ ApplyCommit \/ ApplyFail
                   \/ Remove \/ RemoveFail
  PROVE  QueueInOrder' /\ BatchInOrder' /\ FilesInOrder' /\ FileIsAtomic' /\ NothingDropped'
<1>0. IInv /\ TypeOK /\ IdsOf(<<>>) = {} /\ faults \in Nat
  BY BoundsAssumption DEF OrderInv, IInv, TypeOK, IdsOf
<1>1. queue' = queue /\ issued' = issued /\ born' = born
  BY DEF CollectTimeout, TimeoutPassed, Persist, PersistFail, ApplyCommit, ApplyFail, Remove,
         RemoveFail, Fault
<1>2. worker \in {"apply", "remove"} =>
        /\ Len(files) \in DOMAIN files /\ files # <<>>
        /\ IdsOf(files[Len(files)].muts) = IdsOf(batch)
  BY <1>0 DEF IInv, FilesAreConsistent, TypeOK
<1>3. CASE CollectTimeout
  BY <1>3 DEF CollectTimeout, TimeoutPassed, OrderInv, QueueInOrder, BatchInOrder, FilesInOrder,
              FileIsAtomic, NothingDropped, FileIds, Waiting
<1>4. CASE Persist
  <2> DEFINE w == [muts |-> batch, torn |-> FALSE]
  <2>1. w \in WalFile /\ IdsOf(w.muts) = IdsOf(batch)
    BY <1>0 DEF WalFile, TypeOK
  <2>2. /\ files' = Append(files, w) /\ worker = "persist" /\ worker' = "apply"
        /\ UNCHANGED <<audit, batch, faults>>
    BY <1>4 DEF Persist
  <2> HIDE DEF w
  <2>3. FilesInOrder' /\ FileIsAtomic' /\ FileIds' \subseteq FileIds \cup IdsOf(batch)
    BY <2>1, <2>2, WriteOrder
  <2>4. QueueInOrder' /\ Waiting' = Waiting
    BY <1>1, <2>2, <2>3, QueueStays DEF OrderInv
  <2>5. BatchInOrder'
    BY <2>2 DEF OrderInv, BatchInOrder, Older
  <2> QED
    BY <1>1, <2>2, <2>3, <2>4, <2>5 DEF OrderInv, NothingDropped
<1>5. ASSUME batch' = <<>>, worker' = "recv" PROVE BatchInOrder'
  BY <1>0, <1>5 DEF BatchInOrder, Older
<1>6. CASE PersistFail
  <2>1. /\ CutShort /\ batch' = <<>> /\ worker' = "recv" /\ worker = "persist"
        /\ audit' = audit /\ faults' # 0
    BY <1>0, <1>6 DEF PersistFail, Finish, Fault
  <2>2. FilesInOrder' /\ FileIsAtomic' /\ FileIds' \subseteq FileIds \cup IdsOf(batch)
    <3>1. CASE files' = files
      BY <2>1, <3>1 DEF OrderInv, FilesInOrder, FileIsAtomic, FileIds
    <3>2. CASE files' # files
      <4>1. PICK n \in 0 .. Len(batch), torn \in BOOLEAN :
                   files' = Append(files, [muts |-> SubSeq(batch, 1, n), torn |-> torn])
        BY <2>1, <3>2 DEF CutShort
      <4> DEFINE w == [muts |-> SubSeq(batch, 1, n), torn |-> torn]
      <4>2. batch \in Seq(Mutations) /\ SubSeq(batch, 1, n) \in Seq(Mutations)
        BY <1>0 DEF TypeOK
      <4>3. w \in WalFile /\ IdsOf(w.muts) \subseteq IdsOf(batch)
        BY <4>2, IdsOfSequences DEF WalFile
      <4>4. files' = Append(files, w)
        BY <4>1
      <4> HIDE DEF w
      <4> QED
        BY <2>1, <4>3, <4>4, WriteOrder
    <3> QED
      BY <3>1, <3>2
  <2>3. QueueInOrder'
    BY <1>0, <1>1, <2>1, <2>2, QueueStays DEF OrderInv
  <2> QED
    BY <1>5, <2>1, <2>2, <2>3 DEF NothingDropped
<1>7. ASSUME worker = "apply", audit' = audit \cup IdsOf(batch), files' = files,
             IdsOf(batch') \subseteq IdsOf(batch)
      PROVE  /\ FilesInOrder' /\ FileIsAtomic' /\ QueueInOrder' /\ Waiting' = Waiting
  <2>1. FileIsAtomic'
    BY <1>2, <1>7, CommitIsAtomic
  <2>2. FilesInOrder' /\ FileIds' = FileIds
    BY <1>7 DEF OrderInv, FilesInOrder, FileIds
  <2> QED
    BY <1>1, <1>7, <2>1, <2>2, QueueStays DEF OrderInv
<1>8. CASE ApplyCommit
  <2>1. /\ worker = "apply" /\ audit' = audit \cup IdsOf(batch) /\ files' = files
        /\ batch' = batch /\ worker' = "remove" /\ faults' = faults
    BY <1>8 DEF ApplyCommit, Commit
  <2>2. BatchInOrder'
    BY <2>1 DEF BatchInOrder
  <2> QED
    BY <1>1, <1>7, <2>1, <2>2 DEF OrderInv, NothingDropped
<1>9. CASE ApplyFail
  <2>1. /\ worker = "apply" /\ files' = files /\ batch' = <<>> /\ worker' = "recv" /\ faults' # 0
        /\ audit' = audit \cup IdsOf(batch) \/ audit' = audit
    BY <1>0, <1>9 DEF ApplyFail, Finish, Fault, Commit
  <2>2. FilesInOrder' /\ FileIsAtomic' /\ QueueInOrder'
    <3>1. CASE audit' = audit
      <4>1. FilesInOrder' /\ FileIsAtomic' /\ FileIds' = FileIds
        BY <2>1, <3>1 DEF OrderInv, FilesInOrder, FileIsAtomic, FileIds
      <4> QED
        BY <1>0, <1>1, <2>1, <3>1, <4>1, QueueStays DEF OrderInv
    <3>2. CASE audit' = audit \cup IdsOf(batch)
      BY <1>0, <1>7, <2>1, <3>2
    <3> QED
      BY <2>1, <3>1, <3>2
  <2> QED
    BY <1>5, <2>1, <2>2 DEF NothingDropped
<1>10. CASE Remove
  <2>1. /\ worker = "remove" /\ files' = SubSeq(files, 1, Len(files) - 1) /\ audit' = audit
        /\ batch' = <<>> /\ worker' = "recv" /\ faults' = faults
    BY <1>10 DEF Remove, Finish
  <2>2. FilesInOrder' /\ FileIsAtomic' /\ FileIds' \subseteq FileIds
    BY <1>2, <2>1, DeleteOrder
  <2>3. QueueInOrder' /\ Waiting' = Waiting
    BY <1>0, <1>1, <2>1, <2>2, QueueStays DEF OrderInv
  <2>4. IdsOf(batch) \subseteq audit
    BY <1>0, <2>1 DEF IInv, FilesAreConsistent
  <2>5. NothingDropped'
    BY <1>1, <2>1, <2>3, <2>4 DEF OrderInv, NothingDropped
  <2> QED
    BY <1>5, <2>1, <2>2, <2>3, <2>5
<1>11. CASE RemoveFail
  <2>1. files' = files /\ audit' = audit /\ batch' = <<>> /\ worker' = "recv" /\ faults' # 0
    BY <1>0, <1>11 DEF RemoveFail, Finish, Fault
  <2>2. FilesInOrder' /\ FileIsAtomic' /\ FileIds' = FileIds
    BY <2>1 DEF OrderInv, FilesInOrder, FileIsAtomic, FileIds
  <2>3. QueueInOrder'
    BY <1>0, <1>1, <2>1, <2>2, QueueStays DEF OrderInv
  <2> QED
    BY <1>5, <2>1, <2>2, <2>3 DEF NothingDropped
<1> QED
  BY <1>3, <1>4, <1>6, <1>8, <1>9, <1>10, <1>11

\* The start: a crash, and the replay of the files it left (Crash, ReplayStep).
LEMMA StartOrder ==
  ASSUME OrderInv, Crash \/ ReplayStep
  PROVE  QueueInOrder' /\ BatchInOrder' /\ FilesInOrder' /\ FileIsAtomic' /\ NothingDropped'
<1>0. IInv /\ TypeOK /\ IdsOf(<<>>) = {} /\ faults \in Nat /\ issued \in Nat /\ files \in Seq(WalFile)
  BY BoundsAssumption DEF OrderInv, IInv, TypeOK, IdsOf
<1>1. CASE Crash
  <2>1. /\ queue' = <<>> /\ batch' = <<>> /\ audit' = audit /\ issued' = issued /\ born' = issued
        /\ worker' = "recv"
    BY <1>1 DEF Crash
  <2>2. FilesInOrder' /\ FileIsAtomic'
    <3>1. CASE files' = files
      BY <2>1, <3>1 DEF OrderInv, FilesInOrder, FileIsAtomic
    <3>2. CASE files' # files
      <4>1. /\ worker = "persist"
            /\ \E n \in 0 .. Len(batch), torn \in BOOLEAN :
                 files' = Append(files, [muts |-> SubSeq(batch, 1, n), torn |-> torn])
        BY <1>1, <3>2 DEF Crash, CutShort
      <4>2. PICK n \in 0 .. Len(batch), torn \in BOOLEAN :
                   files' = Append(files, [muts |-> SubSeq(batch, 1, n), torn |-> torn])
        BY <4>1
      <4> DEFINE w == [muts |-> SubSeq(batch, 1, n), torn |-> torn]
      <4>3. batch \in Seq(Mutations) /\ SubSeq(batch, 1, n) \in Seq(Mutations)
        BY <1>0 DEF TypeOK
      <4>4. w \in WalFile /\ IdsOf(w.muts) \subseteq IdsOf(batch)
        BY <4>3, IdsOfSequences DEF WalFile
      <4>5. files' = Append(files, w)
        BY <4>2
      <4> HIDE DEF w
      <4> QED
        BY <2>1, <4>1, <4>4, <4>5, WriteOrder
    <3> QED
      BY <3>1, <3>2
  <2>3. Waiting' = {} /\ IdsOf(batch') = {}
    BY <1>0, <2>1 DEF Waiting
  <2>4. QueueInOrder' /\ BatchInOrder'
    BY <2>1, <2>3 DEF QueueInOrder, BatchInOrder, Older
  <2>5. born' + 1 .. issued' = {}
    BY <1>0, <2>1
  <2> QED
    BY <2>2, <2>4, <2>5 DEF NothingDropped
<1>2. CASE ReplayStep
  <2>0. /\ UNCHANGED <<queue, batch, worker, issued, born>> /\ batch = <<>> /\ worker = "recv"
    BY <1>0, <1>2 DEF ReplayStep, ReplayApply, ReplayRemove, ReplayDone, ReplayTorn, ReplayFail,
         StartServing, Replaying, Fault, IInv, BatchIsConsistent
  <2>1. BatchInOrder'
    BY <1>0, <2>0 DEF BatchInOrder, Older
  <2>2. /\ FilesInOrder' /\ FileIsAtomic' /\ FileIds' \subseteq FileIds
        /\ audit \subseteq audit' /\ audit' \subseteq audit \cup FileIds
    <3>1. ASSUME files # <<>>, files' = files, audit' = audit \cup IdsOf(Head(files).muts)
          PROVE  /\ FilesInOrder' /\ FileIsAtomic' /\ FileIds' \subseteq FileIds
                 /\ audit \subseteq audit' /\ audit' \subseteq audit \cup FileIds
      <4>1. Head(files) = files[1] /\ 1 \in DOMAIN files
        BY <1>0, <3>1, FilesAfter
      <4>2. FileIsAtomic' /\ IdsOf(Head(files).muts) \subseteq FileIds
        BY <3>1, <4>1, CommitIsAtomic DEF FileIds
      <4> QED
        BY <3>1, <4>2 DEF OrderInv, FilesInOrder, FileIds
    <3>2. ASSUME files' = files, audit' = audit
          PROVE  /\ FilesInOrder' /\ FileIsAtomic' /\ FileIds' \subseteq FileIds
      BY <3>2 DEF OrderInv, FilesInOrder, FileIsAtomic, FileIds
    <3>3. CASE ReplayApply
      BY <3>1, <3>3 DEF ReplayApply, Replaying, Commit
    <3>4. CASE ReplayRemove
      BY <3>4, DeleteOrder DEF ReplayRemove, Replaying
    <3>5. CASE ReplayDone \/ ReplayTorn
      BY <3>2, <3>5 DEF ReplayDone, ReplayTorn, StartServing
    <3>6. CASE ReplayFail
      BY <3>1, <3>2, <3>6 DEF ReplayFail, StartServing, Commit
    <3> QED
      BY <1>2, <3>3, <3>4, <3>5, <3>6 DEF ReplayStep
  <2>3. QueueInOrder' /\ Waiting' = Waiting
    BY <2>0, <2>2, QueueStays DEF OrderInv
  <2>4. faults' = 0 => faults = 0
    BY <1>0, <1>2 DEF ReplayStep, ReplayApply, ReplayRemove, ReplayDone, ReplayTorn, ReplayFail, Fault
  <2>5. NothingDropped'
    BY <2>0, <2>2, <2>3, <2>4 DEF OrderInv, NothingDropped
  <2> QED
    BY <2>1, <2>2, <2>3, <2>5
<1> QED
  BY <1>1, <1>2

-----------------------------------------------------------------------------
(* What the steps do to the flushes                                        *)

\* What is left in the queue when its first message has been received (Received).
LEMMA LeftInQueue ==
  ASSUME BarrierInv, Received
  PROVE  /\ \A k \in DOMAIN queue' : queue'[k].kind = "flush" =>
              /\ queue'[k].by \in Sessions
              /\ caller[queue'[k].by] = "wait" /\ ack # queue'[k].by
              /\ \A j \in DOMAIN queue' : j > k => queue'[j].id \notin UnitIds(queue'[k].by)
              /\ \A j \in DOMAIN queue' :
                   queue'[j].kind = "flush" /\ j # k => queue'[j].by # queue'[k].by
              /\ Head(queue).kind = "flush" => queue'[k].by # Head(queue).by
         /\ IdsOf(queue') \subseteq IdsOf(queue)
         /\ Head(queue) \in Msg
         /\ Head(queue).kind = "flush" =>
              /\ Head(queue).by \in Sessions /\ caller[Head(queue).by] = "wait"
              /\ ack # Head(queue).by /\ UnitIds(Head(queue).by) \cap IdsOf(queue') = {}
<1>1. queue # <<>> /\ queue' = Tail(queue) /\ queue \in Seq(Msg)
  BY DEF Received, BarrierInv, IInv, TypeOK
<1>2. /\ DOMAIN queue' = 1 .. Len(queue) - 1 /\ DOMAIN queue = 1 .. Len(queue)
      /\ Len(queue) \in Nat \ {0} /\ Head(queue) = queue[1]
      /\ \A k \in 1 .. Len(queue) - 1 : queue'[k] = queue[k + 1]
      /\ \A k \in DOMAIN queue : queue[k] \in Msg
  BY <1>1
<1>3. /\ \A k \in DOMAIN queue' : k \in Nat /\ k + 1 \in DOMAIN queue /\ queue'[k] = queue[k + 1]
      /\ 1 \in DOMAIN queue /\ \A k \in DOMAIN queue' : k + 1 > 1 /\ k + 1 # 1
  BY <1>2
<1>4. ASSUME NEW k \in DOMAIN queue', queue'[k].kind = "flush"
      PROVE  /\ queue'[k].by \in Sessions
             /\ caller[queue'[k].by] = "wait" /\ ack # queue'[k].by
             /\ \A j \in DOMAIN queue' : j > k => queue'[j].id \notin UnitIds(queue'[k].by)
             /\ \A j \in DOMAIN queue' :
                  queue'[j].kind = "flush" /\ j # k => queue'[j].by # queue'[k].by
             /\ Head(queue).kind = "flush" => queue'[k].by # Head(queue).by
  <2>1. queue[k + 1].kind = "flush" /\ k + 1 \in DOMAIN queue
    BY <1>3, <1>4
  <2>2. queue'[k].by \in Sessions
    BY <1>2, <1>3, <2>1, MessageTypes
  <2>3. caller[queue'[k].by] = "wait" /\ ack # queue'[k].by
    BY <1>3, <2>1 DEF BarrierInv, FlushIsLast
  <2>4. ASSUME NEW j \in DOMAIN queue', j > k PROVE queue'[j].id \notin UnitIds(queue'[k].by)
    <3>1. j + 1 > k + 1
      BY <1>3, <2>4
    <3> QED
      BY <1>3, <2>1, <3>1 DEF BarrierInv, FlushIsLast
  <2>5. ASSUME NEW j \in DOMAIN queue', queue'[j].kind = "flush", j # k
        PROVE  queue'[j].by # queue'[k].by
    <3>1. j + 1 # k + 1
      BY <1>3, <2>5
    <3> QED
      BY <1>3, <2>1, <2>5, <3>1 DEF BarrierInv, FlushIsLast
  <2>6. Head(queue).kind = "flush" => queue'[k].by # Head(queue).by
    BY <1>2, <1>3, <2>1 DEF BarrierInv, FlushIsLast
  <2> QED
    BY <2>2, <2>3, <2>4, <2>5, <2>6
<1>5. IdsOf(queue') \subseteq IdsOf(queue)
  BY <1>1, IdsOfSequences
<1>6. ASSUME Head(queue).kind = "flush"
      PROVE  /\ Head(queue).by \in Sessions /\ caller[Head(queue).by] = "wait"
             /\ ack # Head(queue).by /\ UnitIds(Head(queue).by) \cap IdsOf(queue') = {}
  <2>1. Head(queue).by \in Sessions
    BY <1>2, <1>3, <1>6, MessageTypes
  <2>2. caller[Head(queue).by] = "wait" /\ ack # Head(queue).by
    BY <1>2, <1>3, <1>6 DEF BarrierInv, FlushIsLast
  <2>3. \A j \in DOMAIN queue' : queue'[j].id \notin UnitIds(Head(queue).by)
    BY <1>2, <1>3, <1>6 DEF BarrierInv, FlushIsLast
  <2> QED
    BY <2>1, <2>2, <2>3 DEF IdsOf
<1> QED
  BY <1>2, <1>3, <1>4, <1>5, <1>6

\* A mutation is pushed: it is in no unit but, perhaps, in one for which no answer is out (Push).
LEMMA PushBarrier ==
  ASSUME BarrierInv, NEW s \in Sessions, caller[s] # "wait", NEW m \in Mutations,
         m.id = issued + 1, issued' = issued + 1, queue' = Append(queue, m),
         UNCHANGED <<batch, ack, worker>>,
         \A t \in Sessions : t # s => /\ unit'[t] = unit[t] /\ caller'[t] = caller[t]
                                     /\ answer'[t] = answer[t],
         \/ unit'[s] = unit[s] /\ caller'[s] = caller[s] /\ answer'[s] = answer[s]
         \/ UnitIds(s)' \subseteq 1 .. issued + 1 /\ caller'[s] # "wait" /\ answer'[s] = "none"
  PROVE  FlushIsLast' /\ AckIsLast' /\ UnitIsIssued' /\ FlushIsBarrier'
<1>0. /\ queue \in Seq(Msg) /\ m \in Msg /\ issued \in Nat /\ m.kind # "flush"
      /\ ack \in Sessions \cup {NoSession}
  BY BoundsAssumption, MessageTypes DEF BarrierInv, IInv, TypeOK, Mutations
<1>1. \A t \in Sessions : issued + 1 \notin UnitIds(t) /\ UnitIds(t) \subseteq 1 .. issued + 1
  BY <1>0 DEF BarrierInv, UnitIsIssued
<1>2. \A t \in Sessions : t # s => UnitIds(t)' = UnitIds(t)
  BY DEF UnitIds
<1>3. /\ DOMAIN queue' = DOMAIN queue \cup {Len(queue) + 1}
      /\ queue'[Len(queue) + 1] = m
      /\ \A k \in DOMAIN queue : queue'[k] = queue[k] /\ queue[k] \in Msg
  BY <1>0
<1>4. \A k \in DOMAIN queue : queue[k].kind = "flush" => queue[k].by # s /\ queue[k].by \in Sessions
  BY <1>3, MessageTypes DEF BarrierInv, FlushIsLast
<1>5. FlushIsLast'
  <2> SUFFICES ASSUME NEW k \in DOMAIN queue', queue'[k].kind = "flush"
               PROVE  /\ caller'[queue'[k].by] = "wait" /\ ack' # queue'[k].by
                      /\ \A j \in DOMAIN queue' : j > k => queue'[j].id \notin UnitIds(queue[k].by)'
                      /\ \A j \in DOMAIN queue' :
                           queue'[j].kind = "flush" /\ j # k => queue'[j].by # queue'[k].by
    BY <1>0, <1>3 DEF FlushIsLast, UnitIds
  <2>1. k \in DOMAIN queue /\ queue'[k] = queue[k]
    BY <1>0, <1>3
  <2>2. queue[k].by # s /\ queue[k].by \in Sessions
    BY <1>4, <2>1
  <2>3. caller'[queue'[k].by] = "wait" /\ ack' # queue'[k].by
    BY <2>1, <2>2 DEF BarrierInv, FlushIsLast
  <2>4. UnitIds(queue[k].by)' = UnitIds(queue[k].by)
    BY <2>1, <2>2 DEF UnitIds
  <2>5. \A j \in DOMAIN queue' : j > k => queue'[j].id \notin UnitIds(queue[k].by)
    BY <1>1, <1>3, <2>1, <2>2 DEF BarrierInv, FlushIsLast
  <2>6. \A j \in DOMAIN queue' : queue'[j].kind = "flush" /\ j # k => queue'[j].by # queue'[k].by
    BY <1>0, <1>3, <2>1 DEF BarrierInv, FlushIsLast
  <2> QED
    BY <2>3, <2>4, <2>5, <2>6
<1>6. IdsOf(queue') = IdsOf(queue) \cup {issued + 1}
  BY <1>0, IdsOfSequences
<1>7. AckIsLast'
  <2> SUFFICES ASSUME ack # NoSession
               PROVE  /\ worker \in {"persist", "apply", "remove"} /\ caller'[ack] = "wait"
                      /\ UnitIds(ack)' \cap IdsOf(queue') = {}
    BY DEF AckIsLast, UnitIds
  <2>1. /\ worker \in {"persist", "apply", "remove"} /\ caller[ack] = "wait"
        /\ UnitIds(ack) \cap IdsOf(queue) = {} /\ ack \in Sessions
    BY <1>0 DEF BarrierInv, AckIsLast
  <2>2. ack # s /\ UnitIds(ack)' = UnitIds(ack) /\ caller'[ack] = "wait"
    <3>1. ack # s
      BY <2>1
    <3> QED
      BY <2>1, <3>1 DEF UnitIds
  <2> QED
    BY <1>1, <1>6, <2>1, <2>2
<1>8. PendingIds' = PendingIds \cup {issued + 1}
  BY <1>0, <1>6 DEF PendingIds
<1>9. CASE unit'[s] = unit[s] /\ caller'[s] = caller[s] /\ answer'[s] = answer[s]
  <2>1. \A t \in Sessions : /\ UnitIds(t)' = UnitIds(t) /\ caller'[t] = caller[t]
                            /\ answer'[t] = answer[t]
    BY <1>9 DEF UnitIds
  <2>2. UnitIsIssued'
    BY <1>1, <2>1 DEF BarrierInv, UnitIsIssued
  <2>3. FlushIsBarrier'
    BY <1>1, <1>8, <2>1 DEF BarrierInv, FlushIsBarrier
  <2> QED
    BY <1>5, <1>7, <2>2, <2>3
<1>10. CASE UnitIds(s)' \subseteq 1 .. issued + 1 /\ caller'[s] # "wait" /\ answer'[s] = "none"
  <2>1. UnitIsIssued'
    BY <1>1, <1>2, <1>10 DEF BarrierInv, UnitIsIssued
  <2>2. FlushIsBarrier'
    BY <1>1, <1>2, <1>8, <1>10 DEF BarrierInv, FlushIsBarrier
  <2> QED
    BY <1>5, <1>7, <2>1, <2>2
<1> QED
  BY <1>9, <1>10

\* A session's step (SessionStep).
LEMMA SessionBarrier ==
  ASSUME BarrierInv, NEW s \in Sessions, SessionStep(s)
  PROVE  FlushIsLast' /\ AckIsLast' /\ UnitIsIssued' /\ FlushIsBarrier'
<1>0. /\ IInv /\ TypeOK /\ issued \in Nat /\ 0 \in 0 .. MaxMutations
      /\ mem[s].gold \in 0 .. MaxMutations
      /\ unit \in [Sessions -> [gold : 0 .. MaxMutations, row : 0 .. MaxMutations]]
      /\ caller \in [Sessions -> {"idle", "gold", "flush", "wait"}]
      /\ answer \in [Sessions -> {"none", "ok", "err"}]
  <2>1. IInv /\ TypeOK
    BY DEF BarrierInv, IInv
  <2>2. issued \in Nat /\ 0 \in 0 .. MaxMutations
    BY <2>1, BoundsAssumption DEF TypeOK
  <2>3. mem[s].gold \in 0 .. MaxMutations
    BY <2>1 DEF TypeOK, Players
  <2> QED
    BY <2>1, <2>2, <2>3 DEF TypeOK
<1>1. CASE Save(s)
  <2> DEFINE m == Message(issued + 1, s, "save", 0)
  <2>1. m \in Mutations /\ m.id = issued + 1 /\ issued' = issued + 1 /\ queue' = Append(queue, m)
    BY <1>0, <1>1, MessageType DEF Save, Push, Message
  <2>2. UNCHANGED <<caller, unit, answer, batch, ack, worker>> /\ caller[s] # "wait"
    BY <1>1 DEF Save, Serving
  <2> HIDE DEF m
  <2> QED
    BY <2>1, <2>2, PushBarrier
<1>2. CASE PushRow(s)
  <2> DEFINE m == Message(issued + 1, s, "row", 0)
             u == [gold |-> 0, row |-> issued + 1]
  <2>1. m \in Mutations /\ m.id = issued + 1 /\ issued' = issued + 1 /\ queue' = Append(queue, m)
    BY <1>0, <1>2, MessageType DEF PushRow, Push, Message
  <2>2. /\ unit' = [unit EXCEPT ![s] = u] /\ caller' = [caller EXCEPT ![s] = "gold"]
        /\ answer' = [answer EXCEPT ![s] = "none"] /\ UNCHANGED <<batch, ack, worker>>
        /\ caller[s] # "wait"
    BY <1>2 DEF PushRow, Serving
  <2>3. UnitIds(s)' \subseteq 1 .. issued + 1
    BY <1>0, <2>2 DEF UnitIds
  <2>4. /\ caller'[s] # "wait" /\ answer'[s] = "none"
        /\ \A t \in Sessions : t # s => /\ unit'[t] = unit[t] /\ caller'[t] = caller[t]
                                        /\ answer'[t] = answer[t]
    BY <1>0, <2>2
  <2> HIDE DEF m, u
  <2> QED
    BY <2>1, <2>2, <2>3, <2>4, PushBarrier
<1>3. CASE PushGold(s)
  <2> DEFINE m == Message(issued + 1, s, "gold", mem[s].gold)
             r == IF Serving(s) THEN 0 ELSE unit[s].row
             u == [gold |-> issued + 1, row |-> r]
  <2>1. m \in Mutations /\ m.id = issued + 1 /\ issued' = issued + 1 /\ queue' = Append(queue, m)
    BY <1>0, <1>3, MessageType DEF PushGold, Push, Message
  <2>2. /\ unit' = [unit EXCEPT ![s] = u] /\ caller' = [caller EXCEPT ![s] = "flush"]
        /\ answer' = [answer EXCEPT ![s] = "none"] /\ UNCHANGED <<batch, ack, worker>>
        /\ caller[s] # "wait"
    BY <1>3 DEF PushGold, Serving
  <2>3. UnitIds(s)' \subseteq 1 .. issued + 1
    <3>1. r = 0 \/ r \in UnitIds(s) \/ r \in {0}
      BY DEF UnitIds
    <3>2. r = 0 \/ r \in 1 .. issued + 1
      BY <1>0, <3>1 DEF BarrierInv, UnitIsIssued
    <3> HIDE DEF r
    <3> QED
      BY <1>0, <2>2, <3>2 DEF UnitIds
  <2>4. /\ caller'[s] # "wait" /\ answer'[s] = "none"
        /\ \A t \in Sessions : t # s => /\ unit'[t] = unit[t] /\ caller'[t] = caller[t]
                                        /\ answer'[t] = answer[t]
    BY <1>0, <2>2
  <2> HIDE DEF m, u
  <2> QED
    BY <2>1, <2>2, <2>3, <2>4, PushBarrier
<1>4. CASE SendFlush(s)
  <2> DEFINE m == Message(0, s, "flush", 0)
  <2>1. m \in Msg /\ m.id = 0 /\ m.by = s /\ m.kind = "flush"
    BY DEF Message, Msg, Flushes
  <2>2. /\ queue' = Append(queue, m) /\ caller[s] = "flush" /\ queue \in Seq(Msg)
        /\ caller' = [caller EXCEPT ![s] = "wait"]
        /\ UNCHANGED <<unit, answer, batch, ack, worker, issued>>
    BY <1>0, <1>4 DEF SendFlush, TypeOK
  <2> HIDE DEF m
  <2>3. /\ DOMAIN queue' = DOMAIN queue \cup {Len(queue) + 1} /\ queue'[Len(queue) + 1] = m
        /\ \A k \in DOMAIN queue : queue'[k] = queue[k] /\ k < Len(queue) + 1 /\ k \in Nat
        /\ Len(queue) \in Nat
    BY <2>1, <2>2
  <2>4. \A k \in DOMAIN queue : queue[k].kind = "flush" =>
          queue[k].by \in Sessions /\ queue[k].by # s /\ caller[queue[k].by] = "wait"
    <3>1. \A k \in DOMAIN queue : queue[k] \in Msg
      BY <2>2
    <3> QED
      BY <2>2, <3>1, MessageTypes DEF BarrierInv, FlushIsLast
  <2>5. ack # s /\ (ack # NoSession => ack \in Sessions)
    BY <1>0, <2>2, SessionsAssumption DEF BarrierInv, AckIsLast, TypeOK
  <2>6. \A t \in Sessions : UnitIds(t)' = UnitIds(t) /\ 0 \notin UnitIds(t)
    BY <2>2 DEF UnitIds
  <2>7. FlushIsLast'
    <3> SUFFICES ASSUME NEW k \in DOMAIN queue', queue'[k].kind = "flush"
                 PROVE  /\ caller'[queue'[k].by] = "wait" /\ ack' # queue'[k].by
                        /\ \A j \in DOMAIN queue' : j > k => queue'[j].id \notin UnitIds(queue[k].by)'
                        /\ \A j \in DOMAIN queue' :
                             queue'[j].kind = "flush" /\ j # k => queue'[j].by # queue'[k].by
      BY DEF FlushIsLast, UnitIds
    <3>1. CASE k \in DOMAIN queue
      <4>1. /\ queue'[k] = queue[k] /\ queue[k].by \in Sessions /\ queue[k].by # s
            /\ caller[queue[k].by] = "wait" /\ queue[k].kind = "flush"
        BY <2>3, <2>4, <3>1
      <4>2. caller'[queue'[k].by] = "wait" /\ ack' # queue'[k].by
        BY <1>0, <2>2, <3>1, <4>1 DEF BarrierInv, FlushIsLast
      <4>3. ASSUME NEW j \in DOMAIN queue', j > k PROVE queue'[j].id \notin UnitIds(queue[k].by)'
        <5>1. UnitIds(queue[k].by)' = UnitIds(queue[k].by) /\ 0 \notin UnitIds(queue[k].by)
          BY <2>2, <4>1 DEF UnitIds
        <5>2. CASE j \in DOMAIN queue
          BY <2>3, <3>1, <4>1, <4>3, <5>1, <5>2 DEF BarrierInv, FlushIsLast
        <5>3. CASE j \notin DOMAIN queue
          BY <2>1, <2>3, <5>1, <5>3
        <5> QED
          BY <5>2, <5>3
      <4>4. ASSUME NEW j \in DOMAIN queue', queue'[j].kind = "flush", j # k
            PROVE  queue'[j].by # queue'[k].by
        <5>1. CASE j \in DOMAIN queue
          BY <2>3, <3>1, <4>1, <4>4, <5>1 DEF BarrierInv, FlushIsLast
        <5>2. CASE j \notin DOMAIN queue
          BY <2>1, <2>3, <4>1, <5>2
        <5> QED
          BY <5>1, <5>2
      <4> QED
        BY <4>2, <4>3, <4>4
    <3>2. CASE k = Len(queue) + 1
      <4>1. queue'[k].by = s /\ caller'[s] = "wait" /\ ack' # s
        BY <1>0, <2>1, <2>2, <2>3, <2>5, <3>2
      <4>2. \A j \in DOMAIN queue' : ~(j > k)
        BY <2>3, <3>2
      <4>3. \A j \in DOMAIN queue' : queue'[j].kind = "flush" /\ j # k => queue'[j].by # s
        BY <2>3, <2>4, <3>2
      <4> QED
        BY <4>1, <4>2, <4>3
    <3> QED
      BY <2>3, <3>1, <3>2
  <2>8. IdsOf(queue') = IdsOf(queue) \cup {0}
    BY <2>1, <2>2, IdsOfSequences
  <2>9. AckIsLast'
    <3> SUFFICES ASSUME ack # NoSession
                 PROVE  /\ worker \in {"persist", "apply", "remove"} /\ caller'[ack] = "wait"
                        /\ UnitIds(ack)' \cap IdsOf(queue') = {}
      BY <2>2 DEF AckIsLast, UnitIds
    <3>1. UnitIds(ack)' = UnitIds(ack) /\ 0 \notin UnitIds(ack)
      BY <2>2 DEF UnitIds
    <3> QED
      BY <1>0, <2>2, <2>5, <2>8, <3>1 DEF BarrierInv, AckIsLast
  <2>10. PendingIds' = PendingIds
    BY <2>2, <2>8 DEF PendingIds
  <2>11. FlushIsBarrier'
    BY <2>2, <2>6, <2>10 DEF BarrierInv, FlushIsBarrier
  <2>12. UnitIsIssued'
    BY <1>0, <2>2, <2>6 DEF BarrierInv, UnitIsIssued
  <2> QED
    BY <2>7, <2>9, <2>11, <2>12
<1>5. CASE Reload(s) \/ DropItem(s)
  <2>1. UNCHANGED <<caller, unit, answer, queue, batch, ack, worker, issued>>
    BY <1>5 DEF Reload, DropItem
  <2>2. PendingIds' = PendingIds
    BY <2>1 DEF PendingIds
  <2> QED
    BY <2>1, <2>2 DEF BarrierInv, FlushIsLast, AckIsLast, UnitIsIssued, FlushIsBarrier, UnitIds
<1> QED
  BY <1>1, <1>2, <1>3, <1>4, <1>5 DEF SessionStep

\* An answer is given after its batch is gone (Finish): nothing of its unit is left.
LEMMA FinishBarrier ==
  ASSUME BarrierInv, NEW r \in {"ok", "err"}, Finish(r), UNCHANGED <<queue, issued>>
  PROVE  FlushIsLast' /\ AckIsLast' /\ UnitIsIssued' /\ FlushIsBarrier'
<1>0. /\ caller \in [Sessions -> {"idle", "gold", "flush", "wait"}]
      /\ answer \in [Sessions -> {"none", "ok", "err"}]
      /\ ack \in Sessions \cup {NoSession} /\ queue \in Seq(Msg)
  BY DEF BarrierInv, IInv, TypeOK
<1>1. batch' = <<>> /\ ack' = NoSession /\ unit' = unit
  BY DEF Finish, Answer
<1>2. PendingIds' = IdsOf(queue) \ {0} /\ PendingIds' \subseteq PendingIds
  BY <1>1 DEF PendingIds, IdsOf
<1>3. AckIsLast' /\ \A t \in Sessions : UnitIds(t)' = UnitIds(t)
  BY <1>1 DEF AckIsLast, UnitIds
<1>4. /\ \A t \in Sessions : t # ack => caller'[t] = caller[t] /\ answer'[t] = answer[t]
      /\ ack \in Sessions => caller'[ack] = "idle"
  BY <1>0, SessionsAssumption DEF Finish, Answer
<1>5. \A k \in DOMAIN queue : queue[k].kind = "flush" =>
        queue[k].by \in Sessions /\ queue[k].by # ack /\ queue[k].by # NoSession
  <2>1. \A k \in DOMAIN queue : queue[k] \in Msg
    BY <1>0
  <2> QED
    BY <2>1, MessageTypes, SessionsAssumption DEF BarrierInv, FlushIsLast
<1>6. FlushIsLast'
  <2> SUFFICES ASSUME NEW k \in DOMAIN queue, queue[k].kind = "flush"
               PROVE  /\ caller'[queue[k].by] = "wait" /\ ack' # queue[k].by
                      /\ \A j \in DOMAIN queue : j > k => queue[j].id \notin UnitIds(queue[k].by)'
                      /\ \A j \in DOMAIN queue :
                           queue[j].kind = "flush" /\ j # k => queue[j].by # queue[k].by
    BY DEF FlushIsLast, UnitIds
  <2>1. caller'[queue[k].by] = "wait" /\ ack' # queue[k].by
    BY <1>1, <1>4, <1>5 DEF BarrierInv, FlushIsLast
  <2>2. UnitIds(queue[k].by)' = UnitIds(queue[k].by)
    BY <1>1 DEF UnitIds
  <2> QED
    BY <2>1, <2>2 DEF BarrierInv, FlushIsLast
<1>7. UnitIsIssued'
  BY <1>3, <1>4 DEF BarrierInv, UnitIsIssued
<1>8. FlushIsBarrier'
  <2> SUFFICES ASSUME NEW t \in Sessions, answer'[t] # "none"
               PROVE  UnitIds(t) \cap PendingIds' = {}
    BY <1>3 DEF FlushIsBarrier
  <2>1. CASE t = ack
    <3>1. UnitIds(t) \cap IdsOf(queue) = {}
      BY <2>1, SessionsAssumption DEF BarrierInv, AckIsLast
    <3> QED
      BY <1>2, <3>1
  <2>2. CASE t # ack
    BY <1>2, <1>4, <2>2 DEF BarrierInv, FlushIsBarrier
  <2> QED
    BY <2>1, <2>2
<1> QED
  BY <1>3, <1>6, <1>7, <1>8

\* The worker takes messages; a flush with no batch is answered at once, one that closes a batch
\* waits for it (RecvFirst, RecvIdleFlush, CollectMutation, CollectFlush).
LEMMA TakingBarrier ==
  ASSUME BarrierInv, RecvFirst \/ RecvIdleFlush \/ CollectMutation \/ CollectFlush
  PROVE  FlushIsLast' /\ AckIsLast' /\ UnitIsIssued' /\ FlushIsBarrier'
<1>0. /\ Received /\ unit' = unit /\ issued' = issued /\ worker \in {"recv", "collect"}
      /\ batch \in Seq(Mutations) /\ IInv /\ Mutations \subseteq Msg
      /\ caller \in [Sessions -> {"idle", "gold", "flush", "wait"}]
      /\ answer \in [Sessions -> {"none", "ok", "err"}]
      /\ Head(queue).by \in Sessions => Head(queue).by # NoSession
  BY SessionsAssumption, MessageTypes
  DEF RecvFirst, RecvIdleFlush, CollectMutation, CollectFlush, Answer, BarrierInv, IInv, TypeOK
<1>1. ack = NoSession
  BY <1>0 DEF BarrierInv, AckIsLast
<1>2. \A t \in Sessions : UnitIds(t)' = UnitIds(t)
  BY <1>0 DEF UnitIds
<1>3. ASSUME NEW k \in DOMAIN queue', queue'[k].kind = "flush"
      PROVE  /\ queue'[k].by \in Sessions /\ caller[queue'[k].by] = "wait"
             /\ \A j \in DOMAIN queue' : j > k => queue'[j].id \notin UnitIds(queue'[k].by)
             /\ \A j \in DOMAIN queue' :
                  queue'[j].kind = "flush" /\ j # k => queue'[j].by # queue'[k].by
             /\ Head(queue).kind = "flush" => queue'[k].by # Head(queue).by
  BY <1>0, <1>3, LeftInQueue
<1>4. ASSUME NEW s \in Sessions \cup {NoSession}, ack' = s,
             \A k \in DOMAIN queue' : queue'[k].kind = "flush" =>
               caller'[queue'[k].by] = "wait" /\ queue'[k].by # s
      PROVE  FlushIsLast'
  <2> SUFFICES ASSUME NEW k \in DOMAIN queue', queue'[k].kind = "flush"
               PROVE  /\ caller'[queue'[k].by] = "wait" /\ ack' # queue'[k].by
                      /\ \A j \in DOMAIN queue' : j > k => queue'[j].id \notin UnitIds(queue[k].by)'
                      /\ \A j \in DOMAIN queue' :
                           queue'[j].kind = "flush" /\ j # k => queue'[j].by # queue'[k].by
    BY DEF FlushIsLast, UnitIds
  <2>1. UnitIds(queue[k].by)' = UnitIds(queue'[k].by)
    BY <1>0 DEF UnitIds
  <2> QED
    BY <1>3, <1>4, <2>1
<1>5. IdsOf(queue') \subseteq IdsOf(queue) /\ Head(queue) \in Msg
  BY <1>0, LeftInQueue
<1>6. IdsOf(queue) = {Head(queue).id} \cup IdsOf(queue')
  BY <1>0, WhereIdsAre DEF Received, IInv
<1>7. CASE RecvFirst \/ CollectMutation
  <2>1. /\ UNCHANGED <<caller, answer, ack>> /\ Head(queue) \in Mutations
    BY <1>5, <1>7, MessageTypes DEF RecvFirst, CollectMutation
  <2>2. IdsOf(batch') \subseteq IdsOf(batch) \cup {Head(queue).id}
    <3>1. CASE RecvFirst
      <4>1. batch' = <<Head(queue)>>
        BY <3>1 DEF RecvFirst
      <4> QED
        BY <1>0, <2>1, <4>1, IdsOfSequences
    <3>2. CASE CollectMutation
      <4>1. batch' = Append(batch, Head(queue))
        BY <3>2 DEF CollectMutation
      <4> QED
        BY <1>0, <2>1, <4>1, IdsOfSequences
    <3> QED
      BY <1>7, <3>1, <3>2
  <2>3. PendingIds' \subseteq PendingIds
    BY <1>6, <2>2 DEF PendingIds
  <2>4. FlushIsLast'
    <3>1. \A k \in DOMAIN queue' : queue'[k].kind = "flush" =>
            caller'[queue'[k].by] = "wait" /\ queue'[k].by # NoSession
      BY <1>3, <2>1, SessionsAssumption
    <3> QED
      BY <1>1, <1>4, <2>1, <3>1
  <2>5. AckIsLast'
    BY <1>1, <2>1 DEF AckIsLast
  <2>6. UnitIsIssued'
    BY <1>0, <1>2, <2>1 DEF BarrierInv, UnitIsIssued
  <2>7. FlushIsBarrier'
    BY <1>2, <2>1, <2>3 DEF BarrierInv, FlushIsBarrier
  <2> QED
    BY <2>4, <2>5, <2>6, <2>7
<1>8. CASE RecvIdleFlush
  <2> DEFINE s == Head(queue).by
  <2>1. /\ Head(queue).kind = "flush" /\ s \in Sessions /\ s # NoSession
        /\ UnitIds(s) \cap IdsOf(queue') = {}
    BY <1>0, <1>8, LeftInQueue DEF RecvIdleFlush
  <2>2. batch = <<>> /\ batch' = batch /\ ack' = ack /\ IdsOf(batch) = {}
    BY <1>0, <1>8 DEF RecvIdleFlush, IInv, BatchIsConsistent, IdsOf
  <2>3. caller' = [caller EXCEPT ![s] = "idle"] /\ answer' = [answer EXCEPT ![s] = "ok"]
    BY <1>8, <2>1 DEF RecvIdleFlush, Answer
  <2> HIDE DEF s
  <2>4. FlushIsLast'
    <3>1. \A k \in DOMAIN queue' : queue'[k].kind = "flush" =>
            caller'[queue'[k].by] = "wait" /\ queue'[k].by # NoSession
      BY <1>0, <1>3, <2>1, <2>3, SessionsAssumption DEF s
    <3> QED
      BY <1>1, <1>4, <2>2, <3>1
  <2>5. AckIsLast'
    BY <1>1, <2>2 DEF AckIsLast
  <2>6. UnitIsIssued'
    BY <1>0, <1>2, <2>1, <2>3 DEF BarrierInv, UnitIsIssued
  <2>7. PendingIds' = IdsOf(queue') \ {0} /\ PendingIds' \subseteq PendingIds
    BY <1>5, <2>2 DEF PendingIds
  <2>8. FlushIsBarrier'
    <3> SUFFICES ASSUME NEW t \in Sessions, answer'[t] # "none"
                 PROVE  UnitIds(t) \cap PendingIds' = {}
      BY <1>2 DEF FlushIsBarrier
    <3>1. CASE t = s
      BY <2>1, <2>7, <3>1
    <3>2. CASE t # s
      BY <1>0, <2>3, <2>7, <3>2 DEF BarrierInv, FlushIsBarrier
    <3> QED
      BY <3>1, <3>2
  <2> QED
    BY <2>4, <2>5, <2>6, <2>8
<1>9. CASE CollectFlush
  <2> DEFINE s == Head(queue).by
  <2>1. /\ Head(queue).kind = "flush" /\ s \in Sessions /\ s # NoSession /\ caller[s] = "wait"
        /\ UnitIds(s) \cap IdsOf(queue') = {}
    BY <1>0, <1>9, LeftInQueue DEF CollectFlush
  <2>2. ack' = s /\ worker' = "persist" /\ UNCHANGED <<caller, answer, batch>>
    BY <1>9 DEF CollectFlush
  <2> HIDE DEF s
  <2>3. FlushIsLast'
    <3>1. \A k \in DOMAIN queue' : queue'[k].kind = "flush" =>
            caller'[queue'[k].by] = "wait" /\ queue'[k].by # s
      BY <1>3, <2>1, <2>2 DEF s
    <3> QED
      BY <1>4, <2>1, <2>2, <3>1
  <2>4. AckIsLast'
    <3>1. UnitIds(ack)' = UnitIds(s)
      BY <1>0, <2>2 DEF UnitIds
    <3> QED
      BY <2>1, <2>2, <3>1 DEF AckIsLast
  <2>5. UnitIsIssued'
    BY <1>0, <1>2, <2>2 DEF BarrierInv, UnitIsIssued
  <2>6. PendingIds' \subseteq PendingIds
    BY <1>5, <2>2 DEF PendingIds
  <2>7. FlushIsBarrier'
    BY <1>2, <2>2, <2>6 DEF BarrierInv, FlushIsBarrier
  <2> QED
    BY <2>3, <2>4, <2>5, <2>7
<1> QED
  BY <1>7, <1>8, <1>9

\* The worker writes and commits, or the replay does, and nobody is answered meanwhile.
LEMMA QuietBarrier ==
  ASSUME BarrierInv, UNCHANGED <<caller, unit, answer, queue, batch, ack, issued>>,
         worker' = worker \/ worker' \in {"persist", "apply", "remove"}
  PROVE  FlushIsLast' /\ AckIsLast' /\ UnitIsIssued' /\ FlushIsBarrier'
<1>1. /\ \A t \in Sessions : UnitIds(t)' = UnitIds(t)
      /\ UnitIds(ack)' = UnitIds(ack)
      /\ \A k \in DOMAIN queue : UnitIds(queue[k].by)' = UnitIds(queue[k].by)
  BY DEF UnitIds
<1>2. PendingIds' = PendingIds
  BY DEF PendingIds
<1>3. FlushIsLast'
  BY <1>1 DEF BarrierInv, FlushIsLast
<1>4. AckIsLast'
  BY <1>1 DEF BarrierInv, AckIsLast
<1>5. UnitIsIssued' /\ FlushIsBarrier'
  BY <1>1, <1>2 DEF BarrierInv, UnitIsIssued, FlushIsBarrier
<1> QED
  BY <1>3, <1>4, <1>5

\* A crash forgets everybody who waited (Crash).
LEMMA CrashBarrier ==
  ASSUME BarrierInv, Crash
  PROVE  FlushIsLast' /\ AckIsLast' /\ UnitIsIssued' /\ FlushIsBarrier'
<1>1. /\ queue' = <<>> /\ batch' = <<>> /\ ack' = NoSession
      /\ answer' = [s \in Sessions |-> "none"] /\ caller' = [s \in Sessions |-> "idle"]
      /\ unit' = [s \in Sessions |-> NoUnit]
  BY DEF Crash
<1>2. \A t \in Sessions : UnitIds(t)' = {}
  BY <1>1 DEF UnitIds, NoUnit
<1>3. FlushIsLast' /\ AckIsLast'
  BY <1>1 DEF FlushIsLast, AckIsLast
<1>4. UnitIsIssued' /\ FlushIsBarrier'
  BY <1>1, <1>2 DEF UnitIsIssued, FlushIsBarrier
<1> QED
  BY <1>3, <1>4

-----------------------------------------------------------------------------
(* The theorems                                                            *)

\* Nothing has been pushed at the start (Init).
LEMMA InitOrder == Init => OrderInv /\ BarrierInv
<1> SUFFICES ASSUME Init PROVE OrderInv /\ BarrierInv
  OBVIOUS
<1>1. IInv
  BY InitIInv
<1>2. /\ queue = <<>> /\ batch = <<>> /\ files = <<>> /\ audit = {} /\ issued = 0 /\ born = 0
      /\ ack = NoSession /\ answer = [s \in Sessions |-> "none"]
      /\ unit = [s \in Sessions |-> NoUnit]
  BY DEF Init
<1>3. FileIds = {} /\ IdsOf(batch) = {} /\ Waiting = {}
  BY <1>2 DEF FileIds, IdsOf, Waiting
<1>4. QueueInOrder /\ BatchInOrder /\ FilesInOrder /\ FileIsAtomic
  BY <1>2, <1>3 DEF QueueInOrder, BatchInOrder, FilesInOrder, FileIsAtomic, Older
<1>5. NothingDropped
  BY <1>2 DEF NothingDropped
<1>6. \A t \in Sessions : UnitIds(t) = {} /\ answer[t] = "none"
  BY <1>2 DEF UnitIds, NoUnit
<1>7. FlushIsLast /\ AckIsLast /\ UnitIsIssued /\ FlushIsBarrier
  BY <1>2, <1>6 DEF FlushIsLast, AckIsLast, UnitIsIssued, FlushIsBarrier
<1> QED
  BY <1>1, <1>4, <1>5, <1>7 DEF OrderInv, BarrierInv

\* Every step keeps the order (Next).
LEMMA OrderInductive == OrderInv /\ [Next]_vars => OrderInv'
<1> SUFFICES ASSUME OrderInv, [Next]_vars PROVE OrderInv'
  OBVIOUS
<1>0. IInv'
  BY IInvInductive DEF OrderInv
<1>1. QueueInOrder' /\ BatchInOrder' /\ FilesInOrder' /\ FileIsAtomic' /\ NothingDropped'
  <2>1. CASE UNCHANGED vars
    <3>1. FileIds' = FileIds /\ Waiting' = Waiting
      BY <2>1 DEF vars, FileIds, Waiting
    <3> QED
      BY <2>1, <3>1 DEF vars, OrderInv, QueueInOrder, BatchInOrder, FilesInOrder, FileIsAtomic,
                        NothingDropped
  <2> QED
    BY <2>1, SessionOrder, TakingOrder, WritingOrder, StartOrder DEF Next, WorkerStep
<1> QED
  BY <1>0, <1>1 DEF OrderInv

\* Every step keeps the flushes last (Next).
LEMMA BarrierInductive == BarrierInv /\ [Next]_vars => BarrierInv'
<1> SUFFICES ASSUME BarrierInv, [Next]_vars PROVE BarrierInv'
  OBVIOUS
<1>0. IInv'
  BY IInvInductive DEF BarrierInv
<1>1. CASE PersistFail \/ ApplyFail \/ Remove \/ RemoveFail
  <2>1. \E r \in {"ok", "err"} : Finish(r)
    BY <1>1 DEF PersistFail, ApplyFail, Remove, RemoveFail
  <2>2. UNCHANGED <<queue, issued>>
    BY <1>1 DEF PersistFail, ApplyFail, Remove, RemoveFail, Fault
  <2> QED
    BY <1>0, <2>1, <2>2, FinishBarrier DEF BarrierInv
<1>2. CASE CollectTimeout \/ Persist \/ ApplyCommit \/ ReplayStep \/ UNCHANGED vars
  <2>1. UNCHANGED <<caller, unit, answer, queue, batch, ack, issued>>
    BY <1>2 DEF CollectTimeout, TimeoutPassed, Persist, ApplyCommit, ReplayStep, ReplayApply,
         ReplayRemove, ReplayDone, ReplayTorn, ReplayFail, StartServing, Fault, vars
  <2>2. worker' = worker \/ worker' \in {"persist", "apply", "remove"}
    BY <1>2 DEF CollectTimeout, TimeoutPassed, Persist, ApplyCommit, ReplayStep, ReplayApply,
         ReplayRemove, ReplayDone, ReplayTorn, ReplayFail, StartServing, vars
  <2> QED
    BY <1>0, <2>1, <2>2, QuietBarrier DEF BarrierInv
<1>3. CASE \/ RecvFirst \/ RecvIdleFlush \/ CollectMutation \/ CollectFlush \/ Crash
           \/ \E s \in Sessions : SessionStep(s)
  BY <1>0, <1>3, TakingBarrier, CrashBarrier, SessionBarrier DEF BarrierInv
<1> QED
  BY <1>1, <1>2, <1>3 DEF Next, WorkerStep

\* Queue, batch and files are in the order of the pushes in every state.
THEOREM PipelineInOrder == Spec => []OrderInv
BY InitOrder, OrderInductive, PTL DEF Spec

\* Whatever crashes and errors happen, a file is committed as a whole or not at all.
THEOREM FilesStayAtomic == Spec => []FileIsAtomic
<1>1. OrderInv => FileIsAtomic
  BY DEF OrderInv
<1> QED
  BY <1>1, PipelineInOrder, PTL

\* Without disk and database errors a commit leaves out nothing that was pushed before it.
THEOREM CommitsFollowPushes == Spec => []CommitsInPushOrder
<1>1. OrderInv => CommitsInPushOrder
  <2> SUFFICES ASSUME OrderInv, faults = 0, NEW i \in audit, NEW j \in born + 1 .. i
               PROVE  j \in audit
    BY DEF CommitsInPushOrder
  <2>0. audit \subseteq Nat /\ issued \in Nat /\ born \in Nat /\ i < issued + 1
    BY IdsAreNumbers, BoundsAssumption DEF OrderInv, IInv, TypeOK
  <2>1. j \in born + 1 .. issued /\ j \in Nat /\ j <= i /\ i \in Nat
    BY <2>0
  <2>2. j \in audit \cup IdsOf(batch) \cup Waiting
    BY <2>1 DEF OrderInv, NothingDropped
  <2>3. j \notin Waiting
    BY <2>1 DEF OrderInv, QueueInOrder, Older
  <2>4. CASE worker = "remove"
    BY <2>2, <2>3, <2>4 DEF OrderInv, IInv, FilesAreConsistent
  <2>5. CASE worker # "remove"
    <3>1. worker \in {"recv", "collect", "persist", "apply"}
      BY <2>5 DEF OrderInv, IInv, TypeOK
    <3>2. Older(audit, IdsOf(batch))
      BY <3>1 DEF OrderInv, BatchInOrder, Older
    <3> QED
      BY <2>1, <2>2, <2>3, <3>2 DEF Older
  <2> QED
    BY <2>4, <2>5
<1> QED
  BY <1>1, PipelineInOrder, PTL

\* When flush() has returned, nothing of the caller's unit is on its way any more: not in the
\* queue, nor in the batch, whatever the answer was.
THEOREM FlushStaysBarrier == Spec => []FlushIsBarrier
<1>1. BarrierInv => FlushIsBarrier
  BY DEF BarrierInv
<1>2. Init => BarrierInv
  BY InitOrder
<1> QED
  BY <1>1, <1>2, BarrierInductive, PTL DEF Spec

-----------------------------------------------------------------------------
(* What a transaction computes                                             *)

\* What one statement does to the gold and to the items of each player.
LEMMA ExecuteFacts ==
  ASSUME NEW d \in Players, NEW m \in Mutations, NEW s \in Sessions
  PROVE  /\ m.by # s => Execute(d, m)[s] = d[s]
         /\ m.kind # "row" => Execute(d, m)[s].items = d[s].items
         /\ m.kind = "row" => Execute(d, m)[s].gold = d[s].gold
         /\ m.by = s /\ m.kind = "save" => Execute(d, m)[s].gold = m.id
         /\ m.by = s /\ m.kind = "gold" =>
              Execute(d, m)[s].gold = IF d[s].gold = m.pre THEN m.id ELSE d[s].gold
         /\ m.by = s /\ m.kind = "row" => Execute(d, m)[s].items = d[s].items \cup {m.id}
BY DEF Execute, Players, Mutations

\* Players are equal when they have the same gold and the same items.
LEMMA SamePlayers ==
  ASSUME NEW d \in Players, NEW e \in Players,
         \A s \in Sessions : d[s].gold = e[s].gold /\ d[s].items = e[s].items
  PROVE  d = e
<1>1. \A s \in Sessions : d[s] = e[s]
  BY DEF Players
<1> QED
  BY <1>1 DEF Players

\* The places of a sequence of mutations.
LEMMA Places ==
  ASSUME NEW muts \in Seq(Mutations)
  PROVE  /\ Len(muts) \in Nat /\ DOMAIN muts = 1 .. Len(muts)
         /\ \A i \in 1 .. Len(muts) : /\ muts[i] \in Mutations /\ i - 1 \in 0 .. Len(muts)
                                      /\ muts[i].id \in IdsOf(muts) /\ i \in 0 .. Len(muts)
BY DEF IdsOf

\* Of a transaction none of whose mutations is in the audit, nothing is skipped; of one all of
\* whose mutations are in it, everything is.
LEMMA Skipping ==
  ASSUME NEW d \in Players, NEW muts \in Seq(Mutations), NEW skip
  PROVE  /\ IdsOf(muts) \cap skip = {} => ExecuteAll(d, muts, skip) = ExecuteAll(d, muts, {})
         /\ IdsOf(muts) \subseteq skip => ExecuteAll(d, muts, skip) = d
<1> DEFINE N == Len(muts)
<1>1. PICK g : Runs(g, d, muts, skip) /\ ExecuteAll(d, muts, skip) = g[N]
  BY RunExists
<1>2. PICK h : Runs(h, d, muts, {}) /\ ExecuteAll(d, muts, {}) = h[N]
  BY RunExists
<1>3. /\ N \in Nat /\ g[0] = d /\ h[0] = d
      /\ \A i \in 1 .. N : /\ muts[i].id \in IdsOf(muts)
                           /\ g[i] = IF muts[i].id \in skip THEN g[i - 1]
                                     ELSE Execute(g[i - 1], muts[i])
                           /\ h[i] = Execute(h[i - 1], muts[i])
  BY <1>1, <1>2, Places DEF Runs
<1> HIDE DEF N
<1>4. ASSUME IdsOf(muts) \cap skip = {} PROVE g[N] = h[N]
  <2> DEFINE Good == {i \in 0 .. N : g[i] = h[i]}
  <2>1. 0 \in Good
    BY <1>3
  <2>2. \A i \in 1 .. N : i - 1 \in Good => i \in Good
    BY <1>3, <1>4
  <2>3. \A i \in 0 .. N : i \in Good
    <3> HIDE DEF Good
    <3> QED
      BY <1>3, <2>1, <2>2, Climb
  <2> QED
    BY <1>3, <2>3
<1>5. ASSUME IdsOf(muts) \subseteq skip PROVE g[N] = d
  <2> DEFINE Good == {i \in 0 .. N : g[i] = d}
  <2>1. 0 \in Good
    BY <1>3
  <2>2. \A i \in 1 .. N : i - 1 \in Good => i \in Good
    BY <1>3, <1>5
  <2>3. \A i \in 0 .. N : i \in Good
    <3> HIDE DEF Good
    <3> QED
      BY <1>3, <2>1, <2>2, Climb
  <2> QED
    BY <1>3, <2>3
<1> QED
  BY <1>1, <1>2, <1>4, <1>5 DEF N

\* A transaction step by step, with nothing skipped.
LEMMA FullRun ==
  ASSUME NEW d \in Players, NEW muts \in Seq(Mutations)
  PROVE  \E g : /\ ExecuteAll(d, muts, {}) = g[Len(muts)] /\ g[0] = d
                /\ \A i \in 0 .. Len(muts) : g[i] \in Players
                /\ \A i \in 1 .. Len(muts) : g[i] = Execute(g[i - 1], muts[i])
<1>1. PICK g : Runs(g, d, muts, {}) /\ ExecuteAll(d, muts, {}) = g[Len(muts)]
  BY RunExists
<1> QED
  BY <1>1 DEF Runs

\* Without statements nothing changes.
LEMMA EmptyRun ==
  ASSUME NEW d \in Players, NEW muts \in Seq(Mutations), IdsOf(muts) = {}
  PROVE  ExecuteAll(d, muts, {}) = d
BY Skipping

\* The gold a transaction leaves is the old one or the number of one of its mutations.
LEMMA GoldOf ==
  ASSUME NEW d \in Players, NEW muts \in Seq(Mutations), NEW s \in Sessions
  PROVE  ExecuteAll(d, muts, {})[s].gold \in {d[s].gold} \cup IdsOf(muts)
<1> DEFINE N == Len(muts)
<1>1. PICK g : /\ ExecuteAll(d, muts, {}) = g[N] /\ g[0] = d
               /\ \A i \in 0 .. N : g[i] \in Players
               /\ \A i \in 1 .. N : g[i] = Execute(g[i - 1], muts[i])
  BY FullRun
<1>2. /\ N \in Nat
      /\ \A i \in 1 .. N : /\ muts[i] \in Mutations /\ i - 1 \in 0 .. N
                           /\ muts[i].id \in IdsOf(muts) /\ i \in 0 .. N
  BY Places
<1> HIDE DEF N
<1> DEFINE Good == {i \in 0 .. N : g[i][s].gold \in {d[s].gold} \cup IdsOf(muts)}
<1>3. 0 \in Good
  BY <1>1, <1>2
<1>4. ASSUME NEW i \in 1 .. N, i - 1 \in Good PROVE i \in Good
  <2>1. g[i][s].gold \in {g[i - 1][s].gold, muts[i].id}
    <3>1. muts[i].kind \in {"save", "gold", "row"}
      BY <1>2 DEF Mutations
    <3> QED
      BY <1>1, <1>2, <3>1, ExecuteFacts
  <2> QED
    BY <1>2, <1>4, <2>1
<1>5. \A i \in 0 .. N : i \in Good
  <2> HIDE DEF Good
  <2> QED
    BY <1>2, <1>3, <1>4, Climb
<1> QED
  BY <1>1, <1>2, <1>5

\* Nothing of a player follows the guarded statement of his exchange, which expects another value
\* than it writes.
Orderly(muts) ==
  /\ \A i \in DOMAIN muts : muts[i].kind = "gold" => muts[i].pre < muts[i].id
  /\ \A i, j \in DOMAIN muts : i < j /\ muts[i].kind = "gold" => muts[j].by # muts[i].by

\* The rows of a transaction are there at its end.
LEMMA RowsStay ==
  ASSUME NEW muts \in Seq(Mutations), NEW g,
         \A i \in 0 .. Len(muts) : g[i] \in Players,
         \A i \in 1 .. Len(muts) : g[i] = Execute(g[i - 1], muts[i])
  PROVE  \A j \in 1 .. Len(muts) :
           muts[j].kind = "row" => muts[j].id \in g[Len(muts)][muts[j].by].items
<1> DEFINE N == Len(muts)
           Good == {i \in 0 .. N : \A j \in 1 .. N :
                      j <= i /\ muts[j].kind = "row" => muts[j].id \in g[i][muts[j].by].items}
<1>1. /\ N \in Nat
      /\ \A i \in 1 .. N : /\ muts[i] \in Mutations /\ i - 1 \in 0 .. N /\ i \in 0 .. N
                           /\ muts[i].by \in Sessions
  BY Places DEF Mutations
<1>h. /\ \A i \in 0 .. N : g[i] \in Players
      /\ \A i \in 1 .. N : g[i] = Execute(g[i - 1], muts[i])
  OBVIOUS
<1> HIDE DEF N
<1>2. 0 \in Good
  BY <1>1
<1>3. ASSUME NEW i \in 1 .. N, i - 1 \in Good PROVE i \in Good
  <2> SUFFICES ASSUME NEW j \in 1 .. N, j <= i, muts[j].kind = "row"
               PROVE  muts[j].id \in g[i][muts[j].by].items
    BY <1>1
  <2>1. muts[i].kind \in {"save", "gold", "row"}
    BY <1>1 DEF Mutations
  <2>2. CASE j = i
    BY <1>1, <1>h, <2>2, ExecuteFacts
  <2>3. CASE j # i
    <3>1. muts[j].id \in g[i - 1][muts[j].by].items
      BY <1>1, <1>3, <2>3
    <3>2. ASSUME NEW t \in Sessions PROVE g[i - 1][t].items \subseteq g[i][t].items
      <4>1. g[i - 1] \in Players /\ muts[i] \in Mutations /\ g[i] = Execute(g[i - 1], muts[i])
        BY <1>1, <1>h
      <4>2. CASE muts[i].kind # "row" \/ muts[i].by # t
        BY <4>1, <4>2, ExecuteFacts
      <4>3. CASE muts[i].kind = "row" /\ muts[i].by = t
        BY <4>1, <4>3, ExecuteFacts
      <4> QED
        BY <4>2, <4>3
    <3> QED
      BY <1>1, <3>1, <3>2
  <2> QED
    BY <2>2, <2>3
<1>4. \A i \in 0 .. N : i \in Good
  <2> HIDE DEF Good
  <2> QED
    BY <1>1, <1>2, <1>3, Climb
<1>5. N \in Good
  BY <1>1, <1>4
<1> QED
  BY <1>1, <1>5 DEF N

\* What an exchange leaves as gold stays to the end of its transaction.
LEMMA GoldStays ==
  ASSUME NEW muts \in Seq(Mutations), Orderly(muts), NEW g,
         \A i \in 0 .. Len(muts) : g[i] \in Players,
         \A i \in 1 .. Len(muts) : g[i] = Execute(g[i - 1], muts[i])
  PROVE  \A j \in 1 .. Len(muts) : muts[j].kind = "gold" =>
           g[Len(muts)][muts[j].by].gold = g[j][muts[j].by].gold
<1> DEFINE N == Len(muts)
           Good == {i \in 0 .. N : \A j \in 1 .. N :
                      j <= i /\ muts[j].kind = "gold" =>
                        g[i][muts[j].by].gold = g[j][muts[j].by].gold}
<1>1. /\ N \in Nat
      /\ \A i \in 1 .. N : /\ muts[i] \in Mutations /\ i - 1 \in 0 .. N /\ i \in 0 .. N
                           /\ muts[i].by \in Sessions
      /\ \A i, j \in 1 .. N : i < j /\ muts[i].kind = "gold" => muts[j].by # muts[i].by
  BY Places DEF Mutations, Orderly
<1>h. /\ \A i \in 0 .. N : g[i] \in Players
      /\ \A i \in 1 .. N : g[i] = Execute(g[i - 1], muts[i])
  OBVIOUS
<1> HIDE DEF N
<1>2. 0 \in Good
  BY <1>1
<1>3. ASSUME NEW i \in 1 .. N, i - 1 \in Good PROVE i \in Good
  <2> SUFFICES ASSUME NEW j \in 1 .. N, j <= i, muts[j].kind = "gold"
               PROVE  g[i][muts[j].by].gold = g[j][muts[j].by].gold
    BY <1>1
  <2>1. CASE j = i
    BY <2>1
  <2>2. CASE j # i
    <3>1. g[i - 1][muts[j].by].gold = g[j][muts[j].by].gold
      BY <1>1, <1>3, <2>2
    <3>2. muts[i].by # muts[j].by
      BY <1>1, <2>2
    <3>3. g[i][muts[j].by] = g[i - 1][muts[j].by]
      BY <1>1, <1>h, <3>2, ExecuteFacts
    <3> QED
      BY <3>1, <3>3
  <2> QED
    BY <2>1, <2>2
<1>4. \A i \in 0 .. N : i \in Good
  <2> HIDE DEF Good
  <2> QED
    BY <1>1, <1>2, <1>3, Climb
<1>5. N \in Good
  BY <1>1, <1>4
<1> QED
  BY <1>1, <1>5 DEF N

\* Applying an orderly transaction again changes nothing (replay_wal).
LEMMA RunAgain ==
  ASSUME NEW d \in Players, NEW muts \in Seq(Mutations), Orderly(muts)
  PROVE  /\ ExecuteAll(d, muts, {}) \in Players
         /\ ExecuteAll(ExecuteAll(d, muts, {}), muts, {}) = ExecuteAll(d, muts, {})
<1> DEFINE N == Len(muts)
           r == ExecuteAll(d, muts, {})
<1>1. PICK g : /\ r = g[N] /\ g[0] = d
               /\ \A i \in 0 .. N : g[i] \in Players
               /\ \A i \in 1 .. N : g[i] = Execute(g[i - 1], muts[i])
  BY FullRun
<1>2. r \in Players
  BY ExecuteAllType
<1>3. PICK h : /\ ExecuteAll(r, muts, {}) = h[N] /\ h[0] = r
               /\ \A i \in 0 .. N : h[i] \in Players
               /\ \A i \in 1 .. N : h[i] = Execute(h[i - 1], muts[i])
  BY <1>2, FullRun
<1>4. /\ N \in Nat
      /\ \A i \in 1 .. N : /\ muts[i] \in Mutations /\ i - 1 \in 0 .. N /\ i \in 0 .. N
                           /\ muts[i].kind \in {"save", "gold", "row"}
                           /\ muts[i].kind = "gold" => muts[i].pre < muts[i].id
                           /\ muts[i].pre \in Nat /\ muts[i].id \in Nat
  <2>1. /\ N \in Nat /\ DOMAIN muts = 1 .. N
        /\ \A i \in 1 .. N : muts[i] \in Mutations /\ i - 1 \in 0 .. N /\ i \in 0 .. N
    BY Places
  <2>2. \A m \in Mutations : m.kind \in {"save", "gold", "row"} /\ m.pre \in Nat /\ m.id \in Nat
    BY BoundsAssumption DEF Mutations, MutationIds
  <2>3. \A i \in 1 .. N : muts[i].kind = "gold" => muts[i].pre < muts[i].id
    BY <2>1 DEF Orderly
  <2> QED
    BY <2>1, <2>2, <2>3
<1>5. \A j \in 1 .. N : muts[j].kind = "row" => muts[j].id \in r[muts[j].by].items
  BY <1>1, RowsStay
<1>6. \A j \in 1 .. N : muts[j].kind = "gold" => r[muts[j].by].gold = g[j][muts[j].by].gold
  BY <1>1, GoldStays
<1> HIDE DEF N, r
\* The items stay, and the gold of a player is as the first time or, before his first save, as at
\* the end of it.
<1> DEFINE Same(i, s) == \/ h[i][s].gold = g[i][s].gold
                         \/ /\ h[i][s].gold = r[s].gold
                            /\ \A k \in 1 .. N : k <= i /\ muts[k].by = s => muts[k].kind # "save"
           Good == {i \in 0 .. N : \A s \in Sessions :
                      h[i][s].items = r[s].items /\ Same(i, s)}
<1>7. 0 \in Good
  BY <1>3, <1>4
<1>8. ASSUME NEW i \in 1 .. N, i - 1 \in Good PROVE i \in Good
  <2> SUFFICES ASSUME NEW s \in Sessions PROVE h[i][s].items = r[s].items /\ Same(i, s)
    BY <1>4
  <2>1. h[i - 1][s].items = r[s].items /\ Same(i - 1, s)
    BY <1>8
  <2>2. /\ g[i - 1] \in Players /\ h[i - 1] \in Players /\ muts[i] \in Mutations
        /\ g[i] = Execute(g[i - 1], muts[i]) /\ h[i] = Execute(h[i - 1], muts[i])
    BY <1>1, <1>3, <1>4
  <2>3. \A k \in 1 .. N : k <= i => k <= i - 1 \/ k = i
    BY <1>4
  <2>4. CASE muts[i].by # s
    <3>1. g[i][s] = g[i - 1][s] /\ h[i][s] = h[i - 1][s]
      BY <2>2, <2>4, ExecuteFacts
    <3> QED
      BY <2>1, <2>3, <2>4, <3>1
  <2>5. CASE muts[i].by = s /\ muts[i].kind = "save"
    <3>1. /\ g[i][s].gold = muts[i].id /\ h[i][s].gold = muts[i].id
          /\ h[i][s].items = h[i - 1][s].items
      BY <2>2, <2>5, ExecuteFacts
    <3> QED
      BY <2>1, <3>1
  <2>6. CASE muts[i].by = s /\ muts[i].kind = "row"
    <3>1. /\ g[i][s].gold = g[i - 1][s].gold /\ h[i][s].gold = h[i - 1][s].gold
          /\ h[i][s].items = h[i - 1][s].items \cup {muts[i].id}
      BY <2>2, <2>6, ExecuteFacts
    <3>2. muts[i].id \in r[s].items
      BY <1>5, <2>6
    <3>3. h[i][s].items = r[s].items
      BY <2>1, <3>1, <3>2
    <3> QED
      BY <2>1, <2>3, <2>6, <3>1, <3>3
  <2>7. CASE muts[i].by = s /\ muts[i].kind = "gold"
    <3>1. /\ g[i][s].gold = IF g[i - 1][s].gold = muts[i].pre THEN muts[i].id ELSE g[i - 1][s].gold
          /\ h[i][s].gold = IF h[i - 1][s].gold = muts[i].pre THEN muts[i].id ELSE h[i - 1][s].gold
          /\ h[i][s].items = h[i - 1][s].items
      BY <2>2, <2>7, ExecuteFacts
    <3>2. r[s].gold = g[i][s].gold /\ muts[i].id # muts[i].pre
      BY <1>4, <1>6, <2>7
    <3>3. h[i][s].gold = g[i][s].gold
      <4>1. CASE h[i - 1][s].gold = g[i - 1][s].gold
        BY <3>1, <4>1
      <4>2. CASE h[i - 1][s].gold = r[s].gold
        BY <3>1, <3>2, <4>2
      <4> QED
        BY <2>1, <4>1, <4>2
    <3> QED
      BY <2>1, <3>1, <3>3
  <2> QED
    BY <1>4, <2>4, <2>5, <2>6, <2>7
<1>9. N \in Good
  <2>1. \A i \in 0 .. N : i \in Good
    <3> HIDE DEF Good
    <3> QED
      BY <1>4, <1>7, <1>8, Climb
  <2> QED
    BY <1>4, <2>1
<1>10. \A s \in Sessions : h[N][s].items = r[s].items /\ h[N][s].gold = r[s].gold
  BY <1>1, <1>9
<1>11. h[N] \in Players
  BY <1>3, <1>4
<1>12. h[N] = r
  BY <1>2, <1>10, <1>11, SamePlayers
<1> QED
  BY <1>2, <1>3, <1>12 DEF r

\* A transaction that changes nothing does so too when another player has lost items (DropItem).
LEMMA DropKeeps ==
  ASSUME NEW d \in Players, NEW e \in Players, NEW muts \in Seq(Mutations), NEW s \in Sessions,
         ExecuteAll(d, muts, {}) = d,
         \A t \in Sessions : e[t].gold = d[t].gold /\ (t # s => e[t].items = d[t].items),
         \A i \in DOMAIN muts : muts[i].kind = "row" => muts[i].by # s
  PROVE  ExecuteAll(e, muts, {}) = e
<1> DEFINE N == Len(muts)
<1>1. PICK g : /\ d = g[N] /\ g[0] = d
               /\ \A i \in 0 .. N : g[i] \in Players
               /\ \A i \in 1 .. N : g[i] = Execute(g[i - 1], muts[i])
  BY FullRun
<1>2. PICK h : /\ ExecuteAll(e, muts, {}) = h[N] /\ h[0] = e
               /\ \A i \in 0 .. N : h[i] \in Players
               /\ \A i \in 1 .. N : h[i] = Execute(h[i - 1], muts[i])
  BY FullRun
<1>3. /\ N \in Nat
      /\ \A i \in 1 .. N : /\ muts[i] \in Mutations /\ i - 1 \in 0 .. N /\ i \in 0 .. N
                           /\ muts[i].kind \in {"save", "gold", "row"}
                           /\ muts[i].kind = "row" => muts[i].by # s
  BY Places DEF Mutations
<1> HIDE DEF N
<1> DEFINE Good == {i \in 0 .. N : \A t \in Sessions :
                      /\ h[i][t].gold = g[i][t].gold
                      /\ t # s => h[i][t].items = g[i][t].items
                      /\ t = s => h[i][t].items = e[s].items}
<1>4. 0 \in Good
  BY <1>1, <1>2, <1>3
<1>5. ASSUME NEW i \in 1 .. N, i - 1 \in Good PROVE i \in Good
  <2> SUFFICES ASSUME NEW t \in Sessions
               PROVE  /\ h[i][t].gold = g[i][t].gold
                      /\ t # s => h[i][t].items = g[i][t].items
                      /\ t = s => h[i][t].items = e[s].items
    BY <1>3
  <2>1. /\ h[i - 1][t].gold = g[i - 1][t].gold
        /\ t # s => h[i - 1][t].items = g[i - 1][t].items
        /\ t = s => h[i - 1][t].items = e[s].items
    BY <1>5
  <2>2. /\ g[i - 1] \in Players /\ h[i - 1] \in Players /\ muts[i] \in Mutations
        /\ g[i] = Execute(g[i - 1], muts[i]) /\ h[i] = Execute(h[i - 1], muts[i])
    BY <1>1, <1>2, <1>3
  <2>3. CASE muts[i].by # t
    <3>1. g[i][t] = g[i - 1][t] /\ h[i][t] = h[i - 1][t]
      BY <2>2, <2>3, ExecuteFacts
    <3> QED
      BY <2>1, <3>1
  <2>4. CASE muts[i].by = t /\ muts[i].kind = "save"
    <3>1. /\ g[i][t].gold = muts[i].id /\ h[i][t].gold = muts[i].id
          /\ g[i][t].items = g[i - 1][t].items /\ h[i][t].items = h[i - 1][t].items
      BY <2>2, <2>4, ExecuteFacts
    <3> QED
      BY <2>1, <3>1
  <2>5. CASE muts[i].by = t /\ muts[i].kind = "gold"
    <3>1. /\ g[i][t].gold = IF g[i - 1][t].gold = muts[i].pre THEN muts[i].id ELSE g[i - 1][t].gold
          /\ h[i][t].gold = IF h[i - 1][t].gold = muts[i].pre THEN muts[i].id ELSE h[i - 1][t].gold
          /\ g[i][t].items = g[i - 1][t].items /\ h[i][t].items = h[i - 1][t].items
      BY <2>2, <2>5, ExecuteFacts
    <3> QED
      BY <2>1, <3>1
  <2>6. CASE muts[i].by = t /\ muts[i].kind = "row"
    <3>1. t # s
      BY <1>3, <2>6
    <3>2. /\ g[i][t].gold = g[i - 1][t].gold /\ h[i][t].gold = h[i - 1][t].gold
          /\ g[i][t].items = g[i - 1][t].items \cup {muts[i].id}
          /\ h[i][t].items = h[i - 1][t].items \cup {muts[i].id}
      BY <2>2, <2>6, ExecuteFacts
    <3> QED
      BY <2>1, <3>1, <3>2
  <2> QED
    BY <1>3, <2>3, <2>4, <2>5, <2>6
<1>6. N \in Good
  <2>1. \A i \in 0 .. N : i \in Good
    <3> HIDE DEF Good
    <3> QED
      BY <1>3, <1>4, <1>5, Climb
  <2> QED
    BY <1>3, <2>1
<1>7. \A t \in Sessions : h[N][t].gold = e[t].gold /\ h[N][t].items = e[t].items
  BY <1>1, <1>6
<1>8. h[N] \in Players
  BY <1>2, <1>3
<1> QED
  BY <1>2, <1>7, <1>8, SamePlayers

-----------------------------------------------------------------------------
(* What is on its way to the database                                      *)

Carried == {queue[i] : i \in DOMAIN queue} \cup {batch[i] : i \in DOMAIN batch}

\* A row or a guarded statement on its way is of the last unit of its session, nothing of the
\* session follows the guarded one, and that expects an older value than it writes.
UnitsAreCarried == \A m \in Carried : /\ m.kind = "row" => m.id = unit[m.by].row
                                      /\ m.kind = "gold" => m.id = unit[m.by].gold
GoldIsLast == \A m, n \in Carried : m.kind = "gold" /\ n.by = m.by => n.id <= m.id
PreIsOlder == \A m \in Carried : m.kind = "gold" => m.pre < m.id
\* A session that waits for nothing has the answer of its last unit.
UnitsAreAnswered ==
  \A s \in Sessions : /\ caller[s] = "idle" /\ unit[s] # NoUnit => answer[s] # "none"
                      /\ caller[s] = "gold" => unit[s].gold = 0
\* Gold in memory and in the rows was written by a mutation that exists.
GoldsAreIssued == \A s \in Sessions : mem[s].gold <= issued /\ db[s].gold <= issued

UInv == UnitsAreCarried /\ GoldIsLast /\ PreIsOlder /\ UnitsAreAnswered /\ GoldsAreIssued

\* What is on its way is well formed, and a mutation on its way has been issued.
LEMMA CarriedFacts ==
  ASSUME IInv, NEW m \in Carried
  PROVE  /\ m \in Msg /\ m.by \in Sessions /\ m.id \in Nat /\ m.id <= issued
         /\ m.kind # "flush" => m \in Mutations /\ m.id >= 1 /\ m.id \in PendingIds
<1>1. queue \in Seq(Msg) /\ batch \in Seq(Mutations) /\ issued \in Nat
  BY BoundsAssumption DEF IInv, TypeOK
<1>2. m \in Msg /\ m.id \in IdsOf(queue) \cup IdsOf(batch)
  BY <1>1 DEF Carried, IdsOf, Msg
<1>3. m.by \in Sessions /\ m.id \in Nat
  BY <1>2, BoundsAssumption DEF Msg, Mutations, Flushes, MutationIds
<1>4. m.kind # "flush" => m \in Mutations /\ m.id >= 1
  BY <1>2, BoundsAssumption DEF Msg, Mutations, Flushes, MutationIds
<1>5. m.id # 0 => m.id \in PendingIds
  BY <1>2 DEF PendingIds
<1>6. m.id <= issued
  BY <1>1, <1>3, <1>5 DEF IInv, NothingUnborn
<1> QED
  BY <1>2, <1>3, <1>4, <1>5, <1>6

\* Nothing of the unit of a session is on its way when it waits for nothing (FlushIsBarrier).
LEMMA IdleCarriesNothing ==
  ASSUME BarrierInv, UInv, NEW m \in Carried
  PROVE  /\ caller[m.by] = "idle" => m.kind \notin {"row", "gold"}
         /\ caller[m.by] = "gold" => m.kind # "gold"
<1> DEFINE s == m.by
<1>1. /\ s \in Sessions
      /\ m.kind # "flush" => m.id \in PendingIds /\ m.id >= 1 /\ m.id \in Nat
  BY CarriedFacts DEF BarrierInv
<1>2. /\ m.kind = "row" => m.id = unit[s].row
      /\ m.kind = "gold" => m.id = unit[s].gold
  BY DEF UInv, UnitsAreCarried
<1>3. m.kind \in {"row", "gold"} => m.id \in UnitIds(s) /\ unit[s] # NoUnit
  BY <1>1, <1>2 DEF UnitIds, NoUnit
<1>4. answer[s] # "none" => UnitIds(s) \cap PendingIds = {}
  BY <1>1 DEF BarrierInv, FlushIsBarrier
<1>5. /\ caller[s] = "idle" /\ unit[s] # NoUnit => answer[s] # "none"
      /\ caller[s] = "gold" => unit[s].gold = 0
  BY <1>1 DEF UInv, UnitsAreAnswered
<1> QED
  BY <1>1, <1>2, <1>3, <1>4, <1>5

\* What a push adds, and what the worker takes (Push, Received, Finish).
LEMMA CarriedMoves ==
  ASSUME IInv
  PROVE  /\ \A m \in Msg : queue' = Append(queue, m) /\ batch' = batch => Carried' = Carried \cup {m}
         /\ Received /\ batch' \in {batch, <<Head(queue)>>, Append(batch, Head(queue))}
              => Carried' \subseteq Carried
         /\ queue' \in {queue, <<>>} /\ batch' \in {batch, <<>>} => Carried' \subseteq Carried
<1> DEFINE Of(seq) == {seq[i] : i \in DOMAIN seq}
<1>0. queue \in Seq(Msg) /\ batch \in Seq(Mutations) /\ Mutations \subseteq Msg
      /\ Carried' = Of(queue') \cup Of(batch') /\ Carried = Of(queue) \cup Of(batch)
      /\ batch \in Seq(Msg)
  <2>1. queue \in Seq(Msg) /\ batch \in Seq(Mutations) /\ Mutations \subseteq Msg
    BY DEF IInv, TypeOK, Msg
  <2>2. batch \in Seq(Msg)
    BY <2>1
  <2> QED
    BY <2>1, <2>2 DEF Carried
<1>1. \A seq \in Seq(Msg), m \in Msg : Of(Append(seq, m)) = Of(seq) \cup {m}
  <2> SUFFICES ASSUME NEW seq \in Seq(Msg), NEW m \in Msg
               PROVE  Of(Append(seq, m)) = Of(seq) \cup {m}
    OBVIOUS
  <2>1. /\ DOMAIN seq = 1 .. Len(seq) /\ Len(seq) \in Nat
        /\ DOMAIN Append(seq, m) = 1 .. Len(seq) + 1
        /\ Append(seq, m)[Len(seq) + 1] = m
        /\ \A i \in 1 .. Len(seq) : Append(seq, m)[i] = seq[i]
    OBVIOUS
  <2> QED
    BY <2>1
<1>2. ASSUME queue # <<>>
      PROVE  Head(queue) \in Of(queue) /\ Of(Tail(queue)) \subseteq Of(queue) /\ Head(queue) \in Msg
             /\ Of(<<Head(queue)>>) = {Head(queue)}
  <2>1. /\ DOMAIN queue = 1 .. Len(queue) /\ Len(queue) \in Nat /\ Len(queue) >= 1
        /\ Head(queue) = queue[1] /\ Head(queue) \in Msg
        /\ DOMAIN Tail(queue) = 1 .. Len(queue) - 1
        /\ \A i \in 1 .. Len(queue) - 1 : Tail(queue)[i] = queue[i + 1]
    BY <1>0, <1>2
  <2>2. Of(<<Head(queue)>>) = {Head(queue)}
    OBVIOUS
  <2> QED
    BY <2>1, <2>2
<1>3. Of(<<>>) = {}
  OBVIOUS
<1>4. ASSUME NEW m \in Msg, queue' = Append(queue, m), batch' = batch
      PROVE  Carried' = Carried \cup {m}
  <2>1. Of(queue') = Of(queue) \cup {m}
    BY <1>0, <1>1, <1>4
  <2> QED
    BY <1>0, <1>4, <2>1
<1>5. ASSUME Received, batch' \in {batch, <<Head(queue)>>, Append(batch, Head(queue))}
      PROVE  Carried' \subseteq Carried
  <2>1. queue # <<>> /\ queue' = Tail(queue)
    BY <1>5 DEF Received
  <2>2. Of(queue') \subseteq Of(queue) /\ Head(queue) \in Of(queue)
    BY <1>2, <2>1
  <2>3. Of(batch') \subseteq Of(batch) \cup {Head(queue)}
    <3>1. Of(Append(batch, Head(queue))) = Of(batch) \cup {Head(queue)}
      BY <1>0, <1>1, <1>2, <2>1
    <3> HIDE DEF Of
    <3> QED
      BY <1>2, <1>5, <2>1, <3>1
  <2> QED
    BY <1>0, <2>2, <2>3
<1>6. ASSUME queue' \in {queue, <<>>}, batch' \in {batch, <<>>}
      PROVE  Carried' \subseteq Carried
  <2> HIDE DEF Of
  <2> QED
    BY <1>0, <1>3, <1>6
<1> QED
  BY <1>4, <1>5, <1>6

\* A step that puts nothing on its way and begins no unit.
LEMMA UnitsStay ==
  ASSUME UInv, Carried' \subseteq Carried, UNCHANGED unit,
         \A s \in Sessions : \/ caller'[s] = caller[s] /\ answer'[s] = answer[s]
                             \/ caller'[s] = "idle" /\ answer'[s] # "none",
         GoldsAreIssued'
  PROVE  UInv'
<1>1. UnitsAreCarried' /\ GoldIsLast' /\ PreIsOlder'
  BY DEF UInv, UnitsAreCarried, GoldIsLast, PreIsOlder
<1>2. UnitsAreAnswered'
  BY DEF UInv, UnitsAreAnswered, NoUnit
<1> QED
  BY <1>1, <1>2 DEF UInv

\* The answer of a flush leaves gold in memory that was there, or that the unit has written (Answer).
LEMMA AnswerUnits ==
  ASSUME BarrierInv, UInv, NEW s \in Sessions \cup {NoSession}, NEW r \in {"ok", "err"}, Answer(s, r)
  PROVE  /\ \A t \in Sessions : mem'[t].gold <= issued
         /\ UNCHANGED unit
         /\ \A t \in Sessions : \/ caller'[t] = caller[t] /\ answer'[t] = answer[t]
                                \/ caller'[t] = "idle" /\ answer'[t] # "none"
<1>0. /\ caller \in [Sessions -> {"idle", "gold", "flush", "wait"}]
      /\ answer \in [Sessions -> {"none", "ok", "err"}] /\ DOMAIN mem = Sessions /\ issued \in Nat
      /\ \A t \in Sessions : unit[t].gold \in Nat
  <2>1. TypeOK
    BY DEF BarrierInv, IInv
  <2> QED
    BY <2>1, BoundsAssumption DEF TypeOK, Players
<1>1. \A t \in Sessions : mem[t].gold <= issued /\ unit[t].gold <= issued
  <2> SUFFICES ASSUME NEW t \in Sessions PROVE unit[t].gold <= issued
    BY DEF UInv, GoldsAreIssued
  <2>1. unit[t].gold # 0 => unit[t].gold \in 1 .. issued
    BY DEF BarrierInv, UnitIsIssued, UnitIds
  <2> QED
    BY <1>0, <2>1
<1>2. CASE s = NoSession
  BY <1>1, <1>2 DEF Answer
<1>3. CASE s # NoSession
  <2>1. /\ answer' = [answer EXCEPT ![s] = r] /\ caller' = [caller EXCEPT ![s] = "idle"]
        /\ UNCHANGED unit /\ s \in Sessions
    BY <1>3 DEF Answer
  <2>2. \A t \in Sessions : t # s => mem'[t] = mem[t]
    BY <1>0, <1>3 DEF Answer
  <2>3. mem'[s].gold \in {mem[s].gold, unit[s].gold}
    BY <1>0, <1>3 DEF Answer
  <2>4. \A t \in Sessions : mem'[t].gold <= issued
    BY <1>1, <2>1, <2>2, <2>3
  <2> QED
    BY <1>0, <2>1, <2>4
<1> QED
  BY <1>2, <1>3

\* Gold in the rows was there or is written by the transaction (Commit).
LEMMA CommitUnits ==
  ASSUME IInv, UInv, NEW muts \in Seq(Mutations), IdsOf(muts) \subseteq 1 .. issued, Commit(muts)
  PROVE  \A t \in Sessions : db'[t].gold <= issued
<1> SUFFICES ASSUME NEW t \in Sessions PROVE db'[t].gold <= issued
  OBVIOUS
<1>1. db' = ExecuteAll(db, muts, {}) /\ db \in Players /\ issued \in Nat
  BY BoundsAssumption DEF Commit, IInv, TypeOK
<1>2. db'[t].gold \in {db[t].gold} \cup IdsOf(muts)
  BY <1>1, GoldOf
<1>3. db[t].gold <= issued
  BY DEF UInv, GoldsAreIssued
<1> QED
  BY <1>1, <1>2, <1>3

\* The files hold mutations that were issued.
LEMMA FilesUnits ==
  ASSUME IInv
  PROVE  /\ \A f \in DOMAIN files : files[f].muts \in Seq(Mutations)
                                    /\ IdsOf(files[f].muts) \subseteq 1 .. issued
         /\ files # <<>> => 1 \in DOMAIN files /\ Head(files) = files[1]
         /\ batch \in Seq(Mutations) /\ IdsOf(batch) \subseteq 1 .. issued
<1>1. files \in Seq(WalFile) /\ batch \in Seq(Mutations)
  BY DEF IInv, TypeOK
<1>2. \A f \in DOMAIN files : files[f].muts \in Seq(Mutations)
  <2>1. \A f \in DOMAIN files : files[f] \in WalFile
    BY <1>1
  <2> QED
    BY <2>1 DEF WalFile
<1>3. \A f \in DOMAIN files : IdsOf(files[f].muts) \subseteq 1 .. issued
  BY DEF IInv, NothingUnborn, FileIds
<1>4. IdsOf(batch) \subseteq 1 .. issued
  <2>1. \A m \in Mutations : m.id # 0
    BY DEF Mutations, MutationIds
  <2>2. 0 \notin IdsOf(batch)
    BY <1>1, <2>1 DEF IdsOf
  <2> QED
    BY <2>2 DEF IInv, NothingUnborn, PendingIds
<1>5. files # <<>> => 1 \in DOMAIN files /\ Head(files) = files[1]
  BY <1>1
<1> QED
  BY <1>1, <1>2, <1>3, <1>4, <1>5

\* The worker puts nothing on its way (WorkerStep).
LEMMA WorkerUnits == ASSUME BarrierInv, UInv, WorkerStep PROVE UInv'
<1>0. IInv
  BY DEF BarrierInv
<1>1. Carried' \subseteq Carried
  <2>1. CASE RecvFirst \/ RecvIdleFlush \/ CollectMutation \/ CollectFlush
    <3>1. Received /\ batch' \in {batch, <<Head(queue)>>, Append(batch, Head(queue))}
      BY <2>1 DEF RecvFirst, RecvIdleFlush, CollectMutation, CollectFlush
    <3> QED
      BY <1>0, <3>1, CarriedMoves
  <2>2. CASE \/ CollectTimeout \/ Persist \/ PersistFail \/ ApplyCommit \/ ApplyFail
             \/ Remove \/ RemoveFail
    <3>1. queue' = queue /\ batch' \in {batch, <<>>}
      BY <2>2 DEF CollectTimeout, Persist, PersistFail, ApplyCommit, ApplyFail, Remove, RemoveFail, Finish
    <3> QED
      BY <1>0, <3>1, CarriedMoves
  <2> QED
    BY <2>1, <2>2 DEF WorkerStep
<1>2. \A t \in Sessions : mem[t].gold <= issued /\ db[t].gold <= issued
  BY DEF UInv, GoldsAreIssued
<1>3. ack \in Sessions \cup {NoSession} /\ batch \in Seq(Mutations) /\ queue \in Seq(Msg)
  BY <1>0 DEF IInv, TypeOK
<1>4. issued' = issued
  BY DEF WorkerStep, RecvFirst, RecvIdleFlush, CollectMutation, CollectFlush, CollectTimeout, Persist,
         PersistFail, ApplyCommit, ApplyFail, Remove, RemoveFail, Fault
<1>5. \A t \in Sessions : db'[t].gold <= issued
  <2>1. CASE Commit(batch)
    BY <1>0, <2>1, CommitUnits, FilesUnits
  <2>2. CASE db' = db
    BY <1>2, <2>2
  <2>3. Commit(batch) \/ db' = db
    BY DEF WorkerStep, RecvFirst, RecvIdleFlush, CollectMutation, CollectFlush, CollectTimeout, Persist,
         PersistFail, ApplyCommit, ApplyFail, Remove, RemoveFail
  <2> QED
    BY <2>1, <2>2, <2>3
<1>6. /\ \A t \in Sessions : mem'[t].gold <= issued
      /\ UNCHANGED unit
      /\ \A t \in Sessions : \/ caller'[t] = caller[t] /\ answer'[t] = answer[t]
                             \/ caller'[t] = "idle" /\ answer'[t] # "none"
  <2>1. CASE RecvIdleFlush
    <3>1. Answer(Head(queue).by, "ok") /\ queue # <<>>
      BY <2>1 DEF RecvIdleFlush, Received
    <3>2. Head(queue).by \in Sessions
      <4>1. Head(queue) \in Msg
        BY <1>3, <3>1
      <4> QED
        BY <4>1 DEF Msg, Mutations, Flushes
    <3> QED
      BY <3>1, <3>2, AnswerUnits
  <2>2. CASE PersistFail \/ ApplyFail \/ Remove \/ RemoveFail
    <3>1. \E r \in {"ok", "err"} : Answer(ack, r)
      BY <2>2 DEF PersistFail, ApplyFail, Remove, RemoveFail, Finish
    <3> QED
      BY <1>3, <3>1, AnswerUnits
  <2>3. CASE RecvFirst \/ CollectMutation \/ CollectFlush \/ CollectTimeout \/ Persist \/ ApplyCommit
    <3>1. UNCHANGED sessionVars
      BY <2>3 DEF RecvFirst, CollectMutation, CollectFlush, CollectTimeout, Persist, ApplyCommit
    <3> QED
      BY <1>2, <3>1
  <2> QED
    BY <2>1, <2>2, <2>3 DEF WorkerStep
<1>7. GoldsAreIssued'
  BY <1>4, <1>5, <1>6 DEF GoldsAreIssued
<1> QED
  BY <1>1, <1>6, <1>7, UnitsStay

\* Nor does a crash or a start (Crash, ReplayStep).
LEMMA StartUnits == ASSUME BarrierInv, UInv, Crash \/ ReplayStep PROVE UInv'
<1>0. IInv /\ issued \in Nat /\ files \in Seq(WalFile)
  BY BoundsAssumption DEF BarrierInv, IInv, TypeOK
<1>1. Carried' \subseteq Carried /\ issued' = issued
  <2>1. queue' \in {queue, <<>>} /\ batch' \in {batch, <<>>}
    BY DEF Crash, ReplayStep, ReplayApply, ReplayRemove, ReplayDone, ReplayTorn, ReplayFail, StartServing
  <2>2. issued' = issued
    BY DEF Crash, ReplayStep, ReplayApply, ReplayRemove, ReplayDone, ReplayTorn, ReplayFail, Fault
  <2> QED
    BY <1>0, <2>1, <2>2, CarriedMoves
<1>2. \A t \in Sessions : mem[t].gold <= issued /\ db[t].gold <= issued
  BY DEF UInv, GoldsAreIssued
<1>3. CASE Crash
  <2>1. /\ mem' = NewPlayers /\ unit' = [s \in Sessions |-> NoUnit] /\ db' = db
        /\ caller' = [s \in Sessions |-> "idle"] /\ queue' = <<>> /\ batch' = <<>>
    BY <1>3 DEF Crash
  <2>2. Carried' = {}
    BY <2>1 DEF Carried
  <2>3. UnitsAreCarried' /\ GoldIsLast' /\ PreIsOlder'
    BY <2>2 DEF UnitsAreCarried, GoldIsLast, PreIsOlder
  <2>4. UnitsAreAnswered'
    BY <2>1 DEF UnitsAreAnswered, NoUnit
  <2>5. GoldsAreIssued'
    BY <1>0, <1>1, <1>2, <2>1 DEF GoldsAreIssued, NewPlayers
  <2> QED
    BY <2>3, <2>4, <2>5 DEF UInv
<1>4. CASE ReplayStep
  <2>1. UNCHANGED <<caller, unit, answer>> /\ mem' \in {mem, db'}
    BY <1>4 DEF ReplayStep, ReplayApply, ReplayRemove, ReplayDone, ReplayTorn, ReplayFail, StartServing
  <2>2. \A t \in Sessions : db'[t].gold <= issued
    <3>1. CASE db' = db
      BY <1>2, <3>1
    <3>2. CASE files # <<>> /\ Commit(Head(files).muts)
      BY <1>0, <3>2, FilesUnits, CommitUnits
    <3>3. db' = db \/ (files # <<>> /\ Commit(Head(files).muts))
      BY <1>4 DEF ReplayStep, ReplayApply, ReplayRemove, ReplayDone, ReplayTorn, ReplayFail, Replaying
    <3> QED
      BY <3>1, <3>2, <3>3
  <2>3. GoldsAreIssued'
    BY <1>1, <1>2, <2>1, <2>2 DEF GoldsAreIssued
  <2> QED
    BY <1>1, <2>1, <2>3, UnitsStay
<1> QED
  BY <1>3, <1>4

\* The messages a session pushes (Message).
LEMMA MessageFields ==
  \A n, s, kind, pre : /\ Message(n, s, kind, pre).id = n /\ Message(n, s, kind, pre).by = s
                       /\ Message(n, s, kind, pre).kind = kind /\ Message(n, s, kind, pre).pre = pre
BY DEF Message

\* A session pushes a message of its own, in the middle of no unit or as the next of its unit.
LEMMA PushUnits ==
  ASSUME BarrierInv, UInv, NEW s \in Sessions, NEW m \in Msg,
         queue' = Append(queue, m), batch' = batch,
         m.by = s, m.id = 0 \/ m.id = issued + 1, issued' \in {issued, issued + 1}, issued' >= m.id,
         m.kind = "row" => unit'[s].row = m.id,
         m.kind = "gold" => unit'[s].gold = m.id /\ m.pre < m.id,
         m.id # 0 => caller[s] \in {"idle", "gold"},
         UNCHANGED db,
         \A t \in Sessions : /\ t # s => /\ unit'[t] = unit[t] /\ mem'[t] = mem[t]
                                         /\ caller'[t] = caller[t] /\ answer'[t] = answer[t]
                             /\ mem'[t].gold \in {mem[t].gold, issued'},
         caller[s] # "idle" => unit'[s].row = unit[s].row,
         caller[s] \notin {"idle", "gold"} => unit'[s].gold = unit[s].gold,
         caller'[s] = "idle" => unit'[s] = unit[s] /\ caller[s] = "idle" /\ answer'[s] = answer[s],
         caller'[s] = "gold" => unit'[s].gold = 0
  PROVE  UInv'
<1>0. IInv /\ issued \in Nat /\ (\A t \in Sessions : mem[t].gold \in Nat /\ db[t].gold \in Nat)
  <2>1. IInv /\ mem \in Players /\ db \in Players /\ issued \in Nat
    BY BoundsAssumption DEF BarrierInv, IInv, TypeOK
  <2>2. \A d \in Players : \A t \in Sessions : d[t].gold \in Nat
    BY BoundsAssumption DEF Players
  <2> QED
    BY <2>1, <2>2
<1>1. Carried' = Carried \cup {m}
  BY <1>0, CarriedMoves
<1>2. \A n \in Carried :
        /\ n.by \in Sessions /\ n.id \in Nat /\ n.id <= issued
        /\ n.by = s /\ caller[s] = "idle" => n.kind \notin {"row", "gold"}
        /\ n.by = s /\ caller[s] = "gold" => n.kind # "gold"
  BY <1>0, CarriedFacts, IdleCarriesNothing
<1>3. UnitsAreCarried'
  <2> SUFFICES ASSUME NEW n \in Carried'
               PROVE  /\ n.kind = "row" => n.id = unit'[n.by].row
                      /\ n.kind = "gold" => n.id = unit'[n.by].gold
    BY DEF UnitsAreCarried
  <2>1. CASE n = m
    BY <2>1
  <2>2. CASE n \in Carried
    <3>1. /\ n.kind = "row" => n.id = unit[n.by].row
          /\ n.kind = "gold" => n.id = unit[n.by].gold
      BY <2>2 DEF UInv, UnitsAreCarried
    <3>2. CASE n.by # s
      BY <1>2, <2>2, <3>1, <3>2
    <3>3. CASE n.by = s
      BY <1>2, <2>2, <3>1, <3>3
    <3> QED
      BY <3>2, <3>3
  <2> QED
    BY <1>1, <2>1, <2>2
<1>4. GoldIsLast'
  <2> SUFFICES ASSUME NEW g \in Carried', NEW n \in Carried', g.kind = "gold", n.by = g.by
               PROVE  n.id <= g.id
    BY DEF GoldIsLast
  <2>1. CASE g = m
    <3>1. m.id = issued + 1 \/ m.id = 0
      OBVIOUS
    <3>2. m.id # 0
      <4>1. m \in Mutations
        BY <2>1 DEF Msg, Flushes
      <4> QED
        BY <4>1 DEF Mutations, MutationIds
    <3> QED
      BY <1>0, <1>1, <1>2, <2>1, <3>2
  <2>2. CASE g \in Carried /\ n = m
    <3>1. m.id # 0 => FALSE
      BY <1>2, <2>2
    <3> QED
      BY <1>2, <2>2, <3>1
  <2>3. CASE g \in Carried /\ n \in Carried
    BY <2>3 DEF UInv, GoldIsLast
  <2> QED
    BY <1>1, <2>1, <2>2, <2>3
<1>5. PreIsOlder'
  BY <1>1 DEF UInv, PreIsOlder
<1>6. UnitsAreAnswered'
  <2> SUFFICES ASSUME NEW t \in Sessions
               PROVE  /\ caller'[t] = "idle" /\ unit'[t] # NoUnit => answer'[t] # "none"
                      /\ caller'[t] = "gold" => unit'[t].gold = 0
    BY DEF UnitsAreAnswered, NoUnit
  <2>1. /\ caller[t] = "idle" /\ unit[t] # NoUnit => answer[t] # "none"
        /\ caller[t] = "gold" => unit[t].gold = 0
    BY DEF UInv, UnitsAreAnswered
  <2> QED
    BY <2>1
<1>7. GoldsAreIssued'
  <2>1. \A t \in Sessions : mem[t].gold <= issued /\ db[t].gold <= issued
    BY DEF UInv, GoldsAreIssued
  <2>2. issued' \in Nat /\ issued <= issued'
    BY <1>0
  <2> QED
    BY <1>0, <2>1, <2>2 DEF GoldsAreIssued
<1> QED
  BY <1>3, <1>4, <1>5, <1>6, <1>7 DEF UInv

\* What a session does to its units (SessionStep).
LEMMA SessionUnits ==
  ASSUME BarrierInv, UInv, NEW s \in Sessions, SessionStep(s)
  PROVE  UInv'
<1>0. /\ IInv /\ TypeOK /\ issued \in Nat /\ 0 \in 0 .. MaxMutations
      /\ DOMAIN mem = Sessions /\ DOMAIN caller = Sessions /\ DOMAIN unit = Sessions
      /\ DOMAIN answer = Sessions /\ mem \in Players /\ db \in Players
  <2>1. TypeOK /\ IInv
    BY DEF BarrierInv, IInv
  <2> QED
    BY <2>1, BoundsAssumption DEF TypeOK, Players
<1>g. \A t \in Sessions : /\ mem[t].gold \in 0 .. MaxMutations /\ mem[t].gold <= issued
                          /\ db[t].gold <= issued
  BY <1>0 DEF Players, UInv, GoldsAreIssued
<1>m. ASSUME NEW kind \in {"save", "gold", "row"}, NEW pre \in 0 .. MaxMutations,
             issued < MaxMutations
      PROVE  Message(issued + 1, s, kind, pre) \in Msg
  BY <1>0, <1>m, BoundsAssumption DEF Message, Msg, Mutations, MutationIds
<1>1. CASE Save(s)
  <2> DEFINE m == Message(issued + 1, s, "save", 0)
  <2>1. m \in Msg /\ m.by = s /\ m.id = issued + 1 /\ m.kind = "save"
    BY <1>0, <1>1, <1>m, MessageFields DEF Save, Push
  <2>2. /\ queue' = Append(queue, m) /\ issued' = issued + 1 /\ caller[s] = "idle"
        /\ UNCHANGED <<caller, unit, answer, batch, db>>
        /\ mem' = [mem EXCEPT ![s].gold = issued + 1]
    BY <1>1 DEF Save, Push, Serving
  <2>3. \A t \in Sessions : /\ t # s => mem'[t] = mem[t]
                            /\ mem'[t].gold \in {mem[t].gold, issued'}
    BY <1>0, <2>2 DEF Players
  <2>4. caller'[s] = "gold" => FALSE
    BY <2>2
  <2> HIDE DEF m
  <2> QED
    BY <1>0, <2>1, <2>2, <2>3, <2>4, PushUnits
<1>2. CASE PushRow(s)
  <2> DEFINE m == Message(issued + 1, s, "row", 0)
  <2>1. m \in Msg /\ m.by = s /\ m.id = issued + 1 /\ m.kind = "row"
    BY <1>0, <1>2, <1>m, MessageFields DEF PushRow, Push
  <2>2. /\ queue' = Append(queue, m) /\ issued' = issued + 1 /\ caller[s] = "idle"
        /\ UNCHANGED <<mem, batch, db>>
        /\ caller' = [caller EXCEPT ![s] = "gold"] /\ answer' = [answer EXCEPT ![s] = "none"]
        /\ unit' = [unit EXCEPT ![s] = [gold |-> 0, row |-> issued + 1]]
    BY <1>2 DEF PushRow, Push, Serving
  <2>3. \A t \in Sessions : t # s => /\ unit'[t] = unit[t] /\ caller'[t] = caller[t]
                                     /\ answer'[t] = answer[t]
    BY <1>0, <2>2
  <2>4. unit'[s].row = issued + 1 /\ unit'[s].gold = 0 /\ caller'[s] = "gold"
    BY <1>0, <2>2
  <2> HIDE DEF m
  <2> QED
    BY <1>0, <2>1, <2>2, <2>3, <2>4, PushUnits
<1>3. CASE PushGold(s)
  <2> DEFINE m == Message(issued + 1, s, "gold", mem[s].gold)
  <2>1. m \in Msg /\ m.by = s /\ m.id = issued + 1 /\ m.kind = "gold" /\ m.pre < m.id
    BY <1>0, <1>3, <1>m, <1>g, MessageFields DEF PushGold, Push
  <2>2. /\ queue' = Append(queue, m) /\ issued' = issued + 1 /\ caller[s] \in {"idle", "gold"}
        /\ UNCHANGED <<mem, batch, db>>
        /\ caller' = [caller EXCEPT ![s] = "flush"] /\ answer' = [answer EXCEPT ![s] = "none"]
        /\ unit' = [unit EXCEPT ![s] = [gold |-> issued + 1,
                                        row  |-> IF Serving(s) THEN 0 ELSE @.row]]
    BY <1>3 DEF PushGold, Push, Serving
  <2>3. \A t \in Sessions : t # s => /\ unit'[t] = unit[t] /\ caller'[t] = caller[t]
                                     /\ answer'[t] = answer[t]
    BY <1>0, <2>2
  <2>4. /\ unit'[s].gold = issued + 1 /\ caller'[s] = "flush"
        /\ caller[s] # "idle" => unit'[s].row = unit[s].row
    BY <1>0, <2>2 DEF Serving
  <2> HIDE DEF m
  <2> QED
    BY <1>0, <2>1, <2>2, <2>3, <2>4, PushUnits
<1>4. CASE SendFlush(s)
  <2> DEFINE m == Message(0, s, "flush", 0)
  <2>1. m \in Msg /\ m.by = s /\ m.id = 0 /\ m.kind = "flush"
    BY DEF Message, Msg, Flushes
  <2>2. /\ queue' = Append(queue, m) /\ caller[s] = "flush"
        /\ UNCHANGED <<mem, unit, answer, batch, db, issued>>
        /\ caller' = [caller EXCEPT ![s] = "wait"]
    BY <1>4 DEF SendFlush
  <2>3. /\ \A t \in Sessions : t # s => caller'[t] = caller[t]
        /\ caller'[s] = "wait"
    BY <1>0, <2>2
  <2> HIDE DEF m
  <2> QED
    BY <1>0, <2>1, <2>2, <2>3, PushUnits
<1>5. CASE Reload(s) \/ DropItem(s)
  <2>1. UNCHANGED <<queue, batch, caller, unit, answer, issued>>
    BY <1>5 DEF Reload, DropItem
  <2>2. Carried' \subseteq Carried
    BY <1>0, <2>1, CarriedMoves
  <2>3. \A t \in Sessions : /\ mem'[t].gold \in {mem[t].gold, db[t].gold}
                            /\ db'[t].gold = db[t].gold
    <3>1. CASE Reload(s)
      BY <1>0, <3>1 DEF Reload
    <3>2. CASE DropItem(s)
      <4>1. PICK i \in mem[s].items :
              /\ mem' = [mem EXCEPT ![s].items = @ \ {i}]
              /\ db' = [db EXCEPT ![s].items = @ \ {i}]
        BY <3>2 DEF DropItem
      <4> QED
        BY <1>0, <4>1 DEF Players
    <3> QED
      BY <1>5, <3>1, <3>2
  <2>4. GoldsAreIssued'
    BY <1>g, <2>1, <2>3 DEF GoldsAreIssued
  <2> QED
    BY <2>1, <2>2, <2>4, UnitsStay
<1> QED
  BY <1>1, <1>2, <1>3, <1>4, <1>5 DEF SessionStep

\* The initial states satisfy the invariant, and every step keeps it.
LEMMA InitUnits == Init => UInv
<1> SUFFICES ASSUME Init PROVE UInv
  OBVIOUS
<1>1. Carried = {}
  BY DEF Init, Carried
<1> QED
  BY <1>1 DEF Init, UInv, UnitsAreCarried, GoldIsLast, PreIsOlder, UnitsAreAnswered, GoldsAreIssued,
           NoUnit, NewPlayers

LEMMA NextUnits == BarrierInv /\ UInv /\ [Next]_vars => UInv'
<1> SUFFICES ASSUME BarrierInv, UInv, [Next]_vars PROVE UInv'
  OBVIOUS
<1>1. CASE UNCHANGED vars
  <2>1. UNCHANGED <<queue, batch, mem, db, caller, unit, answer, issued>>
    BY <1>1 DEF vars
  <2>2. Carried' \subseteq Carried
    BY <2>1 DEF Carried
  <2>3. GoldsAreIssued'
    BY <2>1 DEF UInv, GoldsAreIssued
  <2> QED
    BY <2>1, <2>2, <2>3, UnitsStay
<1> QED
  BY <1>1, WorkerUnits, StartUnits, SessionUnits DEF Next

-----------------------------------------------------------------------------
(* The files that a replay applies again                                   *)

\* A guarded statement in the batch or in a file is the last of its session there.
AllOrderly == Orderly(batch) /\ \A f \in DOMAIN files : Orderly(files[f].muts)
\* Without errors at most one file can be replayed: a torn one, which stops the replay, or the
\* only one there is.
SingleFile == faults = 0 => \/ files = <<>> \/ files[1].torn
                            \/ Len(files) = 1 /\ (phase = "serve" => worker \in {"apply", "remove"})
NotTorn == replaying = "remove" => ~files[1].torn
\* A committed file has nothing left to do.
Redone == faults = 0 /\ files # <<>> /\ ~files[1].torn /\ IdsOf(files[1].muts) \subseteq audit
            => ExecuteAll(db, files[1].muts, {}) = db

RInv == AllOrderly /\ SingleFile /\ NotTorn /\ Redone /\ ReplayKeepsPlayers

\* What is cut from the end of an orderly transaction, and what is added to it.
LEMMA OrderlyPieces ==
  ASSUME NEW muts \in Seq(Mutations), Orderly(muts)
  PROVE  /\ \A n \in 0 .. Len(muts) :
              /\ SubSeq(muts, 1, n) \in Seq(Mutations) /\ Orderly(SubSeq(muts, 1, n))
              /\ IdsOf(SubSeq(muts, 1, n)) \subseteq IdsOf(muts)
         /\ \A m \in Mutations :
              /\ m.kind = "gold" => m.pre < m.id
              /\ \A i \in DOMAIN muts : muts[i].kind = "gold" => muts[i].by # m.by
              => Orderly(Append(muts, m))
<1>0. Len(muts) \in Nat /\ DOMAIN muts = 1 .. Len(muts)
  OBVIOUS
<1>1. ASSUME NEW n \in 0 .. Len(muts)
      PROVE  /\ SubSeq(muts, 1, n) \in Seq(Mutations) /\ Orderly(SubSeq(muts, 1, n))
             /\ IdsOf(SubSeq(muts, 1, n)) \subseteq IdsOf(muts)
  <2> DEFINE sub == SubSeq(muts, 1, n)
  <2>1. sub \in Seq(Mutations)
    BY <1>0
  <2>2. \A i \in DOMAIN sub : i \in DOMAIN muts /\ sub[i] = muts[i]
    BY <1>0
  <2> HIDE DEF sub
  <2>3. Orderly(sub)
    BY <2>2 DEF Orderly
  <2>4. IdsOf(sub) \subseteq IdsOf(muts)
    BY <2>2 DEF IdsOf
  <2> QED
    BY <2>1, <2>3, <2>4 DEF sub
<1>2. ASSUME NEW m \in Mutations, m.kind = "gold" => m.pre < m.id,
             \A i \in DOMAIN muts : muts[i].kind = "gold" => muts[i].by # m.by
      PROVE  Orderly(Append(muts, m))
  <2> DEFINE app == Append(muts, m)
  <2>1. /\ DOMAIN app = 1 .. Len(muts) + 1 /\ app[Len(muts) + 1] = m
        /\ \A i \in 1 .. Len(muts) : app[i] = muts[i]
    OBVIOUS
  <2> HIDE DEF app
  <2>2. \A i \in DOMAIN app : app[i].kind = "gold" => app[i].pre < app[i].id
    BY <1>0, <1>2, <2>1 DEF Orderly
  <2>3. ASSUME NEW i \in DOMAIN app, NEW j \in DOMAIN app, i < j, app[i].kind = "gold"
        PROVE  app[j].by # app[i].by
    <3>1. i \in DOMAIN muts /\ app[i] = muts[i]
      BY <1>0, <2>1, <2>3
    <3>2. CASE j = Len(muts) + 1
      BY <1>2, <2>1, <2>3, <3>1, <3>2
    <3>3. CASE j # Len(muts) + 1
      <4>1. j \in DOMAIN muts /\ app[j] = muts[j]
        BY <1>0, <2>1, <3>3
      <4> QED
        BY <2>3, <3>1, <4>1 DEF Orderly
    <3> QED
      BY <3>2, <3>3
  <2> QED
    BY <2>2, <2>3 DEF Orderly, app
<1> QED
  BY <1>1, <1>2

\* The batch grows by a mutation younger than those it holds (RecvFirst, CollectMutation).
LEMMA BatchStaysOrderly ==
  ASSUME OrderInv, UInv, Orderly(batch), Received, Head(queue).kind # "flush"
  PROVE  Orderly(Append(batch, Head(queue)))
<1> DEFINE h == Head(queue)
<1>0. IInv /\ queue \in Seq(Msg) /\ batch \in Seq(Mutations) /\ queue # <<>>
  BY DEF OrderInv, IInv, TypeOK, Received
<1>1. 1 \in DOMAIN queue /\ h = queue[1] /\ h \in Carried
  BY <1>0 DEF Carried
<1>2. h \in Mutations /\ h.id >= 1 /\ h.id \in Nat
  BY <1>0, <1>1, CarriedFacts
<1>3. h.id \in Waiting
  BY <1>1, <1>2 DEF Waiting, IdsOf
<1>4. h.kind = "gold" => h.pre < h.id
  BY <1>1 DEF UInv, PreIsOlder
<1>5. ASSUME NEW i \in DOMAIN batch, batch[i].kind = "gold", batch[i].by = h.by
      PROVE  FALSE
  <2>1. batch[i] \in Carried
    BY DEF Carried
  <2>2. h.id <= batch[i].id
    BY <1>1, <1>5, <2>1 DEF UInv, GoldIsLast
  <2>3. batch[i].id < h.id
    BY <1>3 DEF OrderInv, QueueInOrder, Older, IdsOf
  <2>4. batch[i].id \in Nat
    BY <1>0, <2>1, CarriedFacts
  <2> QED
    BY <1>2, <2>2, <2>3, <2>4
<1> HIDE DEF h
<1>6. Orderly(Append(batch, h))
  BY <1>0, <1>2, <1>4, <1>5, OrderlyPieces
<1> QED
  BY <1>6 DEF h

\* A file is added or deleted.
LEMMA FilesStayOrderly ==
  ASSUME IInv, AllOrderly,
         \/ files' = files
         \/ \E w \in WalFile : Orderly(w.muts) /\ files' = Append(files, w)
         \/ files # <<>> /\ files' \in {Tail(files), SubSeq(files, 1, Len(files) - 1)}
  PROVE  \A f \in DOMAIN files' : Orderly(files'[f].muts)
<1>0. files \in Seq(WalFile) /\ \A f \in DOMAIN files : Orderly(files[f].muts)
  BY DEF IInv, TypeOK, AllOrderly
<1>1. CASE files' = files
  BY <1>0, <1>1
<1>2. CASE \E w \in WalFile : Orderly(w.muts) /\ files' = Append(files, w)
  <2>1. PICK w \in WalFile : Orderly(w.muts) /\ files' = Append(files, w)
    BY <1>2
  <2>2. /\ DOMAIN files' = DOMAIN files \cup {Len(files) + 1} /\ files'[Len(files) + 1] = w
        /\ \A f \in DOMAIN files : files'[f] = files[f]
    BY <1>0, <2>1, FilesAfter
  <2> QED
    BY <1>0, <2>1, <2>2
<1>3. CASE files # <<>> /\ files' \in {Tail(files), SubSeq(files, 1, Len(files) - 1)}
  <2>1. /\ \A f \in DOMAIN SubSeq(files, 1, Len(files) - 1) :
             f \in DOMAIN files /\ SubSeq(files, 1, Len(files) - 1)[f] = files[f]
        /\ \A f \in DOMAIN Tail(files) : f + 1 \in DOMAIN files /\ Tail(files)[f] = files[f + 1]
    BY <1>0, <1>3, FilesAfter
  <2>2. CASE files' = Tail(files)
    BY <1>0, <2>1, <2>2
  <2>3. CASE files' = SubSeq(files, 1, Len(files) - 1)
    BY <1>0, <2>1, <2>3
  <2> QED
    BY <1>3, <2>2, <2>3
<1> QED
  BY <1>1, <1>2, <1>3

\* What persist_batch leaves of an orderly batch is orderly (Persist, CutShort).
LEMMA WrittenOrderly ==
  ASSUME IInv, AllOrderly
  PROVE  /\ [muts |-> batch, torn |-> FALSE] \in WalFile /\ Orderly(batch)
         /\ CutShort => \/ files' = files
                        \/ \E w \in WalFile : /\ Orderly(w.muts) /\ IdsOf(w.muts) \subseteq IdsOf(batch)
                                              /\ files' = Append(files, w)
<1>0. batch \in Seq(Mutations) /\ Orderly(batch)
  BY DEF IInv, TypeOK, AllOrderly
<1>1. ASSUME CutShort, files' # files
      PROVE  \E w \in WalFile : /\ Orderly(w.muts) /\ IdsOf(w.muts) \subseteq IdsOf(batch)
                                /\ files' = Append(files, w)
  <2>1. PICK n \in 0 .. Len(batch), torn \in BOOLEAN :
          files' = Append(files, [muts |-> SubSeq(batch, 1, n), torn |-> torn])
    BY <1>1 DEF CutShort
  <2> DEFINE w == [muts |-> SubSeq(batch, 1, n), torn |-> torn]
  <2>2. SubSeq(batch, 1, n) \in Seq(Mutations) /\ Orderly(SubSeq(batch, 1, n))
        /\ IdsOf(SubSeq(batch, 1, n)) \subseteq IdsOf(batch)
    BY <1>0, OrderlyPieces
  <2>3. w \in WalFile /\ w.muts = SubSeq(batch, 1, n)
    BY <2>2 DEF WalFile
  <2> HIDE DEF w
  <2>4. files' = Append(files, w)
    BY <2>1 DEF w
  <2> QED
    BY <2>2, <2>3, <2>4
<1> QED
  BY <1>0, <1>1 DEF WalFile

\* Every step keeps batch and files orderly.
LEMMA NextOrderly ==
  ASSUME OrderInv, UInv, AllOrderly, [Next]_vars
  PROVE  AllOrderly'
<1>0. IInv /\ batch \in Seq(Mutations) /\ files \in Seq(WalFile) /\ queue \in Seq(Msg) /\ Orderly(batch)
  BY DEF OrderInv, IInv, TypeOK, AllOrderly
<1>1. Orderly(batch')
  <2>1. CASE Received /\ Head(queue).kind # "flush" /\ batch' = Append(batch, Head(queue))
    BY <1>0, <2>1, BatchStaysOrderly
  <2>2. CASE RecvFirst
    <3>1. batch = <<>> /\ Received /\ Head(queue).kind # "flush" /\ batch' = <<Head(queue)>>
      BY <1>0, <2>2 DEF RecvFirst, IInv, BatchIsConsistent
    <3>2. batch' = Append(batch, Head(queue))
      BY <3>1
    <3> QED
      BY <2>1, <3>1, <3>2
  <2>3. CASE batch' = batch
    BY <1>0, <2>3
  <2>4. CASE batch' = <<>>
    BY <2>4 DEF Orderly
  <2>5. \/ Received /\ Head(queue).kind # "flush" /\ batch' = Append(batch, Head(queue))
        \/ RecvFirst \/ batch' \in {batch, <<>>}
    <3>1. CASE WorkerStep
      BY <3>1 DEF WorkerStep, RecvIdleFlush, CollectMutation, CollectFlush, CollectTimeout, Persist,
             PersistFail, ApplyCommit, ApplyFail, Remove, RemoveFail, Finish
    <3>2. CASE ReplayStep \/ Crash
      BY <3>2 DEF ReplayStep, ReplayApply, ReplayRemove, ReplayDone, ReplayTorn, ReplayFail,
             StartServing, Crash
    <3>3. CASE \E s \in Sessions : SessionStep(s)
      BY <3>3 DEF SessionStep, Save, PushRow, PushGold, SendFlush, Reload, DropItem
    <3>4. CASE UNCHANGED vars
      BY <3>4 DEF vars
    <3> QED
      BY <3>1, <3>2, <3>3, <3>4 DEF Next
  <2> QED
    BY <2>1, <2>2, <2>3, <2>4, <2>5
<1>2. \/ files' = files
      \/ \E w \in WalFile : Orderly(w.muts) /\ files' = Append(files, w)
      \/ files # <<>> /\ files' \in {Tail(files), SubSeq(files, 1, Len(files) - 1)}
  <2>1. CASE WorkerStep
    <3>1. CASE Persist
      BY <1>0, <3>1, WrittenOrderly DEF Persist
    <3>2. CASE PersistFail
      BY <1>0, <3>2, WrittenOrderly DEF PersistFail
    <3>3. CASE Remove
      BY <1>0, <3>3 DEF Remove, IInv, FilesAreConsistent
    <3> QED
      BY <2>1, <3>1, <3>2, <3>3 DEF WorkerStep, RecvFirst, RecvIdleFlush, CollectMutation, CollectFlush,
             CollectTimeout, ApplyCommit, ApplyFail, RemoveFail
  <2>2. CASE Crash
    BY <1>0, <2>2, WrittenOrderly DEF Crash
  <2>3. CASE ReplayStep
    BY <2>3 DEF ReplayStep, ReplayApply, ReplayRemove, ReplayDone, ReplayTorn, ReplayFail, StartServing,
           Replaying
  <2>4. CASE \E s \in Sessions : SessionStep(s)
    BY <2>4 DEF SessionStep, Save, PushRow, PushGold, SendFlush, Reload, DropItem
  <2>5. CASE UNCHANGED vars
    BY <2>5 DEF vars
  <2> QED
    BY <2>1, <2>2, <2>3, <2>4, <2>5 DEF Next
<1>3. \A f \in DOMAIN files' : Orderly(files'[f].muts)
  BY <1>0, <1>2, FilesStayOrderly
<1> QED
  BY <1>1, <1>3 DEF AllOrderly

\* The mutations of an unwritten batch are not committed (BatchInOrder).
LEMMA FreshBatch ==
  ASSUME OrderInv
  PROVE  worker \in {"persist", "apply"} => IdsOf(batch) \cap audit = {}
<1> SUFFICES ASSUME worker \in {"persist", "apply"}, NEW x \in audit, x \in IdsOf(batch)
             PROVE  FALSE
  OBVIOUS
<1>1. x \in Nat
  BY IdsAreNumbers DEF OrderInv
<1>2. x < x
  BY DEF OrderInv, BatchInOrder, Older
<1> QED
  BY <1>1, <1>2

\* The worker serves, and the start-up is not about to delete a file.
LEMMA WorkerServes ==
  ASSUME IInv, WorkerStep
  PROVE  phase = "serve" /\ UNCHANGED <<phase, replaying>> /\ replaying # "remove"
<1>1. phase \in {"replay", "serve"}
  BY DEF IInv, TypeOK
<1>2. phase = "serve"
  BY <1>1 DEF WorkerStep, RecvFirst, RecvIdleFlush, CollectMutation, CollectFlush, CollectTimeout,
     TimeoutPassed, Persist, PersistFail, ApplyCommit, ApplyFail, Remove, RemoveFail, Received,
     IInv, BatchIsConsistent
<1>3. UNCHANGED <<phase, replaying>>
  BY DEF WorkerStep, RecvFirst, RecvIdleFlush, CollectMutation, CollectFlush, CollectTimeout,
     Persist, PersistFail, ApplyCommit, ApplyFail, Remove, RemoveFail
<1> QED
  BY <1>2, <1>3 DEF IInv, FilesAreConsistent

\* After an error nothing is promised.
LEMMA FaultsEndIt ==
  ASSUME IInv, Fault, NotTorn'
  PROVE  SingleFile' /\ NotTorn' /\ Redone' /\ ReplayKeepsPlayers'
<1>1. faults' # 0
  BY BoundsAssumption DEF IInv, TypeOK, Fault
<1> QED
  BY <1>1 DEF SingleFile, NotTorn, Redone, ReplayKeepsPlayers

\* A part of the batch, or all of it, goes to a file (Persist, CutShort).
LEMMA WrittenOnce ==
  ASSUME OrderInv, RInv, worker = "persist", UNCHANGED <<pgVars, faults>>, replaying' # "remove",
         NEW w \in WalFile, IdsOf(w.muts) \subseteq IdsOf(batch), files' = Append(files, w),
         phase' = "serve" => worker' \in {"apply", "remove"}
  PROVE  SingleFile' /\ NotTorn' /\ Redone' /\ ReplayKeepsPlayers'
<1>0. IInv /\ files \in Seq(WalFile) /\ w.muts \in Seq(Mutations) /\ db \in Players
  BY DEF OrderInv, IInv, TypeOK, WalFile
<1>1. phase = "serve"
  BY <1>0 DEF IInv, TypeOK, BatchIsConsistent
<1>2. IdsOf(w.muts) \cap audit = {}
  BY FreshBatch
<1>3. /\ files # <<>> => files'[1] = files[1]
      /\ files = <<>> => files'[1] = w /\ Len(files') = 1
  BY <1>0
<1>4. faults = 0 => files = <<>> \/ files[1].torn
  BY <1>1 DEF RInv, SingleFile
<1>5. SingleFile'
  BY <1>3, <1>4 DEF SingleFile
<1>6. Redone'
  <2> SUFFICES ASSUME faults = 0, ~files'[1].torn, IdsOf(files'[1].muts) \subseteq audit
               PROVE  ExecuteAll(db, files'[1].muts, {}) = db
    BY DEF Redone
  <2>1. files'[1] = w
    BY <1>3, <1>4
  <2>2. IdsOf(w.muts) = {}
    BY <1>2, <2>1
  <2> QED
    BY <1>0, <2>1, <2>2, EmptyRun
<1> QED
  BY <1>5, <1>6 DEF NotTorn, RInv, ReplayKeepsPlayers

\* The files and the rows are as they were.
LEMMA FilesUntouched ==
  ASSUME RInv, UNCHANGED <<files, db, audit, ideal, faults>>,
         replaying' # "remove" \/ replaying' = replaying,
         \/ UNCHANGED <<phase, worker>>
         \/ phase' = "serve" => phase = "serve" /\ worker \notin {"apply", "remove"}
  PROVE  SingleFile' /\ NotTorn' /\ Redone' /\ ReplayKeepsPlayers'
BY DEF RInv, SingleFile, NotTorn, Redone, ReplayKeepsPlayers

\* A file is committed as the only one, whole and for the first time or again (Commit).
LEMMA CommitOnce ==
  ASSUME OrderInv, RInv, faults = 0, NEW muts \in Seq(Mutations), Orderly(muts),
         files # <<>> /\ ~files[1].torn => files[1].muts = muts,
         Commit(muts), files' = files,
         \/ IdsOf(muts) \cap audit = {}
         \/ IdsOf(muts) \subseteq audit /\ files # <<>> /\ ~files[1].torn
  PROVE  db' = ideal' /\ Redone'
<1>0. db \in Players /\ ideal \in Players /\ db = ideal
  BY DEF OrderInv, IInv, TypeOK, RInv, ReplayKeepsPlayers
<1>1. db' = ExecuteAll(db, muts, {}) /\ ideal' = ExecuteAll(ideal, muts, audit)
  BY DEF Commit
<1>2. db' = ideal'
  <2>1. CASE IdsOf(muts) \cap audit = {}
    BY <1>0, <1>1, <2>1, Skipping
  <2>2. CASE IdsOf(muts) \subseteq audit /\ files # <<>> /\ ~files[1].torn
    <3>1. ideal' = ideal
      BY <1>0, <1>1, <2>2, Skipping
    <3>2. db' = db
      BY <1>1, <2>2 DEF RInv, Redone
    <3> QED
      BY <1>0, <3>1, <3>2
  <2> QED
    BY <2>1, <2>2
<1>3. ExecuteAll(db', muts, {}) = db'
  BY <1>0, <1>1, RunAgain
<1> QED
  BY <1>2, <1>3 DEF Redone

\* The worker writes a batch, commits it and deletes its file (WorkerStep).
LEMMA WorkerReplays ==
  ASSUME OrderInv, RInv, WorkerStep
  PROVE  SingleFile' /\ NotTorn' /\ Redone' /\ ReplayKeepsPlayers'
<1>0. /\ IInv /\ batch \in Seq(Mutations) /\ files \in Seq(WalFile) /\ Orderly(batch)
      /\ phase = "serve" /\ UNCHANGED <<phase, replaying>> /\ replaying # "remove"
  <2>1. IInv
    BY DEF OrderInv
  <2> QED
    BY <2>1, WorkerServes DEF IInv, TypeOK, RInv, AllOrderly
<1>1. NotTorn'
  BY <1>0 DEF NotTorn
<1>2. CASE PersistFail \/ ApplyFail \/ RemoveFail
  <2>1. Fault
    BY <1>2 DEF PersistFail, ApplyFail, RemoveFail
  <2> QED
    BY <1>0, <1>1, <2>1, FaultsEndIt
<1>3. CASE RecvFirst \/ RecvIdleFlush \/ CollectMutation \/ CollectFlush \/ CollectTimeout
  <2>1. UNCHANGED <<files, db, audit, ideal, faults>> /\ worker \notin {"apply", "remove"}
    BY <1>3 DEF RecvFirst, RecvIdleFlush, CollectMutation, CollectFlush, CollectTimeout, TimeoutPassed
  <2> QED
    BY <1>0, <2>1, FilesUntouched
<1>4. CASE Persist
  <2> DEFINE w == [muts |-> batch, torn |-> FALSE]
  <2>1. /\ w \in WalFile /\ w.muts = batch
        /\ worker = "persist" /\ files' = Append(files, w) /\ worker' = "apply"
        /\ UNCHANGED <<pgVars, faults>>
    BY <1>0, <1>4 DEF Persist, WalFile
  <2> HIDE DEF w
  <2> QED
    BY <1>0, <2>1, WrittenOnce
<1>5. CASE ApplyCommit
  <2>1. /\ worker = "apply" /\ worker' = "remove" /\ Commit(batch) /\ files' = files
        /\ faults' = faults
    BY <1>5 DEF ApplyCommit
  <2>2. files # <<>> /\ files[Len(files)] = [muts |-> batch, torn |-> FALSE]
    BY <1>0, <2>1 DEF IInv, FilesAreConsistent
  <2>3. faults = 0 => (files[1].torn \/ Len(files) = 1)
    BY <2>2 DEF RInv, SingleFile
  <2>4. SingleFile'
    BY <2>1, <2>2, <2>3 DEF SingleFile
  <2>5. IdsOf(batch) \cap audit = {}
    BY <2>1, FreshBatch
  <2>6. CASE faults = 0
    <3>1. files # <<>> /\ ~files[1].torn => files[1].muts = batch
      BY <2>2, <2>3, <2>6
    <3>2. db' = ideal' /\ Redone'
      BY <1>0, <2>1, <2>5, <2>6, <3>1, CommitOnce
    <3> QED
      BY <1>1, <2>4, <3>2 DEF ReplayKeepsPlayers
  <2>7. CASE faults # 0
    BY <1>1, <2>1, <2>4, <2>7 DEF Redone, ReplayKeepsPlayers
  <2> QED
    BY <2>6, <2>7
<1>6. CASE Remove
  <2>1. /\ worker = "remove" /\ files' = SubSeq(files, 1, Len(files) - 1)
        /\ UNCHANGED <<db, ideal, audit, faults>>
    BY <1>6 DEF Remove
  <2>2. files # <<>> /\ files[Len(files)] = [muts |-> batch, torn |-> FALSE]
    BY <1>0, <2>1 DEF IInv, FilesAreConsistent
  <2>3. faults = 0 => (files[1].torn \/ Len(files) = 1)
    BY <2>2 DEF RInv, SingleFile
  <2>4. /\ Len(files) = 1 => files' = <<>>
        /\ Len(files) # 1 => files'[1] = files[1]
    <3>1. Len(files) \in Nat /\ Len(files) # 0
      BY <1>0, <2>2, EmptySeq
    <3>2. CASE Len(files) = 1
      BY <1>0, <2>1, <3>2
    <3>3. CASE Len(files) # 1
      <4>1. 1 \in 1 .. Len(files) - 1
        <5>1. \A n \in Nat : n # 0 /\ n # 1 => 1 \in 1 .. n - 1
          OBVIOUS
        <5> QED
          BY <3>1, <3>3, <5>1
      <4>2. SubSeq(files, 1, Len(files) - 1)[1] = files[1]
        BY <1>0, <4>1
      <4> QED
        BY <2>1, <3>3, <4>2
    <3> QED
      BY <3>2, <3>3
  <2>5. files[1].torn => Len(files) # 1
    BY <2>2
  <2>6. faults = 0 => files' = <<>> \/ files'[1].torn
    BY <2>3, <2>4, <2>5
  <2>7. SingleFile' /\ Redone'
    BY <2>1, <2>6 DEF SingleFile, Redone
  <2> QED
    BY <1>1, <2>1, <2>7 DEF RInv, ReplayKeepsPlayers
<1> QED
  BY <1>2, <1>3, <1>4, <1>5, <1>6 DEF WorkerStep

\* The process dies, and replays its files when it starts (Crash, ReplayStep).
LEMMA StartReplays ==
  ASSUME OrderInv, RInv, Crash \/ ReplayStep
  PROVE  SingleFile' /\ NotTorn' /\ Redone' /\ ReplayKeepsPlayers'
<1>0. IInv /\ files \in Seq(WalFile) /\ phase \in {"replay", "serve"}
  BY DEF OrderInv, IInv, TypeOK
<1>1. CASE Crash
  <2>1. /\ phase' = "replay" /\ replaying' = "apply" /\ UNCHANGED <<db, audit, ideal, faults>>
        /\ IF worker = "persist" THEN CutShort ELSE files' = files
    BY <1>1 DEF Crash
  <2>2. CASE files' = files
    BY <2>1, <2>2, FilesUntouched
  <2>3. CASE files' # files
    <3>1. worker = "persist" /\ CutShort
      BY <2>1, <2>3
    <3>2. PICK w \in WalFile : IdsOf(w.muts) \subseteq IdsOf(batch) /\ files' = Append(files, w)
      BY <1>0, <2>3, <3>1, WrittenOrderly DEF RInv
    <3> QED
      BY <2>1, <3>1, <3>2, WrittenOnce
  <2> QED
    BY <2>2, <2>3
<1>2. CASE ReplayApply
  <2> DEFINE muts == files[1].muts
  <2>1. /\ phase = "replay" /\ files # <<>> /\ ~Head(files).torn /\ Commit(Head(files).muts)
        /\ UNCHANGED <<phase, worker, files, faults>>
    BY <1>2 DEF ReplayApply, Replaying
  <2>2. /\ Head(files) = files[1] /\ 1 \in DOMAIN files /\ muts \in Seq(Mutations)
        /\ Commit(muts) /\ ~files[1].torn /\ Orderly(muts)
    BY <1>0, <2>1, FilesUnits DEF RInv, AllOrderly
  <2>3. IdsOf(muts) \subseteq audit \/ IdsOf(muts) \cap audit = {}
    BY <2>2 DEF OrderInv, FileIsAtomic
  <2>4. SingleFile' /\ NotTorn'
    BY <2>1, <2>2 DEF SingleFile, NotTorn, RInv
  <2> HIDE DEF muts
  <2>5. CASE faults = 0
    <3>1. files[1].muts = muts
      BY DEF muts
    <3>2. db' = ideal' /\ Redone'
      BY <2>1, <2>2, <2>3, <2>5, <3>1, CommitOnce
    <3> QED
      BY <2>4, <3>2 DEF ReplayKeepsPlayers
  <2>6. CASE faults # 0
    BY <2>1, <2>4, <2>6 DEF Redone, ReplayKeepsPlayers
  <2> QED
    BY <2>5, <2>6
<1>3. CASE ReplayRemove
  <2>1. /\ replaying = "remove" /\ replaying' = "apply" /\ files # <<>> /\ files' = Tail(files)
        /\ UNCHANGED <<db, audit, ideal, faults>>
    BY <1>3 DEF ReplayRemove, Replaying
  <2>2. faults = 0 => Len(files) = 1
    BY <2>1 DEF RInv, NotTorn, SingleFile
  <2>3. faults = 0 => files' = <<>>
    BY <1>0, <2>1, <2>2
  <2>4. SingleFile' /\ Redone'
    BY <2>1, <2>3 DEF SingleFile, Redone
  <2> QED
    BY <2>1, <2>4 DEF RInv, NotTorn, ReplayKeepsPlayers
<1>4. CASE ReplayDone \/ ReplayTorn
  <2>1. /\ replaying' = "apply" /\ UNCHANGED <<db, audit, ideal, faults, files>>
        /\ files = <<>> \/ (files # <<>> /\ Head(files).torn)
    BY <1>4 DEF ReplayDone, ReplayTorn, StartServing, Replaying
  <2>2. files = <<>> \/ files[1].torn
    BY <1>0, <2>1
  <2>3. SingleFile' /\ Redone'
    BY <2>1, <2>2 DEF SingleFile, Redone
  <2> QED
    BY <2>1, <2>3 DEF RInv, NotTorn, ReplayKeepsPlayers
<1>5. CASE ReplayFail
  <2>1. Fault /\ replaying' = "apply"
    BY <1>5 DEF ReplayFail, StartServing
  <2> QED
    BY <1>0, <2>1, FaultsEndIt DEF NotTorn
<1> QED
  BY <1>1, <1>2, <1>3, <1>4, <1>5 DEF ReplayStep

\* A session drops an item past the batcher, which the file being applied does not bring back
\* (DropItem, FlushIsBarrier).
LEMMA SessionReplays ==
  ASSUME OrderInv, BarrierInv, UInv, RInv, NEW s \in Sessions, SessionStep(s)
  PROVE  SingleFile' /\ NotTorn' /\ Redone' /\ ReplayKeepsPlayers'
<1>0. /\ IInv /\ files \in Seq(WalFile) /\ batch \in Seq(Mutations)
      /\ db \in Players /\ db' \in Players
  <2>1. IInv /\ TypeOK'
    BY TypeInductive DEF OrderInv, IInv, Next
  <2> QED
    BY <2>1 DEF IInv, TypeOK
<1>1. UNCHANGED <<files, audit, faults, phase, replaying, worker>>
  BY DEF SessionStep, Save, PushRow, PushGold, SendFlush, Reload, DropItem, Push
<1>2. CASE ~DropItem(s)
  <2>1. UNCHANGED <<db, ideal>>
    BY <1>2 DEF SessionStep, Save, PushRow, PushGold, SendFlush, Reload
  <2> QED
    BY <1>1, <2>1, FilesUntouched
<1>3. CASE DropItem(s)
  <2>1. PICK i : /\ db' = [db EXCEPT ![s].items = @ \ {i}]
                 /\ ideal' = [ideal EXCEPT ![s].items = @ \ {i}]
    BY <1>3 DEF DropItem
  <2>2. phase = "serve" /\ caller[s] = "idle"
    BY <1>3 DEF DropItem, Serving
  <2>3. SingleFile' /\ NotTorn'
    BY <1>1 DEF RInv, SingleFile, NotTorn
  <2>4. ReplayKeepsPlayers'
    BY <1>1, <2>1 DEF RInv, ReplayKeepsPlayers
  <2>5. \A t \in Sessions : db'[t].gold = db[t].gold /\ (t # s => db'[t].items = db[t].items)
    BY <1>0, <2>1 DEF Players
  <2>6. Redone'
    <3> SUFFICES ASSUME faults = 0, files # <<>>, ~files[1].torn, IdsOf(files[1].muts) \subseteq audit
                 PROVE  ExecuteAll(db', files[1].muts, {}) = db'
      BY <1>1 DEF Redone
    <3>1. Len(files) = 1 /\ worker \in {"apply", "remove"}
      BY <2>2 DEF RInv, SingleFile
    <3>2. files[1].muts = batch
      BY <1>0, <3>1 DEF IInv, FilesAreConsistent
    <3>3. ExecuteAll(db, batch, {}) = db
      BY <3>2 DEF RInv, Redone
    <3>4. \A j \in DOMAIN batch : batch[j].kind = "row" => batch[j].by # s
      <4> SUFFICES ASSUME NEW j \in DOMAIN batch PROVE batch[j].kind = "row" => batch[j].by # s
        OBVIOUS
      <4>1. batch[j] \in Carried
        BY DEF Carried
      <4> QED
        BY <2>2, <4>1, IdleCarriesNothing
    <3>5. ExecuteAll(db', batch, {}) = db'
      BY <1>0, <2>5, <3>3, <3>4, DropKeeps
    <3> QED
      BY <3>2, <3>5
  <2> QED
    BY <2>3, <2>4, <2>6
<1> QED
  BY <1>2, <1>3

\* The initial states satisfy the invariant, and every step keeps it.
LEMMA InitReplays == Init => RInv
BY DEF Init, RInv, AllOrderly, Orderly, SingleFile, NotTorn, Redone, ReplayKeepsPlayers

LEMMA NextReplays == OrderInv /\ BarrierInv /\ UInv /\ RInv /\ [Next]_vars => RInv'
<1> SUFFICES ASSUME OrderInv, BarrierInv, UInv, RInv, [Next]_vars PROVE RInv'
  OBVIOUS
<1>1. AllOrderly'
  BY NextOrderly DEF RInv
<1>2. SingleFile' /\ NotTorn' /\ Redone' /\ ReplayKeepsPlayers'
  <2>1. CASE UNCHANGED vars
    <3>1. UNCHANGED <<files, db, audit, ideal, faults, phase, worker, replaying>>
      BY <2>1 DEF vars
    <3> QED
      BY <3>1, FilesUntouched
  <2> QED
    BY <2>1, WorkerReplays, StartReplays, SessionReplays DEF Next
<1> QED
  BY <1>1, <1>2 DEF RInv

\* The rows are what they would be had each committed mutation been applied once, whatever was
\* replayed, as long as no disk or database error happened (WalSink::apply, replay_wal).
THEOREM ReplaysKeepPlayers == Spec => []ReplayKeepsPlayers
<1>1. Init => OrderInv /\ BarrierInv /\ UInv /\ RInv
  BY InitOrder, InitUnits, InitReplays
<1>2. OrderInv /\ BarrierInv /\ UInv /\ RInv /\ [Next]_vars => (OrderInv /\ BarrierInv /\ UInv /\ RInv)'
  BY OrderInductive, BarrierInductive, NextUnits, NextReplays
<1>3. OrderInv /\ BarrierInv /\ UInv /\ RInv => ReplayKeepsPlayers
  BY DEF RInv
<1> QED
  BY <1>1, <1>2, <1>3, PTL DEF Spec

=============================================================================
