---------------------------- MODULE HealthProofs -----------------------------
(***************************************************************************)
(* Proofs about Health for every set of players, limits, costs and         *)
(* damages: its types, that nobody has more than his maximum on either     *)
(* side, that a session whose row is dead has told its client, that the    *)
(* two copies are equal when nothing is on its way between them, and that  *)
(* nobody pays with what his row does not have.                            *)
(***************************************************************************)
EXTENDS Health, TLAPS

-----------------------------------------------------------------------------
(* Queues, bodies and rows                                                 *)

\* What a queue holds, and what is left of it.
LEMMA ElementsOf ==
  ASSUME NEW S, NEW seq \in Seq(S)
  PROVE  /\ seq # <<>> => Head(seq) \in S /\ Tail(seq) \in Seq(S)
         /\ \A e \in S : Append(seq, e) \in Seq(S)
         /\ \A e, f \in S : seq \o <<e, f>> \in Seq(S)
         /\ \A t \in Seq(S) : seq \o t \in Seq(S)
OBVIOUS

\* A value that a session tells the world does not exceed the maximum of its row.
Sound == {r \in Requests : /\ r.kind = "join" => r.row.hp <= MaxHp
                           /\ r.kind = "setHp" => r.to <= MaxHp}

\* The fields that a request of each kind has (Requests).
LEMMA RequestFields ==
  ASSUME NEW r \in Requests
  PROVE  /\ r.by \in Players
         /\ r.kind = "attack" => r.victim \in Players
         /\ r.kind = "join" => r.row \in Row
         /\ r.kind \in {"setHp", "setMp"} => r.to \in Int
BY DEF Requests

\* A body that is within its maximum, which a buff may have raised.
Within(b) == b \in Bodies /\ b.hp <= b.max /\ (b # NoBody => b.max >= MaxHp)

\* The type of a body, by its fields (Bodies).
LEMMA BodyFields ==
  ASSUME NEW b \in Bodies
  PROVE  /\ b.hp \in Int /\ b.mp \in Int /\ b.max \in Nat
         /\ b # NoBody => b.max > 0 /\ b \in [hp : Int, mp : Int, max : Nat \ {0}]
BY DEF Bodies, NoBody

\* A hit leaves a body within its maximum (Hurt).
LEMMA HurtIsWithin ==
  ASSUME NEW b, Within(b), b # NoBody, NEW d \in Nat
  PROVE  Within(Hurt(b, d)) /\ Hurt(b, d) # NoBody
<1>1. b \in [hp : Int, mp : Int, max : Nat \ {0}]
  BY BodyFields DEF Within
<1>2. Least0(b.hp - d) \in Int /\ Least0(b.hp - d) <= b.max
  BY <1>1 DEF Least0, Within
<1>3. Hurt(b, d) = [hp |-> Least0(b.hp - d), mp |-> b.mp, max |-> b.max]
  BY <1>1 DEF Hurt
<1>4. Hurt(b, d) \in Bodies /\ Hurt(b, d) # NoBody
  BY <1>1, <1>2, <1>3 DEF Bodies, NoBody
<1> QED
  BY <1>1, <1>2, <1>3, <1>4 DEF Within

\* So does the payment of a skill (Paid).
LEMMA PaidIsWithin ==
  ASSUME NEW b, Within(b), b # NoBody, NEW c \in Costs
  PROVE  Within(Paid(b, c)) /\ Paid(b, c) # NoBody
<1>1. b \in [hp : Int, mp : Int, max : Nat \ {0}] /\ c.hp \in Nat /\ c.mp \in Nat
  BY BodyFields, CostsAssumption DEF Within
<1>2. /\ Least0(b.hp - c.hp) \in Int /\ Least0(b.hp - c.hp) <= b.max
      /\ Least0(b.mp - c.mp) \in Int
  BY <1>1 DEF Least0, Within
<1>3. Paid(b, c) = [hp |-> Least0(b.hp - c.hp), mp |-> Least0(b.mp - c.mp), max |-> b.max]
  BY DEF Paid
<1>4. Paid(b, c) \in Bodies /\ Paid(b, c) # NoBody
  BY <1>1, <1>2, <1>3 DEF Bodies, NoBody
<1> QED
  BY <1>1, <1>2, <1>3, <1>4 DEF Within

\* So do the beginning and the end of a buff, which never cuts below MaxHp (Raised, Lowered).
LEMMA BuffIsWithin ==
  ASSUME NEW b, Within(b), b # NoBody
  PROVE  /\ Within(Raised(b)) /\ Raised(b) # NoBody
         /\ b.max > MaxHp => Within(Lowered(b))
<1>0. MaxHp \in Nat /\ MaxHp > 0
  BY LimitsAssumption
<1>1. /\ b \in [hp : Int, mp : Int, max : Nat \ {0}]
      /\ b.hp \in Int /\ b.mp \in Int /\ b.max \in Nat /\ b.hp <= b.max /\ b.max >= MaxHp
  BY BodyFields DEF Within
<1>2. Within(Raised(b)) /\ Raised(b) # NoBody
  <2>1. Raised(b) = [hp |-> b.hp + 1, mp |-> b.mp, max |-> b.max + 1]
    BY DEF Raised
  <2>2. Raised(b) \in Bodies /\ Raised(b) # NoBody
    BY <1>1, <2>1 DEF Bodies, NoBody
  <2> QED
    BY <1>0, <1>1, <2>1, <2>2 DEF Within
<1>3. ASSUME b.max > MaxHp PROVE Within(Lowered(b))
  <2>1. Lowered(b) = [hp |-> Lesser(b.hp, b.max - 1), mp |-> b.mp, max |-> b.max - 1]
    BY DEF Lowered
  <2>2. b.max - 1 \in Nat \ {0} /\ b.max - 1 >= MaxHp
    BY <1>0, <1>1, <1>3
  <2>3. Lesser(b.hp, b.max - 1) \in Int /\ Lesser(b.hp, b.max - 1) <= b.max - 1
    BY <1>1, <2>2 DEF Lesser
  <2>4. Lowered(b) \in Bodies
    BY <1>1, <2>1, <2>2, <2>3 DEF Bodies
  <2> QED
    BY <2>1, <2>2, <2>3, <2>4 DEF Within
<1> QED
  BY <1>2, <1>3

\* What the world tells is of the type of the queues, and excuses only grow (Tell).
LEMMA TellType ==
  ASSUME TypeOK, NEW news \in [Players -> Seq(Events)], Tell(news)
  PROVE  /\ events' \in [Players -> Seq(Events)] /\ excuses' \in [Players -> SUBSET Excuses]
         /\ \A p \in Players : excuses[p] \subseteq excuses'[p]
<1>1. ASSUME NEW q \in Players PROVE events[q] \o news[q] \in Seq(Events)
  BY ElementsOf DEF TypeOK
<1>2. "crossed" \in Excuses
  BY DEF Excuses, Drifts
<1> QED
  BY <1>1, <1>2 DEF Tell, TypeOK

\* The two kinds of news are events (Hit, Cost).
LEMMA NewsType ==
  /\ \A d \in Nat : Hit(d) \in Seq(Events)
  /\ \A c \in Costs : Cost(c) \in Seq(Events)
  /\ NoNews \in [Players -> Seq(Events)]
<1>1. \A d \in Nat : [kind |-> "hit", damage |-> d] \in Events
  BY DEF Events, Hits
<1>2. \A c \in Costs : [kind |-> "cost", cost |-> c] \in Events
  BY DEF Events, Payments
<1> QED
  BY <1>1, <1>2 DEF Hit, Cost, NoNews

-----------------------------------------------------------------------------
(* The inductive invariant                                                 *)

\* What a step of either side relies on.
HInv ==
  /\ TypeOK
  /\ intents \in Seq(Sound)
  /\ \A p \in Players : InWorld(p) => body[p].max >= MaxHp
  /\ DeathIsTold

\* The bodies of the world are within their maximum.
LEMMA Bounded ==
  ASSUME HInv
  PROVE  /\ \A p \in Players : Within(body[p])
         /\ body \in [Players -> Bodies]
BY DEF HInv, TypeOK, Within, InWorld

\* A world whose bodies are within their maximum is of the invariant's type.
LEMMA BodiesStay ==
  ASSUME body' \in [Players -> Bodies], \A p \in Players : Within(body'[p])
  PROVE  \A p \in Players : /\ body'[p].hp <= body'[p].max
                            /\ InWorld(p)' => body'[p].max >= MaxHp
BY DEF Within, InWorld

\* Nobody is told or forgotten by a step that changes no row, and no excuse is lost.
LEMMA DeathStaysTold ==
  ASSUME DeathIsTold, UNCHANGED <<up, row, told>>,
         \A p \in Players : excuses[p] \subseteq excuses'[p]
  PROVE  DeathIsTold'
BY DEF DeathIsTold, Dead

\* The head of the world's queue.
LEMMA Taken ==
  ASSUME HInv, NEW kind, Take(kind)
  PROVE  /\ Head(intents) \in Sound /\ Head(intents) \in Requests /\ Head(intents).by \in Players
         /\ Head(intents).kind = kind
         /\ intents' \in Seq(Sound) /\ intents' \in Seq(Requests)
<1>1. Sound \subseteq Requests
  BY DEF Sound
<1>2. Head(intents) \in Sound /\ Tail(intents) \in Seq(Sound)
  BY ElementsOf DEF HInv, Take
<1>3. Tail(intents) \in Seq(Requests)
  BY ElementsOf DEF HInv, TypeOK, Take
<1> QED
  BY <1>1, <1>2, <1>3, RequestFields DEF Take


-----------------------------------------------------------------------------
(* Every step keeps the invariant                                          *)

\* The conjuncts of TypeOK that a step of the world must show; the others do not change.
LEMMA WorldKeeps ==
  ASSUME HInv, UNCHANGED <<up, row, told>>,
         body' \in [Players -> Bodies], \A p \in Players : Within(body'[p]),
         intents' \in Seq(Sound), intents' \in Seq(Requests),
         routed' \in [Players -> BOOLEAN], spent' \in 0 .. MaxEvents,
         events' \in [Players -> Seq(Events)], excuses' \in [Players -> SUBSET Excuses],
         \A p \in Players : excuses[p] \subseteq excuses'[p]
  PROVE  HInv'
<1>1. DeathIsTold'
  BY DeathStaysTold DEF HInv
<1>2. \A p \in Players : body'[p].hp <= body'[p].max /\ (InWorld(p)' => body'[p].max >= MaxHp)
  BY BodiesStay
<1> QED
  BY <1>1, <1>2 DEF HInv, TypeOK

\* An intent of the queue that changes no more than the bodies and the routes.
LEMMA QuietKeeps ==
  ASSUME HInv, NEW kind, Take(kind), Quiet, UNCHANGED <<up, row, told, spent>>,
         body' \in [Players -> Bodies], \A p \in Players : Within(body'[p]),
         routed' \in [Players -> BOOLEAN]
  PROVE  HInv'
<1>1. /\ events' \in [Players -> Seq(Events)] /\ excuses' \in [Players -> SUBSET Excuses]
      /\ \A p \in Players : excuses[p] \subseteq excuses'[p] /\ spent' \in 0 .. MaxEvents
  BY DEF Quiet, HInv, TypeOK
<1>2. intents' \in Seq(Sound) /\ intents' \in Seq(Requests)
  BY Taken
<1>3. /\ events' \in [Players -> Seq(Events)] /\ excuses' \in [Players -> SUBSET Excuses]
      /\ spent' \in 0 .. MaxEvents
  BY DEF Quiet, HInv, TypeOK
<1> QED
  BY <1>1, <1>2, <1>3, WorldKeeps

\* Joining, leaving and the values of sessions (WorldJoin, WorldLeave, WorldSet, WorldRefuse).
LEMMA QuietStep ==
  ASSUME HInv, WorldJoin \/ WorldLeave \/ WorldSet \/ WorldRefuse
  PROVE  HInv'
<1> DEFINE i == Head(intents)
<1>0. MaxHp \in Nat /\ MaxHp > 0 /\ routed \in [Players -> BOOLEAN] /\ up \in [Players -> BOOLEAN]
  BY LimitsAssumption DEF HInv, TypeOK
<1>1. CASE WorldJoin
  <2>1. i \in Sound /\ i \in Requests /\ i.by \in Players /\ i.kind = "join"
    BY <1>1, Taken DEF WorldJoin
  <2> DEFINE b == [hp |-> i.row.hp, mp |-> i.row.mp, max |-> MaxHp]
  <2>2. i.row \in Row /\ i.row.hp <= MaxHp
    BY <2>1, RequestFields DEF Sound
  <2>3. b \in Bodies /\ Within(b)
    BY <2>2, <1>0 DEF Bodies, Within, Row
  <2>4. body' = [body EXCEPT ![i.by] = b]
    BY <1>1 DEF WorldJoin
  <2> HIDE DEF b
  <2>5. body' \in [Players -> Bodies] /\ \A p \in Players : Within(body'[p])
    BY <2>1, <2>3, <2>4, Bounded
  <2>6. routed' \in [Players -> BOOLEAN]
    <3>1. (up[i.by] /\ ~Joins(i.by, intents')) \in BOOLEAN
      OBVIOUS
    <3> QED
      BY <3>1, <1>0, <1>1 DEF WorldJoin
  <2> QED
    BY <1>1, <2>5, <2>6, QuietKeeps DEF WorldJoin
<1>2. CASE WorldLeave
  <2>1. i.by \in Players
    BY <1>2, Taken DEF WorldLeave
  <2>2. NoBody \in Bodies /\ Within(NoBody)
    BY DEF Bodies, Within, NoBody
  <2>3. body' = [body EXCEPT ![i.by] = NoBody]
    BY <1>2 DEF WorldLeave
  <2>4. body' \in [Players -> Bodies] /\ \A p \in Players : Within(body'[p])
    BY <2>1, <2>2, <2>3, Bounded
  <2> QED
    BY <1>0, <1>2, <2>4, QuietKeeps DEF WorldLeave
<1>3. CASE WorldSet
  <2>1. PICK kind \in {"setHp", "setMp"} : Take(kind)
    BY <1>3 DEF WorldSet
  <2>2. i \in Sound /\ i \in Requests /\ i.by \in Players /\ i.kind = kind
    BY <2>1, Taken
  <2>3. i.to \in Int /\ (i.kind = "setHp" => i.to <= MaxHp)
    BY <2>1, <2>2, RequestFields DEF Sound
  <2>4. body' \in [Players -> Bodies] /\ \A p \in Players : Within(body'[p])
    <3>1. CASE ~InWorld(i.by)
      <4>1. body' = body
        BY <1>3, <3>1 DEF WorldSet
      <4> QED
        BY <4>1, Bounded
    <3>2. CASE InWorld(i.by) /\ i.kind = "setHp"
      <4> DEFINE b == [body[i.by] EXCEPT !.hp = i.to]
      <4>1. body' = [body EXCEPT ![i.by] = b]
        BY <1>3, <3>2 DEF WorldSet
      <4>2. Within(body[i.by]) /\ body[i.by] # NoBody
        BY <2>2, <3>2, Bounded DEF InWorld
      <4>3. body[i.by] \in [hp : Int, mp : Int, max : Nat \ {0}] /\ body[i.by].max >= MaxHp
        BY <4>2, BodyFields DEF Within
      <4>4. b \in [hp : Int, mp : Int, max : Nat \ {0}] /\ b.hp = i.to /\ b.max = body[i.by].max
        BY <2>3, <4>3
      <4>5. b.hp <= b.max
        BY <4>3, <4>4, <2>3, <3>2, <1>0
      <4>6. Within(b) /\ b \in Bodies
        BY <4>3, <4>4, <4>5 DEF Within, Bodies
      <4> HIDE DEF b
      <4> QED
        BY <2>2, <4>1, <4>6, Bounded
    <3>3. CASE InWorld(i.by) /\ i.kind # "setHp"
      <4> DEFINE b == [body[i.by] EXCEPT !.mp = i.to]
      <4>1. body' = [body EXCEPT ![i.by] = b]
        BY <1>3, <3>3 DEF WorldSet
      <4>2. Within(body[i.by]) /\ body[i.by] # NoBody
        BY <2>2, <3>3, Bounded DEF InWorld
      <4>3. /\ body[i.by] \in [hp : Int, mp : Int, max : Nat \ {0}]
            /\ body[i.by].max >= MaxHp /\ body[i.by].hp <= body[i.by].max
        BY <4>2, BodyFields DEF Within
      <4>4. /\ b \in [hp : Int, mp : Int, max : Nat \ {0}]
            /\ b.hp = body[i.by].hp /\ b.max = body[i.by].max
        BY <2>3, <4>3
      <4>5. Within(b) /\ b \in Bodies
        BY <4>3, <4>4 DEF Within, Bodies
      <4> HIDE DEF b
      <4> QED
        BY <2>2, <4>1, <4>5, Bounded
    <3> QED
      BY <3>1, <3>2, <3>3
  <2> QED
    BY <1>0, <1>3, <2>1, <2>4, QuietKeeps DEF WorldSet
<1>4. CASE WorldRefuse
  <2>1. PICK kind \in {"attack", "skill"} : Take(kind)
    BY <1>4 DEF WorldRefuse
  <2> QED
    BY <1>0, <1>4, <2>1, Bounded, QuietKeeps DEF WorldRefuse
<1> QED
  BY <1>1, <1>2, <1>3, <1>4

\* An intent of the queue that hurts, pays or raises, and what is told of it.
LEMMA TellingKeeps ==
  ASSUME HInv, NEW kind, Take(kind), UNCHANGED <<routed, up, row, told, spent>>,
         NEW news \in [Players -> Seq(Events)], Tell(news),
         body' \in [Players -> Bodies], \A p \in Players : Within(body'[p])
  PROVE  HInv'
<1>1. /\ events' \in [Players -> Seq(Events)] /\ excuses' \in [Players -> SUBSET Excuses]
      /\ \A p \in Players : excuses[p] \subseteq excuses'[p]
  BY TellType DEF HInv
<1>2. intents' \in Seq(Sound) /\ intents' \in Seq(Requests)
  BY Taken
<1>3. routed' \in [Players -> BOOLEAN] /\ spent' \in 0 .. MaxEvents
  BY DEF HInv, TypeOK
<1> QED
  BY <1>1, <1>2, <1>3, WorldKeeps

\* What a hit takes is a number (Damages).
LEMMA DamageType == Damages \subseteq Nat
BY LimitsAssumption DEF Damages

\* An attack between players (WorldAttack).
LEMMA AttackStep ==
  ASSUME HInv, NEW d \in Damages, WorldAttack(d)
  PROVE  HInv'
<1> DEFINE p == Head(intents).by
           v == Head(intents).victim
           news == [NoNews EXCEPT ![v] = Hit(d)]
<1>1. v \in Players /\ Take("attack") /\ d \in Nat
  BY Taken, RequestFields, DamageType DEF WorldAttack
<1>2. Within(body[v]) /\ body[v] # NoBody
  BY <1>1, Bounded DEF WorldAttack, Attackable, InWorld
<1>3. Within(Hurt(body[v], d)) /\ Hurt(body[v], d) \in Bodies
  BY <1>1, <1>2, HurtIsWithin DEF Within
<1>4. body' = [body EXCEPT ![v] = Hurt(body[v], d)]
  BY DEF WorldAttack
<1>5. body' \in [Players -> Bodies] /\ \A q \in Players : Within(body'[q])
  BY <1>1, <1>3, <1>4, Bounded
<1>6. news \in [Players -> Seq(Events)] /\ Tell(news)
  BY <1>1, NewsType DEF WorldAttack
<1>7. UNCHANGED <<routed, up, row, told, spent>>
  BY DEF WorldAttack
<1> HIDE DEF news
<1> QED
  BY <1>1, <1>5, <1>6, <1>7, TellingKeeps

\* A skill that does no more than cost (WorldSkill).
LEMMA SkillStep ==
  ASSUME HInv, NEW c \in Costs, WorldSkill(c)
  PROVE  HInv'
<1> DEFINE p == Head(intents).by
           news == [NoNews EXCEPT ![p] = Cost(c)]
<1>1. p \in Players /\ Take("skill")
  BY Taken DEF WorldSkill
<1>2. Within(body[p]) /\ body[p] # NoBody
  BY <1>1, Bounded DEF WorldSkill, Affords, InWorld
<1>3. Within(Paid(body[p], c)) /\ Paid(body[p], c) \in Bodies
  BY <1>2, PaidIsWithin DEF Within
<1>4. body' = [body EXCEPT ![p] = Paid(body[p], c)]
  BY DEF WorldSkill
<1>5. body' \in [Players -> Bodies] /\ \A q \in Players : Within(body'[q])
  BY <1>1, <1>3, <1>4, Bounded
<1>6. news \in [Players -> Seq(Events)] /\ Tell(news)
  BY <1>1, NewsType DEF WorldSkill
<1>7. UNCHANGED <<routed, up, row, told, spent>>
  BY DEF WorldSkill
<1> HIDE DEF news
<1> QED
  BY <1>1, <1>5, <1>6, <1>7, TellingKeeps

\* A skill that hits the players around (WorldSplash).
LEMMA SplashStep ==
  ASSUME HInv, NEW c \in Costs, NEW vs \in SUBSET Players, NEW d \in Damages,
         WorldSplash(c, vs, d)
  PROVE  HInv'
<1> DEFINE p == Head(intents).by
           news == [q \in Players |-> IF q = p THEN Cost(c)
                                      ELSE IF q \in vs THEN Hit(d) ELSE <<>>]
<1>1. p \in Players /\ Take("skill") /\ d \in Nat
  BY Taken, DamageType DEF WorldSplash
<1>2. Within(body[p]) /\ body[p] # NoBody
  BY <1>1, Bounded DEF WorldSplash, Affords, InWorld
<1>3. Within(Paid(body[p], c)) /\ Paid(body[p], c) \in Bodies
  BY <1>2, PaidIsWithin DEF Within
<1>4. ASSUME NEW v \in vs PROVE Within(Hurt(body[v], d)) /\ Hurt(body[v], d) \in Bodies
  <2>1. Within(body[v]) /\ body[v] # NoBody
    BY <1>4, Bounded DEF WorldSplash, Attackable, InWorld
  <2> QED
    BY <1>1, <2>1, HurtIsWithin DEF Within
<1>5. body' = [q \in Players |-> IF q = p THEN Paid(body[q], c)
                                 ELSE IF q \in vs THEN Hurt(body[q], d) ELSE body[q]]
  BY DEF WorldSplash
<1>6. body' \in [Players -> Bodies] /\ \A q \in Players : Within(body'[q])
  <2> HIDE DEF p
  <2> QED
    BY <1>1, <1>3, <1>4, <1>5, Bounded
<1>7. news \in [Players -> Seq(Events)] /\ Tell(news)
  BY <1>1, NewsType, ElementsOf DEF WorldSplash, NoNews
<1>8. UNCHANGED <<routed, up, row, told, spent>>
  BY DEF WorldSplash
<1> HIDE DEF news
<1> QED
  BY <1>1, <1>6, <1>7, <1>8, TellingKeeps

\* A skill that raises the maximum (WorldBuff).
LEMMA BuffStep ==
  ASSUME HInv, NEW c \in Costs, NEW ts \in SUBSET Players, WorldBuff(c, ts)
  PROVE  HInv'
<1> DEFINE p == Head(intents).by
           paid == [body EXCEPT ![p] = Paid(body[p], c)]
<1>1. p \in Players /\ Take("skill")
  BY Taken DEF WorldBuff
<1>2. Within(body[p]) /\ body[p] # NoBody
  BY <1>1, Bounded DEF WorldBuff, Affords, InWorld
<1>3. Within(Paid(body[p], c)) /\ Paid(body[p], c) \in Bodies /\ Paid(body[p], c) # NoBody
  BY <1>2, PaidIsWithin DEF Within
<1>4. /\ paid \in [Players -> Bodies] /\ \A q \in Players : Within(paid[q])
      /\ \A q \in Players : body[q] # NoBody => paid[q] # NoBody
  BY <1>1, <1>3, Bounded
<1>5. body' = [q \in Players |-> IF q \in ts THEN Raised(paid[q]) ELSE paid[q]]
  BY DEF WorldBuff
<1>6. \A q \in ts : body[q] # NoBody
  BY DEF WorldBuff, InWorld
<1>7. body' \in [Players -> Bodies] /\ \A q \in Players : Within(body'[q])
  <2> HIDE DEF paid, p
  <2>1. \A q \in ts : Within(Raised(paid[q]))
    BY <1>4, <1>6, BuffIsWithin
  <2>2. \A q \in ts : Raised(paid[q]) \in Bodies
    BY <2>1 DEF Within
  <2> QED
    BY <1>4, <1>5, <2>1, <2>2
<1>8. events' \in [Players -> Seq(Events)]
  <2>1. events[p] \o Cost(c) \in Seq(Events) /\ events \in [Players -> Seq(Events)]
    BY <1>1, ElementsOf, NewsType DEF HInv, TypeOK
  <2> QED
    BY <1>1, <2>1 DEF WorldBuff
<1>9. /\ excuses' \in [Players -> SUBSET Excuses]
      /\ \A q \in Players : excuses[q] \subseteq excuses'[q]
  <2>1. {"buffed", "crossed"} \subseteq Excuses
    BY DEF Excuses, Drifts
  <2>2. excuses \in [Players -> SUBSET Excuses]
    BY DEF HInv, TypeOK
  <2>3. excuses' = [q \in Players |->
                      excuses[q]
                      \cup (IF routed[q] /\ q \in ts THEN {"buffed"} ELSE {})
                      \cup (IF routed[q] /\ q = p /\ Cost(c) # <<>> /\ Setting(q)
                            THEN {"crossed"} ELSE {})]
    BY DEF WorldBuff
  <2> QED
    BY <2>1, <2>2, <2>3
<1>10. UNCHANGED <<up, row, told>> /\ routed' \in [Players -> BOOLEAN] /\ spent' \in 0 .. MaxEvents
  BY DEF WorldBuff, HInv, TypeOK
<1>11. intents' \in Seq(Sound) /\ intents' \in Seq(Requests)
  BY <1>1, Taken
<1> QED
  BY <1>7, <1>8, <1>9, <1>10, <1>11, WorldKeeps

\* The end of a buff, and the hit of a mob (Expire, MobHit).
LEMMA TickStep ==
  ASSUME HInv, NEW p \in Players, Tick(p)
  PROVE  HInv'
<1>0. /\ intents \in Seq(Sound) /\ intents \in Seq(Requests) /\ routed \in [Players -> BOOLEAN]
      /\ spent \in 0 .. MaxEvents /\ MaxEvents \in Nat
      /\ events \in [Players -> Seq(Events)] /\ excuses \in [Players -> SUBSET Excuses]
  BY LimitsAssumption DEF HInv, TypeOK
<1>1. CASE Expire(p)
  <2>1. Within(body[p]) /\ body[p] # NoBody /\ body[p].max > MaxHp
    BY <1>1, Bounded DEF Expire, InWorld
  <2>2. Within(Lowered(body[p])) /\ Lowered(body[p]) \in Bodies
    BY <2>1, BuffIsWithin DEF Within
  <2>3. body' = [body EXCEPT ![p] = Lowered(body[p])]
    BY <1>1 DEF Expire
  <2>4. body' \in [Players -> Bodies] /\ \A q \in Players : Within(body'[q])
    BY <2>2, <2>3, Bounded
  <2>5. UNCHANGED <<intents, routed, up, row, events, told, excuses, spent>>
    BY <1>1 DEF Expire
  <2> QED
    BY <1>0, <2>4, <2>5, WorldKeeps
<1>2. ASSUME NEW d \in Damages, MobHit(p, d) PROVE HInv'
  <2> DEFINE news == [NoNews EXCEPT ![p] = Hit(d)]
  <2>1. Within(body[p]) /\ body[p] # NoBody /\ d \in Nat
    BY <1>2, Bounded, DamageType DEF MobHit, InWorld
  <2>2. Within(Hurt(body[p], d)) /\ Hurt(body[p], d) \in Bodies
    BY <2>1, HurtIsWithin DEF Within
  <2>3. body' = [body EXCEPT ![p] = Hurt(body[p], d)]
    BY <1>2 DEF MobHit
  <2>4. body' \in [Players -> Bodies] /\ \A q \in Players : Within(body'[q])
    BY <2>2, <2>3, Bounded
  <2>5. news \in [Players -> Seq(Events)] /\ Tell(news)
    BY <1>2, <2>1, NewsType DEF MobHit
  <2>6. spent' \in 0 .. MaxEvents /\ UNCHANGED <<intents, routed, up, row, told>>
    BY <1>0, <1>2 DEF MobHit, Spend
  <2> HIDE DEF news
  <2>7. /\ events' \in [Players -> Seq(Events)] /\ excuses' \in [Players -> SUBSET Excuses]
        /\ \A q \in Players : excuses[q] \subseteq excuses'[q]
    BY <2>5, TellType DEF HInv
  <2> QED
    BY <1>0, <2>4, <2>6, <2>7, WorldKeeps
<1> QED
  BY <1>1, <1>2 DEF Tick

\* The conjuncts that a step of a session must show: it does not touch the bodies.
LEMMA SessionKeeps ==
  ASSUME HInv, UNCHANGED body, intents' \in Seq(Sound), intents' \in Seq(Requests),
         routed' \in [Players -> BOOLEAN], up' \in [Players -> BOOLEAN],
         row' \in [Players -> Row],
         \A p \in Players : row'[p].hp <= MaxHp /\ row'[p].mp <= MaxMp,
         events' \in [Players -> Seq(Events)], told' \in [Players -> BOOLEAN],
         excuses' \in [Players -> SUBSET Excuses], spent' \in 0 .. MaxEvents,
         DeathIsTold'
  PROVE  HInv'
<1>1. \A p \in Players : body'[p].hp <= body'[p].max /\ (InWorld(p)' => body'[p].max >= MaxHp)
  BY DEF HInv, TypeOK, InWorld
<1> QED
  BY <1>1 DEF HInv, TypeOK

\* The state of the sessions, by its parts.
LEMMA SessionTypes ==
  ASSUME HInv
  PROVE  /\ intents \in Seq(Sound) /\ intents \in Seq(Requests)
         /\ routed \in [Players -> BOOLEAN] /\ up \in [Players -> BOOLEAN]
         /\ row \in [Players -> Row]
         /\ \A p \in Players : row[p].hp <= MaxHp /\ row[p].mp <= MaxMp
         /\ events \in [Players -> Seq(Events)] /\ told \in [Players -> BOOLEAN]
         /\ excuses \in [Players -> SUBSET Excuses] /\ spent \in 0 .. MaxEvents
         /\ (Spend => spent' \in 0 .. MaxEvents)
         /\ DeathIsTold
BY LimitsAssumption DEF HInv, TypeOK, Spend

\* A request in the queue of the world.
LEMMA Requested ==
  ASSUME HInv, NEW r \in Sound, intents' = Append(intents, r)
  PROVE  intents' \in Seq(Sound) /\ intents' \in Seq(Requests)
<1>1. r \in Requests
  BY DEF Sound
<1> QED
  BY <1>1, ElementsOf, SessionTypes

\* Attacks and skills that are asked for change only the queue (AskAttack, AskSkill).
LEMMA AskStep ==
  ASSUME HInv, NEW p \in Players,
         AskSkill(p) \/ \E v \in Players : AskAttack(p, v)
  PROVE  HInv'
<1>1. PICK r \in Sound : intents' = Append(intents, r)
  <2>1. [by |-> p, kind |-> "skill"] \in Sound
    BY DEF Sound, Requests
  <2>2. \A v \in Players : [by |-> p, kind |-> "attack", victim |-> v] \in Sound
    BY DEF Sound, Requests
  <2> QED
    BY <2>1, <2>2 DEF AskSkill, AskAttack
<1>2. intents' \in Seq(Sound) /\ intents' \in Seq(Requests)
  BY <1>1, Requested
<1>3. UNCHANGED <<body, routed, up, row, events, told, excuses>> /\ Spend
  BY DEF AskSkill, AskAttack
<1>4. DeathIsTold'
  BY <1>3, SessionTypes, DeathStaysTold
<1> QED
  BY <1>2, <1>3, <1>4, SessionTypes, SessionKeeps

\* A session begins, with an excuse if its row is dead (Enter).
LEMMA EnterStep ==
  ASSUME HInv, NEW p \in Players, Enter(p)
  PROVE  HInv'
<1> DEFINE r == [by |-> p, kind |-> "join", row |-> row[p]]
           began == IF Dead(p) THEN {"entered"} ELSE {}
<1>1. row[p] \in Row /\ row[p].hp <= MaxHp
  BY SessionTypes
<1>2. r \in Requests
  BY <1>1 DEF Requests
<1>3. r \in Sound
  BY <1>1, <1>2 DEF Sound
<1>4. intents' \in Seq(Sound) /\ intents' \in Seq(Requests)
  BY <1>3, Requested DEF Enter
<1>5. /\ up' = [up EXCEPT ![p] = TRUE] /\ told' = [told EXCEPT ![p] = FALSE]
      /\ excuses' = [excuses EXCEPT ![p] = began]
      /\ UNCHANGED <<body, routed, row, events>> /\ Spend
  BY DEF Enter
<1>6. began \subseteq Excuses /\ (Dead(p) => began \cap {"paid", "entered"} # {})
  BY DEF Excuses, Drifts
<1> HIDE DEF began
<1>7. /\ up' \in [Players -> BOOLEAN] /\ told' \in [Players -> BOOLEAN]
      /\ excuses' \in [Players -> SUBSET Excuses]
  BY <1>5, <1>6, SessionTypes
<1>8. DeathIsTold'
  BY <1>5, <1>6, SessionTypes DEF DeathIsTold, Dead
<1> QED
  BY <1>4, <1>5, <1>7, <1>8, SessionTypes, SessionKeeps

\* A session ends (Disconnect).
LEMMA DisconnectStep ==
  ASSUME HInv, NEW p \in Players, Disconnect(p)
  PROVE  HInv'
<1>1. [by |-> p, kind |-> "leave"] \in Sound
  BY DEF Sound, Requests
<1>2. intents' \in Seq(Sound) /\ intents' \in Seq(Requests)
  BY <1>1, Requested DEF Disconnect
<1>3. /\ up' = [up EXCEPT ![p] = FALSE] /\ routed' = [routed EXCEPT ![p] = FALSE]
      /\ events' = [events EXCEPT ![p] = <<>>]
      /\ UNCHANGED <<body, row, told, excuses, spent>>
  BY DEF Disconnect
<1>4. /\ up' \in [Players -> BOOLEAN] /\ routed' \in [Players -> BOOLEAN]
      /\ events' \in [Players -> Seq(Events)]
  BY <1>3, SessionTypes
<1>5. DeathIsTold'
  BY <1>3, SessionTypes DEF DeathIsTold, Dead
<1> QED
  BY <1>2, <1>3, <1>4, <1>5, SessionTypes, SessionKeeps

\* A row within its limits is stored and told to the world (SetRow).
LEMMA SetRowType ==
  ASSUME HInv, NEW p \in Players, NEW new \in Row, new.hp <= MaxHp, new.mp <= MaxMp,
         NEW ends, SetRow(p, new, ends)
  PROVE  /\ intents' \in Seq(Sound) /\ intents' \in Seq(Requests)
         /\ row' \in [Players -> Row]
         /\ \A q \in Players : row'[q].hp <= MaxHp /\ row'[q].mp <= MaxMp
         /\ excuses' \in [Players -> SUBSET Excuses]
         /\ row' = [row EXCEPT ![p] = new]
         /\ \A q \in Players : q # p => excuses'[q] = excuses[q]
         /\ excuses[p] \ (Drifts \cup ends) \subseteq excuses'[p]
<1> DEFINE a == [by |-> p, kind |-> "setHp", to |-> new.hp]
           b == [by |-> p, kind |-> "setMp", to |-> new.mp]
           x == (excuses[p] \ (Drifts \cup ends))
                \cup (IF events[p] = <<>> THEN {} ELSE {"crossed"})
<1>1. a \in Sound /\ b \in Sound /\ a \in Requests /\ b \in Requests
  BY DEF Sound, Requests, Row
<1>2. intents' = intents \o <<a, b>>
  BY DEF SetRow
<1>3. intents' \in Seq(Sound) /\ intents' \in Seq(Requests)
  <2> HIDE DEF a, b
  <2> QED
    BY <1>1, <1>2, ElementsOf, SessionTypes
<1>4. row' = [row EXCEPT ![p] = new] /\ excuses' = [excuses EXCEPT ![p] = x]
  BY DEF SetRow
<1>5. x \subseteq Excuses
  BY SessionTypes DEF Excuses, Drifts
<1>6. excuses[p] \ (Drifts \cup ends) \subseteq x
  OBVIOUS
<1> HIDE DEF x
<1> QED
  BY <1>3, <1>4, <1>5, <1>6, SessionTypes

\* A potion, which the dead may drink (Potion).
LEMMA PotionStep ==
  ASSUME HInv, NEW p \in Players, Potion(p)
  PROVE  HInv'
<1>0. /\ row[p] \in [hp : Int, mp : Int] /\ row[p].hp \in Int /\ row[p].mp \in Int
      /\ row[p].hp <= MaxHp /\ row[p].mp <= MaxMp
      /\ MaxHp \in Nat /\ MaxMp \in Nat /\ Dose \in Nat
  BY LimitsAssumption, SessionTypes DEF Row
<1>1. PICK new \in Row : /\ SetRow(p, new, {}) /\ new.hp <= MaxHp /\ new.mp <= MaxMp
                         /\ new.hp >= row[p].hp
  <2>1. CASE row[p].hp < MaxHp /\ SetRow(p, [row[p] EXCEPT !.hp = Lesser(@ + Dose, MaxHp)], {})
    <3> DEFINE n == [row[p] EXCEPT !.hp = Lesser(row[p].hp + Dose, MaxHp)]
    <3>1. /\ Lesser(row[p].hp + Dose, MaxHp) \in Int /\ Lesser(row[p].hp + Dose, MaxHp) <= MaxHp
          /\ Lesser(row[p].hp + Dose, MaxHp) >= row[p].hp
      BY <1>0 DEF Lesser
    <3>2. n \in Row /\ n.hp = Lesser(row[p].hp + Dose, MaxHp) /\ n.mp = row[p].mp
      BY <1>0, <3>1 DEF Row
    <3>3. SetRow(p, n, {})
      BY <2>1
    <3> HIDE DEF n
    <3> QED
      BY <1>0, <3>1, <3>2, <3>3
  <2>2. CASE row[p].mp < MaxMp /\ SetRow(p, [row[p] EXCEPT !.mp = Lesser(@ + Dose, MaxMp)], {})
    <3> DEFINE n == [row[p] EXCEPT !.mp = Lesser(row[p].mp + Dose, MaxMp)]
    <3>1. Lesser(row[p].mp + Dose, MaxMp) \in Int /\ Lesser(row[p].mp + Dose, MaxMp) <= MaxMp
      BY <1>0 DEF Lesser
    <3>2. n \in Row /\ n.mp = Lesser(row[p].mp + Dose, MaxMp) /\ n.hp = row[p].hp
      BY <1>0, <3>1 DEF Row
    <3>3. SetRow(p, n, {})
      BY <2>2
    <3> HIDE DEF n
    <3> QED
      BY <1>0, <3>1, <3>2, <3>3
  <2> QED
    BY <2>1, <2>2 DEF Potion
<1>2. /\ intents' \in Seq(Sound) /\ intents' \in Seq(Requests) /\ row' \in [Players -> Row]
      /\ \A q \in Players : row'[q].hp <= MaxHp /\ row'[q].mp <= MaxMp
      /\ excuses' \in [Players -> SUBSET Excuses] /\ row' = [row EXCEPT ![p] = new]
      /\ \A q \in Players : q # p => excuses'[q] = excuses[q]
      /\ excuses[p] \ (Drifts \cup {}) \subseteq excuses'[p]
  BY <1>1, SetRowType
<1>3. UNCHANGED <<body, routed, up, events, told>> /\ Spend
  BY DEF Potion
<1>4. DeathIsTold'
  <2>1. excuses[p] \cap {"paid", "entered"} \subseteq excuses'[p]
    BY <1>2 DEF Drifts
  <2>2. new.hp <= 0 => Dead(p)
    BY <1>0, <1>1 DEF Dead, Row
  <2> SUFFICES ASSUME NEW q \in Players, up[q], row'[q].hp <= 0
               PROVE  told[q] \/ excuses'[q] \cap {"paid", "entered"} # {}
    BY <1>3 DEF DeathIsTold, Dead
  <2>3. CASE q = p
    BY <1>2, <2>1, <2>2, <2>3, SessionTypes DEF DeathIsTold
  <2>4. CASE q # p
    BY <1>2, <2>4, SessionTypes DEF DeathIsTold, Dead
  <2> QED
    BY <2>3, <2>4
<1> QED
  BY <1>2, <1>3, <1>4, SessionTypes, SessionKeeps

\* A revival, and the heal of the party (Revive, HealFull): the row is full.
LEMMA FullStep ==
  ASSUME HInv, NEW p \in Players, Revive(p) \/ HealFull(p)
  PROVE  HInv'
<1>0. Full \in Row /\ Full.hp = MaxHp /\ Full.mp = MaxMp /\ MaxHp \in Nat /\ MaxHp > 0 /\ MaxMp \in Nat
  BY LimitsAssumption DEF Full, Row
<1>1. CASE Revive(p)
  <2>1. SetRow(p, Full, {"paid", "entered"})
    BY <1>1 DEF Revive
  <2>2. /\ intents' \in Seq(Sound) /\ intents' \in Seq(Requests) /\ row' \in [Players -> Row]
        /\ \A q \in Players : row'[q].hp <= MaxHp /\ row'[q].mp <= MaxMp
        /\ excuses' \in [Players -> SUBSET Excuses] /\ row' = [row EXCEPT ![p] = Full]
        /\ \A q \in Players : q # p => excuses'[q] = excuses[q]
    <3>1. Full.hp <= MaxHp /\ Full.mp <= MaxMp
      BY <1>0
    <3> QED
      BY <1>0, <2>1, <3>1, SetRowType
  <2>3. UNCHANGED <<body, routed, up, events>> /\ Spend /\ told' = [told EXCEPT ![p] = FALSE]
    BY <1>1 DEF Revive
  <2>4. told' \in [Players -> BOOLEAN]
    BY <2>3, SessionTypes
  <2>5. DeathIsTold'
    BY <1>0, <2>2, <2>3, SessionTypes DEF DeathIsTold, Dead
  <2> QED
    BY <2>2, <2>3, <2>4, <2>5, SessionTypes, SessionKeeps
<1>2. CASE HealFull(p)
  <2>1. /\ row' = [row EXCEPT ![p] = Full] /\ Spend
        /\ excuses' = [excuses EXCEPT ![p] = @ \cup {"healed"}]
        /\ UNCHANGED <<body, intents, routed, up, events, told>>
    BY <1>2 DEF HealFull
  <2>2. /\ row' \in [Players -> Row]
        /\ \A q \in Players : row'[q].hp <= MaxHp /\ row'[q].mp <= MaxMp
    BY <1>0, <2>1, SessionTypes
  <2>3. excuses' \in [Players -> SUBSET Excuses]
    BY <2>1, SessionTypes DEF Excuses, Drifts
  <2>4. DeathIsTold'
    BY <1>0, <2>1, SessionTypes DEF DeathIsTold, Dead
  <2> QED
    BY <2>1, <2>2, <2>3, <2>4, SessionTypes, SessionKeeps
<1> QED
  BY <1>1, <1>2

\* A session hears of a hit or of a cost (HandleHit, HandleCost).
LEMMA HearStep ==
  ASSUME HInv, NEW p \in Players, Hear(p)
  PROVE  HInv'
<1> DEFINE e == Head(events[p])
<1>0. /\ row[p] \in [hp : Int, mp : Int] /\ row[p].hp \in Int /\ row[p].mp \in Int
      /\ row[p].hp <= MaxHp /\ row[p].mp <= MaxMp /\ MaxHp \in Nat /\ MaxMp \in Nat
  BY LimitsAssumption, SessionTypes DEF Row
<1>1. events[p] # <<>> /\ events' = [events EXCEPT ![p] = Tail(events[p])]
  BY DEF Hear, HandleHit, HandleCost
<1>2. e \in Events /\ events' \in [Players -> Seq(Events)]
  <2>1. e \in Events /\ Tail(events[p]) \in Seq(Events)
    BY <1>1, ElementsOf, SessionTypes
  <2> QED
    BY <1>1, <2>1, SessionTypes
<1>3. CASE HandleHit(p)
  <2> DEFINE hp == row[p].hp - e.damage
             new == [row[p] EXCEPT !.hp = Least0(hp)]
  <2>1. e.damage \in Nat
    BY <1>2, <1>3 DEF HandleHit, Events, Hits, Payments
  <2>2. /\ row' = [row EXCEPT ![p] = new]
        /\ told' = [told EXCEPT ![p] = told[p] \/ hp <= 0]
        /\ UNCHANGED <<body, intents, routed, up, excuses, spent>>
    BY <1>3 DEF HandleHit
  <2>3. hp \in Int /\ Least0(hp) \in Int /\ Least0(hp) <= MaxHp /\ (Least0(hp) <= 0 => hp <= 0)
    BY <1>0, <2>1 DEF Least0
  <2>4. new \in Row /\ new.hp = Least0(hp) /\ new.mp = row[p].mp
    BY <1>0, <2>3 DEF Row
  <2>5. (told[p] \/ hp <= 0) \in BOOLEAN
    OBVIOUS
  <2> HIDE DEF new
  <2>6. /\ row' \in [Players -> Row] /\ told' \in [Players -> BOOLEAN]
        /\ \A q \in Players : row'[q].hp <= MaxHp /\ row'[q].mp <= MaxMp
    BY <1>0, <2>2, <2>3, <2>4, <2>5, SessionTypes
  <2>7. DeathIsTold'
    <3> SUFFICES ASSUME NEW q \in Players, up[q], row'[q].hp <= 0
                 PROVE  told'[q] \/ excuses[q] \cap {"paid", "entered"} # {}
      BY <2>2 DEF DeathIsTold, Dead
    <3>1. CASE q = p
      BY <2>2, <2>3, <2>4, <3>1, SessionTypes
    <3>2. CASE q # p
      BY <2>2, <3>2, SessionTypes DEF DeathIsTold, Dead
    <3> QED
      BY <3>1, <3>2
  <2> QED
    BY <1>2, <2>2, <2>6, <2>7, SessionTypes, SessionKeeps
<1>4. CASE HandleCost(p)
  <2> DEFINE c == e.cost
             new == [hp |-> row[p].hp - c.hp, mp |-> row[p].mp - c.mp]
             x == IF ~Dead(p) /\ row[p].hp - c.hp <= 0 THEN excuses[p] \cup {"paid"} ELSE excuses[p]
  <2>1. c.hp \in Nat /\ c.mp \in Nat
    BY <1>2, <1>4, CostsAssumption DEF HandleCost, Events, Hits, Payments
  <2>2. /\ row' = [row EXCEPT ![p] = new] /\ excuses' = [excuses EXCEPT ![p] = x]
        /\ UNCHANGED <<body, intents, routed, up, told, spent>>
    BY <1>4 DEF HandleCost
  <2>3. new \in Row /\ new.hp <= MaxHp /\ new.mp <= MaxMp /\ new.hp = row[p].hp - c.hp
    BY <1>0, <2>1 DEF Row
  <2>4. x \subseteq Excuses /\ excuses[p] \subseteq x /\ (~Dead(p) /\ new.hp <= 0 => "paid" \in x)
    BY <2>3, SessionTypes DEF Excuses
  <2> HIDE DEF new, x
  <2>5. /\ row' \in [Players -> Row] /\ excuses' \in [Players -> SUBSET Excuses]
        /\ \A q \in Players : row'[q].hp <= MaxHp /\ row'[q].mp <= MaxMp
    BY <2>2, <2>3, <2>4, SessionTypes
  <2>6. DeathIsTold'
    <3> SUFFICES ASSUME NEW q \in Players, up[q], row'[q].hp <= 0
                 PROVE  told[q] \/ excuses'[q] \cap {"paid", "entered"} # {}
      BY <2>2 DEF DeathIsTold, Dead
    <3>1. CASE q = p /\ Dead(p)
      BY <2>2, <2>4, <3>1, SessionTypes DEF DeathIsTold
    <3>2. CASE q = p /\ ~Dead(p)
      BY <2>2, <2>4, <3>2, SessionTypes
    <3>3. CASE q # p
      BY <2>2, <3>3, SessionTypes DEF DeathIsTold, Dead
    <3> QED
      BY <3>1, <3>2, <3>3
  <2> QED
    BY <1>2, <2>2, <2>5, <2>6, SessionTypes, SessionKeeps
<1> QED
  BY <1>3, <1>4 DEF Hear

-----------------------------------------------------------------------------
(* The theorems of the first invariant                                     *)

\* The channel starts with nobody in it and every row within its maximum.
LEMMA InitHolds == Init => HInv
<1> SUFFICES ASSUME Init PROVE HInv
  OBVIOUS
<1>1. /\ body \in [Players -> Bodies] /\ \A p \in Players : body[p] = NoBody
      /\ \A p \in Players : body[p].hp <= body[p].max
  BY DEF Init, Bodies, NoBody
<1>2. intents \in Seq(Sound) /\ intents \in Seq(Requests)
  BY DEF Init
<1>3. /\ row \in [Players -> Row]
      /\ \A p \in Players : row[p].hp <= MaxHp /\ row[p].mp <= MaxMp
  BY SavedAssumption DEF Init, Row
<1>4. /\ events \in [Players -> Seq(Events)] /\ excuses \in [Players -> SUBSET Excuses]
      /\ routed \in [Players -> BOOLEAN] /\ up \in [Players -> BOOLEAN]
      /\ told \in [Players -> BOOLEAN] /\ spent \in 0 .. MaxEvents
  BY LimitsAssumption DEF Init
<1>5. DeathIsTold
  BY DEF Init, DeathIsTold
<1> QED
  BY <1>1, <1>2, <1>3, <1>4, <1>5 DEF HInv, TypeOK, InWorld

\* Every step keeps the invariant, and so does no step.
LEMMA NextKeeps == HInv /\ [Next]_vars => HInv'
<1> SUFFICES ASSUME HInv, [Next]_vars PROVE HInv'
  OBVIOUS
<1>1. CASE World
  <2>1. CASE WorldJoin \/ WorldLeave \/ WorldSet \/ WorldRefuse
    BY <2>1, QuietStep
  <2>2. CASE \E d \in Damages : WorldAttack(d)
    BY <2>2, AttackStep
  <2>3. CASE \E c \in Costs : WorldSkill(c)
    BY <2>3, SkillStep
  <2>4. CASE \E c \in Costs, vs \in SUBSET Players, d \in Damages : WorldSplash(c, vs, d)
    BY <2>4, SplashStep
  <2>5. CASE \E c \in Costs, ts \in SUBSET Players : WorldBuff(c, ts)
    BY <2>5, BuffStep
  <2> QED
    BY <1>1, <2>1, <2>2, <2>3, <2>4, <2>5 DEF World
<1>2. ASSUME NEW p \in Players, Ask(p) PROVE HInv'
  BY <1>2, AskStep, EnterStep, DisconnectStep, PotionStep, FullStep DEF Ask
<1>3. ASSUME NEW p \in Players, Hear(p) \/ Tick(p) PROVE HInv'
  BY <1>3, HearStep, TickStep
<1>4. CASE UNCHANGED vars
  BY <1>4 DEF vars, HInv, TypeOK, DeathIsTold, Dead, InWorld
<1> QED
  BY <1>1, <1>2, <1>3, <1>4 DEF Next

\* The invariant holds in every state: bodies, rows and queues are of their types, the health of
\* neither side exceeds its maximum, and every value on its way to the world is a possible one.
THEOREM HealthIsConsistent == Spec => []HInv
BY InitHolds, NextKeeps, PTL DEF Spec

\* The types of the two copies and of the queues between them (the components Hp and Mp, the row
\* of the session).
THEOREM HealthTypeCorrect == Spec => []TypeOK
<1>1. HInv => TypeOK
  BY DEF HInv
<1> QED
  BY <1>1, HealthIsConsistent, PTL

\* Whatever hits, potions, costs and revivals cross each other: a client whose row is dead has got
\* GC_DEAD, unless it began dead or paid for a skill with the last of its health.
THEOREM DeathIsAlwaysTold == Spec => []DeathIsTold
<1>1. HInv => DeathIsTold
  BY DEF HInv
<1> QED
  BY <1>1, HealthIsConsistent, PTL

-----------------------------------------------------------------------------
(* What is on its way between the two copies                               *)

\* Requests that give the world a new value: of the health ("setHp") or of the mana ("setMp").
Carries(r, p, kind) == r.by = p /\ r.kind \in {kind, "join"}
Value(r, kind) == IF r.kind # "join" THEN r.to
                  ELSE IF kind = "setHp" THEN r.row.hp ELSE r.row.mp

\* When the world has served the queue, its value of p mirrors v, if it is now `now' and no loss
\* comes between: the last request that carries a value carries v.
WillBe(queue, p, kind, now, v) ==
  /\ (\A i \in 1 .. Len(queue) : ~Carries(queue[i], p, kind)) => Mirrors(now, v)
  /\ \A i \in 1 .. Len(queue) :
       /\ Carries(queue[i], p, kind)
       /\ \A j \in 1 .. Len(queue) : j > i => ~Carries(queue[j], p, kind)
       => Value(queue[i], kind) = v

Sets(p, queue) == \E i \in 1 .. Len(queue) :
                    queue[i].by = p /\ queue[i].kind \in {"setHp", "setMp"}

\* Whoever is in the game and has a leave in the queue joins after it.
Rejoins(p, queue) ==
  \A i \in 1 .. Len(queue) : queue[i].by = p /\ queue[i].kind = "leave" =>
    \E j \in 1 .. Len(queue) : j > i /\ queue[j].by = p /\ queue[j].kind = "join"

\* The second queue asks the same of the world as the first, as far as p is concerned.
Alike(p, old, new) ==
  /\ Joins(p, new) <=> Joins(p, old)
  /\ Sets(p, new) <=> Sets(p, old)
  /\ Rejoins(p, old) => Rejoins(p, new)
  /\ \A kind \in {"setHp", "setMp"} : \A now, v \in Int :
       WillBe(old, p, kind, now, v) => WillBe(new, p, kind, now, v)

\* A value mirrors itself, and the mirror of a mirror of a value mirrors it.
LEMMA MirrorsChain ==
  ASSUME NEW u, NEW v, NEW w
  PROVE  /\ Mirrors(v, v)
         /\ Mirrors(u, v) /\ Mirrors(v, w) => Mirrors(u, w)
         /\ Mirrors(Least0(v), v)
<1>1. 0 \in Int /\ ~(0 > 0)
  OBVIOUS
<1> QED
  BY <1>1 DEF Mirrors, Least0

\* A request that is not p's, or gives the world no value of p and ends no session.
Idle(p, r) == r.by # p \/ r.kind \in {"attack", "skill"}

\* The places of a queue without its head.
LEMMA TailPlaces ==
  ASSUME NEW S, NEW queue \in Seq(S), queue # <<>>
  PROVE  /\ Tail(queue) \in Seq(S) /\ Len(queue) \in Nat /\ Len(queue) >= 1
         /\ Len(Tail(queue)) = Len(queue) - 1 /\ Head(queue) = queue[1]
         /\ \A i \in 1 .. Len(Tail(queue)) : /\ i + 1 \in 1 .. Len(queue)
                                             /\ Tail(queue)[i] = queue[i + 1]
         /\ \A i \in 1 .. Len(queue) : i # 1 => /\ i - 1 \in 1 .. Len(Tail(queue))
                                                /\ Tail(queue)[i - 1] = queue[i]
OBVIOUS

\* The places of a queue with one more request.
LEMMA AppendPlaces ==
  ASSUME NEW S, NEW queue \in Seq(S), NEW r \in S
  PROVE  /\ Append(queue, r) \in Seq(S) /\ Len(queue) \in Nat
         /\ Len(Append(queue, r)) = Len(queue) + 1
         /\ Append(queue, r)[Len(queue) + 1] = r
         /\ \A i \in 1 .. Len(queue) : Append(queue, r)[i] = queue[i]
         /\ \A i \in 1 .. Len(queue) + 1 : i = Len(queue) + 1 \/ i \in 1 .. Len(queue)
OBVIOUS

\* What is left of a queue says the same of the last value, after its head is served.
LEMMA WillBeTail ==
  ASSUME NEW queue \in Seq(Requests), queue # <<>>, NEW p, NEW kind, NEW now, NEW v,
         WillBe(queue, p, kind, now, v)
  PROVE  /\ ~Carries(Head(queue), p, kind) => WillBe(Tail(queue), p, kind, now, v)
         /\ Carries(Head(queue), p, kind) =>
              WillBe(Tail(queue), p, kind, Value(Head(queue), kind), v)
<1> DEFINE t == Tail(queue)
           C(r) == Carries(r, p, kind)
<1>0. /\ Len(queue) \in Nat /\ Len(queue) >= 1 /\ Len(t) = Len(queue) - 1
      /\ Head(queue) = queue[1]
      /\ \A i \in 1 .. Len(t) : i + 1 \in 1 .. Len(queue) /\ t[i] = queue[i + 1]
      /\ \A i \in 1 .. Len(queue) : i # 1 => i - 1 \in 1 .. Len(t) /\ t[i - 1] = queue[i]
  BY TailPlaces
<1>w. /\ (\A i \in 1 .. Len(queue) : ~C(queue[i])) => Mirrors(now, v)
      /\ \A i \in 1 .. Len(queue) :
           (C(queue[i]) /\ \A j \in 1 .. Len(queue) : j > i => ~C(queue[j]))
           => Value(queue[i], kind) = v
  BY DEF WillBe
<1> HIDE DEF t, C
<1>1. ASSUME NEW i \in 1 .. Len(t), C(t[i]), \A j \in 1 .. Len(t) : j > i => ~C(t[j])
      PROVE  Value(t[i], kind) = v
  <2>1. i + 1 \in 1 .. Len(queue) /\ t[i] = queue[i + 1]
    BY <1>0
  <2>2. ASSUME NEW j \in 1 .. Len(queue), j > i + 1 PROVE ~C(queue[j])
    <3>1. j - 1 \in 1 .. Len(t) /\ t[j - 1] = queue[j] /\ j - 1 > i
      BY <1>0, <2>2
    <3> QED
      BY <1>1, <3>1
  <2> QED
    BY <1>w, <1>1, <2>1, <2>2
<1>2. ASSUME \A i \in 1 .. Len(t) : ~C(t[i])
      PROVE  /\ ~C(queue[1]) => Mirrors(now, v)
             /\ C(queue[1]) => Value(queue[1], kind) = v
  <2>1. \A j \in 1 .. Len(queue) : j > 1 => ~C(queue[j])
    BY <1>0, <1>2
  <2>2. \A j \in 1 .. Len(queue) : j = 1 \/ j > 1
    BY <1>0
  <2>3. 1 \in 1 .. Len(queue)
    BY <1>0
  <2> QED
    BY <1>w, <2>1, <2>2, <2>3
<1>3. /\ ~C(queue[1]) => WillBe(t, p, kind, now, v)
      /\ C(queue[1]) => WillBe(t, p, kind, Value(queue[1], kind), v)
  <2>1. Mirrors(v, v)
    BY MirrorsChain
  <2> QED
    BY <1>1, <1>2, <2>1 DEF WillBe, C
<1> QED
  BY <1>0, <1>3 DEF t, C

\* As long as a value is on its way, the present one does not matter.
LEMMA WillBeSet ==
  ASSUME NEW queue, NEW p, NEW kind, NEW now, NEW new, NEW v,
         WillBe(queue, p, kind, now, v),
         \/ Mirrors(new, now)
         \/ \E i \in 1 .. Len(queue) : Carries(queue[i], p, kind)
  PROVE  WillBe(queue, p, kind, new, v)
BY MirrorsChain DEF WillBe

\* A request behind the others leaves the last value, or is the last value.
LEMMA WillBeAppend ==
  ASSUME NEW queue \in Seq(Requests), NEW r \in Requests, NEW p, NEW kind, NEW now, NEW v
  PROVE  /\ ~Carries(r, p, kind) /\ WillBe(queue, p, kind, now, v)
              => WillBe(Append(queue, r), p, kind, now, v)
         /\ Carries(r, p, kind) /\ Value(r, kind) = v
              => WillBe(Append(queue, r), p, kind, now, v)
<1> DEFINE t == Append(queue, r)
           C(x) == Carries(x, p, kind)
           n == Len(queue) + 1
<1>0. /\ Len(queue) \in Nat /\ Len(t) = n /\ t[n] = r
      /\ \A i \in 1 .. Len(queue) : t[i] = queue[i]
      /\ \A i \in 1 .. n : i = n \/ i \in 1 .. Len(queue)
      /\ \A i \in 1 .. Len(queue) : i \in 1 .. n /\ n > i
      /\ n \in 1 .. n
  <2>1. Len(queue) \in Nat /\ n \in 1 .. n /\ \A i \in 1 .. Len(queue) : i \in 1 .. n /\ n > i
    OBVIOUS
  <2> QED
    BY <2>1, AppendPlaces
<1> HIDE DEF t, C, n
<1>1. ASSUME ~C(r), WillBe(queue, p, kind, now, v) PROVE WillBe(t, p, kind, now, v)
  <2>1. (\A i \in 1 .. n : ~C(t[i])) => Mirrors(now, v)
    BY <1>0, <1>1 DEF WillBe, C
  <2>2. ASSUME NEW i \in 1 .. n, C(t[i]), \A j \in 1 .. n : j > i => ~C(t[j])
        PROVE  Value(t[i], kind) = v
    <3>1. i \in 1 .. Len(queue) /\ t[i] = queue[i]
      BY <1>0, <1>1, <2>2
    <3>2. \A j \in 1 .. Len(queue) : j > i => ~C(queue[j])
      BY <1>0, <2>2
    <3> QED
      BY <1>1, <2>2, <3>1, <3>2 DEF WillBe, C
  <2> QED
    BY <1>0, <2>1, <2>2 DEF WillBe, C
<1>2. ASSUME C(r), Value(r, kind) = v PROVE WillBe(t, p, kind, now, v)
  <2>1. ASSUME NEW i \in 1 .. n, C(t[i]), \A j \in 1 .. n : j > i => ~C(t[j])
        PROVE  Value(t[i], kind) = v
    BY <1>0, <1>2, <2>1
  <2>2. ~ \A i \in 1 .. n : ~C(t[i])
    BY <1>0, <1>2
  <2> QED
    BY <1>0, <2>1, <2>2 DEF WillBe, C
<1> QED
  BY <1>1, <1>2 DEF t, C

\* What a queue asks for after its head is served: what it asked before, but for the head.
LEMMA TailAsks ==
  ASSUME NEW queue \in Seq(Requests), queue # <<>>, NEW p
  PROVE  /\ Rejoins(p, queue) => Rejoins(p, Tail(queue))
         /\ Joins(p, Tail(queue)) => Joins(p, queue)
         /\ Sets(p, Tail(queue)) => Sets(p, queue)
         /\ (Head(queue).by # p \/ Head(queue).kind # "join") /\ Joins(p, queue)
              => Joins(p, Tail(queue))
         /\ (Head(queue).by # p \/ Head(queue).kind \notin {"setHp", "setMp"}) /\ Sets(p, queue)
              => Sets(p, Tail(queue))
         /\ (Head(queue).by = p /\ Head(queue).kind = "leave") /\ Rejoins(p, queue)
              => Joins(p, Tail(queue))
<1> DEFINE t == Tail(queue)
<1>0. /\ Len(queue) \in Nat /\ Len(queue) >= 1 /\ Len(t) = Len(queue) - 1
      /\ Head(queue) = queue[1]
      /\ \A i \in 1 .. Len(t) : i + 1 \in 1 .. Len(queue) /\ t[i] = queue[i + 1]
      /\ \A i \in 1 .. Len(queue) : i # 1 => i - 1 \in 1 .. Len(t) /\ t[i - 1] = queue[i]
  BY TailPlaces
<1> HIDE DEF t
<1>1. ASSUME Rejoins(p, queue) PROVE Rejoins(p, t)
  <2> SUFFICES ASSUME NEW i \in 1 .. Len(t), t[i].by = p, t[i].kind = "leave"
               PROVE  \E j \in 1 .. Len(t) : j > i /\ t[j].by = p /\ t[j].kind = "join"
    BY DEF Rejoins
  <2>1. i + 1 \in 1 .. Len(queue) /\ t[i] = queue[i + 1]
    BY <1>0
  <2>2. PICK j \in 1 .. Len(queue) : j > i + 1 /\ queue[j].by = p /\ queue[j].kind = "join"
    BY <1>1, <2>1 DEF Rejoins
  <2>3. j - 1 \in 1 .. Len(t) /\ t[j - 1] = queue[j] /\ j - 1 > i
    BY <1>0, <2>2
  <2> QED
    BY <2>2, <2>3
<1>2. (Joins(p, t) => Joins(p, queue)) /\ (Sets(p, t) => Sets(p, queue))
  BY <1>0 DEF Joins, Sets
<1>3. ASSUME Head(queue).by # p \/ Head(queue).kind # "join", Joins(p, queue) PROVE Joins(p, t)
  BY <1>0, <1>3 DEF Joins
<1>4. ASSUME Head(queue).by # p \/ Head(queue).kind \notin {"setHp", "setMp"}, Sets(p, queue)
      PROVE  Sets(p, t)
  BY <1>0, <1>4 DEF Sets
<1>5. ASSUME Head(queue).by = p, Head(queue).kind = "leave", Rejoins(p, queue) PROVE Joins(p, t)
  <2>1. PICK j \in 1 .. Len(queue) : j > 1 /\ queue[j].by = p /\ queue[j].kind = "join"
    BY <1>0, <1>5 DEF Rejoins
  <2>2. j - 1 \in 1 .. Len(t) /\ t[j - 1] = queue[j]
    BY <1>0, <2>1
  <2> QED
    BY <2>1, <2>2 DEF Joins
<1> QED
  BY <1>1, <1>2, <1>3, <1>4, <1>5 DEF t

\* What a queue asks for with one more request.
LEMMA AppendAsks ==
  ASSUME NEW queue \in Seq(Requests), NEW r \in Requests, NEW p
  PROVE  /\ Joins(p, Append(queue, r)) <=> Joins(p, queue) \/ (r.by = p /\ r.kind = "join")
         /\ Sets(p, Append(queue, r))
              <=> Sets(p, queue) \/ (r.by = p /\ r.kind \in {"setHp", "setMp"})
         /\ Rejoins(p, queue) /\ (r.by # p \/ r.kind # "leave") => Rejoins(p, Append(queue, r))
         /\ r.by = p /\ r.kind = "join" => Rejoins(p, Append(queue, r))
<1> DEFINE t == Append(queue, r)
           n == Len(queue) + 1
<1>0. /\ Len(queue) \in Nat /\ Len(t) = n /\ t[n] = r
      /\ \A i \in 1 .. Len(queue) : t[i] = queue[i]
      /\ \A i \in 1 .. n : i = n \/ i \in 1 .. Len(queue)
      /\ \A i \in 1 .. Len(queue) : i \in 1 .. n /\ n > i
      /\ n \in 1 .. n
  <2>1. Len(queue) \in Nat /\ n \in 1 .. n /\ \A i \in 1 .. Len(queue) : i \in 1 .. n /\ n > i
    OBVIOUS
  <2> QED
    BY <2>1, AppendPlaces
<1> HIDE DEF t, n
<1>1. Joins(p, t) <=> Joins(p, queue) \/ (r.by = p /\ r.kind = "join")
  BY <1>0 DEF Joins
<1>2. Sets(p, t) <=> Sets(p, queue) \/ (r.by = p /\ r.kind \in {"setHp", "setMp"})
  BY <1>0 DEF Sets
<1>3. Rejoins(p, queue) /\ (r.by # p \/ r.kind # "leave") => Rejoins(p, t)
  BY <1>0 DEF Rejoins
<1>4. ASSUME r.by = p, r.kind = "join" PROVE Rejoins(p, t)
  <2> SUFFICES ASSUME NEW i \in 1 .. n, t[i].by = p, t[i].kind = "leave"
               PROVE  \E j \in 1 .. n : j > i /\ t[j].by = p /\ t[j].kind = "join"
    BY <1>0 DEF Rejoins
  <2>1. i # n
    BY <1>0, <1>4
  <2> QED
    BY <1>0, <1>4, <2>1
<1> QED
  BY <1>1, <1>2, <1>3, <1>4 DEF t

\* Serving an idle request and sending one leaves a queue as it is to p.
LEMMA IdleAlike ==
  ASSUME NEW queue \in Seq(Requests), NEW p
  PROVE  /\ Alike(p, queue, queue)
         /\ queue # <<>> /\ Idle(p, Head(queue)) => Alike(p, queue, Tail(queue))
         /\ \A r \in Requests : Idle(p, r) => Alike(p, queue, Append(queue, r))
<1>1. ASSUME queue # <<>>, Idle(p, Head(queue)) PROVE Alike(p, queue, Tail(queue))
  <2>1. \A kind \in {"setHp", "setMp"} : ~Carries(Head(queue), p, kind)
    BY <1>1 DEF Carries, Idle
  <2>2. \A kind \in {"setHp", "setMp"} : \A now, v \in Int :
          WillBe(queue, p, kind, now, v) => WillBe(Tail(queue), p, kind, now, v)
    BY <1>1, <2>1, WillBeTail
  <2>3. /\ Head(queue).by # p \/ Head(queue).kind # "join"
        /\ Head(queue).by # p \/ Head(queue).kind \notin {"setHp", "setMp"}
    BY <1>1 DEF Idle
  <2> QED
    BY <1>1, <2>2, <2>3, TailAsks DEF Alike
<1>2. ASSUME NEW r \in Requests, Idle(p, r) PROVE Alike(p, queue, Append(queue, r))
  <2>1. \A kind \in {"setHp", "setMp"} : ~Carries(r, p, kind)
    BY <1>2 DEF Carries, Idle
  <2>2. \A kind \in {"setHp", "setMp"} : \A now, v \in Int :
          WillBe(queue, p, kind, now, v) => WillBe(Append(queue, r), p, kind, now, v)
    BY <2>1, WillBeAppend
  <2>3. /\ ~(r.by = p /\ r.kind = "join") /\ ~(r.by = p /\ r.kind \in {"setHp", "setMp"})
        /\ r.by # p \/ r.kind # "leave"
    BY <1>2 DEF Idle
  <2> QED
    BY <2>2, <2>3, AppendAsks DEF Alike
<1>3. Alike(p, queue, queue)
  BY DEF Alike
<1> QED
  BY <1>1, <1>2, <1>3

-----------------------------------------------------------------------------
(* What a session has yet to hear                                          *)

\* What a row is after its session has heard e (HandleHit, HandleCost), and that it has the cost
\* in the pools that the cost takes from.
After(r, e) == IF e.kind = "hit" THEN [hp |-> Least0(r.hp - e.damage), mp |-> r.mp]
               ELSE [hp |-> r.hp - e.cost.hp, mp |-> r.mp - e.cost.mp]
Payable(r, e) ==
  e.kind = "cost" =>
    /\ e.cost.hp > 0 => r.hp >= e.cost.hp
    /\ e.cost.mp > 0 => r.mp >= e.cost.mp

\* A body that mirrors the health and the mana of a row.
Matches(r, b) == Mirrors(b.hp, r.hp) /\ Mirrors(b.mp, r.mp)

\* c has what e leaves to the body b (Hurt, Paid).
Leaves(b, e, c) ==
  IF e.kind = "hit" THEN c.hp = Least0(b.hp - e.damage) /\ c.mp = b.mp
  ELSE c.hp = Least0(b.hp - e.cost.hp) /\ c.mp = Least0(b.mp - e.cost.mp)

\* The rows that a session goes through, from its present one to that of the world.
TrailOf(t, r, told1, b) ==
  /\ Len(t) = Len(told1) + 1 /\ t[1] = r
  /\ \A k \in 1 .. Len(told1) : Payable(t[k], told1[k]) /\ t[k + 1] = After(t[k], told1[k])
  /\ \A k \in 1 .. Len(t) : t[k].hp <= MaxHp
  /\ Matches(t[Len(t)], b)
Reaches(r, told1, b) == \E t \in Seq(Row) : TrailOf(t, r, told1, b)

\* What a session hears leaves a row a row, within its maximum, and above zero if it could pay.
LEMMA AfterIsRow ==
  ASSUME NEW r \in Row, NEW e \in Events
  PROVE  /\ After(r, e) \in Row
         /\ r.hp <= MaxHp => After(r, e).hp <= MaxHp
         /\ Whole(r) /\ Payable(r, e) => Whole(After(r, e))
<1>0. r.hp \in Int /\ r.mp \in Int /\ MaxHp \in Nat
  BY LimitsAssumption DEF Row
<1>1. CASE e \in Hits
  <2>1. e.kind = "hit" /\ e.damage \in Nat
    BY <1>1 DEF Hits
  <2>2. Least0(r.hp - e.damage) \in Int /\ Least0(r.hp - e.damage) >= 0
        /\ (r.hp <= MaxHp => Least0(r.hp - e.damage) <= MaxHp)
    BY <1>0, <2>1 DEF Least0
  <2>3. After(r, e) = [hp |-> Least0(r.hp - e.damage), mp |-> r.mp]
    BY <2>1 DEF After
  <2> QED
    BY <1>0, <2>2, <2>3 DEF Row, Whole
<1>2. CASE e \in Payments
  <2>1. e.kind = "cost" /\ e.cost.hp \in Nat /\ e.cost.mp \in Nat
    BY <1>2, CostsAssumption DEF Payments
  <2>2. After(r, e) = [hp |-> r.hp - e.cost.hp, mp |-> r.mp - e.cost.mp]
    BY <2>1 DEF After
  <2> QED
    <3>1. After(r, e).hp = r.hp - e.cost.hp /\ After(r, e).mp = r.mp - e.cost.mp
      BY <2>2
    <3>2. After(r, e) \in Row /\ (r.hp <= MaxHp => After(r, e).hp <= MaxHp)
      BY <1>0, <2>1, <2>2, <3>1 DEF Row
    <3>3. ASSUME Whole(r), Payable(r, e) PROVE Whole(After(r, e))
      BY <1>0, <2>1, <3>1, <3>3 DEF Whole, Payable
    <3> QED
      BY <3>2, <3>3
<1> QED
  BY <1>1, <1>2 DEF Events

\* Of one pool: a loss of n, if the body has n or n is zero, leaves the mirror of what it leaves to
\* the row, with a floor there or without.
LEMMA PoolFollows ==
  ASSUME NEW r \in Int, NEW b, NEW n \in Nat, Mirrors(b, r)
  PROVE  /\ Least0(b - n) = Least0(r - n)
         /\ n > 0 /\ b >= n => r >= n
         /\ (n > 0 => b >= n) => Mirrors(Least0(b - n), r - n)
<1>1. CASE b = r
  BY <1>1 DEF Mirrors, Least0
<1>2. CASE b = 0 /\ r <= 0
  BY <1>2 DEF Mirrors, Least0
<1> QED
  BY <1>1, <1>2 DEF Mirrors, Least0

\* A body that mirrors a row goes on mirroring it when both follow the same loss.
LEMMA LossFollows ==
  ASSUME NEW r \in Row, NEW b, NEW e \in Events, NEW c, Matches(r, b), Payable(b, e),
         Leaves(b, e, c)
  PROVE  Payable(r, e) /\ Matches(After(r, e), c)
<1>0. r.hp \in Int /\ r.mp \in Int /\ Mirrors(b.hp, r.hp) /\ Mirrors(b.mp, r.mp)
  BY DEF Row, Matches
<1>1. CASE e \in Hits
  <2>1. e.kind = "hit" /\ e.damage \in Nat
    BY <1>1 DEF Hits
  <2>2. c.hp = Least0(b.hp - e.damage) /\ c.mp = b.mp
    BY <2>1 DEF Leaves
  <2>3. c.hp = Least0(r.hp - e.damage)
    BY <1>0, <2>1, <2>2, PoolFollows
  <2>4. After(r, e) = [hp |-> Least0(r.hp - e.damage), mp |-> r.mp]
    BY <2>1 DEF After
  <2> QED
    BY <1>0, <2>1, <2>2, <2>3, <2>4, MirrorsChain DEF Matches, Payable
<1>2. CASE e \in Payments
  <2>1. e.kind = "cost" /\ e.cost.hp \in Nat /\ e.cost.mp \in Nat
    BY <1>2, CostsAssumption DEF Payments
  <2>2. c.hp = Least0(b.hp - e.cost.hp) /\ c.mp = Least0(b.mp - e.cost.mp)
    BY <2>1 DEF Leaves
  <2>3. (e.cost.hp > 0 => b.hp >= e.cost.hp) /\ (e.cost.mp > 0 => b.mp >= e.cost.mp)
    BY <2>1 DEF Payable
  <2>4. (e.cost.hp > 0 => r.hp >= e.cost.hp) /\ Mirrors(c.hp, r.hp - e.cost.hp)
    BY <1>0, <2>1, <2>2, <2>3, PoolFollows
  <2>5. (e.cost.mp > 0 => r.mp >= e.cost.mp) /\ Mirrors(c.mp, r.mp - e.cost.mp)
    BY <1>0, <2>1, <2>2, <2>3, PoolFollows
  <2>6. After(r, e) = [hp |-> r.hp - e.cost.hp, mp |-> r.mp - e.cost.mp]
    BY <2>1 DEF After
  <2> QED
    <3>1. After(r, e).hp = r.hp - e.cost.hp /\ After(r, e).mp = r.mp - e.cost.mp
      BY <2>6
    <3> QED
      BY <2>1, <2>4, <2>5, <3>1 DEF Matches, Payable
<1> QED
  BY <1>1, <1>2 DEF Events

\* A session that has nothing to hear is where its row is.
LEMMA TrailOne ==
  ASSUME NEW r \in Row, r.hp <= MaxHp, NEW b, Matches(r, b)
  PROVE  Reaches(r, <<>>, b)
<1> DEFINE t == <<r>>
<1>1. t \in Seq(Row) /\ Len(t) = 1 /\ t[1] = r /\ Len(<<>>) = 0
  OBVIOUS
<1>2. \A k \in 1 .. 1 : k = 1
  OBVIOUS
<1>3. 1 .. 0 = {}
  OBVIOUS
<1> HIDE DEF t
<1>4. TrailOf(t, r, <<>>, b)
  <2>1. Len(t) = Len(<<>>) + 1
    BY <1>1
  <2>2. \A k \in 1 .. Len(<<>>) : FALSE
    BY <1>1, <1>3
  <2>3. \A k \in 1 .. Len(t) : t[k].hp <= MaxHp
    BY <1>1, <1>2
  <2>4. Matches(t[Len(t)], b)
    BY <1>1
  <2> QED
    BY <1>1, <2>1, <2>2, <2>3, <2>4 DEF TrailOf
<1> QED
  BY <1>1, <1>4 DEF Reaches

\* With one loss more, a session goes one step further.
LEMMA TrailGrows ==
  ASSUME NEW es \in Seq(Events), NEW e \in Events, NEW r, NEW b, NEW c, Reaches(r, es, b),
         Payable(b, e), Leaves(b, e, c)
  PROVE  Reaches(r, Append(es, e), c)
<1>1. PICK t \in Seq(Row) : TrailOf(t, r, es, b)
  BY DEF Reaches
<1> DEFINE n == Len(es)
           l == t[n + 1]
           u == Append(t, After(l, e))
           fs == Append(es, e)
<1>2. n \in Nat /\ Len(t) = n + 1 /\ t[1] = r /\ l \in Row
  BY <1>1 DEF TrailOf
<1>3. Matches(l, b) /\ l.hp <= MaxHp
  BY <1>1, <1>2 DEF TrailOf
<1>4. Payable(l, e) /\ Matches(After(l, e), c)
  BY <1>2, <1>3, LossFollows
<1>5. After(l, e) \in Row /\ After(l, e).hp <= MaxHp
  BY <1>2, <1>3, AfterIsRow
<1>6. /\ u \in Seq(Row) /\ Len(u) = n + 2 /\ u[n + 2] = After(l, e)
      /\ \A k \in 1 .. n + 1 : u[k] = t[k]
  BY <1>2, <1>5
<1>7. Len(fs) = n + 1 /\ fs[n + 1] = e /\ \A k \in 1 .. n : fs[k] = es[k]
  BY <1>2
<1>8. \A k \in 1 .. n : Payable(t[k], es[k]) /\ t[k + 1] = After(t[k], es[k])
  BY <1>1 DEF TrailOf
<1>9. \A k \in 1 .. n + 1 : t[k].hp <= MaxHp
  BY <1>1, <1>2 DEF TrailOf
<1>10. /\ \A k \in 1 .. n + 1 : k = n + 1 \/ (k \in 1 .. n /\ k + 1 \in 1 .. n + 1 /\ k \in 1 .. n + 1)
       /\ \A k \in 1 .. n + 2 : k = n + 2 \/ k \in 1 .. n + 1
       /\ 1 \in 1 .. n + 1 /\ n + 1 \in 1 .. n + 1 /\ (n + 1) + 1 = n + 2
  BY <1>2
<1>l. l = t[n + 1]
  OBVIOUS
<1> HIDE DEF u, fs, n, l
<1>11. \A k \in 1 .. n + 1 : Payable(u[k], fs[k]) /\ u[k + 1] = After(u[k], fs[k])
  <2> SUFFICES ASSUME NEW k \in 1 .. n + 1
               PROVE  Payable(u[k], fs[k]) /\ u[k + 1] = After(u[k], fs[k])
    OBVIOUS
  <2>1. CASE k = n + 1
    <3>1. u[k] = l /\ fs[k] = e
      BY <2>1, <1>6, <1>7, <1>10, <1>l
    <3>2. k + 1 = n + 2
      BY <2>1, <1>10
    <3>3. u[k + 1] = After(l, e)
      BY <3>2, <1>6
    <3> QED
      BY <3>1, <3>3, <1>4
  <2>2. CASE k \in 1 .. n
    <3>1. k + 1 \in 1 .. n + 1
      BY <2>2, <1>2
    <3>2. u[k] = t[k] /\ u[k + 1] = t[k + 1] /\ fs[k] = es[k]
      BY <2>2, <3>1, <1>6, <1>7
    <3> QED
      BY <2>2, <3>2, <1>8
  <2> QED
    BY <2>1, <2>2, <1>10
<1>12. \A k \in 1 .. n + 2 : u[k].hp <= MaxHp
  BY <1>5, <1>6, <1>9, <1>10
<1>13. Matches(u[n + 2], c)
  BY <1>4, <1>6
<1>14. TrailOf(u, r, fs, c)
  <2>1. Len(u) = Len(fs) + 1 /\ u[1] = r
    BY <1>2, <1>6, <1>7, <1>10
  <2> QED
    BY <2>1, <1>6, <1>7, <1>11, <1>12, <1>13 DEF TrailOf
<1> QED
  BY <1>6, <1>14 DEF Reaches, fs

\* A session that has heard of a loss has gone one step, and could pay it.
LEMMA TrailShrinks ==
  ASSUME NEW es \in Seq(Events), es # <<>>, NEW r, NEW b, Reaches(r, es, b)
  PROVE  Payable(r, Head(es)) /\ Reaches(After(r, Head(es)), Tail(es), b)
<1>1. PICK t \in Seq(Row) : TrailOf(t, r, es, b)
  BY DEF Reaches
<1> DEFINE n == Len(es)
           u == Tail(t)
           fs == Tail(es)
<1>2. /\ n \in Nat /\ n >= 1 /\ Len(t) = n + 1 /\ t[1] = r /\ Head(es) = es[1]
      /\ t # <<>>
  BY <1>1 DEF TrailOf
<1>3. Len(fs) = n - 1 /\ \A k \in 1 .. n - 1 : fs[k] = es[k + 1]
  <2> HIDE DEF fs
  <2>1. Len(fs) = n - 1 /\ \A k \in 1 .. Len(fs) : fs[k] = es[k + 1]
    BY TailPlaces DEF fs
  <2> QED
    BY <2>1
<1>4. u \in Seq(Row) /\ Len(u) = n /\ \A k \in 1 .. n : u[k] = t[k + 1]
  BY <1>2
<1>5. /\ \A k \in 1 .. n : Payable(t[k], es[k]) /\ t[k + 1] = After(t[k], es[k])
      /\ \A k \in 1 .. n + 1 : t[k].hp <= MaxHp
      /\ Matches(t[n + 1], b)
  BY <1>1, <1>2 DEF TrailOf
<1>6. /\ 1 \in 1 .. n /\ n \in 1 .. n /\ 1 + 1 = 2
      /\ \A k \in 1 .. n - 1 : k \in 1 .. n /\ k + 1 \in 1 .. n
      /\ \A k \in 1 .. n : k + 1 \in 1 .. n + 1
      /\ n = (n - 1) + 1
  BY <1>2
<1> HIDE DEF u, fs, n
<1>7. Payable(r, Head(es)) /\ u[1] = After(r, Head(es))
  BY <1>2, <1>4, <1>5, <1>6
<1>8. \A k \in 1 .. n - 1 : Payable(u[k], fs[k]) /\ u[k + 1] = After(u[k], fs[k])
  BY <1>3, <1>4, <1>5, <1>6
<1>9. (\A k \in 1 .. n : u[k].hp <= MaxHp) /\ Matches(u[n], b)
  BY <1>4, <1>5, <1>6
<1>10. TrailOf(u, After(r, Head(es)), fs, b)
  BY <1>3, <1>4, <1>6, <1>7, <1>8, <1>9 DEF TrailOf
<1> QED
  BY <1>4, <1>7, <1>10 DEF Reaches, fs

-----------------------------------------------------------------------------
(* The two copies of a player                                              *)

\* The world serves those who are in the game and have joined, and tells nobody else.
Presence(p) ==
  /\ ~routed[p] => events[p] = <<>>
  /\ ~up[p] => ~routed[p]
  /\ up[p] => /\ Joins(p, intents) => ~routed[p]
              /\ ~Joins(p, intents) => InWorld(p) /\ routed[p]
              /\ Rejoins(p, intents)

Moves(p) == Sets(p, intents) \/ Joins(p, intents)

\* While a value is on its way to the world, no loss is on its way to the session, and the last
\* values that the world gets are those of the row.
OnWay(p) ==
  up[p] /\ Synced(p) /\ Moves(p) =>
    /\ events[p] = <<>>
    /\ WillBe(intents, p, "setHp", body[p].hp, row[p].hp)
    /\ WillBe(intents, p, "setMp", body[p].mp, row[p].mp)

\* Otherwise the session gets from its row to the body by what it has yet to hear.
OnTrail(p) ==
  up[p] /\ Synced(p) /\ ~Moves(p) => Reaches(row[p], events[p], body[p])

Copies(p) == Presence(p) /\ OnWay(p) /\ OnTrail(p)

\* The types of the two copies, from the first invariant.
LEMMA CopyTypes ==
  ASSUME HInv, NEW p \in Players
  PROVE  /\ row[p] \in Row /\ row[p].hp \in Int /\ row[p].mp \in Int /\ row[p].hp <= MaxHp
         /\ body[p] \in Bodies /\ body[p].hp \in Int /\ body[p].mp \in Int
         /\ events[p] \in Seq(Events) /\ intents \in Seq(Requests)
         /\ up[p] \in BOOLEAN /\ routed[p] \in BOOLEAN
<1>1. row[p] \in Row /\ body[p] \in Bodies
  BY DEF HInv, TypeOK
<1>2. row[p].hp \in Int /\ row[p].mp \in Int
  BY <1>1 DEF Row
<1>3. body[p].hp \in Int /\ body[p].mp \in Int
  BY <1>1, BodyFields
<1> QED
  BY <1>1, <1>2, <1>3 DEF HInv, TypeOK

\* A trail ends at a body by its health and its mana.
LEMMA ReachesMatch ==
  ASSUME NEW r, NEW es, NEW b, NEW c, Reaches(r, es, b), Mirrors(c.hp, b.hp), Mirrors(c.mp, b.mp)
  PROVE  Reaches(r, es, c)
<1>1. ASSUME NEW v, Matches(v, b) PROVE Matches(v, c)
  BY <1>1, MirrorsChain DEF Matches
<1> QED
  BY <1>1 DEF Reaches, TrailOf

\* A step that leaves p's queues and row as they are, and at most lifts a body to zero.
LEMMA Lifted ==
  ASSUME HInv, NEW p \in Players, Copies(p), Alike(p, intents, intents'),
         up'[p] = up[p], routed'[p] = routed[p], row'[p] = row[p], events'[p] = events[p],
         InWorld(p) => InWorld(p)', Synced(p)' => Synced(p),
         Mirrors(body'[p].hp, body[p].hp), Mirrors(body'[p].mp, body[p].mp)
  PROVE  Copies(p)'
<1>1. Presence(p)'
  BY DEF Copies, Presence, Alike
<1>2. Moves(p)' <=> Moves(p)
  BY DEF Moves, Alike
<1>3. OnWay(p)'
  <2> SUFFICES ASSUME up'[p], Synced(p)', Moves(p)'
               PROVE  /\ events'[p] = <<>>
                      /\ WillBe(intents', p, "setHp", body'[p].hp, row'[p].hp)
                      /\ WillBe(intents', p, "setMp", body'[p].mp, row'[p].mp)
    BY DEF OnWay
  <2>1. /\ events[p] = <<>>
        /\ WillBe(intents, p, "setHp", body[p].hp, row[p].hp)
        /\ WillBe(intents, p, "setMp", body[p].mp, row[p].mp)
    BY <1>2 DEF Copies, OnWay
  <2>2. /\ WillBe(intents', p, "setHp", body[p].hp, row[p].hp)
        /\ WillBe(intents', p, "setMp", body[p].mp, row[p].mp)
    BY <2>1, CopyTypes DEF Alike
  <2> QED
    BY <2>1, <2>2, WillBeSet
<1>4. OnTrail(p)'
  <2> SUFFICES ASSUME up'[p], Synced(p)', ~Moves(p)'
               PROVE  Reaches(row'[p], events'[p], body'[p])
    BY DEF OnTrail
  <2>1. Reaches(row[p], events[p], body[p])
    BY <1>2 DEF Copies, OnTrail
  <2> QED
    BY <2>1, ReachesMatch
<1> QED
  BY <1>1, <1>3, <1>4 DEF Copies

\* A step that leaves p's two copies and queues as they are.
LEMMA Untouched ==
  ASSUME HInv, NEW p \in Players, Copies(p), Alike(p, intents, intents'),
         up'[p] = up[p], routed'[p] = routed[p], row'[p] = row[p], events'[p] = events[p],
         InWorld(p) => InWorld(p)', Synced(p)' => Synced(p),
         body'[p].hp = body[p].hp, body'[p].mp = body[p].mp
  PROVE  Copies(p)'
<1>1. Mirrors(body'[p].hp, body[p].hp) /\ Mirrors(body'[p].mp, body[p].mp)
  BY MirrorsChain
<1> QED
  BY <1>1, Lifted

\* What the world does to a body whose session it does not know: the row is still to come.
LEMMA Unrouted ==
  ASSUME HInv, NEW p \in Players, Copies(p), Alike(p, intents, intents'), ~routed[p],
         up'[p] = up[p], routed'[p] = routed[p], row'[p] = row[p], events'[p] = events[p],
         Synced(p)' => Synced(p)
  PROVE  Copies(p)'
<1>1. up[p] => Joins(p, intents) /\ Joins(p, intents')
  BY DEF Copies, Presence, Alike
<1>2. Presence(p)'
  BY <1>1 DEF Copies, Presence, Alike
<1>3. OnWay(p)'
  <2> SUFFICES ASSUME up'[p], Synced(p)', Moves(p)'
               PROVE  /\ events'[p] = <<>>
                      /\ WillBe(intents', p, "setHp", body'[p].hp, row'[p].hp)
                      /\ WillBe(intents', p, "setMp", body'[p].mp, row'[p].mp)
    BY DEF OnWay
  <2>1. Moves(p)
    BY <1>1 DEF Moves
  <2>2. /\ events[p] = <<>>
        /\ WillBe(intents, p, "setHp", body[p].hp, row[p].hp)
        /\ WillBe(intents, p, "setMp", body[p].mp, row[p].mp)
    BY <2>1 DEF Copies, OnWay
  <2>3. /\ WillBe(intents', p, "setHp", body[p].hp, row[p].hp)
        /\ WillBe(intents', p, "setMp", body[p].mp, row[p].mp)
    BY <2>2, CopyTypes DEF Alike
  <2>4. /\ \E i \in 1 .. Len(intents') : Carries(intents'[i], p, "setHp")
        /\ \E i \in 1 .. Len(intents') : Carries(intents'[i], p, "setMp")
    BY <1>1 DEF Joins, Carries
  <2> QED
    BY <2>2, <2>3, <2>4, WillBeSet
<1>4. OnTrail(p)'
  BY <1>1 DEF OnTrail, Moves
<1> QED
  BY <1>2, <1>3, <1>4 DEF Copies

\* A step by which the copies part, in a way that the code leaves open.
LEMMA Drifted ==
  ASSUME HInv, NEW p \in Players, Copies(p), Alike(p, intents, intents'), ~Synced(p)',
         up'[p] = up[p], routed'[p] = routed[p], routed[p] \/ events'[p] = events[p],
         InWorld(p) => InWorld(p)'
  PROVE  Copies(p)'
<1>1. Presence(p)'
  BY DEF Copies, Presence, Alike
<1> QED
  BY <1>1 DEF Copies, OnWay, OnTrail

\* A loss of which the session is told.
LEMMA Lost ==
  ASSUME HInv, NEW p \in Players, Copies(p), Alike(p, intents, intents'), routed[p],
         up'[p] = up[p], routed'[p] = routed[p], row'[p] = row[p],
         NEW e \in Events, events'[p] = events[p] \o <<e>>,
         Payable(body[p], e), Leaves(body[p], e, body'[p]), InWorld(p)',
         Synced(p)' => Synced(p), Setting(p) => ~Synced(p)'
  PROVE  Copies(p)'
<1>1. CASE ~Synced(p)'
  BY <1>1, Drifted
<1>2. CASE Synced(p)'
  <2>1. up[p] /\ ~Joins(p, intents) /\ ~Moves(p)
    BY <1>2, CopyTypes DEF Copies, Presence, Moves, Setting, Sets
  <2>2. ~Moves(p)'
    BY <2>1 DEF Moves, Alike
  <2>3. Presence(p)'
    BY <2>1 DEF Copies, Presence, Alike
  <2>4. Reaches(row[p], events[p], body[p])
    BY <1>2, <2>1 DEF Copies, OnTrail
  <2>5. events'[p] = Append(events[p], e)
    BY CopyTypes
  <2>6. Reaches(row'[p], events'[p], body'[p])
    BY <2>4, <2>5, CopyTypes, TrailGrows
  <2> QED
    BY <2>2, <2>3, <2>6 DEF Copies, OnWay, OnTrail
<1> QED
  BY <1>1, <1>2

\* The world tells p the news, if it knows his session; those that meet a value of the session on
\* its way cross it.
Heard(p, news) ==
  /\ Synced(p)' => Synced(p)
  /\ routed[p] /\ news # <<>> /\ Setting(p) => ~Synced(p)'
  /\ routed[p] => events'[p] = events[p] \o news
  /\ ~routed[p] => events'[p] = events[p]

\* What the world tells all players, each of them hears (Tell).
LEMMA TellHeard ==
  ASSUME HInv, NEW p \in Players, NEW news, Tell(news)
  PROVE  Heard(p, news[p])
<1>1. excuses'[p] = IF routed[p] /\ news[p] # <<>> /\ Setting(p) THEN excuses[p] \cup {"crossed"}
                    ELSE excuses[p]
  BY DEF Tell
<1> QED
  BY <1>1 DEF Heard, Tell, Synced, Drifts

\* Nothing is told to p, and nothing is taken from him.
LEMMA ToldNothing ==
  ASSUME HInv, NEW p \in Players, Copies(p), Alike(p, intents, intents'),
         Heard(p, <<>>), UNCHANGED <<up, routed, row>>, InWorld(p) => InWorld(p)',
         Mirrors(body'[p].hp, body[p].hp), Mirrors(body'[p].mp, body[p].mp)
  PROVE  Copies(p)'
<1>1. events'[p] = events[p]
  <2>1. events[p] \o <<>> = events[p]
    BY CopyTypes
  <2> QED
    BY <2>1, CopyTypes DEF Heard
<1> QED
  BY <1>1, Lifted DEF Heard

\* A loss is told to p, if the world knows his session.
LEMMA ToldOf ==
  ASSUME HInv, NEW p \in Players, Copies(p), Alike(p, intents, intents'),
         NEW e \in Events, Heard(p, <<e>>), UNCHANGED <<up, routed, row>>,
         InWorld(p)', Payable(body[p], e), Leaves(body[p], e, body'[p])
  PROVE  Copies(p)'
<1>1. CASE routed[p]
  <2>1. <<e>> # <<>>
    OBVIOUS
  <2>2. Setting(p) => ~Synced(p)'
    BY <1>1, <2>1 DEF Heard
  <2>3. (Synced(p)' => Synced(p)) /\ events'[p] = events[p] \o <<e>>
    BY <1>1 DEF Heard
  <2>4. up'[p] = up[p] /\ routed'[p] = routed[p] /\ row'[p] = row[p]
    OBVIOUS
  <2> QED
    BY <1>1, <2>2, <2>3, <2>4, Lost
<1>2. CASE ~routed[p]
  BY <1>2, Unrouted DEF Heard
<1> QED
  BY <1>1, <1>2

\* A hit (Hurt, Hit).
LEMMA HurtCopies ==
  ASSUME HInv, NEW p \in Players, Copies(p), Alike(p, intents, intents'), NEW d \in Nat,
         Heard(p, Hit(d)), UNCHANGED <<up, routed, row>>,
         InWorld(p), body'[p] = Hurt(body[p], d)
  PROVE  Copies(p)'
<1> DEFINE e == [kind |-> "hit", damage |-> d]
<1>1. e \in Events /\ e.kind = "hit" /\ e.damage = d /\ Hit(d) = <<e>>
  BY DEF Events, Hits, Hit
<1>2. body[p] \in [hp : Int, mp : Int, max : Nat \ {0}] /\ Within(body[p]) /\ body[p] # NoBody
  BY CopyTypes, BodyFields, Bounded DEF InWorld
<1>3. body'[p] # NoBody
  BY <1>2, HurtIsWithin
<1>4. body'[p].hp = Least0(body[p].hp - d) /\ body'[p].mp = body[p].mp
  BY <1>2 DEF Hurt
<1>5. Payable(body[p], e) /\ Leaves(body[p], e, body'[p])
  BY <1>1, <1>4 DEF Payable, Leaves
<1> HIDE DEF e
<1> QED
  BY <1>1, <1>3, <1>5, ToldOf DEF InWorld

\* What somebody who can afford it pays (Affords, Paid), with the floor that the session has not.
LEMMA PaidExactly ==
  ASSUME HInv, NEW p \in Players, NEW c \in Costs, Affords(p, c), body'[p] = Paid(body[p], c)
  PROVE  /\ InWorld(p) /\ InWorld(p)' /\ c.hp \in Nat /\ c.mp \in Nat
         /\ body'[p].hp = Least0(body[p].hp - c.hp) /\ body'[p].mp = Least0(body[p].mp - c.mp)
         /\ c.hp > 0 => body[p].hp >= c.hp
         /\ c.mp > 0 => body[p].mp >= c.mp
<1>1. /\ c.hp \in Nat /\ c.mp \in Nat /\ InWorld(p)
      /\ body[p].hp \in Int /\ body[p].mp \in Int
      /\ c.hp > 0 => c.hp <= body[p].hp
      /\ c.mp > 0 => c.mp <= body[p].mp
  BY CostsAssumption, CopyTypes DEF Affords
<1>2. Within(body[p]) /\ body[p] # NoBody
  BY <1>1, Bounded DEF InWorld
<1>3. body'[p] # NoBody
  BY <1>2, PaidIsWithin
<1>4. body'[p].hp = Least0(body[p].hp - c.hp) /\ body'[p].mp = Least0(body[p].mp - c.mp)
  BY DEF Paid
<1>5. (c.hp > 0 => body[p].hp >= c.hp) /\ (c.mp > 0 => body[p].mp >= c.mp)
  BY <1>1
<1> QED
  BY <1>1, <1>3, <1>4, <1>5 DEF InWorld

\* The payment of a skill.
LEMMA PaidCopies ==
  ASSUME HInv, NEW p \in Players, Copies(p), Alike(p, intents, intents'), NEW c \in Costs,
         Heard(p, Cost(c)), UNCHANGED <<up, routed, row>>,
         Affords(p, c), body'[p] = Paid(body[p], c)
  PROVE  Copies(p)'
<1>1. /\ InWorld(p) /\ InWorld(p)' /\ c.hp \in Nat /\ c.mp \in Nat
      /\ body'[p].hp = Least0(body[p].hp - c.hp) /\ body'[p].mp = Least0(body[p].mp - c.mp)
      /\ c.hp > 0 => body[p].hp >= c.hp
      /\ c.mp > 0 => body[p].mp >= c.mp
  BY PaidExactly
<1>2. CASE Cost(c) = <<>>
  <2>1. c.hp = 0 /\ c.mp = 0
    BY <1>1, <1>2 DEF Cost
  <2>2. Mirrors(body'[p].hp, body[p].hp) /\ Mirrors(body'[p].mp, body[p].mp)
    <3>1. body[p].hp - 0 = body[p].hp /\ body[p].mp - 0 = body[p].mp
      BY CopyTypes
    <3> QED
      BY <1>1, <2>1, <3>1, MirrorsChain
  <2> QED
    BY <1>1, <1>2, <2>2, ToldNothing
<1>3. CASE Cost(c) # <<>>
  <2> DEFINE e == [kind |-> "cost", cost |-> c]
  <2>1. e \in Events /\ e.kind = "cost" /\ e.cost = c /\ Cost(c) = <<e>>
    BY <1>3 DEF Events, Payments, Cost
  <2>2. Payable(body[p], e) /\ Leaves(body[p], e, body'[p])
    BY <1>1, <2>1 DEF Payable, Leaves
  <2> HIDE DEF e
  <2> QED
    BY <1>1, <2>1, <2>2, ToldOf
<1> QED
  BY <1>2, <1>3

-----------------------------------------------------------------------------
(* Every step keeps the two copies                                         *)

CInv == \A p \in Players : Copies(p)

\* A request that is not p's, or moves nothing of his, leaves the queue as it is to him.
LEMMA ServedAlike ==
  ASSUME HInv, NEW kind, Take(kind), NEW p \in Players, Idle(p, Head(intents))
  PROVE  Alike(p, intents, intents')
BY CopyTypes, IdleAlike DEF Take

\* A value served to somebody whose session is not there, or not yet (WorldJoin, WorldLeave).
LEMMA JoinCopies ==
  ASSUME HInv, CInv, NEW p \in Players, WorldJoin
  PROVE  Copies(p)'
<1> DEFINE i == Head(intents)
<1>0. /\ Take("join") /\ i.by \in Players /\ i.kind = "join" /\ i \in Requests /\ i \in Sound
      /\ intents # <<>> /\ intents' = Tail(intents) /\ intents \in Seq(Requests)
  BY Taken, CopyTypes DEF WorldJoin, Take
<1>1. i.row \in Row /\ i.row.hp <= MaxHp
  BY <1>0, RequestFields DEF Sound
<1>2. /\ body' = [body EXCEPT ![i.by] = [hp |-> i.row.hp, mp |-> i.row.mp, max |-> MaxHp]]
      /\ routed' = [routed EXCEPT ![i.by] = up[i.by] /\ ~Joins(i.by, intents')]
      /\ UNCHANGED <<events, excuses, up, row>>
  BY DEF WorldJoin, Quiet
<1>3. body \in [Players -> Bodies] /\ routed \in [Players -> BOOLEAN]
  BY DEF HInv, TypeOK
<1>4. CASE p # i.by
  <2>1. Alike(p, intents, intents')
    BY <1>0, <1>4, ServedAlike DEF Idle
  <2>2. body'[p] = body[p] /\ routed'[p] = routed[p]
    BY <1>2, <1>3, <1>4
  <2> QED
    BY <1>2, <2>1, <2>2, Untouched DEF CInv, InWorld, Synced
<1>5. CASE p = i.by
  <2>1. /\ body'[p] = [hp |-> i.row.hp, mp |-> i.row.mp, max |-> MaxHp]
        /\ routed'[p] = (up[p] /\ ~Joins(p, intents'))
    BY <1>2, <1>3, <1>5
  <2>2. /\ InWorld(p)' /\ body'[p].hp = i.row.hp /\ body'[p].mp = i.row.mp
    BY <2>1, LimitsAssumption DEF InWorld, NoBody
  <2>3. Joins(p, intents) /\ Moves(p)
    <3>1. 1 \in 1 .. Len(intents) /\ intents[1] = Head(intents)
      BY <1>0, TailPlaces
    <3> QED
      BY <3>1, <1>0, <1>5 DEF Joins, Moves
  <2>4. ~routed[p] /\ events[p] = <<>> /\ (up[p] => Rejoins(p, intents))
    BY <2>3, CopyTypes DEF CInv, Copies, Presence
  <2>5. Presence(p)'
    <3>1. up[p] => Rejoins(p, intents')
      BY <1>0, <2>4, TailAsks
    <3> QED
      BY <1>2, <2>1, <2>2, <2>4, <3>1, CopyTypes DEF Presence
  <2>6. ASSUME up'[p], Synced(p)'
        PROVE  /\ events'[p] = <<>>
               /\ WillBe(intents', p, "setHp", body'[p].hp, row'[p].hp)
               /\ WillBe(intents', p, "setMp", body'[p].mp, row'[p].mp)
    <3>1. /\ WillBe(intents, p, "setHp", body[p].hp, row[p].hp)
          /\ WillBe(intents, p, "setMp", body[p].mp, row[p].mp)
      BY <1>2, <2>3, <2>6 DEF CInv, Copies, OnWay, Synced
    <3>2. Carries(i, p, "setHp") /\ Carries(i, p, "setMp")
      BY <1>0, <1>5 DEF Carries
    <3>3. Value(i, "setHp") = i.row.hp /\ Value(i, "setMp") = i.row.mp
      BY <1>0 DEF Value
    <3>4. /\ WillBe(Tail(intents), p, "setHp", i.row.hp, row[p].hp)
          /\ WillBe(Tail(intents), p, "setMp", i.row.mp, row[p].mp)
      BY <1>0, <3>1, <3>2, <3>3, WillBeTail
    <3> QED
      BY <1>0, <1>2, <2>2, <2>4, <3>4
  <2>7. ASSUME up'[p], Synced(p)', ~Moves(p)' PROVE Reaches(row'[p], events'[p], body'[p])
    <3>1. /\ ~ \E j \in 1 .. Len(intents') : Carries(intents'[j], p, "setHp")
          /\ ~ \E j \in 1 .. Len(intents') : Carries(intents'[j], p, "setMp")
      BY <2>7 DEF Moves, Sets, Joins, Carries
    <3>2. Matches(row'[p], body'[p]) /\ events'[p] = <<>>
      BY <2>6, <2>7, <3>1 DEF WillBe, Matches
    <3>3. row'[p] \in Row /\ row'[p].hp <= MaxHp
      BY <1>2, CopyTypes
    <3> QED
      BY <3>2, <3>3, TrailOne
  <2> QED
    BY <2>5, <2>6, <2>7 DEF Copies, OnWay, OnTrail
<1> QED
  BY <1>4, <1>5

\* Whoever is in the game has joined again behind his leave (WorldLeave).
LEMMA LeaveCopies ==
  ASSUME HInv, CInv, NEW p \in Players, WorldLeave
  PROVE  Copies(p)'
<1> DEFINE i == Head(intents)
<1>0. /\ Take("leave") /\ i.by \in Players /\ i.kind = "leave"
      /\ intents # <<>> /\ intents' = Tail(intents) /\ intents \in Seq(Requests)
  BY Taken, CopyTypes DEF WorldLeave, Take
<1>2. /\ body' = [body EXCEPT ![i.by] = NoBody]
      /\ UNCHANGED <<routed, events, excuses, up, row>>
  BY DEF WorldLeave, Quiet
<1>3. body \in [Players -> Bodies]
  BY DEF HInv, TypeOK
<1>4. CASE p # i.by
  <2>1. Alike(p, intents, intents')
    BY <1>0, <1>4, ServedAlike DEF Idle
  <2>2. body'[p] = body[p]
    BY <1>2, <1>3, <1>4
  <2> QED
    BY <1>2, <2>1, <2>2, Untouched DEF CInv, InWorld, Synced
<1>5. CASE p = i.by /\ ~up[p]
  BY <1>2, <1>5 DEF CInv, Copies, Presence, OnWay, OnTrail
<1>6. CASE p = i.by /\ up[p]
  <2>1. Rejoins(p, intents)
    BY <1>6 DEF CInv, Copies, Presence
  <2>2. Rejoins(p, intents') /\ Joins(p, intents') /\ Joins(p, intents)
    BY <1>0, <1>6, <2>1, TailAsks
  <2>3. ~routed[p] /\ events[p] = <<>>
    BY <1>6, <2>2 DEF CInv, Copies, Presence
  <2>4. Presence(p)' /\ OnTrail(p)'
    BY <1>2, <2>2, <2>3 DEF Presence, OnTrail, Moves
  <2>5. OnWay(p)'
    <3> SUFFICES ASSUME Synced(p)'
                 PROVE  /\ events'[p] = <<>>
                        /\ WillBe(intents', p, "setHp", body'[p].hp, row'[p].hp)
                        /\ WillBe(intents', p, "setMp", body'[p].mp, row'[p].mp)
      BY DEF OnWay
    <3>1. /\ WillBe(intents, p, "setHp", body[p].hp, row[p].hp)
          /\ WillBe(intents, p, "setMp", body[p].mp, row[p].mp)
      BY <1>2, <1>6, <2>2 DEF CInv, Copies, OnWay, Synced, Moves
    <3>2. ~Carries(i, p, "setHp") /\ ~Carries(i, p, "setMp")
      BY <1>0 DEF Carries
    <3>3. /\ WillBe(intents', p, "setHp", body[p].hp, row[p].hp)
          /\ WillBe(intents', p, "setMp", body[p].mp, row[p].mp)
      BY <1>0, <3>1, <3>2, WillBeTail
    <3>4. /\ \E j \in 1 .. Len(intents') : Carries(intents'[j], p, "setHp")
          /\ \E j \in 1 .. Len(intents') : Carries(intents'[j], p, "setMp")
      BY <2>2 DEF Joins, Carries
    <3> QED
      BY <1>2, <2>3, <3>3, <3>4, WillBeSet
  <2> QED
    BY <2>4, <2>5 DEF Copies
<1> QED
  BY <1>4, <1>5, <1>6

\* The value that a session has set replaces that of the world, and is still the row's when no
\* other is behind it (WorldSet).
LEMMA SetCopies ==
  ASSUME HInv, CInv, NEW p \in Players, WorldSet
  PROVE  Copies(p)'
<1> DEFINE i == Head(intents)
<1>0. PICK kind \in {"setHp", "setMp"} : Take(kind)
  BY DEF WorldSet
<1>1. /\ i.by \in Players /\ i.kind = kind /\ i \in Requests /\ i.to \in Int
      /\ intents # <<>> /\ intents' = Tail(intents) /\ intents \in Seq(Requests)
  BY <1>0, Taken, RequestFields, CopyTypes DEF Take
<1>2. /\ body' = IF ~InWorld(i.by) THEN body
                 ELSE IF i.kind = "setHp" THEN [body EXCEPT ![i.by].hp = i.to]
                 ELSE [body EXCEPT ![i.by].mp = i.to]
      /\ UNCHANGED <<routed, events, excuses, up, row>>
  BY DEF WorldSet, Quiet
<1>3. body \in [Players -> Bodies]
  BY DEF HInv, TypeOK
<1>4. CASE p # i.by
  <2>1. Alike(p, intents, intents')
    BY <1>0, <1>4, ServedAlike DEF Idle
  <2>2. body'[p] = body[p]
    BY <1>2, <1>3, <1>4
  <2> QED
    BY <1>2, <2>1, <2>2, Untouched DEF CInv, InWorld, Synced
<1>5. CASE p = i.by /\ ~up[p]
  BY <1>2, <1>5 DEF CInv, Copies, Presence, OnWay, OnTrail
<1>6. CASE p = i.by /\ up[p]
  <2>1. /\ Rejoins(p, intents') /\ (Joins(p, intents') <=> Joins(p, intents))
    <3>1. Rejoins(p, intents) /\ (i.by # p \/ i.kind # "join")
      BY <1>1, <1>6 DEF CInv, Copies, Presence
    <3> QED
      BY <1>1, <3>1, TailAsks
  <2>2. Moves(p)
    <3>1. 1 \in 1 .. Len(intents) /\ intents[1] = Head(intents)
      BY <1>1, TailPlaces
    <3> QED
      BY <3>1, <1>1, <1>6 DEF Sets, Moves
  <2>3. InWorld(p) => InWorld(p)' /\ body'[p].hp = (IF kind = "setHp" THEN i.to ELSE body[p].hp)
                                 /\ body'[p].mp = (IF kind = "setHp" THEN body[p].mp ELSE i.to)
    <3> SUFFICES ASSUME InWorld(p)
                 PROVE  /\ InWorld(p)'
                        /\ body'[p].hp = (IF kind = "setHp" THEN i.to ELSE body[p].hp)
                        /\ body'[p].mp = (IF kind = "setHp" THEN body[p].mp ELSE i.to)
      OBVIOUS
    <3>1. body[p] \in [hp : Int, mp : Int, max : Nat \ {0}]
      BY CopyTypes, BodyFields DEF InWorld
    <3>2. CASE kind = "setHp"
      <4> DEFINE b == [body[p] EXCEPT !.hp = i.to]
      <4>1. b.hp = i.to /\ b.mp = body[p].mp /\ b.max = body[p].max
        BY <3>1
      <4>2. body' = [body EXCEPT ![p] = b]
        BY <1>1, <1>2, <1>6, <3>2
      <4> HIDE DEF b
      <4>3. body'[p] = b
        BY <4>2, <1>3
      <4>4. b # NoBody
        BY <4>1, <3>1 DEF NoBody
      <4> QED
        BY <4>1, <4>3, <4>4, <3>2 DEF InWorld
    <3>3. CASE kind # "setHp"
      <4> DEFINE b == [body[p] EXCEPT !.mp = i.to]
      <4>1. b.mp = i.to /\ b.hp = body[p].hp /\ b.max = body[p].max
        BY <3>1
      <4>2. body' = [body EXCEPT ![p] = b]
        BY <1>1, <1>2, <1>6, <3>3
      <4> HIDE DEF b
      <4>3. body'[p] = b
        BY <4>2, <1>3
      <4>4. b # NoBody
        BY <4>1, <3>1 DEF NoBody
      <4> QED
        BY <4>1, <4>3, <4>4, <3>3 DEF InWorld
    <3> QED
      BY <3>2, <3>3
  <2>4. Presence(p)'
    BY <1>2, <1>6, <2>1, <2>3 DEF CInv, Copies, Presence
  <2>5. ASSUME Synced(p)'
        PROVE  /\ events'[p] = <<>>
               /\ WillBe(intents', p, "setHp", body'[p].hp, row'[p].hp)
               /\ WillBe(intents', p, "setMp", body'[p].mp, row'[p].mp)
    <3> DEFINE hp == IF kind = "setHp" THEN i.to ELSE body[p].hp
               mp == IF kind = "setHp" THEN body[p].mp ELSE i.to
    <3>1. /\ events[p] = <<>>
          /\ WillBe(intents, p, "setHp", body[p].hp, row[p].hp)
          /\ WillBe(intents, p, "setMp", body[p].mp, row[p].mp)
      BY <1>2, <1>6, <2>2, <2>5 DEF CInv, Copies, OnWay, Synced
    <3>2. /\ Carries(i, p, "setHp") <=> kind = "setHp"
          /\ Carries(i, p, "setMp") <=> kind = "setMp"
          /\ Value(i, kind) = i.to
      BY <1>1, <1>6 DEF Carries, Value
    <3>3. /\ WillBe(Tail(intents), p, "setHp", hp, row[p].hp)
          /\ WillBe(Tail(intents), p, "setMp", mp, row[p].mp)
      <4>1. CASE kind = "setHp"
        BY <1>1, <3>1, <3>2, <4>1, WillBeTail
      <4>2. CASE kind = "setMp"
        BY <1>1, <3>1, <3>2, <4>2, WillBeTail
      <4> QED
        BY <4>1, <4>2
    <3>4. CASE InWorld(p)
      BY <1>1, <1>2, <2>3, <3>1, <3>3, <3>4
    <3>5. CASE ~InWorld(p)
      <4>1. Joins(p, intents')
        BY <1>6, <2>1, <3>5 DEF CInv, Copies, Presence
      <4>2. /\ \E j \in 1 .. Len(intents') : Carries(intents'[j], p, "setHp")
            /\ \E j \in 1 .. Len(intents') : Carries(intents'[j], p, "setMp")
        BY <4>1 DEF Joins, Carries
      <4> HIDE DEF hp, mp
      <4> QED
        BY <1>1, <1>2, <3>1, <3>3, <4>2, WillBeSet
    <3> QED
      BY <3>4, <3>5
  <2>6. ASSUME Synced(p)', ~Moves(p)' PROVE Reaches(row'[p], events'[p], body'[p])
    <3>1. /\ ~ \E j \in 1 .. Len(intents') : Carries(intents'[j], p, "setHp")
          /\ ~ \E j \in 1 .. Len(intents') : Carries(intents'[j], p, "setMp")
      BY <2>6 DEF Moves, Sets, Joins, Carries
    <3>2. Matches(row'[p], body'[p]) /\ events'[p] = <<>>
      BY <2>5, <2>6, <3>1 DEF WillBe, Matches
    <3>3. row'[p] \in Row /\ row'[p].hp <= MaxHp
      BY <1>2, CopyTypes
    <3> QED
      BY <3>2, <3>3, TrailOne
  <2> QED
    BY <2>4, <2>5, <2>6 DEF Copies, OnWay, OnTrail
<1> QED
  BY <1>4, <1>5, <1>6

\* What the world refuses changes nothing (WorldRefuse).
LEMMA RefuseCopies ==
  ASSUME HInv, CInv, NEW p \in Players, WorldRefuse
  PROVE  Copies(p)'
<1>1. PICK kind \in {"attack", "skill"} : Take(kind)
  BY DEF WorldRefuse
<1>2. Alike(p, intents, intents')
  BY <1>1, Taken, ServedAlike DEF Idle
<1> QED
  BY <1>2, Untouched DEF WorldRefuse, Quiet, CInv, InWorld, Synced

\* A hit between players (WorldAttack).
LEMMA AttackCopies ==
  ASSUME HInv, CInv, NEW p \in Players, NEW d \in Damages, WorldAttack(d)
  PROVE  Copies(p)'
<1> DEFINE v == Head(intents).victim
<1>0. /\ Take("attack") /\ Head(intents).kind = "attack" /\ v \in Players /\ d \in Nat
      /\ InWorld(v)
  BY Taken, RequestFields, DamageType DEF WorldAttack, Attackable
<1>1. Alike(p, intents, intents') /\ Copies(p)
  BY <1>0, ServedAlike DEF Idle, CInv
<1>2. /\ body' = [body EXCEPT ![v] = Hurt(body[v], d)]
      /\ Tell([NoNews EXCEPT ![v] = Hit(d)]) /\ UNCHANGED <<up, routed, row>>
  BY DEF WorldAttack
<1>3. body \in [Players -> Bodies]
  BY DEF HInv, TypeOK
<1>4. [NoNews EXCEPT ![v] = Hit(d)][p] = IF p = v THEN Hit(d) ELSE <<>>
  BY DEF NoNews
<1>5. Heard(p, IF p = v THEN Hit(d) ELSE <<>>)
  <2> DEFINE news == [NoNews EXCEPT ![v] = Hit(d)]
  <2>1. Heard(p, news[p])
    <3>1. Tell(news)
      BY <1>2
    <3> HIDE DEF news
    <3> QED
      BY <3>1, TellHeard
  <2> QED
    BY <1>4, <2>1
<1>6. CASE p = v
  BY <1>0, <1>1, <1>2, <1>3, <1>5, <1>6, HurtCopies
<1>7. CASE p # v
  BY <1>1, <1>2, <1>3, <1>5, <1>7, MirrorsChain, ToldNothing DEF InWorld
<1> QED
  BY <1>6, <1>7

\* A skill that does no more than cost (WorldSkill).
LEMMA SkillCopies ==
  ASSUME HInv, CInv, NEW p \in Players, NEW c \in Costs, WorldSkill(c)
  PROVE  Copies(p)'
<1> DEFINE a == Head(intents).by
<1>0. /\ Take("skill") /\ Head(intents).kind = "skill" /\ a \in Players /\ Affords(a, c)
  BY Taken DEF WorldSkill
<1>1. Alike(p, intents, intents') /\ Copies(p)
  BY <1>0, ServedAlike DEF Idle, CInv
<1>2. /\ body' = [body EXCEPT ![a] = Paid(body[a], c)]
      /\ Tell([NoNews EXCEPT ![a] = Cost(c)]) /\ UNCHANGED <<up, routed, row>>
  BY DEF WorldSkill
<1>3. body \in [Players -> Bodies]
  BY DEF HInv, TypeOK
<1>4. [NoNews EXCEPT ![a] = Cost(c)][p] = IF p = a THEN Cost(c) ELSE <<>>
  BY DEF NoNews
<1>5. Heard(p, IF p = a THEN Cost(c) ELSE <<>>)
  <2> DEFINE news == [NoNews EXCEPT ![a] = Cost(c)]
  <2>1. Heard(p, news[p])
    <3>1. Tell(news)
      BY <1>2
    <3> HIDE DEF news
    <3> QED
      BY <3>1, TellHeard
  <2> QED
    BY <1>4, <2>1
<1>6. CASE p = a
  BY <1>0, <1>1, <1>2, <1>3, <1>5, <1>6, PaidCopies
<1>7. CASE p # a
  BY <1>1, <1>2, <1>3, <1>5, <1>7, MirrorsChain, ToldNothing DEF InWorld
<1> QED
  BY <1>6, <1>7

\* A splash: one pays and the others are hit (WorldSplash).
LEMMA SplashCopies ==
  ASSUME HInv, CInv, NEW p \in Players, NEW c \in Costs, NEW vs \in SUBSET Players,
         NEW d \in Damages, WorldSplash(c, vs, d)
  PROVE  Copies(p)'
<1> DEFINE a == Head(intents).by
           news == [q \in Players |-> IF q = a THEN Cost(c) ELSE IF q \in vs THEN Hit(d) ELSE <<>>]
<1>0. /\ Take("skill") /\ Head(intents).kind = "skill" /\ a \in Players /\ Affords(a, c)
      /\ d \in Nat /\ \A v \in vs : InWorld(v)
  BY Taken, DamageType DEF WorldSplash, Attackable
<1>1. Alike(p, intents, intents') /\ Copies(p)
  BY <1>0, ServedAlike DEF Idle, CInv
<1>2. /\ body' = [q \in Players |-> IF q = a THEN Paid(body[q], c)
                                    ELSE IF q \in vs THEN Hurt(body[q], d) ELSE body[q]]
      /\ Tell(news) /\ UNCHANGED <<up, routed, row>>
  BY DEF WorldSplash
<1>3. news[p] = IF p = a THEN Cost(c) ELSE IF p \in vs THEN Hit(d) ELSE <<>>
  OBVIOUS
<1>4. Heard(p, news[p])
  <2> HIDE DEF news
  <2> QED
    BY <1>2, TellHeard
<1> HIDE DEF news
<1>5. body'[p] = IF p = a THEN Paid(body[p], c)
                 ELSE IF p \in vs THEN Hurt(body[p], d) ELSE body[p]
  BY <1>2
<1>6. CASE p = a
  BY <1>0, <1>1, <1>2, <1>3, <1>4, <1>5, <1>6, PaidCopies
<1>7. CASE p # a /\ p \in vs
  BY <1>0, <1>1, <1>2, <1>3, <1>4, <1>5, <1>7, HurtCopies
<1>8. CASE p # a /\ p \notin vs
  BY <1>1, <1>2, <1>3, <1>4, <1>5, <1>8, MirrorsChain, ToldNothing DEF InWorld
<1> QED
  BY <1>6, <1>7, <1>8

\* A skill that raises the maximum parts the copies of those whom it raises (WorldBuff).
LEMMA BuffCopies ==
  ASSUME HInv, CInv, NEW p \in Players, NEW c \in Costs, NEW ts \in SUBSET Players,
         WorldBuff(c, ts)
  PROVE  Copies(p)'
<1> DEFINE a == Head(intents).by
           paid == [body EXCEPT ![a] = Paid(body[a], c)]
<1>0. /\ Take("skill") /\ Head(intents).kind = "skill" /\ a \in Players /\ Affords(a, c)
      /\ InWorld(a) /\ \A v \in ts : InWorld(v)
  BY Taken DEF WorldBuff, Affords
<1>1. Alike(p, intents, intents') /\ Copies(p)
  BY <1>0, ServedAlike DEF Idle, CInv
<1>2. /\ body' = [q \in Players |-> IF q \in ts THEN Raised(paid[q]) ELSE paid[q]]
      /\ events' = [events EXCEPT ![a] = IF routed[a] THEN events[a] \o Cost(c) ELSE events[a]]
      /\ excuses' = [q \in Players |->
                       excuses[q]
                       \cup (IF routed[q] /\ q \in ts THEN {"buffed"} ELSE {})
                       \cup (IF routed[q] /\ q = a /\ Cost(c) # <<>> /\ Setting(q)
                             THEN {"crossed"} ELSE {})]
      /\ UNCHANGED <<up, routed, row>>
  BY DEF WorldBuff
<1>3. /\ body \in [Players -> Bodies] /\ events \in [Players -> Seq(Events)]
      /\ Within(body[a]) /\ body[a] # NoBody /\ Within(body[p])
  BY <1>0, Bounded DEF HInv, TypeOK, InWorld
<1>4. Within(Paid(body[a], c)) /\ Paid(body[a], c) # NoBody
  BY <1>3, PaidIsWithin
<1>5. /\ paid[p] = IF p = a THEN Paid(body[p], c) ELSE body[p]
      /\ Within(paid[p]) /\ (InWorld(p) => paid[p] # NoBody)
  BY <1>3, <1>4 DEF InWorld
<1> HIDE DEF paid, a
<1>6. CASE p \in ts
  <2>1. InWorld(p)'
    <3>1. body'[p] = Raised(paid[p]) /\ paid[p] # NoBody
      BY <1>0, <1>2, <1>5, <1>6
    <3> QED
      BY <1>5, <3>1, BuffIsWithin DEF InWorld
  <2>2. CASE routed[p]
    <3>1. ~Synced(p)'
      BY <1>2, <1>6, <2>2 DEF Synced, Drifts
    <3> QED
      BY <1>1, <1>2, <2>1, <2>2, <3>1, Drifted
  <2>3. CASE ~routed[p]
    <3>1. events'[p] = events[p]
      BY <1>2, <1>3, <2>3
    <3>2. Synced(p)' => Synced(p)
      BY <1>2 DEF Synced
    <3> QED
      BY <1>1, <1>2, <2>3, <3>1, <3>2, Unrouted
  <2> QED
    BY <2>2, <2>3
<1>7. CASE p \notin ts /\ p = a
  <2>1. body'[p] = Paid(body[p], c)
    BY <1>2, <1>5, <1>7
  <2>2. Heard(p, Cost(c))
    <3>1. events'[p] = IF routed[p] THEN events[p] \o Cost(c) ELSE events[p]
      BY <1>2, <1>3, <1>7
    <3>2. /\ excuses[p] \subseteq excuses'[p]
          /\ routed[p] /\ Cost(c) # <<>> /\ Setting(p) => "crossed" \in excuses'[p]
      BY <1>2, <1>7
    <3> QED
      BY <3>1, <3>2 DEF Heard, Synced, Drifts
  <2> QED
    BY <1>0, <1>1, <1>2, <1>7, <2>1, <2>2, PaidCopies
<1>8. CASE p \notin ts /\ p # a
  <2>1. body'[p] = body[p] /\ events'[p] = events[p]
    BY <1>2, <1>3, <1>5, <1>8
  <2>2. Synced(p)' => Synced(p)
    BY <1>2 DEF Synced
  <2> QED
    BY <1>1, <1>2, <2>1, <2>2, Untouched DEF InWorld
<1> QED
  BY <1>6, <1>7, <1>8

\* The end of a buff cuts what exceeds the maximum, which the row never does; and the hit of a
\* mob (Expire, MobHit).
LEMMA TickCopies ==
  ASSUME HInv, CInv, NEW p \in Players, NEW a \in Players, Tick(a)
  PROVE  Copies(p)'
<1>0. /\ UNCHANGED <<intents, up, routed, row>> /\ InWorld(a)
      /\ body \in [Players -> Bodies] /\ Copies(p)
  BY DEF Tick, Expire, MobHit, HInv, TypeOK, CInv
<1>1. Alike(p, intents, intents')
  BY <1>0, CopyTypes, IdleAlike
<1>2. CASE Expire(a) /\ p # a
  <2>1. body'[p] = body[p] /\ UNCHANGED <<events, excuses>>
    BY <1>0, <1>2 DEF Expire
  <2> QED
    BY <1>0, <1>1, <2>1, Untouched DEF InWorld, Synced
<1>3. CASE Expire(a) /\ p = a
  <2>1. body'[p] = Lowered(body[p]) /\ UNCHANGED <<events, excuses>> /\ body[p].max > MaxHp
    BY <1>0, <1>3 DEF Expire
  <2>2. /\ body[p] \in [hp : Int, mp : Int, max : Nat \ {0}] /\ MaxHp \in Nat /\ MaxHp > 0
    BY <1>0, <1>3, CopyTypes, BodyFields, LimitsAssumption DEF InWorld
  <2>3. /\ body'[p].mp = body[p].mp /\ InWorld(p)'
        /\ body[p].hp <= MaxHp => body'[p].hp = body[p].hp
    <3>1. body'[p].max = body[p].max - 1 /\ body'[p].max > 0
      BY <2>1, <2>2 DEF Lowered
    <3> QED
      BY <2>1, <2>2, <3>1 DEF Lowered, Lesser, InWorld, NoBody
  <2>4. CASE body[p].hp <= MaxHp
    BY <1>0, <1>1, <2>1, <2>3, <2>4, Untouched DEF Synced
  <2>5. CASE ~(body[p].hp <= MaxHp)
    <3>1. Presence(p)'
      BY <1>0, <2>1, <2>3 DEF Copies, Presence
    <3>2. OnTrail(p)'
      <4>1. ~Reaches(row[p], events[p], body[p])
        <5> SUFFICES ASSUME NEW t \in Seq(Row), TrailOf(t, row[p], events[p], body[p])
                     PROVE  FALSE
          BY DEF Reaches
        <5>1. Len(t) \in 1 .. Len(t)
          <6>1. Len(events[p]) \in Nat /\ Len(t) = Len(events[p]) + 1
            BY CopyTypes DEF TrailOf
          <6> QED
            BY <6>1
        <5>2. t[Len(t)].hp <= MaxHp /\ Mirrors(body[p].hp, t[Len(t)].hp)
          BY <5>1 DEF TrailOf, Matches
        <5> QED
          BY <2>2, <2>5, <5>2 DEF Mirrors, Least0
      <4> QED
        BY <1>0, <2>1, <4>1 DEF Copies, OnTrail, Moves, Synced
    <3>3. OnWay(p)'
      <4> SUFFICES ASSUME up'[p], Synced(p)', Moves(p)'
                   PROVE  /\ events'[p] = <<>>
                          /\ WillBe(intents', p, "setHp", body'[p].hp, row'[p].hp)
                          /\ WillBe(intents', p, "setMp", body'[p].mp, row'[p].mp)
        BY DEF OnWay
      <4>1. /\ events[p] = <<>>
            /\ WillBe(intents, p, "setHp", body[p].hp, row[p].hp)
            /\ WillBe(intents, p, "setMp", body[p].mp, row[p].mp)
        BY <1>0, <2>1 DEF Copies, OnWay, Moves, Synced
      <4>2. \E j \in 1 .. Len(intents) : Carries(intents[j], p, "setHp")
        BY <2>2, <2>5, <4>1, CopyTypes DEF WillBe, Mirrors, Least0
      <4>3. WillBe(intents, p, "setHp", body'[p].hp, row[p].hp)
        BY <4>1, <4>2, WillBeSet
      <4> QED
        BY <1>0, <2>1, <2>3, <4>1, <4>3
    <3> QED
      BY <3>1, <3>2, <3>3 DEF Copies
  <2> QED
    BY <2>4, <2>5
<1>4. ASSUME NEW d \in Damages, MobHit(a, d) PROVE Copies(p)'
  <2> DEFINE news == [NoNews EXCEPT ![a] = Hit(d)]
  <2>1. news[p] = IF p = a THEN Hit(d) ELSE <<>>
    BY DEF NoNews
  <2>2. Tell(news) /\ body' = [body EXCEPT ![a] = Hurt(body[a], d)] /\ d \in Nat
    BY <1>4, DamageType DEF MobHit
  <2> HIDE DEF news
  <2>3. Heard(p, news[p])
    BY <2>2, TellHeard
  <2>4. CASE p = a
    BY <1>0, <1>1, <2>1, <2>2, <2>3, <2>4, HurtCopies
  <2>5. CASE p # a
    BY <1>0, <1>1, <2>1, <2>2, <2>3, <2>5, MirrorsChain, ToldNothing DEF InWorld
  <2> QED
    BY <2>4, <2>5
<1> QED
  BY <1>2, <1>3, <1>4 DEF Tick

\* Requests that move nothing (AskAttack, AskSkill).
LEMMA AskCopies ==
  ASSUME HInv, CInv, NEW p \in Players, NEW a \in Players,
         AskSkill(a) \/ \E v \in Players : AskAttack(a, v)
  PROVE  Copies(p)'
<1>1. PICK r \in Requests : r.kind \in {"attack", "skill"} /\ intents' = Append(intents, r)
  <2>1. [by |-> a, kind |-> "skill"] \in Requests
    BY DEF Requests
  <2>2. \A v \in Players : [by |-> a, kind |-> "attack", victim |-> v] \in Requests
    BY DEF Requests
  <2> QED
    BY <2>1, <2>2 DEF AskSkill, AskAttack
<1>2. Alike(p, intents, intents')
  BY <1>1, CopyTypes, IdleAlike DEF Idle
<1>3. UNCHANGED <<body, routed, up, row, events, excuses>>
  BY DEF AskSkill, AskAttack
<1> QED
  BY <1>2, <1>3, Untouched DEF CInv, InWorld, Synced

\* A session begins, with its row on the way to the world (Enter).
LEMMA EnterCopies ==
  ASSUME HInv, CInv, NEW p \in Players, NEW a \in Players, Enter(a)
  PROVE  Copies(p)'
<1> DEFINE r == [by |-> a, kind |-> "join", row |-> row[a]]
<1>0. /\ ~up[a] /\ up' = [up EXCEPT ![a] = TRUE] /\ intents' = Append(intents, r)
      /\ UNCHANGED <<body, routed, row, events>>
  BY DEF Enter
<1>1. r \in Requests /\ r.by = a /\ r.kind = "join" /\ r.row = row[a]
  BY CopyTypes DEF Requests
<1>2. up \in [Players -> BOOLEAN] /\ excuses \in [Players -> SUBSET Excuses]
  BY DEF HInv, TypeOK
<1> HIDE DEF r
<1>3. CASE p # a
  <2>1. Alike(p, intents, intents')
    BY <1>0, <1>1, <1>3, CopyTypes, IdleAlike DEF Idle
  <2>2. excuses'[p] = excuses[p]
    BY <1>2, <1>3 DEF Enter
  <2> QED
    BY <1>0, <1>2, <1>3, <2>1, <2>2, Untouched DEF CInv, InWorld, Synced
<1>4. CASE p = a
  <2>1. Joins(p, intents') /\ Rejoins(p, intents')
    BY <1>0, <1>1, <1>4, CopyTypes, AppendAsks
  <2>2. ~routed[p] /\ events[p] = <<>>
    BY <1>0, <1>4 DEF CInv, Copies, Presence
  <2>3. /\ WillBe(intents', p, "setHp", body[p].hp, row[p].hp)
        /\ WillBe(intents', p, "setMp", body[p].mp, row[p].mp)
    <3>1. /\ Carries(r, p, "setHp") /\ Carries(r, p, "setMp")
          /\ Value(r, "setHp") = row[p].hp /\ Value(r, "setMp") = row[p].mp
      BY <1>1, <1>4 DEF Carries, Value
    <3> QED
      BY <1>0, <1>1, <3>1, CopyTypes, WillBeAppend
  <2> QED
    BY <1>0, <2>1, <2>2, <2>3 DEF Copies, Presence, OnWay, OnTrail, Moves
<1> QED
  BY <1>3, <1>4

\* A session ends, and with it what the world had to tell it (Disconnect).
LEMMA DisconnectCopies ==
  ASSUME HInv, CInv, NEW p \in Players, NEW a \in Players, Disconnect(a)
  PROVE  Copies(p)'
<1> DEFINE r == [by |-> a, kind |-> "leave"]
<1>0. /\ up' = [up EXCEPT ![a] = FALSE] /\ intents' = Append(intents, r)
      /\ routed' = [routed EXCEPT ![a] = FALSE] /\ events' = [events EXCEPT ![a] = <<>>]
      /\ UNCHANGED <<body, row, excuses>>
  BY DEF Disconnect
<1>1. r \in Requests /\ r.by = a
  BY DEF Requests
<1>2. /\ up \in [Players -> BOOLEAN] /\ routed \in [Players -> BOOLEAN]
      /\ events \in [Players -> Seq(Events)]
  BY DEF HInv, TypeOK
<1> HIDE DEF r
<1>3. CASE p # a
  <2>1. Alike(p, intents, intents')
    BY <1>0, <1>1, <1>3, CopyTypes, IdleAlike DEF Idle
  <2>2. up'[p] = up[p] /\ routed'[p] = routed[p] /\ events'[p] = events[p]
    BY <1>0, <1>2, <1>3
  <2> QED
    BY <1>0, <2>1, <2>2, Untouched DEF CInv, InWorld, Synced
<1>4. CASE p = a
  <2>1. ~up'[p] /\ ~routed'[p] /\ events'[p] = <<>>
    BY <1>0, <1>2, <1>4
  <2> QED
    BY <2>1 DEF Copies, Presence, OnWay, OnTrail
<1> QED
  BY <1>3, <1>4

\* A session that stores a row sends both of its values (SetRow).
LEMMA SetRowCopies ==
  ASSUME HInv, CInv, NEW p \in Players, NEW a \in Players, up[a], NEW new \in Row, NEW ends,
         SetRow(a, new, ends), UNCHANGED <<body, routed, up, events>>
  PROVE  Copies(p)'
<1> DEFINE x == [by |-> a, kind |-> "setHp", to |-> new.hp]
           y == [by |-> a, kind |-> "setMp", to |-> new.mp]
           one == Append(intents, x)
<1>0. /\ row' = [row EXCEPT ![a] = new] /\ intents' = Append(one, y)
      /\ x \in Requests /\ y \in Requests /\ one \in Seq(Requests)
      /\ x.by = a /\ x.kind = "setHp" /\ x.to = new.hp
      /\ y.by = a /\ y.kind = "setMp" /\ y.to = new.mp
  <2>1. x \in Requests /\ y \in Requests
    BY DEF Requests, Row
  <2>2. intents' = intents \o <<x, y>> /\ row' = [row EXCEPT ![a] = new]
    BY DEF SetRow
  <2>3. x.by = a /\ x.kind = "setHp" /\ x.to = new.hp /\ y.by = a /\ y.kind = "setMp" /\ y.to = new.mp
    OBVIOUS
  <2> HIDE DEF x, y
  <2> QED
    BY <2>1, <2>2, <2>3, CopyTypes
<1>1. /\ row \in [Players -> Row] /\ excuses \in [Players -> SUBSET Excuses]
      /\ excuses' = [excuses EXCEPT ![a] = (@ \ (Drifts \cup ends))
                                            \cup (IF events[a] = <<>> THEN {} ELSE {"crossed"})]
  BY DEF HInv, TypeOK, SetRow
<1> HIDE DEF x, y, one
<1>2. CASE p # a
  <2>1. Alike(p, intents, one) /\ Alike(p, one, intents')
    BY <1>0, <1>2, CopyTypes, IdleAlike DEF Idle, one
  <2>2. Alike(p, intents, intents')
    BY <2>1 DEF Alike
  <2>3. row'[p] = row[p] /\ excuses'[p] = excuses[p]
    BY <1>0, <1>1, <1>2
  <2> QED
    BY <2>2, <2>3, Untouched DEF CInv, InWorld, Synced
<1>3. CASE p = a
  <2>1. (Joins(p, one) <=> Joins(p, intents)) /\ (Rejoins(p, intents) => Rejoins(p, one))
    BY <1>0, CopyTypes, AppendAsks DEF one
  <2>2. /\ Joins(p, intents') <=> Joins(p, one)
        /\ Rejoins(p, one) => Rejoins(p, intents')
        /\ Sets(p, intents')
    BY <1>0, <1>3, AppendAsks
  <2>3. Presence(p)'
    BY <2>1, <2>2 DEF CInv, Copies, Presence, InWorld
  <2>4. ASSUME Synced(p)' PROVE events'[p] = <<>>
    BY <1>1, <1>3, <2>4 DEF Synced, Drifts
  <2>5. WillBe(intents', p, "setHp", body[p].hp, new.hp)
    <3>1. WillBe(one, p, "setHp", body[p].hp, new.hp)
      BY <1>0, <1>3, CopyTypes, WillBeAppend DEF Carries, Value, one
    <3> QED
      BY <1>0, <3>1, WillBeAppend DEF Carries
  <2>6. WillBe(intents', p, "setMp", body[p].mp, new.mp)
    BY <1>0, <1>3, WillBeAppend DEF Carries, Value
  <2>7. row'[p] = new
    BY <1>0, <1>1, <1>3
  <2> QED
    BY <2>2, <2>3, <2>4, <2>5, <2>6, <2>7 DEF Copies, OnWay, OnTrail, Moves
<1> QED
  BY <1>2, <1>3

\* Potions and revivals (Potion, Revive), and the heal of the party, which parts the copies
\* (HealFull).
LEMMA RowCopies ==
  ASSUME HInv, CInv, NEW p \in Players, NEW a \in Players, Potion(a) \/ Revive(a) \/ HealFull(a)
  PROVE  Copies(p)'
<1>0. row[a] \in [hp : Int, mp : Int] /\ MaxHp \in Nat /\ MaxMp \in Nat /\ Dose \in Nat
  BY CopyTypes, LimitsAssumption DEF Row
<1>1. CASE Potion(a)
  <2>1. /\ Lesser(row[a].hp + Dose, MaxHp) \in Int /\ Lesser(row[a].mp + Dose, MaxMp) \in Int
    BY <1>0 DEF Lesser
  <2>2. /\ [row[a] EXCEPT !.hp = Lesser(@ + Dose, MaxHp)] \in Row
        /\ [row[a] EXCEPT !.mp = Lesser(@ + Dose, MaxMp)] \in Row
    BY <1>0, <2>1 DEF Row
  <2>3. PICK new \in Row : SetRow(a, new, {})
    BY <1>1, <2>2 DEF Potion
  <2> QED
    BY <1>1, <2>3, SetRowCopies DEF Potion
<1>2. CASE Revive(a)
  <2>1. Full \in Row
    BY <1>0 DEF Full, Row
  <2> QED
    BY <1>2, <2>1, SetRowCopies DEF Revive
<1>3. CASE HealFull(a)
  <2>1. Alike(p, intents, intents') /\ UNCHANGED <<body, intents, routed, up, events>>
    BY <1>3, CopyTypes, IdleAlike DEF HealFull
  <2>2. CASE p = a
    <3>1. ~Synced(p)'
      BY <1>3, <2>2 DEF HealFull, HInv, TypeOK, Synced, Drifts
    <3> QED
      BY <2>1, <3>1, Drifted DEF CInv, InWorld
  <2>3. CASE p # a
    <3>1. row'[p] = row[p] /\ excuses'[p] = excuses[p]
      BY <1>3, <2>3 DEF HealFull, HInv, TypeOK
    <3> QED
      BY <2>1, <3>1, Untouched DEF CInv, InWorld, Synced
  <2> QED
    BY <2>2, <2>3
<1> QED
  BY <1>1, <1>2, <1>3

\* What a session hears (HandleHit, HandleCost): its row takes a step of the trail.
LEMMA HearRow ==
  ASSUME HInv, NEW a \in Players, Hear(a)
  PROVE  /\ events[a] # <<>> /\ Head(events[a]) \in Events
         /\ events' = [events EXCEPT ![a] = Tail(events[a])]
         /\ row' = [row EXCEPT ![a] = After(row[a], Head(events[a]))]
         /\ UNCHANGED <<body, intents, routed, up>> /\ up[a]
         /\ \A p \in Players : Synced(p)' <=> Synced(p)
<1> DEFINE e == Head(events[a])
<1>0. events[a] # <<>> /\ e \in Events /\ row[a] \in [hp : Int, mp : Int]
  BY CopyTypes, ElementsOf DEF Hear, HandleHit, HandleCost, Row
<1>1. CASE HandleHit(a)
  <2>1. e.kind = "hit" /\ row' = [row EXCEPT ![a].hp = Least0(row[a].hp - e.damage)]
    BY <1>1 DEF HandleHit
  <2>2. [row[a] EXCEPT !.hp = Least0(row[a].hp - e.damage)] = After(row[a], e)
    BY <1>0, <2>1 DEF After
  <2>3. row' = [row EXCEPT ![a] = [row[a] EXCEPT !.hp = Least0(row[a].hp - e.damage)]]
    BY <2>1
  <2> QED
    BY <1>0, <1>1, <2>2, <2>3 DEF HandleHit, Synced
<1>2. CASE HandleCost(a)
  <2>1. /\ e.kind = "cost"
        /\ row' = [row EXCEPT ![a] = [hp |-> row[a].hp - e.cost.hp, mp |-> row[a].mp - e.cost.mp]]
    BY <1>2 DEF HandleCost
  <2>2. [hp |-> row[a].hp - e.cost.hp, mp |-> row[a].mp - e.cost.mp] = After(row[a], e)
    BY <2>1 DEF After
  <2>3. \A p \in Players : Synced(p)' <=> Synced(p)
    BY <1>2 DEF HandleCost, Synced, Drifts, HInv, TypeOK
  <2> QED
    BY <1>0, <1>2, <2>1, <2>2, <2>3 DEF HandleCost
<1> QED
  BY <1>1, <1>2 DEF Hear

\* A session that hears of a loss goes on along its trail (Hear).
LEMMA HearCopies ==
  ASSUME HInv, CInv, NEW p \in Players, NEW a \in Players, Hear(a)
  PROVE  Copies(p)'
<1>0. /\ events[a] # <<>> /\ events' = [events EXCEPT ![a] = Tail(events[a])]
      /\ row' = [row EXCEPT ![a] = After(row[a], Head(events[a]))]
      /\ UNCHANGED <<body, intents, routed, up>>
      /\ (Synced(p)' <=> Synced(p))
  BY HearRow
<1>1. row \in [Players -> Row] /\ events \in [Players -> Seq(Events)]
  BY DEF HInv, TypeOK
<1>2. CASE p # a
  <2>1. Alike(p, intents, intents') /\ row'[p] = row[p] /\ events'[p] = events[p]
    BY <1>0, <1>1, <1>2, CopyTypes, IdleAlike
  <2> QED
    BY <1>0, <2>1, Untouched DEF CInv, InWorld
<1>3. CASE p = a
  <2>1. row'[p] = After(row[p], Head(events[p])) /\ events'[p] = Tail(events[p])
    BY <1>0, <1>1, <1>3
  <2>2. Presence(p)'
    BY <1>0, <1>3 DEF CInv, Copies, Presence, InWorld
  <2>3. (Moves(p)' <=> Moves(p)) /\ ~(up[p] /\ Synced(p) /\ Moves(p))
    BY <1>0, <1>3 DEF CInv, Copies, OnWay, Moves
  <2>4. OnTrail(p)'
    <3> SUFFICES ASSUME up'[p], Synced(p)', ~Moves(p)'
                 PROVE  Reaches(row'[p], events'[p], body'[p])
      BY DEF OnTrail
    <3>1. Reaches(row[p], events[p], body[p])
      BY <1>0, <2>3 DEF CInv, Copies, OnTrail
    <3> QED
      BY <1>0, <1>3, <2>1, <3>1, CopyTypes, TrailShrinks
  <2> QED
    BY <1>0, <2>2, <2>3, <2>4 DEF Copies, OnWay
<1> QED
  BY <1>2, <1>3

\* The channel starts with nobody in the game and nothing on its way.
LEMMA InitCopies == Init => CInv
<1> SUFFICES ASSUME Init, NEW p \in Players PROVE Copies(p)
  BY DEF CInv
<1> QED
  BY DEF Init, Copies, Presence, OnWay, OnTrail

\* Every step keeps the two copies of every player.
LEMMA NextCopies == HInv /\ CInv /\ [Next]_vars => CInv'
<1> SUFFICES ASSUME HInv, CInv, [Next]_vars, NEW p \in Players PROVE Copies(p)'
  BY DEF CInv
<1>1. CASE World
  <2>1. CASE WorldJoin \/ WorldLeave \/ WorldSet \/ WorldRefuse
    BY <2>1, JoinCopies, LeaveCopies, SetCopies, RefuseCopies
  <2>2. CASE \E d \in Damages : WorldAttack(d)
    BY <2>2, AttackCopies
  <2>3. CASE \E c \in Costs : WorldSkill(c)
    BY <2>3, SkillCopies
  <2>4. CASE \E c \in Costs, vs \in SUBSET Players, d \in Damages : WorldSplash(c, vs, d)
    BY <2>4, SplashCopies
  <2>5. CASE \E c \in Costs, ts \in SUBSET Players : WorldBuff(c, ts)
    BY <2>5, BuffCopies
  <2> QED
    BY <1>1, <2>1, <2>2, <2>3, <2>4, <2>5 DEF World
<1>2. ASSUME NEW a \in Players, Ask(a) PROVE Copies(p)'
  BY <1>2, AskCopies, EnterCopies, DisconnectCopies, RowCopies DEF Ask
<1>3. ASSUME NEW a \in Players, Hear(a) \/ Tick(a) PROVE Copies(p)'
  BY <1>3, HearCopies, TickCopies
<1>4. CASE UNCHANGED vars
  <2>1. Alike(p, intents, intents')
    BY <1>4, CopyTypes, IdleAlike DEF vars
  <2> QED
    BY <1>4, <2>1, Untouched DEF vars, CInv, InWorld, Synced
<1> QED
  BY <1>1, <1>2, <1>3, <1>4 DEF Next

\* The invariant of the two copies: what is on its way between them accounts for their difference.
THEOREM CopiesAreAccounted == Spec => []CInv
<1>1. Init /\ [][Next]_vars => [](HInv /\ CInv)
  <2>1. Init => HInv /\ CInv
    BY InitHolds, InitCopies
  <2>2. (HInv /\ CInv) /\ [Next]_vars => (HInv /\ CInv)'
    BY NextKeeps, NextCopies
  <2> QED
    BY <2>1, <2>2, PTL
<1> QED
  BY <1>1, PTL DEF Spec

\* Whatever is hit, paid, drunk and revived, and however the two queues cross: when nothing of a
\* player is on its way, the world has the health and the mana of his row, or zero for what the
\* row has below zero, unless one of the differences that the code leaves open happened since
\* the last value he set.
THEOREM CopiesStayEqual == Spec => []CopiesAgree
<1>1. HInv /\ CInv => CopiesAgree
  <2> SUFFICES ASSUME HInv, CInv, NEW p \in Players, up[p], Synced(p), events[p] = <<>>,
                      \A i \in 1 .. Len(intents) :
                        intents[i].by = p => intents[i].kind \in {"attack", "skill"}
               PROVE  /\ InWorld(p)
                      /\ Mirrors(body[p].hp, row[p].hp) /\ Mirrors(body[p].mp, row[p].mp)
    BY DEF CopiesAgree
  <2>1. ~Moves(p) /\ ~Joins(p, intents)
    BY DEF Moves, Sets, Joins
  <2>2. InWorld(p) /\ Reaches(row[p], <<>>, body[p])
    BY <2>1 DEF CInv, Copies, Presence, OnTrail
  <2>3. PICK t \in Seq(Row) : TrailOf(t, row[p], <<>>, body[p])
    BY <2>2 DEF Reaches
  <2>4. Len(<<>>) = 0
    OBVIOUS
  <2>5. Len(t) = 1 /\ t[1] = row[p]
    BY <2>3, <2>4 DEF TrailOf
  <2>6. Matches(row[p], body[p])
    BY <2>3, <2>5 DEF TrailOf
  <2> QED
    BY <2>2, <2>6 DEF Matches
<1> QED
  BY <1>1, HealthIsConsistent, CopiesAreAccounted, PTL

\* What a step does to a row that is not below zero (CostsAreCovered): only costs go without a
\* floor, and the trail has what they take.
LEMMA StepIsCovered ==
  ASSUME HInv, CInv, [Next]_vars, NEW p \in Players, up[p], Synced(p), Whole(row[p])
  PROVE  Whole(row'[p])
<1>0. /\ row \in [Players -> Row] /\ row[p] \in [hp : Int, mp : Int]
      /\ MaxHp \in Nat /\ MaxMp \in Nat /\ Dose \in Nat
  BY LimitsAssumption DEF HInv, TypeOK, Row
<1>1. CASE row' = row
  BY <1>1
<1>2. ASSUME NEW a \in Players, Hear(a) PROVE Whole(row'[p])
  <2>1. /\ events[a] # <<>> /\ Head(events[a]) \in Events
        /\ row' = [row EXCEPT ![a] = After(row[a], Head(events[a]))]
    BY <1>2, HearRow
  <2>2. CASE p # a
    BY <1>0, <2>1, <2>2
  <2>3. CASE p = a
    <3>1. Reaches(row[p], events[p], body[p])
      BY <2>1, <2>3 DEF CInv, Copies, OnWay, OnTrail
    <3>2. Payable(row[p], Head(events[p]))
      BY <2>1, <2>3, <3>1, CopyTypes, TrailShrinks
    <3>3. row[p] \in Row /\ row'[p] = After(row[p], Head(events[p]))
      BY <1>0, <2>1, <2>3
    <3> QED
      BY <2>1, <2>3, <3>2, <3>3, AfterIsRow
  <2> QED
    BY <2>2, <2>3
<1>3. ASSUME NEW a \in Players, Potion(a) \/ Revive(a) \/ HealFull(a) PROVE Whole(row'[p])
  <2>1. PICK new : row' = [row EXCEPT ![a] = new] /\ (Whole(row[a]) => Whole(new))
    <3>0. row[a] \in [hp : Int, mp : Int]
      BY <1>0 DEF Row
    <3>1. CASE Revive(a) \/ HealFull(a)
      BY <1>0, <3>1 DEF Revive, HealFull, SetRow, Full, Whole
    <3>2. CASE Potion(a)
      <4>1. /\ Lesser(row[a].hp + Dose, MaxHp) \in Int /\ Lesser(row[a].mp + Dose, MaxMp) \in Int
            /\ row[a].hp >= 0 => Lesser(row[a].hp + Dose, MaxHp) >= 0
            /\ row[a].mp >= 0 => Lesser(row[a].mp + Dose, MaxMp) >= 0
        BY <1>0, <3>0 DEF Lesser
      <4>2. /\ Whole(row[a]) => Whole([row[a] EXCEPT !.hp = Lesser(@ + Dose, MaxHp)])
            /\ Whole(row[a]) => Whole([row[a] EXCEPT !.mp = Lesser(@ + Dose, MaxMp)])
        BY <3>0, <4>1 DEF Whole
      <4> QED
        BY <3>2, <4>2 DEF Potion, SetRow
    <3> QED
      BY <1>3, <3>1, <3>2
  <2> QED
    BY <1>0, <2>1
<1> QED
  BY <1>1, <1>2, <1>3
     DEF Next, World, WorldJoin, WorldLeave, WorldSet, WorldRefuse, WorldAttack, WorldSkill,
         WorldSplash, WorldBuff, Ask, Enter, Disconnect, AskSkill, AskAttack, Tick, Expire,
         MobHit, vars

\* The session of a player subtracts what the world has let him pay without a floor, and still no
\* row goes below zero, as long as the two copies have not been moved apart.
THEOREM CostsStayCovered == Spec => CostsAreCovered
<1>1. HInv /\ CInv /\ [Next]_vars =>
        [\A p \in Players : up[p] /\ Synced(p) /\ Whole(row[p]) => Whole(row'[p])]_vars
  BY StepIsCovered
<1> QED
  BY <1>1, HealthIsConsistent, CopiesAreAccounted, PTL DEF Spec, CostsAreCovered

==============================================================================
