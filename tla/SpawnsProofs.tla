----------------------------- MODULE SpawnsProofs -----------------------------
(***************************************************************************)
(* Proofs about Spawns for every spawn table, number of players and bound: *)
(* its type invariant, that no entry ever has more mobs than copies, and   *)
(* that what the world believes a client shows is what the client shows.   *)
(***************************************************************************)
EXTENDS Spawns, FiniteSetTheorems, TLAPS

\* A group that no game master has made has no mobs.
GroupsAreMade == \A e \in Groups \ made : Alive(e) = {}

SpInv == TypeOK /\ GroupsAreMade /\ AliveWithinCount /\ SeenIsShown /\ NoPhantoms

-----------------------------------------------------------------------------
(* Finite sets                                                             *)

\* The sets of ids are finite, and so are those of mobs.
LEMMA IdsAreFinite ==
  /\ IsFiniteSet(Fresh) /\ Cardinality(Fresh) \in Nat
  /\ \A e \in Entries : IsFiniteSet(Alive(e)) /\ Cardinality(Alive(e)) \in Nat
<1>1. Fresh \subseteq Vids /\ \A e \in Entries : Alive(e) \subseteq Vids
  BY DEF Fresh, Alive
<1>2. \A S \in SUBSET Vids : IsFiniteSet(S) /\ Cardinality(S) \in Nat
  BY BoundsAssumption, FS_Subset, FS_CardinalityType
<1> QED
  BY <1>1, <1>2

\* The ids are numbered from 0 on without repetition.
LEMMA RanksDiffer ==
  ASSUME NEW v \in Fresh, NEW w \in Fresh
  PROVE  /\ Rank(v) \in Nat
         /\ v < w => Rank(v) < Rank(w)
<1> DEFINE below(u) == {x \in Fresh : x < u}
<1>1. \A u : IsFiniteSet(below(u)) /\ Cardinality(below(u)) \in Nat
  BY IdsAreFinite, FS_Subset, FS_CardinalityType
<1>2. ASSUME v < w PROVE Cardinality(below(v)) < Cardinality(below(w))
  <2>1. v \in Nat /\ w \in Nat /\ \A x \in Fresh : x \in Nat
    BY BoundsAssumption DEF Fresh
  <2>2. below(v) \subseteq below(w) /\ v \in below(w) /\ v \notin below(v)
    <3>1. \A x \in Fresh : x < v => x < w
      BY <2>1, <1>2
    <3>2. ~(v < v)
      BY <2>1
    <3> QED
      BY <3>1, <3>2, <1>2
  <2>3. Cardinality(below(v)) <= Cardinality(below(w))
    BY <1>1, <2>2, FS_Subset
  <2>4. Cardinality(below(v)) # Cardinality(below(w))
    BY <1>1, <2>2, FS_Subset
  <2> QED
    BY <1>1, <2>3, <2>4
<1> QED
  BY <1>1, <1>2 DEF Rank

\* Ids whose numbers are among n are at most n.
LEMMA FewIds ==
  ASSUME NEW S \in SUBSET Fresh, NEW lo \in Int, NEW n \in Nat,
         \A v \in S : Rank(v) - lo \in 0 .. n - 1
  PROVE  IsFiniteSet(S) /\ Cardinality(S) \in Nat /\ Cardinality(S) <= n
<1> DEFINE f == [v \in S |-> Rank(v) - lo]
<1>1. \A v, w \in S : v # w => f[v] # f[w]
  <2>1. \A v \in S : v \in Nat /\ Rank(v) \in Nat
    BY BoundsAssumption, RanksDiffer DEF Fresh
  <2>2. \A v, w \in S : v # w => Rank(v) # Rank(w)
    BY <2>1, RanksDiffer
  <2> QED
    BY <2>1, <2>2
<1>2. f \in Injection(S, 0 .. n - 1)
  BY <1>1 DEF Injection, IsInjective
<1>3. IsFiniteSet(0 .. n - 1) /\ Cardinality(0 .. n - 1) = n
  BY FS_Interval
<1>4. IsFiniteSet(S) /\ Cardinality(S) \in Nat
  BY IdsAreFinite, FS_Subset, FS_CardinalityType
<1> QED
  BY <1>2, <1>3, <1>4, FS_Injection

\* How many copies an entry lacks is an integer, and never more than its place.
LEMMA MissingFits ==
  ASSUME TypeOK, AliveWithinCount, NEW e \in Entries
  PROVE  /\ Missing(e) \in Nat
         /\ Missing(e) = 0 \/ Missing(e) + Cardinality(Alive(e)) <= Count[e]
<1>1. Cardinality(Alive(e)) \in Nat /\ Count[e] \in Nat /\ Cardinality(Alive(e)) <= Count[e]
  BY IdsAreFinite, EntriesAssumption DEF AliveWithinCount
<1>2. Alive(e) = {} => Cardinality(Alive(e)) = 0
  BY FS_EmptySet, Zenon
<1> QED
  BY <1>1, <1>2 DEF Missing

\* The copies that some entries lack can be counted.
LEMMA TotalsAreNumbers ==
  ASSUME TypeOK, AliveWithinCount, NEW S \in SUBSET Entries
  PROVE  Total(S) \in Nat
<1> DEFINE of(e) == {e} \X (1 .. Missing(e))
           f == [e \in S |-> of(e)]
           all == {of(e) : e \in S}
<1>1. ASSUME NEW e \in S PROVE IsFiniteSet(of(e))
  <2>1. Missing(e) \in Nat
    BY MissingFits
  <2>2. IsFiniteSet(1 .. Missing(e)) /\ IsFiniteSet({e})
    <3>1. IsFiniteSet(1 .. Missing(e))
      BY <2>1, FS_Interval
    <3>2. IsFiniteSet({e})
      BY FS_Singleton
    <3> QED
      BY <3>1, <3>2
  <2> QED
    BY <2>2, FS_Product
<1>2. IsFiniteSet(S)
  BY EntriesAssumption, FS_Subset
<1>3. f \in Surjection(S, all)
  BY DEF Surjection
<1>4. IsFiniteSet(all)
  BY <1>2, <1>3, FS_Surjection
<1>5. IsFiniteSet(UNION all)
  BY <1>1, <1>4, FS_UNION
<1> QED
  BY <1>5, FS_CardinalityType DEF Total, Lacking

\* An entry is given as many mobs as it lacks, with new ids.
LEMMA BirthsFit ==
  ASSUME TypeOK, AliveWithinCount, NEW e \in Entries, NEW z
  PROVE  /\ Born(e, z) \subseteq Fresh /\ (e \in Groups => Born(e, z) = {})
         /\ IsFiniteSet(Born(e, z)) /\ Cardinality(Born(e, z)) \in Nat
         /\ Born(e, z) = {} \/ Cardinality(Born(e, z)) + Cardinality(Alive(e)) <= Count[e]
<1> DEFINE before == Total({f \in Served(z) : f < e})
<1>1. before \in Nat
  BY TotalsAreNumbers DEF Served
<1>2. /\ Born(e, z) \subseteq Fresh /\ (e \in Groups => Born(e, z) = {})
      /\ \A v \in Born(e, z) : Rank(v) - before \in 0 .. Missing(e) - 1
  BY DEF Born, Served
<1>3. Missing(e) \in Nat
  BY MissingFits
<1>4. /\ IsFiniteSet(Born(e, z)) /\ Cardinality(Born(e, z)) \in Nat
      /\ Cardinality(Born(e, z)) <= Missing(e)
  <2> HIDE DEF before
  <2> QED
    BY <1>1, <1>2, <1>3, FewIds
<1>5. Missing(e) = 0 => Born(e, z) = {}
  BY <1>1, <1>2
<1>6. Cardinality(Alive(e)) \in Nat /\ Count[e] \in Nat
  BY IdsAreFinite, EntriesAssumption
<1> QED
  BY <1>2, <1>3, <1>4, <1>5, <1>6, MissingFits

-----------------------------------------------------------------------------
(* One update of the world                                                 *)

Places == [Players -> Zones \cup {"out"}]

\* What an update may make of a mob: it is new, it is no longer or not yet, or it is the same
\* with the players in view.
IsBorn(v, z) == \E e \in Entries : v \in Born(e, z) /\ mob'[v].entry = e
                                   /\ mob'[v] # NoMob /\ mob'[v].seen = Viewers(z)
IsAbsent(v, z) == mob'[v] = NoMob /\ (~Exists(v) \/ Despawns(v, z))
IsKept(v, z) == /\ Exists(v) /\ ~Despawns(v, z) /\ mob'[v] # NoMob
                /\ mob'[v].entry = mob[v].entry /\ mob'[v].seen = Seen(v, z)

\* A mob is what After says, but for whom it hunts.
LEMMA HuntersKeepTheRest ==
  ASSUME NEW z \in Places, NEW p \in Nearest(z), NEW m \in Mobs
  PROVE  /\ Hunting(m, z, p) \in Mobs /\ Hunting(m, z, p).entry = m.entry
         /\ Hunting(m, z, p).seen = m.seen /\ (m = NoMob <=> Hunting(m, z, p) = NoMob)
<1>1. p \in Players \cup {Nobody}
  BY DEF Nearest, Close
<1>2. CASE m = NoMob
  BY <1>2 DEF Hunting
<1>3. CASE m # NoMob
  <2>1. m \in [entry : Entries, hp : 1 .. MaxHp, hunts : Players \cup {Nobody, Gone},
               seen : SUBSET Players]
    BY <1>3 DEF Mobs
  <2>2. PICK h \in Players \cup {Nobody, Gone} : Hunting(m, z, p) = [m EXCEPT !.hunts = h]
    BY <1>1, <1>3, <2>1 DEF Hunting
  <2>3. m.entry # Nobody
    BY <2>1, NamesAssumption
  <2> QED
    BY <2>1, <2>2, <2>3, <1>3 DEF Mobs, NoMob
<1> QED
  BY <1>2, <1>3

\* What After says of a mob.
LEMMA AfterIs ==
  ASSUME TypeOK, NEW z \in Places, NEW v \in Vids
  PROVE  LET m == After(v, z, Births(z)) IN
           /\ m \in Mobs
           /\ \/ \E e \in Entries : v \in Born(e, z) /\ m.entry = e /\ m # NoMob
                                    /\ m.seen = Viewers(z)
              \/ m = NoMob /\ (~Exists(v) \/ Despawns(v, z))
              \/ /\ Exists(v) /\ ~Despawns(v, z) /\ m # NoMob
                 /\ m.entry = mob[v].entry /\ m.seen = Seen(v, z)
<1> DEFINE m == After(v, z, Births(z))
<1>1. \A e \in Entries : Births(z)[e] = Born(e, z)
  BY DEF Births
<1>2. Viewers(z) \in SUBSET Players /\ mob[v] \in Mobs
  BY DEF Viewers, TypeOK
<1>3. CASE \E e \in Entries : v \in Births(z)[e]
  <2>1. PICK e \in Entries : e = (CHOOSE f \in Entries : v \in Births(z)[f]) /\ v \in Births(z)[e]
    BY <1>3
  <2>2. m = [entry |-> e, hp |-> MaxHp, hunts |-> Nobody, seen |-> Viewers(z)]
    BY <1>3, <2>1 DEF After
  <2>3. MaxHp \in 1 .. MaxHp /\ e # Nobody
    BY BoundsAssumption, NamesAssumption
  <2>4. m \in Mobs /\ m # NoMob /\ m.entry = e /\ m.seen = Viewers(z)
    BY <2>2, <2>3, <1>2 DEF Mobs, NoMob
  <2> QED
    BY <2>1, <2>4, <1>1
<1>4. CASE ~(\E e \in Entries : v \in Births(z)[e]) /\ (~Exists(v) \/ Despawns(v, z))
  BY <1>4 DEF After, Mobs
<1>5. CASE ~(\E e \in Entries : v \in Births(z)[e]) /\ Exists(v) /\ ~Despawns(v, z)
  <2>1. m = [mob[v] EXCEPT !.seen = Seen(v, z)]
    BY <1>5 DEF After
  <2>2. mob[v] \in [entry : Entries, hp : 1 .. MaxHp, hunts : Players \cup {Nobody, Gone},
                    seen : SUBSET Players]
    BY <1>2, <1>5 DEF Mobs, Exists
  <2>3. Seen(v, z) \in SUBSET Players
    BY <1>2, <2>2 DEF Seen
  <2>4. mob[v].entry # Nobody
    BY <2>2, NamesAssumption
  <2> QED
    BY <2>1, <2>2, <2>3, <2>4, <1>5 DEF Mobs, NoMob
<1> QED
  BY <1>3, <1>4, <1>5

\* Every mob is born, absent or kept.
LEMMA Fates ==
  ASSUME TypeOK, NEW z \in Places, NEW known, Update(z, known)
  PROVE  /\ mob' \in [Vids -> Mobs]
         /\ \A v \in Vids : IsBorn(v, z) \/ IsAbsent(v, z) \/ IsKept(v, z)
<1>1. PICK p \in Nearest(z) : mob' = [v \in Vids |-> Hunting(After(v, z, Births(z)), z, p)]
  BY DEF Update
<1> SUFFICES ASSUME NEW v \in Vids
             PROVE  mob'[v] \in Mobs /\ (IsBorn(v, z) \/ IsAbsent(v, z) \/ IsKept(v, z))
  BY <1>1
<1>2. PICK m : m = After(v, z, Births(z))
  OBVIOUS
<1>3. mob'[v] = Hunting(m, z, p) /\ m \in Mobs
  BY <1>1, <1>2, AfterIs
<1>4. /\ mob'[v] \in Mobs /\ mob'[v].entry = m.entry /\ mob'[v].seen = m.seen
      /\ (m = NoMob <=> mob'[v] = NoMob)
  BY <1>3, HuntersKeepTheRest
<1>5. \/ \E e \in Entries : v \in Born(e, z) /\ m.entry = e /\ m # NoMob /\ m.seen = Viewers(z)
      \/ m = NoMob /\ (~Exists(v) \/ Despawns(v, z))
      \/ /\ Exists(v) /\ ~Despawns(v, z) /\ m # NoMob
         /\ m.entry = mob[v].entry /\ m.seen = Seen(v, z)
  BY <1>2, AfterIs
<1> QED
  BY <1>4, <1>5 DEF IsBorn, IsAbsent, IsKept

\* What an update says to the clients.
LEMMA Telling ==
  ASSUME NEW z, NEW known, Update(z, known), NEW p \in Players
  PROVE  LET born == UNION {Born(e, z) : e \in Entries}
             removed == {v \in Vids : Despawns(v, z)}
         IN shown'[p] = (known[p] \cup (IF p \in Viewers(z) THEN born ELSE {})
                         \cup {v \in Vids : Exists(v) /\ p \in Sent(v, z)})
                        \ (IF DespawnTells(p, z) THEN removed ELSE {})
<1>1. {Births(z)[e] : e \in Entries} = {Born(e, z) : e \in Entries}
  BY DEF Births
<1> QED
  BY <1>1 DEF Update

LEMMA UpdateKeepsTypes ==
  ASSUME TypeOK, NEW z \in Places, NEW known \in [Players -> SUBSET Vids], Update(z, known)
  PROVE  /\ due' \in [Entries -> Nat \cup {Idle, Never}] /\ \A e \in Entries : due'[e] <= Time[e]
         /\ corpses' \in [Entries -> Nat] /\ thinned' \subseteq Entries
         /\ shown' \in [Players -> SUBSET Vids]
<1>1. \A e \in Entries : /\ due[e] \in Nat \cup {Idle, Never} /\ due[e] <= Time[e]
                         /\ Time[e] \in Nat /\ corpses[e] \in Nat
  BY EntriesAssumption DEF TypeOK
<1>2. \A e \in Entries : Later(e) \in Nat \cup {Idle, Never} /\ Later(e) <= Time[e]
  BY <1>1 DEF Later, Idle, Never
<1>3. \A e \in Entries : Idle <= Time[e]
  BY <1>1 DEF Idle
<1>4. due' \in [Entries -> Nat \cup {Idle, Never}] /\ \A e \in Entries : due'[e] <= Time[e]
  <2>1. \A e \in Entries : due'[e] \in {Idle, Later(e)}
    BY DEF Update
  <2> QED
    BY <2>1, <1>2, <1>3 DEF Update
<1>5. corpses' \in [Entries -> Nat] /\ thinned' \subseteq Entries
  BY <1>1 DEF Update
<1>6. shown' \in [Players -> SUBSET Vids]
  <2>1. \A e \in Entries : Born(e, z) \subseteq Vids
    BY DEF Born, Fresh
  <2>2. \A p \in Players : shown'[p] \subseteq Vids
    BY <2>1, Telling
  <2>3. DOMAIN shown' = Players /\ shown' = [p \in Players |-> shown'[p]]
    BY DEF Update
  <2> QED
    BY <2>2, <2>3
<1> QED
  BY <1>4, <1>5, <1>6

\* An update makes no more mobs of an entry than it lacks, and none of a group.
LEMMA UpdateKeepsCounts ==
  ASSUME TypeOK, AliveWithinCount, NEW z \in Places, NEW known, Update(z, known),
         NEW e \in Entries
  PROVE  /\ Cardinality(Alive(e)') <= Count[e]
         /\ e \in Groups => Alive(e)' \subseteq Alive(e)
<1>1. Alive(e)' \subseteq Born(e, z) \cup Alive(e)
  <2>1. ASSUME NEW v \in Vids, mob'[v].entry = e PROVE v \in Born(e, z) \/ mob[v].entry = e
    BY <2>1, Fates, NamesAssumption DEF IsBorn, IsAbsent, IsKept, NoMob
  <2> QED
    BY <2>1 DEF Alive
<1>2. /\ Born(e, z) \subseteq Fresh /\ (e \in Groups => Born(e, z) = {})
      /\ IsFiniteSet(Born(e, z)) /\ Cardinality(Born(e, z)) \in Nat
      /\ Born(e, z) = {} \/ Cardinality(Born(e, z)) + Cardinality(Alive(e)) <= Count[e]
  BY BirthsFit
<1>3. /\ IsFiniteSet(Alive(e)) /\ Cardinality(Alive(e)) \in Nat /\ Count[e] \in Nat
      /\ Cardinality(Alive(e)) <= Count[e]
  BY IdsAreFinite, EntriesAssumption DEF AliveWithinCount
<1>4. CASE Born(e, z) = {}
  <2>1. Alive(e)' \subseteq Alive(e)
    BY <1>1, <1>4
  <2>2. Cardinality(Alive(e)') \in Nat /\ Cardinality(Alive(e)') <= Cardinality(Alive(e))
    BY <2>1, <1>3, FS_Subset, FS_CardinalityType
  <2> QED
    BY <2>1, <2>2, <1>3
<1>5. CASE Born(e, z) # {}
  <2>1. IsFiniteSet(Born(e, z) \cup Alive(e))
    BY <1>2, <1>3, FS_Union
  <2>2. Cardinality(Born(e, z) \cup Alive(e)) <= Cardinality(Born(e, z)) + Cardinality(Alive(e))
    <3>1. Cardinality(Born(e, z) \cup Alive(e))
          = Cardinality(Born(e, z)) + Cardinality(Alive(e)) - Cardinality(Born(e, z) \cap Alive(e))
      BY <1>2, <1>3, FS_Union
    <3>2. Cardinality(Born(e, z) \cap Alive(e)) \in Nat
      BY <1>2, FS_Subset, FS_CardinalityType
    <3> QED
      BY <3>1, <3>2, <1>2, <1>3
  <2>3. Cardinality(Alive(e)') <= Cardinality(Born(e, z) \cup Alive(e))
    BY <1>1, <2>1, FS_Subset
  <2>4. Cardinality(Alive(e)') \in Nat /\ Cardinality(Born(e, z) \cup Alive(e)) \in Nat
    BY <1>1, <2>1, FS_Subset, FS_CardinalityType
  <2> QED
    BY <2>2, <2>3, <2>4, <1>2, <1>3, <1>5
<1> QED
  BY <1>4, <1>5

\* Who is in view and counted as having been sent a mob is shown it after an update, or was
\* blind to it and still is.
LEMMA UpdateShows ==
  ASSUME SpInv, NEW z \in Places, NEW known \in [Players -> SUBSET Vids], Update(z, known),
         NEW p \in Players, InWorld(p, z), NEW v \in Vids, mob'[v] # NoMob, p \in mob'[v].seen,
         mob'[v].entry \notin Groups
  PROVE  \/ v \in shown'[p]
         \/ IsKept(v, z) /\ p \in mob[v].seen /\ p \in Viewers(z) /\ v \notin known[p]
<1>1. IsBorn(v, z) \/ IsKept(v, z)
  BY Fates DEF SpInv, IsAbsent
<1>2. CASE IsBorn(v, z)
  <2>1. PICK e \in Entries : v \in Born(e, z)
    BY <1>2 DEF IsBorn
  <2>2. ~Despawns(v, z)
    BY <2>1 DEF Born, Fresh, Despawns
  <2>3. p \in Viewers(z)
    BY <1>2 DEF IsBorn
  <2> QED
    BY <2>1, <2>2, <2>3, Telling
<1>3. CASE IsKept(v, z)
  <2>1. p \in Viewers(z)
    BY <1>3 DEF IsKept, Seen
  <2>2. Exists(v) /\ ~Despawns(v, z)
    BY <1>3 DEF IsKept
  <2>3. CASE p \in mob[v].seen
    BY <1>3, <2>1, <2>2, <2>3, Telling
  <2>4. CASE p \notin mob[v].seen
    <3>1. p \in Sent(v, z)
      BY <1>3, <2>1, <2>4 DEF Sent, IsKept
    <3> QED
      BY <3>1, <2>2, Telling
  <2> QED
    BY <2>3, <2>4
<1> QED
  BY <1>1, <1>2, <1>3

\* What a client shows after an update exists, unless it did not exist before and was shown.
LEMMA UpdateHides ==
  ASSUME SpInv, NEW z \in Places, NEW known \in [Players -> SUBSET Vids], Update(z, known),
         NEW p \in Players, InWorld(p, z), NEW v \in shown'[p]
  PROVE  mob'[v] # NoMob \/ (v \in known[p] /\ ~Exists(v))
<1>1. v \in Vids
  BY UpdateKeepsTypes DEF SpInv
<1>2. SUFFICES ASSUME IsAbsent(v, z) PROVE v \in known[p] /\ ~Exists(v)
  BY <1>1, Fates DEF SpInv, IsBorn, IsKept
<1>3. ~Despawns(v, z)
  BY <1>1, Telling DEF DespawnTells
<1>4. ~Exists(v) /\ mob'[v] = NoMob
  BY <1>2, <1>3 DEF IsAbsent
<1>5. ASSUME NEW e \in Entries, v \in Born(e, z) PROVE FALSE
  <2>1. PICK q \in Nearest(z) : mob'[v] = Hunting(After(v, z, Births(z)), z, q)
    BY <1>1 DEF Update
  <2>2. \E f \in Entries : v \in Births(z)[f]
    BY <1>5 DEF Births
  <2>3. PICK m : m = After(v, z, Births(z))
    OBVIOUS
  <2>4. m.hp = MaxHp
    BY <2>2, <2>3 DEF After
  <2>5. m \in Mobs /\ m # NoMob
    BY <2>3, <2>4, <1>1, AfterIs, BoundsAssumption DEF NoMob, SpInv
  <2> QED
    BY <2>1, <2>3, <2>5, <1>4, HuntersKeepTheRest
<1> QED
  BY <1>3, <1>4, <1>5, Telling

-----------------------------------------------------------------------------
(* The steps                                                               *)

\* A step that moves no mob of an entry and adds none keeps the counts.
LEMMA CountsStay ==
  ASSUME SpInv, made \subseteq made', \A v \in Vids : mob'[v].entry \in {mob[v].entry, Nobody}
  PROVE  GroupsAreMade' /\ AliveWithinCount'
<1>1. ASSUME NEW e \in Entries
      PROVE  Alive(e)' \subseteq Alive(e) /\ Cardinality(Alive(e)') <= Count[e]
  <2>1. Alive(e)' \subseteq Alive(e)
    BY NamesAssumption DEF Alive
  <2>2. /\ Cardinality(Alive(e)') \in Nat /\ Cardinality(Alive(e)') <= Cardinality(Alive(e))
        /\ Cardinality(Alive(e)) \in Nat
    BY <2>1, IdsAreFinite, FS_Subset, FS_CardinalityType
  <2>3. Count[e] \in Nat /\ Cardinality(Alive(e)) <= Count[e]
    BY EntriesAssumption DEF SpInv, AliveWithinCount
  <2> QED
    BY <2>1, <2>2, <2>3
<1>2. AliveWithinCount'
  BY <1>1 DEF AliveWithinCount
<1>3. GroupsAreMade'
  BY <1>1, EntriesAssumption DEF SpInv, GroupsAreMade
<1> QED
  BY <1>2, <1>3

LEMMA InitSp == Init => SpInv
<1> SUFFICES ASSUME Init PROVE SpInv
  OBVIOUS
<1>1. TypeOK
  BY EntriesAssumption, BoundsAssumption DEF Init, TypeOK, Mobs, Idle
<1>2. \A e \in Entries : Alive(e) = {}
  BY NamesAssumption DEF Init, Alive, NoMob
<1>3. AliveWithinCount
  <2>1. \A e \in Entries : Cardinality(Alive(e)) = 0
    BY <1>2, FS_EmptySet, Zenon
  <2> QED
    BY <2>1, EntriesAssumption DEF AliveWithinCount
<1>4. GroupsAreMade /\ SeenIsShown /\ NoPhantoms
  BY <1>2, EntriesAssumption DEF Init, GroupsAreMade, SeenIsShown, NoPhantoms, InWorld
<1> QED
  BY <1>1, <1>3, <1>4 DEF SpInv

LEMMA TickKeeps ==
  ASSUME SpInv, Tick PROVE SpInv'
<1>1. Update(zone, shown) /\ zone \in Places /\ shown \in [Players -> SUBSET Vids]
  BY DEF Tick, SpInv, TypeOK, Places
<1>2. /\ mob' \in [Vids -> Mobs]
      /\ \A v \in Vids : IsBorn(v, zone) \/ IsAbsent(v, zone) \/ IsKept(v, zone)
  BY <1>1, Fates DEF SpInv
<1>3. TypeOK'
  <2>1. blind' \in [Players -> SUBSET Vids]
    BY DEF Tick, SpInv, TypeOK
  <2> QED
    BY <1>1, <1>2, <2>1, UpdateKeepsTypes DEF Tick, SpInv, TypeOK
<1>4. AliveWithinCount' /\ GroupsAreMade'
  BY <1>1, UpdateKeepsCounts, EntriesAssumption DEF SpInv, AliveWithinCount, GroupsAreMade, Tick
<1>5. SeenIsShown'
  <2> SUFFICES ASSUME NEW p \in Players, NEW v \in Vids,
                      InWorld(p, zone), mob'[v] # NoMob, mob'[v].entry \notin Groups,
                      p \in mob'[v].seen
               PROVE  v \in shown'[p] \cup blind'[p]
    BY DEF SeenIsShown, Tick, Exists
  <2>1. CASE IsKept(v, zone) /\ p \in mob[v].seen /\ p \in Viewers(zone) /\ v \notin shown[p]
    <3>1. v \in blind[p]
      BY <2>1 DEF SpInv, SeenIsShown, IsKept
    <3> QED
      BY <3>1, <2>1 DEF Tick
  <2> QED
    BY <2>1, <1>1, UpdateShows
<1>6. NoPhantoms'
  BY <1>1, UpdateHides DEF Tick, SpInv, NoPhantoms, Exists
<1> QED
  BY <1>3, <1>4, <1>5, <1>6 DEF SpInv

LEMMA JoinKeeps ==
  ASSUME SpInv, NEW p \in Players, NEW at \in Zones, Join(p, at)
  PROVE  SpInv'
<1> DEFINE known == [shown EXCEPT ![p] = {}]
           z == [zone EXCEPT ![p] = at]
<1>1. zone' = z /\ Update(z, known) /\ z \in Places /\ known \in [Players -> SUBSET Vids]
  <2>1. z \in Places /\ known \in [Players -> SUBSET Vids]
    BY DEF SpInv, TypeOK, Places
  <2> QED
    BY <2>1 DEF Join
<1>2. mob' \in [Vids -> Mobs]
  BY <1>1, Fates DEF SpInv
<1>3. TypeOK'
  <2>1. blind' \in [Players -> SUBSET Vids]
    BY DEF Join, SpInv, TypeOK
  <2>2. spent' \in 0 .. MaxEvents
    BY BoundsAssumption DEF Join, Spend, SpInv, TypeOK
  <2>3. zone' \in [Players -> Zones \cup {"out"}]
    BY <1>1 DEF Places
  <2>4. made' \subseteq Groups /\ ghosts' \in [Players -> SUBSET Vids]
    BY DEF Join, SpInv, TypeOK
  <2>5. /\ due' \in [Entries -> Nat \cup {Idle, Never}] /\ \A e \in Entries : due'[e] <= Time[e]
        /\ corpses' \in [Entries -> Nat] /\ thinned' \subseteq Entries
        /\ shown' \in [Players -> SUBSET Vids]
    BY <1>1, UpdateKeepsTypes DEF SpInv
  <2> QED
    BY <1>2, <2>1, <2>2, <2>3, <2>4, <2>5 DEF TypeOK
<1>4. AliveWithinCount' /\ GroupsAreMade'
  BY <1>1, UpdateKeepsCounts, EntriesAssumption DEF SpInv, AliveWithinCount, GroupsAreMade, Join
<1>5. \A q \in Players : q # p => z[q] = zone[q] /\ known[q] = shown[q] /\ blind'[q] = blind[q]
  BY DEF Join, SpInv, TypeOK
<1>6. z[p] = at /\ known[p] = {}
  BY DEF SpInv, TypeOK
<1>7. SeenIsShown'
  <2> SUFFICES ASSUME NEW q \in Players, NEW v \in Vids,
                      InWorld(q, z), mob'[v] # NoMob, mob'[v].entry \notin Groups,
                      q \in mob'[v].seen
               PROVE  v \in shown'[q] \cup blind'[q]
    BY <1>1 DEF SeenIsShown, Exists
  <2>1. CASE IsKept(v, z) /\ q \in mob[v].seen /\ q \in Viewers(z) /\ v \notin known[q]
    <3>1. CASE q = p
      <4>1. at \in Near /\ Exists(v)
        BY <2>1, <3>1, <1>6 DEF Viewers, IsKept
      <4>2. blind'[p] = {w \in Vids : Exists(w) /\ p \in mob[w].seen}
        BY <4>1 DEF Join, SpInv, TypeOK
      <4> QED
        BY <4>1, <4>2, <2>1, <3>1
    <3>2. CASE q # p
      <4>1. InWorld(q, zone) /\ v \notin shown[q] /\ Exists(v)
        BY <3>2, <1>5, <2>1 DEF InWorld, IsKept
      <4> QED
        BY <4>1, <3>2, <1>5, <2>1 DEF SpInv, SeenIsShown, IsKept
    <3> QED
      BY <3>1, <3>2
  <2> QED
    BY <2>1, <1>1, UpdateShows
<1>8. NoPhantoms'
  <2> SUFFICES ASSUME NEW q \in Players, InWorld(q, z), NEW v \in shown'[q]
               PROVE  mob'[v] # NoMob \/ v \in ghosts'[q]
    BY <1>1 DEF NoPhantoms, Exists
  <2>1. CASE v \in known[q] /\ ~Exists(v)
    <3>1. q # p /\ InWorld(q, zone) /\ v \in shown[q]
      BY <2>1, <1>5, <1>6 DEF InWorld
    <3> QED
      BY <3>1, <2>1 DEF SpInv, NoPhantoms, Join
  <2> HIDE DEF known, z
  <2> QED
    BY <2>1, <1>1, UpdateHides
<1> QED
  BY <1>3, <1>4, <1>7, <1>8 DEF SpInv

LEMMA LeaveKeeps ==
  ASSUME SpInv, NEW p \in Players, Leave(p)
  PROVE  SpInv'
<1>1. /\ zone' \in [Players -> Zones \cup {"out"}] /\ zone'[p] = "out"
      /\ \A q \in Players : q # p => zone'[q] = zone[q]
  BY DEF Leave, SpInv, TypeOK
<1>2. ASSUME NEW v \in Vids
      PROVE  /\ mob'[v] \in Mobs /\ mob'[v].entry = mob[v].entry /\ mob'[v].seen = mob[v].seen
             /\ (mob'[v] = NoMob <=> mob[v] = NoMob)
  <2>1. mob[v] \in Mobs
    BY DEF SpInv, TypeOK
  <2>2. CASE Exists(v) /\ mob[v].hunts = p
    <3>1. mob[v] \in [entry : Entries, hp : 1 .. MaxHp, hunts : Players \cup {Nobody, Gone},
                      seen : SUBSET Players]
      BY <2>1, <2>2 DEF Mobs, Exists
    <3>2. mob'[v] = [mob[v] EXCEPT !.hunts = Gone]
      BY <2>2 DEF Leave
    <3>3. mob[v].entry # Nobody
      BY <3>1, NamesAssumption
    <3> QED
      BY <3>1, <3>2, <3>3 DEF Mobs, NoMob
  <2>3. CASE ~(Exists(v) /\ mob[v].hunts = p)
    BY <2>1, <2>3 DEF Leave
  <2> QED
    BY <2>2, <2>3
<1>3. mob' \in [Vids -> Mobs]
  BY <1>2 DEF Leave
<1>4. \A q \in Players : /\ q # p => /\ shown'[q] = shown[q] /\ blind'[q] = blind[q]
                                     /\ ghosts'[q] = ghosts[q]
  BY DEF Leave, SpInv, TypeOK
<1>5. /\ shown' \in [Players -> SUBSET Vids] /\ blind' \in [Players -> SUBSET Vids]
      /\ ghosts' \in [Players -> SUBSET Vids]
  BY DEF Leave, SpInv, TypeOK
<1>6. TypeOK'
  BY <1>1, <1>3, <1>5 DEF Leave, SpInv, TypeOK
<1>7. GroupsAreMade' /\ AliveWithinCount'
  BY <1>2, CountsStay DEF Leave
<1>8. SeenIsShown'
  BY <1>1, <1>2, <1>4 DEF SpInv, SeenIsShown, InWorld, Exists
<1>9. NoPhantoms'
  BY <1>1, <1>2, <1>4, <1>5 DEF SpInv, NoPhantoms, InWorld, Exists, TypeOK
<1> QED
  BY <1>6, <1>7, <1>8, <1>9 DEF SpInv

LEMMA MoveKeeps ==
  ASSUME SpInv, NEW p \in Players, NEW to \in Zones, Move(p, to)
  PROVE  SpInv'
<1>1. /\ zone' \in [Players -> Zones \cup {"out"}]
      /\ \A q \in Players : InWorld(q, zone') => InWorld(q, zone)
  BY DEF Move, SpInv, TypeOK, InWorld
<1>2. /\ UNCHANGED <<mob, due, corpses, thinned, made, shown, blind, ghosts>>
      /\ spent' \in 0 .. MaxEvents
  BY BoundsAssumption DEF Move, view, Spend, SpInv, TypeOK
<1>3. TypeOK'
  BY <1>1, <1>2 DEF SpInv, TypeOK
<1>4. GroupsAreMade' /\ AliveWithinCount'
  BY <1>2, CountsStay
<1>5. SeenIsShown' /\ NoPhantoms'
  BY <1>1, <1>2 DEF SpInv, SeenIsShown, NoPhantoms, Exists
<1> QED
  BY <1>3, <1>4, <1>5 DEF SpInv

LEMMA StrikeKeeps ==
  ASSUME SpInv, NEW p \in Players, NEW v \in Vids, Strike(p, v)
  PROVE  SpInv'
<1>1. mob[v] \in [entry : Entries, hp : 1 .. MaxHp, hunts : Players \cup {Nobody, Gone},
                  seen : SUBSET Players]
  BY DEF Strike, SpInv, TypeOK, Mobs, Exists
<1>2. mob[v].hp > 1 /\ mob[v].hp - 1 \in 1 .. MaxHp /\ mob[v].entry # Nobody
  BY <1>1, BoundsAssumption, NamesAssumption DEF Strike
<1>3. /\ mob'[v] = [mob[v] EXCEPT !.hp = mob[v].hp - 1, !.hunts = p]
      /\ \A w \in Vids \ {v} : mob'[w] = mob[w]
      /\ mob' = [w \in Vids |-> mob'[w]]
  <2>1. mob \in [Vids -> Mobs]
    BY DEF SpInv, TypeOK
  <2>2. mob' = [mob EXCEPT ![v] = Struck(mob[v], p)]
    BY DEF Strike
  <2> QED
    BY <2>1, <2>2 DEF Struck
<1>4. /\ mob'[v] \in Mobs /\ mob'[v] # NoMob /\ mob'[v].entry = mob[v].entry
      /\ mob'[v].seen = mob[v].seen
  <2>1. mob'[v] = [entry |-> mob[v].entry, hp |-> mob[v].hp - 1, hunts |-> p,
                   seen |-> mob[v].seen]
    BY <1>1, <1>3
  <2> QED
    BY <2>1, <1>1, <1>2 DEF Mobs, NoMob
<1>5. mob' \in [Vids -> Mobs]
  BY <1>3, <1>4 DEF SpInv, TypeOK
<1>6. /\ UNCHANGED <<zone, due, corpses, thinned, made, shown, blind, ghosts>>
      /\ spent' \in 0 .. MaxEvents
  BY BoundsAssumption DEF Strike, view, Spend, SpInv, TypeOK
<1>7. TypeOK'
  BY <1>5, <1>6 DEF SpInv, TypeOK
<1>8. \A w \in Vids : /\ mob'[w].entry = mob[w].entry /\ mob'[w].seen = mob[w].seen
                      /\ (mob'[w] = NoMob <=> mob[w] = NoMob)
  BY <1>3, <1>4 DEF Strike, Exists
<1>9. GroupsAreMade' /\ AliveWithinCount'
  BY <1>6, <1>8, CountsStay
<1>10. SeenIsShown' /\ NoPhantoms'
  BY <1>6, <1>8 DEF SpInv, TypeOK, SeenIsShown, NoPhantoms, InWorld, Exists
<1> QED
  BY <1>7, <1>9, <1>10 DEF SpInv

\* A death: the mob is gone, the deadline of its entry is set.
LEMMA BuryKeeps ==
  ASSUME SpInv, NEW v \in Vids, Exists(v), Bury(v), made' = made
  PROVE  /\ mob' \in [Vids -> Mobs] /\ mob'[v] = NoMob
         /\ \A w \in Vids \ {v} : mob'[w] = mob[w]
         /\ due' \in [Entries -> Nat \cup {Idle, Never}] /\ \A e \in Entries : due'[e] <= Time[e]
         /\ corpses' \in [Entries -> Nat]
         /\ GroupsAreMade' /\ AliveWithinCount'
<1>1. mob[v].entry \in Entries
  BY DEF SpInv, TypeOK, Mobs, Exists
<1>2. /\ mob' \in [Vids -> Mobs] /\ mob'[v] = NoMob
      /\ \A w \in Vids \ {v} : mob'[w] = mob[w]
  BY DEF Bury, SpInv, TypeOK, Mobs
<1>3. due' \in [Entries -> Nat \cup {Idle, Never}] /\ \A e \in Entries : due'[e] <= Time[e]
  <2>1. due' = [due EXCEPT ![mob[v].entry] = IF Time[mob[v].entry] = 0 THEN Never
                                             ELSE Time[mob[v].entry]]
    BY DEF Bury
  <2>2. due \in [Entries -> Nat \cup {Idle, Never}] /\ \A e \in Entries : due[e] <= Time[e]
    BY DEF SpInv, TypeOK
  <2>3. \A e \in Entries : Time[e] \in Nat
    BY EntriesAssumption
  <2> QED
    BY <2>1, <2>2, <2>3, <1>1 DEF Never
<1>4. corpses' \in [Entries -> Nat]
  BY <1>1 DEF Bury, SpInv, TypeOK
<1>5. GroupsAreMade' /\ AliveWithinCount'
  BY <1>2, CountsStay DEF NoMob
<1> QED
  BY <1>2, <1>3, <1>4, <1>5

LEMMA KillKeeps ==
  ASSUME SpInv, NEW p \in Players, NEW v \in Vids, Kill(p, v)
  PROVE  SpInv'
<1>1. Exists(v) /\ Bury(v) /\ UNCHANGED <<zone, thinned, made>>
  BY DEF Kill
<1>2. /\ mob' \in [Vids -> Mobs] /\ mob'[v] = NoMob
      /\ \A w \in Vids \ {v} : mob'[w] = mob[w]
      /\ due' \in [Entries -> Nat \cup {Idle, Never}] /\ \A e \in Entries : due'[e] <= Time[e]
      /\ corpses' \in [Entries -> Nat]
      /\ GroupsAreMade' /\ AliveWithinCount'
  BY <1>1, BuryKeeps
<1>3. /\ shown' \in [Players -> SUBSET Vids] /\ blind' \in [Players -> SUBSET Vids]
      /\ ghosts' \in [Players -> SUBSET Vids]
  BY DEF Kill, SpInv, TypeOK
<1>4. \A q \in Players :
        /\ shown'[q] = IF q = p THEN shown[q] \ {v} ELSE shown[q]
        /\ blind'[q] = blind[q] \ {v}
        /\ ghosts'[q] = IF q # p /\ v \in shown[q] THEN ghosts[q] \cup {v} ELSE ghosts[q]
  BY DEF Kill, SpInv, TypeOK
<1>5. TypeOK'
  <2>1. spent' \in 0 .. MaxEvents
    BY BoundsAssumption DEF Kill, Spend, SpInv, TypeOK
  <2> QED
    BY <1>1, <1>2, <1>3, <2>1 DEF SpInv, TypeOK
<1>6. SeenIsShown'
  BY <1>1, <1>2, <1>4 DEF SpInv, SeenIsShown, InWorld, Exists
<1>7. NoPhantoms'
  BY <1>1, <1>2, <1>3, <1>4 DEF SpInv, NoPhantoms, InWorld, Exists
<1> QED
  BY <1>2, <1>5, <1>6, <1>7 DEF SpInv

LEMMA GmKillKeeps ==
  ASSUME SpInv, NEW v \in Vids, GmKill(v)
  PROVE  SpInv'
<1>1. Exists(v) /\ Bury(v) /\ UNCHANGED <<zone, thinned, made, ghosts>>
  BY DEF GmKill
<1>2. /\ mob' \in [Vids -> Mobs] /\ mob'[v] = NoMob
      /\ \A w \in Vids \ {v} : mob'[w] = mob[w]
      /\ due' \in [Entries -> Nat \cup {Idle, Never}] /\ \A e \in Entries : due'[e] <= Time[e]
      /\ corpses' \in [Entries -> Nat]
      /\ GroupsAreMade' /\ AliveWithinCount'
  BY <1>1, BuryKeeps
<1>3. /\ shown' \in [Players -> SUBSET Vids] /\ blind' \in [Players -> SUBSET Vids]
      /\ \A q \in Players : shown'[q] = shown[q] \ {v} /\ blind'[q] = blind[q] \ {v}
  BY DEF GmKill, SpInv, TypeOK
<1>4. TypeOK'
  <2>1. spent' \in 0 .. MaxEvents
    BY BoundsAssumption DEF GmKill, Spend, SpInv, TypeOK
  <2> QED
    BY <1>1, <1>2, <1>3, <2>1 DEF SpInv, TypeOK
<1>5. SeenIsShown'
  BY <1>1, <1>2, <1>3 DEF SpInv, SeenIsShown, InWorld, Exists
<1>6. NoPhantoms'
  BY <1>1, <1>2, <1>3 DEF SpInv, NoPhantoms, InWorld, Exists
<1> QED
  BY <1>2, <1>4, <1>5, <1>6 DEF SpInv

LEMMA GmSpawnKeeps ==
  ASSUME SpInv, NEW p \in Players, NEW e \in Groups, GmSpawn(p, e)
  PROVE  SpInv'
<1> DEFINE ids == NextIds(Count[e])
           m == [entry |-> e, hp |-> MaxHp, hunts |-> Nobody, seen |-> {p}]
<1>1. e \in Entries /\ e # Nobody /\ e \notin made
  BY EntriesAssumption, NamesAssumption DEF GmSpawn
<1>2. m \in Mobs /\ m # NoMob /\ m.entry = e /\ m.seen = {p}
  BY <1>1, BoundsAssumption DEF Mobs, NoMob
<1>3. ids \subseteq Fresh /\ ids \subseteq Vids /\ \A v \in ids : ~Exists(v)
  BY DEF NextIds, Fresh
<1>4. /\ \A v \in Vids : mob'[v] = IF v \in ids THEN m ELSE mob[v]
      /\ mob' \in [Vids -> Mobs]
  <2> HIDE DEF m
  <2>1. mob' = [v \in Vids |-> IF v \in ids THEN m ELSE mob[v]]
    BY DEF GmSpawn, m
  <2> QED
    BY <2>1, <1>2 DEF SpInv, TypeOK
<1>5. /\ shown' \in [Players -> SUBSET Vids]
      /\ \A q \in Players : shown'[q] = IF q = p THEN shown[q] \cup ids ELSE shown[q]
  BY <1>3 DEF GmSpawn, SpInv, TypeOK
<1>6. UNCHANGED <<zone, due, corpses, thinned, blind, ghosts>> /\ made' = made \cup {e}
  BY DEF GmSpawn
<1>7. TypeOK'
  <2>1. spent' \in 0 .. MaxEvents
    BY BoundsAssumption DEF GmSpawn, Spend, SpInv, TypeOK
  <2> QED
    BY <1>4, <1>5, <1>6, <2>1 DEF SpInv, TypeOK
<1> HIDE DEF m
<1>8. AliveWithinCount'
  <2> SUFFICES ASSUME NEW f \in Entries PROVE Cardinality(Alive(f)') <= Count[f]
    BY DEF AliveWithinCount
  <2>1. CASE f = e
    <3>1. Alive(e) = {}
      BY <1>1 DEF SpInv, GroupsAreMade
    <3>2. Alive(e)' \subseteq ids
      BY <1>4, <3>1 DEF Alive
    <3>3. Count[e] \in Nat
      BY <1>1, EntriesAssumption
    <3>4. \A v \in Alive(e)' : Rank(v) - 0 \in 0 .. Count[e] - 1
      <4>1. \A v \in ids : Rank(v) \in Nat /\ Rank(v) < Count[e]
        BY <1>3, RanksDiffer DEF NextIds
      <4> HIDE DEF ids
      <4> QED
        BY <4>1, <3>2, <3>3
    <3>5. Alive(e)' \in SUBSET Fresh
      BY <3>2, <1>3
    <3> QED
      BY <2>1, <3>3, <3>4, <3>5, FewIds
  <2>2. CASE f # e
    <3>1. Alive(f)' \subseteq Alive(f)
      BY <1>2, <1>4, <2>2 DEF Alive
    <3>2. /\ Cardinality(Alive(f)') \in Nat /\ Cardinality(Alive(f)') <= Cardinality(Alive(f))
          /\ Cardinality(Alive(f)) \in Nat
      BY <3>1, IdsAreFinite, FS_Subset, FS_CardinalityType
    <3>3. Count[f] \in Nat /\ Cardinality(Alive(f)) <= Count[f]
      BY EntriesAssumption DEF SpInv, AliveWithinCount
    <3> QED
      BY <3>2, <3>3
  <2> QED
    BY <2>1, <2>2
<1>9. GroupsAreMade'
  <2> SUFFICES ASSUME NEW f \in Groups \ made, f # e PROVE Alive(f)' = {}
    BY <1>6 DEF GroupsAreMade
  <2>1. Alive(f) = {}
    BY DEF SpInv, GroupsAreMade
  <2> QED
    BY <2>1, <1>2, <1>4 DEF Alive
<1>10. SeenIsShown'
  BY <1>2, <1>4, <1>5, <1>6 DEF SpInv, SeenIsShown, InWorld, Exists
<1>11. NoPhantoms'
  BY <1>2, <1>3, <1>4, <1>5, <1>6 DEF SpInv, TypeOK, NoPhantoms, InWorld, Exists
<1> QED
  BY <1>7, <1>8, <1>9, <1>10, <1>11 DEF SpInv

LEMMA StepSp == SpInv /\ [Next]_vars => SpInv'
<1> SUFFICES ASSUME SpInv, [Next]_vars PROVE SpInv'
  OBVIOUS
<1>1. CASE Tick
  BY <1>1, TickKeeps
<1>2. CASE \E v \in Vids : GmKill(v)
  BY <1>2, GmKillKeeps
<1>3. ASSUME NEW p \in Players, Play(p) PROVE SpInv'
  <2>1. CASE Leave(p)
    BY <2>1, LeaveKeeps
  <2>2. CASE \E z \in Zones : Join(p, z) \/ Move(p, z)
    BY <2>2, JoinKeeps, MoveKeeps
  <2>3. CASE \E v \in Vids : Strike(p, v) \/ Kill(p, v)
    BY <2>3, StrikeKeeps, KillKeeps
  <2>4. CASE \E e \in Groups : GmSpawn(p, e)
    BY <2>4, GmSpawnKeeps
  <2> QED
    BY <1>3, <2>1, <2>2, <2>3, <2>4 DEF Play
<1>4. CASE UNCHANGED vars
  <2>1. UNCHANGED <<zone, mob, due, corpses, thinned, made, shown, blind, ghosts, spent>>
    BY <1>4 DEF vars, view
  <2>2. TypeOK'
    BY <2>1 DEF SpInv, TypeOK
  <2>3. GroupsAreMade' /\ AliveWithinCount'
    BY <2>1, CountsStay
  <2>4. SeenIsShown' /\ NoPhantoms'
    BY <2>1 DEF SpInv, SeenIsShown, NoPhantoms, InWorld, Exists
  <2> QED
    BY <2>2, <2>3, <2>4 DEF SpInv
<1> QED
  BY <1>1, <1>2, <1>3, <1>4 DEF Next

-----------------------------------------------------------------------------
\* The mobs, the table and the screens are related as above in every reachable state.
THEOREM SpawnsAreConsistent == Spec => []SpInv
BY InitSp, StepSp, PTL DEF Spec

\* Every variable has its type.
THEOREM SpawnsTypeCorrect == Spec => []TypeOK
BY SpawnsAreConsistent, PTL DEF SpInv

\* However deaths, returns and updates interleave, an entry has no more mobs than copies.
THEOREM EntriesStayWithinCount == Spec => []AliveWithinCount
BY SpawnsAreConsistent, PTL DEF SpInv

\* What a mob of the spawn table counts as sent to a player is on the screen, unless the mob
\* remembers the client before.
THEOREM SeenStaysShown == Spec => []SeenIsShown
BY SpawnsAreConsistent, PTL DEF SpInv

\* A screen shows no mob that is gone, but for those that somebody else killed.
THEOREM NoPhantomsAppear == Spec => []NoPhantoms
BY SpawnsAreConsistent, PTL DEF SpInv
=============================================================================
