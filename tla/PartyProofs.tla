----------------------------- MODULE PartyProofs -----------------------------
(***************************************************************************)
(* Proofs about Party for every finite set of players, size of a party and *)
(* set of roles: parties are well formed, nobody is in two of them, a seat *)
(* is of a connection that is there, and every session knows its party or  *)
(* a message on its way tells it, whichever handlers are between their     *)
(* locks.                                                                  *)
(***************************************************************************)
EXTENDS Party, FiniteSetTheorems, SequenceTheorems, TLAPS

-----------------------------------------------------------------------------
(* The inductive invariant                                                 *)

\* What a handler holds between two locks is what its next step needs: a guest goes to the party
\* of somebody else, and who leaves for good leaves his own seat.
JobsAreFormed ==
  /\ \A i \in invites : i[1] # i[2]
  /\ \A p \in Players, c \in Conns :
       /\ at[p][c] \in {"change", "leave"} => job[p][c].party \in Players
       /\ job[p][c].how = "join" => job[p][c].party # p
       /\ at[p][c] = "leave" =>
            /\ job[p][c].how = IF p = job[p][c].party THEN "disband" ELSE "remove"
            /\ job[p][c].target = p

\* Only the last connection of a player is alive, and it is the last that was opened.
NewestIsLive ==
  \A p \in Players, c \in Conns : /\ at[p][c] \in Live => c = conn[p]
                                  /\ c > conn[p] => at[p][c] = "off"

\* One party each, as the steps need it (NobodyInTwoParties).
OneParty ==
  "double" \notin excuses =>
    \A p, l, m \in Players : p \in Members(l) /\ p \in Members(m) => l = m

PInv == TypeOK /\ JobsAreFormed /\ PartiesAreFormed /\ OneParty
        /\ MembersAreConnected /\ NewestIsLive

-----------------------------------------------------------------------------
(* Types                                                                   *)

\* Jobs, seats and letters are what their constructors make (Job, Seat, Letter).
LEMMA Constructors ==
  /\ \A l, t, next \in Players \cup {NoParty}, c \in Conns,
        how \in {"nothing", "join", "disband", "remove"} : Job(l, c, t, how, next) \in Jobs
  /\ \A role \in Roles \cup {"none", "normal", "leader"}, c \in Conns : Seat(role, c) \in Seats
  /\ NoSeat \in Seats /\ NoJob \in Jobs
  /\ Left \in Messages /\ \A l \in Players : Joined(l) \in Messages
<1>1. 0 \in Conns
  BY LimitsAssumption DEF Conns
<1> QED
  BY <1>1 DEF Job, Jobs, Seat, Seats, NoSeat, NoJob, Left, Joined, Messages

\* The fields of seats, jobs and letters.
LEMMA Fields ==
  ASSUME TypeOK
  PROVE  /\ \A l, p \in Players : /\ party[l] \in [Players -> Seats] /\ party[l][p] \in Seats
                                  /\ party[l][p].role \in Roles \cup {"none", "normal", "leader"}
                                  /\ party[l][p].conn \in Conns
         /\ \A p \in Players, c \in Conns : /\ job[p][c] \in Jobs
                                             /\ job[p][c].party \in Players \cup {NoParty}
                                             /\ job[p][c].target \in Players \cup {NoParty}
                                             /\ job[p][c].next \in Players \cup {NoParty}
                                             /\ job[p][c].conn \in Conns
BY DEF TypeOK, Seats, Jobs

\* What an outbox holds.
LEMMA Queues ==
  /\ <<>> \in Seq(Messages)
  /\ \A seq \in Seq(Messages) :
       /\ \A m \in Messages : Append(seq, m) \in Seq(Messages)
       /\ seq # <<>> => Head(seq) \in Messages /\ Tail(seq) \in Seq(Messages)
OBVIOUS

\* The budget of the model is never overdrawn (Spend).
LEMMA Budget == ASSUME TypeOK, Spend PROVE spent' \in 0 .. MaxEvents
BY LimitsAssumption DEF TypeOK, Spend

\* Who is left out of a party, or added to it (Members).
LEMMA Sets ==
  ASSUME TypeOK
  PROVE  /\ IsFiniteSet(Players)
         /\ \A l \in Players : Members(l) \subseteq Players /\ IsFiniteSet(Members(l))
BY PlayersAssumption, FS_Subset DEF Members

\* What a write for one connection leaves alone (at, job, mail).
LEMMA Only ==
  ASSUME NEW S, NEW f \in [Players -> [Conns -> S]], NEW p \in Players, NEW c \in Conns, NEW x,
         NEW g, g = [f EXCEPT ![p][c] = x]
  PROVE  /\ g[p][c] = x
         /\ \A q \in Players, d \in Conns : q # p \/ d # c => g[q][d] = f[q][d]
         /\ x \in S => g \in [Players -> [Conns -> S]]
OBVIOUS

\* Where handlers and guards are, and what they hold (TypeOK).
LEMMA Tasks ==
  ASSUME TypeOK
  PROVE  /\ at \in [Players -> [Conns -> Places]] /\ job \in [Players -> [Conns -> Jobs]]
         /\ mail \in [Players -> [Conns -> SUBSET Letters]]
         /\ \A p \in Players : conn[p] \in Conns
BY DEF TypeOK

\* A step of one handler that writes no party: what it must show (all but the registry of parties).
LEMMA CalmKeeps ==
  ASSUME PInv, TypeOK', NEW p \in Players, NEW c \in Conns,
         UNCHANGED <<party, conn>>, excuses \subseteq excuses',
         \A i \in invites' : i[1] # i[2],
         \A q \in Players, d \in Conns :
           q # p \/ d # c => at'[q][d] = at[q][d] /\ job'[q][d] = job[q][d],
         at'[p][c] \in {"change", "leave"} => job'[p][c].party \in Players,
         job'[p][c].how = "join" => job'[p][c].party # p,
         at'[p][c] = "leave" =>
           /\ job'[p][c].how = IF p = job'[p][c].party THEN "disband" ELSE "remove"
           /\ job'[p][c].target = p,
         at'[p][c] \in Live => at[p][c] \in Live,
         at'[p][c] = "off" \/ at[p][c] # "off",
         excuses \cap {"ghost", "double"} = {} =>
           \A l \in Players : p \in Members(l) /\ party[l][p].conn = c =>
             /\ at'[p][c] \notin {"bye", "off"}
             /\ at'[p][c] = "leave" => l = job'[p][c].party
  PROVE  PInv'
<1>1. \A l \in Players : Members(l)' = Members(l)
  BY DEF Members
<1>2. PartiesAreFormed'
  BY <1>1 DEF PInv, PartiesAreFormed
<1>3. OneParty'
  BY <1>1 DEF PInv, OneParty
<1>4. JobsAreFormed'
  <2>1. ASSUME NEW q \in Players, NEW d \in Conns
        PROVE  /\ at'[q][d] \in {"change", "leave"} => job'[q][d].party \in Players
               /\ job'[q][d].how = "join" => job'[q][d].party # q
               /\ at'[q][d] = "leave" =>
                    /\ job'[q][d].how = IF q = job'[q][d].party THEN "disband" ELSE "remove"
                    /\ job'[q][d].target = q
    <3>1. CASE q = p /\ d = c
      BY <3>1
    <3>2. CASE q # p \/ d # c
      BY <3>2 DEF PInv, JobsAreFormed
    <3> QED
      BY <3>1, <3>2
  <2> QED
    BY <2>1 DEF JobsAreFormed
<1>5. excuses' \cap {"ghost", "double"} = {} => excuses \cap {"ghost", "double"} = {}
  OBVIOUS
<1>6. MembersAreConnected'
  <2> SUFFICES ASSUME excuses \cap {"ghost", "double"} = {},
                      NEW l \in Players, NEW q \in Players, q \in Members(l)
               PROVE  LET d == party[l][q].conn IN
                      /\ at'[q][d] \notin {"bye", "off"}
                      /\ at'[q][d] = "leave" => job'[q][d].party = l
    BY <1>1, <1>5 DEF MembersAreConnected
  <2> DEFINE d == party[l][q].conn
  <2>0. d \in Conns
    BY Fields DEF PInv
  <2>1. CASE q = p /\ d = c
    BY <2>1
  <2>2. CASE q # p \/ d # c
    BY <2>0, <2>2 DEF PInv, MembersAreConnected
  <2> QED
    BY <2>1, <2>2
<1>7. NewestIsLive'
  <2> SUFFICES ASSUME NEW q \in Players, NEW d \in Conns
               PROVE  /\ at'[q][d] \in Live => d = conn[q]
                      /\ d > conn[q] => at'[q][d] = "off"
    BY DEF NewestIsLive
  <2>1. CASE q = p /\ d = c
    BY <2>1 DEF PInv, NewestIsLive
  <2>2. CASE q # p \/ d # c
    BY <2>2 DEF PInv, NewestIsLive
  <2> QED
    BY <2>1, <2>2
<1> QED
  BY <1>2, <1>3, <1>4, <1>6, <1>7 DEF PInv

-----------------------------------------------------------------------------
(* Steps that write no party                                               *)

\* A step that leaves the handlers and the registry of parties alone.
LEMMA StillKeeps ==
  ASSUME PInv, TypeOK', UNCHANGED <<party, conn, at, job>>, excuses \subseteq excuses',
         \A i \in invites' : i[1] # i[2]
  PROVE  PInv'
<1>1. JobsAreFormed' /\ NewestIsLive'
  BY DEF PInv, JobsAreFormed, NewestIsLive
<1>2. \A l \in Players : Members(l)' = Members(l)
  BY DEF Members
<1>3. PartiesAreFormed'
  BY <1>2 DEF PInv, PartiesAreFormed
<1>4. OneParty'
  BY <1>2 DEF PInv, OneParty
<1>5. MembersAreConnected'
  BY <1>2 DEF PInv, MembersAreConnected
<1> QED
  BY <1>1, <1>3, <1>4, <1>5 DEF PInv

\* A new invitation is of two players (Invite).
LEMMA InviteStep ==
  ASSUME PInv, NEW l \in Players, NEW g \in Players, Invite(l, g)
  PROVE  PInv'
<1>0. TypeOK /\ spent' \in 0 .. MaxEvents
  BY Budget DEF Invite, PInv
<1>1. /\ invites' = invites \cup {<<l, g>>} /\ l # g
      /\ UNCHANGED <<peers, expired, party, conn, at, job, mail, mine, inbox, known, excuses>>
  BY DEF Invite, session
<1>2. TypeOK'
  BY <1>0, <1>1 DEF TypeOK
<1>3. \A i \in invites' : i[1] # i[2]
  BY <1>1 DEF PInv, JobsAreFormed
<1> QED
  BY <1>0, <1>1, <1>2, <1>3, StillKeeps

\* Time passes (Expire).
LEMMA ExpireStep ==
  ASSUME PInv, NEW i \in invites, Expire(i)
  PROVE  PInv'
<1>0. TypeOK /\ spent' \in 0 .. MaxEvents /\ i[1] \in Players
  BY Budget DEF Expire, PInv, TypeOK
<1>1. /\ expired' = expired \cup {i}
      /\ UNCHANGED <<peers, invites, party, conn, at, job, mail, mine, inbox, known, excuses>>
  BY DEF Expire, session
<1>2. TypeOK'
  BY <1>0, <1>1 DEF TypeOK
<1> QED
  <2>1. \A j \in invites' : j[1] # j[2]
    BY <1>1 DEF PInv, JobsAreFormed
  <2> QED
    BY <1>0, <1>1, <1>2, <2>1, StillKeeps

\* A task that is neither leaving for good nor has left: it may end or go on (CalmKeeps).
LEMMA OnlineKeeps ==
  ASSUME PInv, TypeOK', NEW p \in Players, NEW c \in Conns,
         UNCHANGED <<party, conn>>, excuses \subseteq excuses', invites' \subseteq invites,
         \A q \in Players, d \in Conns :
           q # p \/ d # c => at'[q][d] = at[q][d] /\ job'[q][d] = job[q][d],
         at'[p][c] \notin {"leave", "bye", "off"}, at[p][c] # "off",
         at'[p][c] \in Live => at[p][c] \in Live,
         at'[p][c] = "change" => job'[p][c].party \in Players,
         job'[p][c].how = "join" => job'[p][c].party # p
  PROVE  PInv'
<1>1. \A i \in invites' : i[1] # i[2]
  BY DEF PInv, JobsAreFormed
<1> QED
  BY <1>1, CalmKeeps

\* The answer to an invitation (Answer).
LEMMA AnswerStep ==
  ASSUME PInv, NEW g \in Players, NEW l \in Players, NEW accept \in BOOLEAN, Answer(g, l, accept)
  PROVE  PInv'
<1> DEFINE c == conn[g]
<1>0. TypeOK /\ l # g /\ at[g][c] = "idle" /\ peers[l] \in Conns /\ c \in Conns
  BY DEF Answer, Idle, PInv, JobsAreFormed, TypeOK
<1>1. /\ invites' \subseteq invites /\ expired' \subseteq invites'
      /\ UNCHANGED <<peers, party, conn, mail, mine, inbox, known, excuses, spent>>
  BY <1>0 DEF Answer, TypeOK
<1>2. CASE UNCHANGED <<at, job>>
  <2>1. TypeOK'
    BY <1>0, <1>1, <1>2 DEF TypeOK
  <2>2. \A i \in invites' : i[1] # i[2]
    BY <1>1 DEF PInv, JobsAreFormed
  <2> QED
    BY <1>1, <1>2, <2>1, <2>2, StillKeeps
<1>3. CASE ~UNCHANGED <<at, job>>
  <2> DEFINE j == Job(l, peers[l], g, "join", NoParty)
  <2>1. at' = [at EXCEPT ![g][c] = "change"] /\ job' = [job EXCEPT ![g][c] = j]
    BY <1>3 DEF Answer
  <2>2. j \in Jobs /\ j.party = l
    BY <1>0, Constructors DEF Job
  <2> HIDE DEF j, c
  <2>3. /\ at'[g][c] = "change" /\ job'[g][c] = j
        /\ \A q \in Players, d \in Conns :
             q # g \/ d # c => at'[q][d] = at[q][d] /\ job'[q][d] = job[q][d]
        /\ job' \in [Players -> [Conns -> Jobs]] /\ at' \in [Players -> [Conns -> Places]]
    BY <1>0, <2>1, <2>2, Tasks, Only DEF Places, Live
  <2>4. TypeOK'
    BY <1>0, <1>1, <2>3 DEF TypeOK
  <2> QED
    BY <1>0, <1>1, <2>2, <2>3, <2>4, OnlineKeeps DEF Live
<1> QED
  BY <1>2, <1>3

\* A guest who cannot enter any more, and a handler that ends (JoinRefused, Finish).
LEMMA EndStep ==
  ASSUME PInv, NEW p \in Players, NEW c \in Conns, JoinRefused(p, c) \/ Finish(p, c)
  PROVE  PInv'
<1>0. /\ TypeOK /\ NoJob \in Jobs /\ NoJob.how = "nothing"
      /\ job[p][c].next \in Players \cup {NoParty} /\ at[p][c] \in {"change", "send"}
  BY Constructors, Fields DEF PInv, NoJob, Job, JoinRefused, Finish
<1>1. /\ at' = [at EXCEPT ![p][c] = "idle"] /\ job' = [job EXCEPT ![p][c] = NoJob]
      /\ mine' = mine \/ mine' = [mine EXCEPT ![p] = job[p][c].next]
      /\ UNCHANGED <<peers, invites, expired, party, conn, mail, inbox, known, excuses, spent>>
  BY DEF JoinRefused, Finish, registry
<1>2. /\ at'[p][c] = "idle" /\ job'[p][c] = NoJob
      /\ \A q \in Players, d \in Conns :
           q # p \/ d # c => at'[q][d] = at[q][d] /\ job'[q][d] = job[q][d]
      /\ job' \in [Players -> [Conns -> Jobs]] /\ at' \in [Players -> [Conns -> Places]]
  BY <1>0, <1>1, Tasks, Only DEF Places, Live
<1>3. TypeOK'
  BY <1>0, <1>1, <1>2 DEF TypeOK
<1> QED
  BY <1>0, <1>1, <1>2, <1>3, OnlineKeeps DEF Live

\* A request to leave, to kick or to disband (Remove).
LEMMA RemoveStep ==
  ASSUME PInv, NEW p \in Players, NEW t \in Players, Remove(p, t)
  PROVE  PInv'
<1> DEFINE c == conn[p]
<1>0. /\ TypeOK /\ spent' \in 0 .. MaxEvents /\ mine[p] \in Players \cup {NoParty} /\ 0 \in Conns
      /\ c \in Conns /\ at[p][c] = "idle"
  <2>1. TypeOK /\ Spend /\ 0 \in Conns /\ at[p][c] = "idle"
    BY LimitsAssumption DEF Remove, Idle, PInv, Conns
  <2>2. mine[p] \in Players \cup {NoParty} /\ c \in Conns
    BY <2>1 DEF TypeOK
  <2> QED
    BY <2>1, <2>2, Budget
<1>1. PICK l \in Players, how \in {"disband", "remove"}, next \in {mine[p], NoParty} :
        job' = [job EXCEPT ![p][c] = Job(l, 0, t, how, next)]
  BY DEF Remove, PartiesOf
<1>2. /\ at' = [at EXCEPT ![p][c] = "change"]
      /\ UNCHANGED <<peers, invites, expired, party, conn, mail, mine, inbox, known, excuses>>
  BY DEF Remove, registry
<1> DEFINE j == Job(l, 0, t, how, next)
<1>3. j \in Jobs /\ j.party = l /\ j.how # "join"
  BY <1>0, Constructors DEF Job
<1>4. job' = [job EXCEPT ![p][c] = j]
  BY <1>1
<1> HIDE DEF j, c
<1>5. /\ at'[p][c] = "change" /\ job'[p][c] = j
      /\ \A q \in Players, d \in Conns :
           q # p \/ d # c => at'[q][d] = at[q][d] /\ job'[q][d] = job[q][d]
      /\ job' \in [Players -> [Conns -> Jobs]] /\ at' \in [Players -> [Conns -> Places]]
  BY <1>0, <1>2, <1>3, <1>4, Tasks, Only DEF Places, Live
<1>6. TypeOK'
  BY <1>0, <1>2, <1>5 DEF TypeOK
<1> QED
  BY <1>0, <1>2, <1>3, <1>5, <1>6, OnlineKeeps DEF Live

\* The outboxes (Deliver, HandleMsg).
LEMMA DeliverStep ==
  ASSUME PInv, NEW p \in Players, NEW c \in Conns, NEW letter \in mail[p][c], Deliver(p, c, letter)
  PROVE  PInv'
<1>0. TypeOK /\ letter \in Letters /\ letter.to \in Players /\ letter.msg \in Messages
  BY DEF PInv, TypeOK, Letters
<1>1. /\ mail' = [mail EXCEPT ![p][c] = mail[p][c] \ {letter}]
      /\ UNCHANGED <<peers, invites, expired, party, conn, at, job, mine, known, spent>>
      /\ excuses' = excuses \/ excuses' = excuses \cup {e \in {"crossed"} : Stale(letter)}
      /\ inbox' = inbox \/ inbox' = [inbox EXCEPT ![letter.to] = Append(@, letter.msg)]
  BY DEF Deliver, registry, Excuse
<1>2. inbox' \in [Players -> Seq(Messages)]
  <2>1. Append(inbox[letter.to], letter.msg) \in Seq(Messages)
    BY <1>0, Queues DEF TypeOK
  <2> QED
    BY <1>0, <1>1, <2>1 DEF TypeOK
<1>3. excuses \subseteq excuses' /\ excuses' \subseteq Excuses
  BY <1>0, <1>1 DEF TypeOK, Excuses
<1>4. mail' \in [Players -> [Conns -> SUBSET Letters]]
  <2>1. mail[p][c] \ {letter} \in SUBSET Letters
    BY <1>0, Tasks
  <2> QED
    BY <1>0, <1>1, <2>1, Tasks, Only
<1>5. TypeOK'
  BY <1>0, <1>1, <1>2, <1>3, <1>4 DEF TypeOK
<1>6. \A i \in invites' : i[1] # i[2]
  BY <1>1 DEF PInv, JobsAreFormed
<1> QED
  BY <1>1, <1>3, <1>5, <1>6, StillKeeps

LEMMA HandleStep ==
  ASSUME PInv, NEW p \in Players, HandleMsg(p)
  PROVE  PInv'
<1>0. TypeOK /\ inbox[p] \in Seq(Messages) /\ inbox[p] # <<>>
  BY DEF PInv, TypeOK, HandleMsg
<1>1. Head(inbox[p]) \in Messages /\ Tail(inbox[p]) \in Seq(Messages)
  BY <1>0
<1>2. Head(inbox[p]).party \in Players \cup {NoParty}
  BY <1>1 DEF Messages
<1>3. TypeOK'
  BY <1>0, <1>1, <1>2 DEF TypeOK, HandleMsg, registry
<1>4. \A i \in invites' : i[1] # i[2]
  BY DEF PInv, JobsAreFormed, HandleMsg, registry
<1> QED
  BY <1>3, <1>4, StillKeeps DEF HandleMsg, registry

\* The end of a connection (Disconnect).
LEMMA DisconnectStep ==
  ASSUME PInv, NEW p \in Players, Disconnect(p)
  PROVE  PInv'
<1> DEFINE c == conn[p]
<1>0. TypeOK /\ at[p][c] = "idle" /\ c \in Conns /\ spent' \in 0 .. MaxEvents /\ <<>> \in Seq(Messages)
  <2>1. TypeOK /\ Spend /\ at[p][c] = "idle"
    BY DEF PInv, Disconnect, Idle
  <2> QED
    BY <2>1, Tasks, Budget, Queues
<1>1. /\ at' = [at EXCEPT ![p][c] = "unlist"] /\ inbox' = [inbox EXCEPT ![p] = <<>>]
      /\ mine' = [mine EXCEPT ![p] = NoParty] /\ known' = [known EXCEPT ![p] = NoParty]
      /\ UNCHANGED <<peers, invites, expired, party, conn, job, mail, excuses>>
  BY DEF Disconnect, registry
<1> HIDE DEF c
<1>2. /\ at'[p][c] = "unlist"
      /\ \A q \in Players, d \in Conns : q # p \/ d # c => at'[q][d] = at[q][d]
      /\ at' \in [Players -> [Conns -> Places]]
  BY <1>0, <1>1, Tasks, Only DEF Places
<1>3. TypeOK'
  BY <1>0, <1>1, <1>2 DEF TypeOK
<1>4. job[p][c].how = "join" => job[p][c].party # p
  BY <1>0 DEF PInv, JobsAreFormed
<1> QED
  BY <1>0, <1>1, <1>2, <1>3, <1>4, OnlineKeeps DEF Live

\* The first two parts of its guard (Unlist, Uninvite).
LEMMA DropStep ==
  ASSUME PInv, NEW p \in Players, NEW c \in Conns, Unlist(p, c) \/ Uninvite(p, c)
  PROVE  PInv'
<1>0. TypeOK /\ at[p][c] \in {"unlist", "uninvite"} /\ 0 \in Conns
  BY LimitsAssumption DEF PInv, Unlist, Uninvite, Conns
<1>1. PICK phase \in {"uninvite", "find"} : at' = [at EXCEPT ![p][c] = phase]
  BY DEF Unlist, Uninvite
<1>2. /\ invites' \subseteq invites /\ expired' \subseteq invites'
      /\ peers' = peers \/ peers' = [peers EXCEPT ![p] = 0]
      /\ UNCHANGED <<party, conn, job, mail, mine, inbox, known, excuses, spent>>
  BY <1>0 DEF Unlist, Uninvite, TypeOK
<1>3. /\ at'[p][c] = phase
      /\ \A q \in Players, d \in Conns : q # p \/ d # c => at'[q][d] = at[q][d]
      /\ at' \in [Players -> [Conns -> Places]]
  BY <1>0, <1>1, Tasks, Only DEF Places
<1>4. TypeOK'
  <2>a. peers \in [Players -> Conns] /\ invites \subseteq Players \X Players
    BY <1>0 DEF TypeOK
  <2>1. peers' \in [Players -> Conns] /\ invites' \subseteq Players \X Players
    BY <1>0, <1>2, <2>a
  <2>2. expired' \subseteq invites'
    BY <1>1, <1>0 DEF Unlist, Uninvite, TypeOK
  <2>3. UNCHANGED <<party, conn, job, mail, mine, inbox, known, excuses, spent>>
    BY <1>2
  <2> QED
    BY <1>0, <1>3, <2>1, <2>2, <2>3 DEF TypeOK
<1>5. job[p][c].how = "join" => job[p][c].party # p
  BY <1>0 DEF PInv, JobsAreFormed
<1> QED
  BY <1>0, <1>2, <1>3, <1>4, <1>5, OnlineKeeps DEF Live

\* The guard looks for the party of its player (FindParty).
LEMMA FindStep ==
  ASSUME PInv, NEW p \in Players, NEW c \in Conns, FindParty(p, c)
  PROVE  PInv'
<1>0. TypeOK /\ at[p][c] = "find" /\ 0 \in Conns /\ NoParty \notin Players
  BY LimitsAssumption, PlayersAssumption DEF PInv, FindParty, Conns
<1>1. /\ UNCHANGED <<peers, invites, expired, party, conn, mail, mine, inbox, known, excuses, spent>>
      /\ \A i \in invites' : i[1] # i[2]
  BY DEF FindParty, registry, PInv, JobsAreFormed
<1>2. CASE ~InParty(p) /\ at' = [at EXCEPT ![p][c] = "bye"] /\ UNCHANGED job
  <2>1. /\ at'[p][c] = "bye"
        /\ \A q \in Players, d \in Conns : q # p \/ d # c => at'[q][d] = at[q][d]
        /\ at' \in [Players -> [Conns -> Places]]
    BY <1>0, <1>2, Tasks, Only DEF Places
  <2>2. TypeOK'
    BY <1>0, <1>1, <1>2, <2>1 DEF TypeOK
  <2>3. \A l \in Players : p \notin Members(l)
    BY <1>2 DEF InParty, PartiesOf
  <2>4. job[p][c].how = "join" => job[p][c].party # p
    BY <1>0 DEF PInv, JobsAreFormed
  <2> QED
    BY <1>0, <1>1, <1>2, <2>1, <2>2, <2>3, <2>4, CalmKeeps DEF Live
<1>3. CASE ~(~InParty(p) /\ at' = [at EXCEPT ![p][c] = "bye"] /\ UNCHANGED job)
  <2>1. PICK l \in PartiesOf(p) :
          /\ at' = [at EXCEPT ![p][c] = "leave"]
          /\ job' = [job EXCEPT ![p][c] =
                       Job(l, 0, p, IF p = l THEN "disband" ELSE "remove", NoParty)]
    BY <1>3 DEF FindParty
  <2> DEFINE j == Job(l, 0, p, IF p = l THEN "disband" ELSE "remove", NoParty)
  <2>2. l \in Players /\ p \in Members(l)
    BY DEF PartiesOf
  <2>3. /\ j \in Jobs /\ j.party = l /\ j.target = p
        /\ j.how = IF p = l THEN "disband" ELSE "remove"
    BY <1>0, <2>2, Constructors DEF Job
  <2>4. job' = [job EXCEPT ![p][c] = j]
    BY <2>1
  <2> HIDE DEF j
  <2>5. /\ at'[p][c] = "leave" /\ job'[p][c] = j
        /\ \A q \in Players, d \in Conns :
             q # p \/ d # c => at'[q][d] = at[q][d] /\ job'[q][d] = job[q][d]
        /\ job' \in [Players -> [Conns -> Jobs]] /\ at' \in [Players -> [Conns -> Places]]
    BY <1>0, <2>1, <2>3, <2>4, Tasks, Only DEF Places
  <2>6. TypeOK'
    BY <1>0, <1>1, <2>5 DEF TypeOK
  <2>7. "double" \notin excuses => \A m \in Players : p \in Members(m) => m = l
    BY <2>2 DEF PInv, OneParty
  <2> QED
    BY <1>0, <1>1, <2>2, <2>3, <2>5, <2>6, <2>7, CalmKeeps DEF Live
<1> QED
  BY <1>2, <1>3

\* The guard is gone (Gone).
LEMMA GoneStep ==
  ASSUME PInv, NEW p \in Players, NEW c \in Conns, Gone(p, c)
  PROVE  PInv'
<1>0. TypeOK /\ NoJob \in Jobs /\ NoJob.how = "nothing" /\ at[p][c] = "bye"
  BY Constructors DEF PInv, NoJob, Job, Gone
<1>1. /\ at' = [at EXCEPT ![p][c] = "off"] /\ job' = [job EXCEPT ![p][c] = NoJob]
      /\ UNCHANGED <<peers, invites, expired, party, conn, mail, mine, inbox, known, excuses, spent>>
      /\ \A i \in invites' : i[1] # i[2]
  BY DEF Gone, registry, PInv, JobsAreFormed
<1>2. /\ at'[p][c] = "off" /\ job'[p][c] = NoJob
      /\ \A q \in Players, d \in Conns :
           q # p \/ d # c => at'[q][d] = at[q][d] /\ job'[q][d] = job[q][d]
      /\ job' \in [Players -> [Conns -> Jobs]] /\ at' \in [Players -> [Conns -> Places]]
  BY <1>0, <1>1, Tasks, Only DEF Places
<1>3. TypeOK'
  BY <1>0, <1>1, <1>2 DEF TypeOK
<1>4. excuses \cap {"ghost", "double"} = {} =>
        \A l \in Players : ~(p \in Members(l) /\ party[l][p].conn = c)
  BY <1>0 DEF PInv, MembersAreConnected
<1> QED
  BY <1>0, <1>1, <1>2, <1>3, <1>4, CalmKeeps DEF Live

-----------------------------------------------------------------------------
(* Steps that write a party                                                *)

\* A set whose elements are all the same has one element at most.
LEMMA AtMostOne ==
  ASSUME NEW S, IsFiniteSet(S), \A x, y \in S : x = y
  PROVE  Cardinality(S) <= 1
<1>1. CASE S = {}
  BY <1>1, FS_EmptySet
<1>2. CASE S # {}
  <2>1. PICK x \in S : S = {x}
    BY <1>2
  <2> QED
    BY <2>1, FS_Singleton
<1> QED
  BY <1>1, <1>2

\* A step that writes one party and ends the critical part of one handler: what it must show.
LEMMA WriteKeeps ==
  ASSUME PInv, TypeOK', NEW p \in Players, NEW c \in Conns, NEW l \in Players,
         UNCHANGED <<invites, conn>>, excuses \subseteq excuses',
         NEW seats \in [Players -> Seats], party' = [party EXCEPT ![l] = seats],
         \A q \in Players, d \in Conns :
           q # p \/ d # c => at'[q][d] = at[q][d] /\ job'[q][d] = job[q][d],
         job'[p][c] = job[p][c] \/ job'[p][c].how = "nothing",
         at'[p][c] \in {"idle", "send", "bye"}, at[p][c] \in {"idle", "change", "leave"},
         at'[p][c] \in Live => at[p][c] \in Live,
         at'[p][c] = "bye" => at[p][c] = "leave" /\ l = job[p][c].party,
         PartiesAreFormed',
         "double" \notin excuses' =>
           \A q \in Players : q \in Members(l)' /\ q \notin Members(l) => PartiesOf(q) = {},
         excuses' \cap {"ghost", "double"} = {} =>
           \A q \in Players : q \in Members(l)' =>
             /\ \/ q \in Members(l) /\ seats[q].conn = party[l][q].conn
                \/ at[q][seats[q].conn] \in Live
             /\ q = p /\ seats[q].conn = c => at'[p][c] # "bye"
  PROVE  PInv'
<1>0. TypeOK /\ PInv
  BY DEF PInv
<1>1. party'[l] = seats /\ \A m \in Players \ {l} : party'[m] = party[m]
  BY <1>0 DEF TypeOK
<1>2. \A m \in Players \ {l} : Members(m)' = Members(m)
  BY <1>1 DEF Members
<1>3. JobsAreFormed'
  <2>1. \A i \in invites' : i[1] # i[2]
    BY DEF PInv, JobsAreFormed
  <2>2. ASSUME NEW q \in Players, NEW d \in Conns
        PROVE  /\ at'[q][d] \in {"change", "leave"} => job'[q][d].party \in Players
               /\ job'[q][d].how = "join" => job'[q][d].party # q
               /\ at'[q][d] = "leave" =>
                    /\ job'[q][d].how = IF q = job'[q][d].party THEN "disband" ELSE "remove"
                    /\ job'[q][d].target = q
    <3>1. CASE q = p /\ d = c
      BY <3>1 DEF PInv, JobsAreFormed
    <3>2. CASE q # p \/ d # c
      BY <3>2 DEF PInv, JobsAreFormed
    <3> QED
      BY <3>1, <3>2
  <2> QED
    BY <2>1, <2>2 DEF JobsAreFormed
<1>4. OneParty'
  <2> SUFFICES ASSUME "double" \notin excuses', NEW q \in Players, NEW m \in Players, NEW n \in Players,
                      q \in Members(m)', q \in Members(n)', m # n
               PROVE  FALSE
    BY DEF OneParty
  <2>0. "double" \notin excuses
    OBVIOUS
  <2>1. CASE m # l /\ n # l
    BY <1>2, <2>0, <2>1 DEF PInv, OneParty
  <2>2. CASE m = l
    <3>1. q \in Members(n) /\ PartiesOf(q) # {}
      BY <1>2, <2>2 DEF PartiesOf
    <3>2. q \in Members(l)
      BY <2>2, <3>1
    <3> QED
      BY <2>0, <2>2, <3>1, <3>2 DEF PInv, OneParty
  <2>3. CASE n = l
    <3>1. q \in Members(m) /\ PartiesOf(q) # {}
      BY <1>2, <2>3 DEF PartiesOf
    <3>2. q \in Members(l)
      BY <2>3, <3>1
    <3> QED
      BY <2>0, <2>3, <3>1, <3>2 DEF PInv, OneParty
  <2> QED
    BY <2>1, <2>2, <2>3
<1>5. excuses' \cap {"ghost", "double"} = {} => excuses \cap {"ghost", "double"} = {}
  OBVIOUS
<1>6. MembersAreConnected'
  <2> SUFFICES ASSUME excuses' \cap {"ghost", "double"} = {},
                      NEW m \in Players, NEW q \in Players, q \in Members(m)'
               PROVE  LET d == party'[m][q].conn IN
                      /\ at'[q][d] \notin {"bye", "off"}
                      /\ at'[q][d] = "leave" => job'[q][d].party = m
    BY DEF MembersAreConnected
  <2>0. PICK d \in Conns : d = party'[m][q].conn
    BY DEF TypeOK, Seats
  <2> SUFFICES /\ at'[q][d] \notin {"bye", "off"}
               /\ at'[q][d] = "leave" => job'[q][d].party = m
    BY <2>0
  <2>1. CASE m # l
    <3>1. q \in Members(m) /\ party[m][q].conn = d
      BY <1>1, <1>2, <2>0, <2>1
    <3>2. at[q][d] \notin {"bye", "off"} /\ (at[q][d] = "leave" => job[q][d].party = m)
      BY <1>5, <3>1 DEF PInv, MembersAreConnected
    <3>3. CASE q = p /\ d = c
      BY <2>1, <3>2, <3>3
    <3>4. CASE q # p \/ d # c
      BY <3>2, <3>4
    <3> QED
      BY <3>3, <3>4
  <2>2. CASE m = l
    <3>1. /\ (q \in Members(l) /\ party[l][q].conn = d) \/ at[q][d] \in Live
          /\ q = p /\ d = c => at'[p][c] # "bye"
      BY <1>1, <2>0, <2>2
    <3>2. CASE q = p /\ d = c
      BY <3>1, <3>2
    <3>3. CASE q # p \/ d # c
      <4>1. at'[q][d] = at[q][d] /\ job'[q][d] = job[q][d]
        BY <3>3
      <4>2. CASE at[q][d] \in Live
        BY <4>1, <4>2 DEF Live
      <4>3. CASE q \in Members(l) /\ party[l][q].conn = d
        BY <1>5, <2>2, <4>1, <4>3 DEF PInv, MembersAreConnected
      <4> QED
        BY <3>1, <4>2, <4>3
    <3> QED
      BY <3>2, <3>3
  <2> QED
    BY <2>1, <2>2
<1>7. NewestIsLive'
  <2> SUFFICES ASSUME NEW q \in Players, NEW d \in Conns
               PROVE  /\ at'[q][d] \in Live => d = conn[q]
                      /\ d > conn[q] => at'[q][d] = "off"
    BY DEF NewestIsLive
  <2>1. CASE q = p /\ d = c
    BY <2>1 DEF PInv, NewestIsLive
  <2>2. CASE q # p \/ d # c
    BY <2>2 DEF PInv, NewestIsLive
  <2> QED
    BY <2>1, <2>2
<1> QED
  BY <1>3, <1>4, <1>6, <1>7 DEF PInv

\* Who sits in a party that is written, and when it is well formed (PartiesAreFormed).
Seated(seats) == {p \in Players : seats[p].role # "none"}
Formed(l, seats) ==
  /\ Seated(seats) # {} => l \in Seated(seats) /\ Cardinality(Seated(seats)) <= MaxMembers
  /\ \A p, q \in Seated(seats) :
       /\ (seats[p].role = "leader") <=> (p = l)
       /\ p # q /\ seats[p].role = seats[q].role => seats[p].role = "normal"

\* One well formed party is written: all of them are well formed.
LEMMA FormedKeeps ==
  ASSUME PInv, NEW l \in Players, NEW seats \in [Players -> Seats],
         party' = [party EXCEPT ![l] = seats], Formed(l, seats)
  PROVE  PartiesAreFormed' /\ Members(l)' = Seated(seats)
<1> DEFINE S == Seated(seats)
<1>0. TypeOK
  BY DEF PInv
<1>1. party'[l] = seats /\ \A m \in Players \ {l} : party'[m] = party[m]
  BY <1>0 DEF TypeOK
<1>2. \A m \in Players : Members(m)' = IF m = l THEN S ELSE Members(m)
  BY <1>1 DEF Members, Seated
<1>3. ASSUME NEW m \in Players, Members(m)' # {}
      PROVE  /\ m \in Members(m)' /\ Cardinality(Members(m)') <= MaxMembers
             /\ \A p, q \in Members(m)' :
                  /\ (party'[m][p].role = "leader") <=> (p = m)
                  /\ p # q /\ party'[m][p].role = party'[m][q].role
                       => party'[m][p].role = "normal"
  <2>1. CASE m = l
    <3>1. Members(m)' = S /\ party'[m] = seats /\ S # {}
      BY <1>1, <1>2, <1>3, <2>1
    <3> QED
      BY <2>1, <3>1 DEF Formed
  <2>2. CASE m # l
    BY <1>1, <1>2, <1>3, <2>2 DEF PInv, PartiesAreFormed
  <2> QED
    BY <2>1, <2>2
<1>4. PartiesAreFormed'
  BY <1>3 DEF PartiesAreFormed
<1> QED
  BY <1>2, <1>4

\* The letters that tell members of the end (Letter).
LEMMA LettersType ==
  ASSUME TypeOK, NEW l \in Players, NEW S, S \subseteq Players
  PROVE  {Letter(l, q, Left) : q \in S} \subseteq Letters
BY Fields, Constructors DEF Letter, Letters

\* What remains of the conjuncts of TypeOK after a write of a party.
LEMMA WriteTypes ==
  ASSUME TypeOK, NEW l \in Players,
         NEW seats \in [Players -> Seats], party' = [party EXCEPT ![l] = seats],
         at' \in [Players -> [Conns -> Places]], job' \in [Players -> [Conns -> Jobs]],
         mail' \in [Players -> [Conns -> SUBSET Letters]],
         UNCHANGED <<peers, invites, expired, conn, mine, inbox, known>>,
         excuses' \subseteq Excuses, spent' \in 0 .. MaxEvents
  PROVE  TypeOK'
<1>1. party' \in [Players -> [Players -> Seats]]
  BY DEF TypeOK
<1> QED
  BY <1>1 DEF TypeOK

\* The phases that SendThen leads to, and what it writes.
LEMMA Sending ==
  ASSUME TypeOK, NEW p \in Players, NEW c \in Conns, NEW letters \in SUBSET Letters,
         NEW next \in Players \cup {NoParty}, SendThen(p, c, letters, next)
  PROVE  /\ at'[p][c] = IF at[p][c] = "leave" THEN "bye" ELSE "send"
         /\ job'[p][c].how = "nothing" /\ job'[p][c].next = next
         /\ mail'[p][c] = letters
         /\ \A q \in Players, d \in Conns :
              q # p \/ d # c => /\ at'[q][d] = at[q][d] /\ job'[q][d] = job[q][d]
                                /\ mail'[q][d] = mail[q][d]
         /\ at' \in [Players -> [Conns -> Places]]
         /\ job' \in [Players -> [Conns -> Jobs]]
         /\ mail' \in [Players -> [Conns -> SUBSET Letters]]
<1> DEFINE phase == IF at[p][c] = "leave" THEN "bye" ELSE "send"
           j == Job(NoParty, 0, NoParty, "nothing", next)
<1>1. phase \in Places
  BY DEF Places, Live
<1>2. j \in Jobs
  <2>1. 0 \in Conns
    BY LimitsAssumption DEF Conns
  <2> QED
    BY <2>1, Constructors
<1>a. j.how = "nothing" /\ j.next = next
  BY DEF Job
<1>3. /\ at' = [at EXCEPT ![p][c] = phase] /\ job' = [job EXCEPT ![p][c] = j]
      /\ mail' = [mail EXCEPT ![p][c] = letters]
  BY DEF SendThen
<1> HIDE DEF phase, j
<1>4. /\ at'[p][c] = phase /\ \A q \in Players, d \in Conns : q # p \/ d # c => at'[q][d] = at[q][d]
      /\ at' \in [Players -> [Conns -> Places]]
  BY <1>1, <1>3, Tasks, Only
<1>5. /\ job'[p][c] = j /\ \A q \in Players, d \in Conns : q # p \/ d # c => job'[q][d] = job[q][d]
      /\ job' \in [Players -> [Conns -> Jobs]]
  BY <1>2, <1>3, Tasks, Only
<1>6. /\ mail'[p][c] = letters
      /\ \A q \in Players, d \in Conns : q # p \/ d # c => mail'[q][d] = mail[q][d]
      /\ mail' \in [Players -> [Conns -> SUBSET Letters]]
  BY <1>3, Tasks, Only
<1> QED
  BY <1>a, <1>4, <1>5, <1>6 DEF phase

\* A guest takes a seat (JoinExisting).
LEMMA JoinExistingStep ==
  ASSUME PInv, NEW g \in Players, NEW c \in Conns, JoinExisting(g, c)
  PROVE  PInv'
<1>a. PICK l \in Players : l = job[g][c].party
  BY DEF PInv, JobsAreFormed, JoinExisting
<1> DEFINE seat == Seat("normal", c)
           seats == [party[l] EXCEPT ![g] = seat]
<1>0. /\ TypeOK /\ at[g][c] = "change"
      /\ InParty(g) = FALSE /\ g \notin Members(l) /\ Members(l) # {}
      /\ Cardinality(Members(l)) < MaxMembers /\ MaxMembers \in Nat
      /\ IsFiniteSet(Members(l)) /\ Members(l) \subseteq Players
  <2>1. TypeOK /\ at[g][c] = "change"
    BY DEF PInv, JoinExisting
  <2>2. ~InParty(g) /\ ~(Cardinality(Members(l)) >= MaxMembers) /\ Members(l) # {}
    BY <1>a DEF JoinExisting, Refused
  <2>3. g \notin Members(l)
    BY <2>1, <2>2 DEF InParty, PartiesOf
  <2>4. IsFiniteSet(Members(l)) /\ Members(l) \subseteq Players /\ Cardinality(Members(l)) \in Nat
    BY <2>1, Sets, FS_CardinalityType
  <2> QED
    BY <2>1, <2>2, <2>3, <2>4, LimitsAssumption DEF InParty
<1>1. /\ party' = [party EXCEPT ![l] = seats] /\ seat \in Seats /\ seat.role = "normal"
      /\ seat.conn = c
  <2>1. party' = [party EXCEPT ![l][g] = seat]
    BY <1>a DEF JoinExisting
  <2> QED
    BY <1>0, <2>1, Constructors DEF Seat, TypeOK
<1>2. /\ seats \in [Players -> Seats] /\ seats[g] = seat
      /\ \A p \in Players \ {g} : seats[p] = party[l][p]
  BY <1>0, <1>1, Fields
<1> DEFINE S == Members(l) \cup {g}
<1>3. S = Seated(seats)
  BY <1>0, <1>1, <1>2 DEF Members, Seated
<1>4. Cardinality(S) <= MaxMembers
  <2>1. Cardinality(S) = Cardinality(Members(l)) + 1 /\ Cardinality(Members(l)) \in Nat
    BY <1>0, FS_AddElement, FS_CardinalityType
  <2> QED
    BY <1>0, <2>1
<1>5. /\ l \in Members(l) /\ l # g
      /\ \A p, q \in Members(l) :
           /\ (party[l][p].role = "leader") <=> (p = l)
           /\ (p # q /\ party[l][p].role = party[l][q].role) => party[l][p].role = "normal"
  BY <1>0 DEF PInv, PartiesAreFormed
<1> HIDE DEF seats, seat
<1>6. \A p \in S : (seats[p].role = "leader") <=> (p = l)
  BY <1>0, <1>1, <1>2, <1>5
<1>7. \A p, q \in S : p # q /\ seats[p].role = seats[q].role => seats[p].role = "normal"
  BY <1>0, <1>1, <1>2, <1>5
<1>8. PartiesAreFormed' /\ Members(l)' = S
  <2>1. l \in S
    BY <1>5
  <2> HIDE DEF S
  <2>2. Formed(l, seats)
    BY <1>3, <1>4, <1>6, <1>7, <2>1 DEF Formed
  <2> QED
    BY <1>1, <1>2, <1>3, <2>2, FormedKeeps
<1>b. SendThen(g, c, {}, l) /\ {} \in SUBSET Letters /\ l \in Players \cup {NoParty}
  BY <1>a DEF JoinExisting
<1>9. /\ at'[g][c] = "send" /\ job'[g][c].how = "nothing"
      /\ \A q \in Players, d \in Conns :
           q # g \/ d # c => /\ at'[q][d] = at[q][d] /\ job'[q][d] = job[q][d]
                             /\ mail'[q][d] = mail[q][d]
      /\ at' \in [Players -> [Conns -> Places]]
      /\ job' \in [Players -> [Conns -> Jobs]]
      /\ mail' \in [Players -> [Conns -> SUBSET Letters]]
  BY <1>0, <1>b, Sending
<1>10. /\ excuses \subseteq excuses' /\ excuses' \subseteq Excuses
       /\ UNCHANGED <<peers, invites, expired, conn, mine, inbox, known, spent>>
  <2>1. excuses' = excuses \cup Crossing(g)
    BY DEF JoinExisting, Excuse
  <2>2. Crossing(g) \subseteq Excuses
    BY DEF Crossing, Excuses
  <2> QED
    BY <1>0, <2>1, <2>2 DEF TypeOK, JoinExisting
<1>11. TypeOK'
  BY <1>0, <1>1, <1>2, <1>9, <1>10, WriteTypes DEF TypeOK
<1>12. "double" \notin excuses' =>
         \A q \in Players : q \in Members(l)' /\ q \notin Members(l) => PartiesOf(q) = {}
  BY <1>0, <1>8 DEF InParty
<1>13. \A q \in Players : q \in Members(l)' =>
         \/ q \in Members(l) /\ seats[q].conn = party[l][q].conn
         \/ at[q][seats[q].conn] \in Live
  BY <1>0, <1>1, <1>2, <1>8 DEF Live
<1>14. at'[g][c] # "bye" /\ (at'[g][c] \in Live => at[g][c] \in Live)
  BY <1>0, <1>9 DEF Live
<1>c. \A q \in Players, d \in Conns :
        q # g \/ d # c => at'[q][d] = at[q][d] /\ job'[q][d] = job[q][d]
  BY <1>9
<1> QED
  BY <1>0, <1>1, <1>2, <1>8, <1>9, <1>10, <1>11, <1>12, <1>13, <1>14, <1>c, WriteKeeps

\* A party is created for its leader and the guest (JoinNew).
LEMMA JoinNewStep ==
  ASSUME PInv, NEW g \in Players, NEW c \in Conns, JoinNew(g, c)
  PROVE  PInv'
<1>a. PICK l \in Players : l = job[g][c].party
  BY DEF PInv, JobsAreFormed, JoinNew
<1>b. PICK d \in Conns : d = job[g][c].conn
  BY Fields DEF PInv
<1> DEFINE first == Seat("leader", d)
           second == Seat("normal", c)
           seats == [p \in Players |-> IF p = l THEN first ELSE IF p = g THEN second ELSE NoSeat]
<1>0. /\ TypeOK /\ at[g][c] = "change" /\ l # g /\ Members(l) = {} /\ PartiesOf(g) = {}
  BY <1>a DEF PInv, JobsAreFormed, JoinNew, Refused, InParty
<1>1. /\ first \in Seats /\ first.role = "leader" /\ first.conn = d
      /\ second \in Seats /\ second.role = "normal" /\ second.conn = c
      /\ NoSeat \in Seats /\ NoSeat.role = "none"
  BY <1>0, Constructors DEF Seat, NoSeat
<1>2. party' = [party EXCEPT ![l] = seats]
  BY <1>a, <1>b DEF JoinNew
<1> HIDE DEF first, second
<1>3. seats \in [Players -> Seats] /\ seats[l] = first /\ seats[g] = second
  BY <1>0, <1>1
<1>4. Seated(seats) = {l, g}
  BY <1>0, <1>1 DEF Seated
<1> HIDE DEF seats
<1>5. Cardinality({l, g}) <= MaxMembers
  <2>1. Cardinality({l}) = 1 /\ IsFiniteSet({l}) /\ {l} \cup {g} = {l, g}
    BY FS_Singleton
  <2>2. Cardinality({l} \cup {g}) = Cardinality({l}) + 1
    BY <1>0, <2>1, FS_AddElement
  <2>3. Cardinality({l, g}) = 2
    BY <2>1, <2>2
  <2>4. MaxMembers >= 2
    BY LimitsAssumption
  <2> QED
    BY <2>3, <2>4, LimitsAssumption
<1>6. Formed(l, seats)
  BY <1>0, <1>1, <1>3, <1>4, <1>5 DEF Formed
<1>7. PartiesAreFormed' /\ Members(l)' = {l, g}
  BY <1>2, <1>3, <1>4, <1>6, FormedKeeps
<1>8. PICK letter \in Letters : SendThen(g, c, {letter}, l)
  <2>1. [to |-> l, conn |-> d, msg |-> Joined(l)] \in Letters
    BY Constructors DEF Letters
  <2> QED
    BY <1>a, <1>b, <2>1 DEF JoinNew
<1>9. /\ at'[g][c] = "send" /\ job'[g][c].how = "nothing"
      /\ \A q \in Players, e \in Conns :
           q # g \/ e # c => /\ at'[q][e] = at[q][e] /\ job'[q][e] = job[q][e]
                             /\ mail'[q][e] = mail[q][e]
      /\ at' \in [Players -> [Conns -> Places]]
      /\ job' \in [Players -> [Conns -> Jobs]]
      /\ mail' \in [Players -> [Conns -> SUBSET Letters]]
  <2>1. PICK letters \in SUBSET Letters : letters = {letter}
    OBVIOUS
  <2>a. PICK next \in Players \cup {NoParty} : next = l
    OBVIOUS
  <2>2. /\ TypeOK /\ SendThen(g, c, letters, next) /\ at[g][c] # "leave"
    BY <1>0, <1>8, <2>1, <2>a
  <2>3. \A q \in Players, e \in Conns :
           q # g \/ e # c => /\ at'[q][e] = at[q][e] /\ job'[q][e] = job[q][e]
                             /\ mail'[q][e] = mail[q][e]
    <3> SUFFICES ASSUME NEW q \in Players, NEW e \in Conns, q # g \/ e # c
                 PROVE  /\ at'[q][e] = at[q][e] /\ job'[q][e] = job[q][e]
                        /\ mail'[q][e] = mail[q][e]
      OBVIOUS
    <3>1. PICK phase, j : /\ at' = [at EXCEPT ![g][c] = phase] /\ job' = [job EXCEPT ![g][c] = j]
                          /\ mail' = [mail EXCEPT ![g][c] = letters]
      BY <2>2 DEF SendThen
    <3>2. at'[q][e] = at[q][e] /\ job'[q][e] = job[q][e]
      BY <2>2, <3>1, Tasks, Only
    <3>3. mail'[q][e] = mail[q][e]
      BY <2>2, <3>1, Tasks, Only
    <3> QED
      BY <3>2, <3>3
  <2>5. /\ at'[g][c] = (IF at[g][c] = "leave" THEN "bye" ELSE "send") /\ job'[g][c].how = "nothing"
    BY <2>2, Sending
  <2>6. /\ at' \in [Players -> [Conns -> Places]]
        /\ job' \in [Players -> [Conns -> Jobs]]
        /\ mail' \in [Players -> [Conns -> SUBSET Letters]]
    BY <2>2, Sending
  <2>4. at'[g][c] = "send"
    BY <2>2, <2>5
  <2> QED
    BY <2>3, <2>4, <2>5, <2>6
<1>10. /\ excuses \subseteq excuses' /\ excuses' \subseteq Excuses
       /\ "double" \notin excuses' => PartiesOf(l) = {}
       /\ "ghost" \notin excuses' => at[l][d] \in Live
       /\ UNCHANGED <<peers, invites, expired, conn, mine, inbox, known, spent>>
  <2>1. /\ UNCHANGED <<peers, invites, expired, conn, mine, inbox, known, spent>>
        /\ excuses' = excuses \cup ({e \in {"ghost"} : ~(Online(l) /\ conn[l] = d)}
                                    \cup {e \in {"double"} : InParty(l)} \cup Crossing(g))
    BY <1>a, <1>b DEF JoinNew, Excuse
  <2>2. Crossing(g) \subseteq Excuses /\ excuses \subseteq Excuses
    BY <1>0 DEF Crossing, Excuses, TypeOK
  <2> QED
    BY <2>1, <2>2 DEF Excuses, InParty, Online
<1>11. TypeOK'
  BY <1>0, <1>2, <1>3, <1>9, <1>10, WriteTypes DEF TypeOK
<1>12. "double" \notin excuses' =>
         \A q \in Players : q \in Members(l)' /\ q \notin Members(l) => PartiesOf(q) = {}
  BY <1>0, <1>7, <1>10
<1>13. excuses' \cap {"ghost", "double"} = {} =>
         \A q \in Players : q \in Members(l)' => at[q][seats[q].conn] \in Live
  <2>1. at[g][c] \in Live
    BY <1>0 DEF Live
  <2> QED
    BY <1>0, <1>1, <1>3, <1>7, <1>10, <2>1
<1>14. at'[g][c] # "bye" /\ (at'[g][c] \in Live => at[g][c] \in Live)
  BY <1>0, <1>9 DEF Live
<1>c. \A q \in Players, e \in Conns :
        q # g \/ e # c => at'[q][e] = at[q][e] /\ job'[q][e] = job[q][e]
  BY <1>9
<1> QED
  BY <1>0, <1>2, <1>3, <1>7, <1>9, <1>10, <1>11, <1>12, <1>13, <1>14, <1>c, WriteKeeps

\* A party loses members, all of them or one that does not lead it: what a step must show.
LEMMA LossKeeps ==
  ASSUME PInv, NEW p \in Players, NEW c \in Conns, NEW l \in Players, l = job[p][c].party,
         NEW seats \in [Players -> Seats], party' = [party EXCEPT ![l] = seats],
         \A q \in Players : seats[q] = party[l][q] \/ seats[q] = NoSeat,
         Seated(seats) # {} => seats[l] = party[l][l],
         at[p][c] = "leave" => seats[p] = NoSeat,
         at[p][c] \in {"change", "leave"},
         NEW letters \in SUBSET Letters, NEW next \in Players \cup {NoParty},
         SendThen(p, c, letters, next),
         UNCHANGED <<peers, invites, expired, conn, mine, inbox, known, spent>>,
         excuses \subseteq excuses', excuses' \subseteq Excuses
  PROVE  PInv'
<1>0. TypeOK /\ IsFiniteSet(Members(l)) /\ spent' \in 0 .. MaxEvents
  BY Sets DEF PInv, TypeOK
<1>1. /\ Seated(seats) \subseteq Members(l) /\ NoSeat.role = "none"
      /\ \A q \in Seated(seats) : seats[q] = party[l][q]
  BY DEF Seated, Members, NoSeat
<1>2. Seated(seats) # {} => l \in Members(l) /\ l \in Seated(seats)
  <2> SUFFICES ASSUME Seated(seats) # {} PROVE l \in Members(l) /\ l \in Seated(seats)
    OBVIOUS
  <2>1. Members(l) # {}
    BY <1>1
  <2>2. l \in Members(l)
    BY <2>1 DEF PInv, PartiesAreFormed
  <2>3. seats[l].role # "none"
    BY <2>2 DEF Members
  <2> QED
    BY <2>2, <2>3 DEF Seated
<1>3. Cardinality(Seated(seats)) <= MaxMembers
  <2>1. CASE Members(l) = {}
    <3>1. Seated(seats) = {}
      BY <1>1, <2>1
    <3>2. Cardinality(Seated(seats)) = 0
      BY <3>1, FS_EmptySet
    <3> QED
      BY <3>2, LimitsAssumption
  <2>2. CASE Members(l) # {}
    <3>1. Cardinality(Members(l)) <= MaxMembers
      BY <2>2 DEF PInv, PartiesAreFormed
    <3>2. /\ Cardinality(Seated(seats)) <= Cardinality(Members(l))
          /\ Cardinality(Seated(seats)) \in Nat /\ Cardinality(Members(l)) \in Nat
      BY <1>0, <1>1, FS_Subset, FS_CardinalityType
    <3> QED
      BY <3>1, <3>2, LimitsAssumption
  <2> QED
    BY <2>1, <2>2
<1>4. Formed(l, seats)
  BY <1>1, <1>2, <1>3 DEF Formed, PInv, PartiesAreFormed
<1>5. PartiesAreFormed' /\ Members(l)' = Seated(seats)
  BY <1>4, FormedKeeps
<1>6. /\ at'[p][c] = (IF at[p][c] = "leave" THEN "bye" ELSE "send") /\ job'[p][c].how = "nothing"
      /\ \A q \in Players, d \in Conns :
           q # p \/ d # c => /\ at'[q][d] = at[q][d] /\ job'[q][d] = job[q][d]
                             /\ mail'[q][d] = mail[q][d]
      /\ at' \in [Players -> [Conns -> Places]]
      /\ job' \in [Players -> [Conns -> Jobs]]
      /\ mail' \in [Players -> [Conns -> SUBSET Letters]]
  BY <1>0, Sending
<1>7. TypeOK'
  BY <1>0, <1>6, WriteTypes
<1>8. "double" \notin excuses' =>
        \A q \in Players : q \in Members(l)' /\ q \notin Members(l) => PartiesOf(q) = {}
  BY <1>1, <1>5
<1>9. \A q \in Players : q \in Members(l)' =>
        /\ q \in Members(l) /\ seats[q].conn = party[l][q].conn
        /\ q = p /\ seats[q].conn = c => at'[p][c] # "bye"
  <2> SUFFICES ASSUME NEW q \in Seated(seats)
               PROVE  /\ q \in Members(l) /\ seats[q].conn = party[l][q].conn
                      /\ q = p => at'[p][c] # "bye"
    BY <1>5
  <2>1. seats[q].role # "none"
    BY DEF Seated
  <2>2. q = p => at[p][c] # "leave"
    BY <1>1, <2>1
  <2> QED
    BY <1>1, <1>6, <2>2
<1>10. /\ at'[p][c] \in {"idle", "send", "bye"} /\ at[p][c] \in {"idle", "change", "leave"}
       /\ at'[p][c] \in Live => at[p][c] \in Live
       /\ at'[p][c] = "bye" => at[p][c] = "leave" /\ l = job[p][c].party
  BY <1>6 DEF Live
<1>c. \A q \in Players, d \in Conns :
        q # p \/ d # c => at'[q][d] = at[q][d] /\ job'[q][d] = job[q][d]
  BY <1>6
<1> QED
  <2>1. PInv /\ UNCHANGED <<invites, conn>> /\ excuses \subseteq excuses' /\ PartiesAreFormed'
    BY <1>5
  <2>2. excuses' \cap {"ghost", "double"} = {} =>
          \A q \in Players : q \in Members(l)' =>
            /\ \/ q \in Members(l) /\ seats[q].conn = party[l][q].conn
               \/ at[q][seats[q].conn] \in Live
            /\ q = p /\ seats[q].conn = c => at'[p][c] # "bye"
    BY <1>9
  <2>3. job'[p][c].how = "nothing"
    BY <1>6
  <2> QED
    BY <1>7, <1>8, <1>10, <1>c, <2>1, <2>2, <2>3, WriteKeeps

\* A party ends (Disband).
LEMMA DisbandStep ==
  ASSUME PInv, NEW p \in Players, NEW c \in Conns, Disband(p, c)
  PROVE  PInv'
<1>a. PICK l \in Players : l = job[p][c].party
  BY DEF PInv, JobsAreFormed, Disband
<1>0. TypeOK /\ at[p][c] \in {"change", "leave"} /\ NoSeat \in Seats /\ NoSeat.role = "none"
  BY Constructors DEF PInv, Disband, NoSeat
<1>1. PICK seats \in [Players -> Seats] : seats = [q \in Players |-> NoSeat]
  BY <1>0
<1>2. PICK letters \in SUBSET Letters : letters = {Letter(l, q, Left) : q \in Members(l)}
  BY <1>0, Sets, LettersType
<1>3. PICK next \in Players \cup {NoParty} : next = job[p][c].next
  BY <1>0, Fields
<1>4. party' = [party EXCEPT ![l] = seats]
  BY <1>a, <1>1 DEF Disband
<1>5. SendThen(p, c, letters, next)
  BY <1>a, <1>2, <1>3 DEF Disband
<1>6. /\ UNCHANGED <<peers, invites, expired, conn, mine, inbox, known, spent>>
      /\ excuses \subseteq excuses' /\ excuses' \subseteq Excuses
  BY <1>0 DEF Disband, TypeOK
<1>7. /\ \A q \in Players : seats[q] = party[l][q] \/ seats[q] = NoSeat
      /\ Seated(seats) # {} => seats[l] = party[l][l]
      /\ at[p][c] = "leave" => seats[p] = NoSeat
  BY <1>0, <1>1 DEF Seated
<1> QED
  BY <1>a, <1>0, <1>4, <1>5, <1>6, <1>7, LossKeeps

\* One member leaves or is kicked (RemoveMember).
LEMMA RemoveMemberStep ==
  ASSUME PInv, NEW p \in Players, NEW c \in Conns, RemoveMember(p, c)
  PROVE  PInv'
<1>a. PICK l \in Players : l = job[p][c].party
  BY DEF PInv, JobsAreFormed, RemoveMember
<1>b. PICK t \in Players \cup {NoParty} : t = job[p][c].target
  BY Fields DEF PInv
<1>0. /\ TypeOK /\ at[p][c] \in {"change", "leave"} /\ NoSeat \in Seats
      /\ party[l] \in [Players -> Seats] /\ l # t
      /\ at[p][c] = "leave" => t = p
  BY <1>a, <1>b, Constructors, Fields DEF PInv, RemoveMember, JobsAreFormed
<1>1. PICK seats \in [Players -> Seats] : seats = [party[l] EXCEPT ![t] = NoSeat]
  BY <1>0
<1>2. PICK letters \in SUBSET Letters : letters = {Letter(l, q, Left) : q \in Members(l) \cap {t}}
  <2>1. Members(l) \cap {t} \subseteq Players
    BY DEF Members
  <2> QED
    BY <1>0, <2>1, LettersType
<1>3. PICK next \in Players \cup {NoParty} : next = job[p][c].next
  BY <1>0, Fields
<1>4. party' = [party EXCEPT ![l] = seats]
  <2>1. party' = [party EXCEPT ![l][t] = NoSeat]
    BY <1>a, <1>b DEF RemoveMember
  <2> QED
    BY <1>0, <1>1, <2>1 DEF TypeOK
<1>5. SendThen(p, c, letters, next)
  BY <1>a, <1>b, <1>2, <1>3 DEF RemoveMember
<1>6. /\ UNCHANGED <<peers, invites, expired, conn, mine, inbox, known, spent>>
      /\ excuses \subseteq excuses' /\ excuses' \subseteq Excuses
  BY <1>0 DEF RemoveMember, TypeOK
<1>7. /\ \A q \in Players : seats[q] = party[l][q] \/ seats[q] = NoSeat
      /\ seats[l] = party[l][l]
      /\ at[p][c] = "leave" => seats[p] = NoSeat
  BY <1>0, <1>1
<1> QED
  BY <1>a, <1>0, <1>4, <1>5, <1>6, <1>7, LossKeeps

\* The leader gives or takes back a role (SetState).
LEMMA SetStateStep ==
  ASSUME PInv, NEW l \in Players, NEW t \in Players, NEW role \in Roles \cup {"normal"},
         SetState(l, t, role)
  PROVE  PInv'
<1> DEFINE c == conn[l]
<1>0. /\ TypeOK /\ spent' \in 0 .. MaxEvents /\ at[l][c] = "idle" /\ t \in Members(l)
      /\ party[l] \in [Players -> Seats] /\ party[l][t].conn \in Conns /\ c \in Conns
      /\ role \notin {"none", "leader"}
  <2>1. TypeOK /\ Spend /\ at[l][c] = "idle" /\ t \in Members(l)
    BY DEF SetState, Idle, PInv
  <2> QED
    BY <2>1, Budget, Fields, Tasks, RolesAssumption
<1> DEFINE seat == Seat(role, party[l][t].conn)
<1>1. seat \in Seats /\ seat.role = role /\ seat.conn = party[l][t].conn
  BY <1>0, Constructors DEF Seat
<1>2. party' = [party EXCEPT ![l] = [party[l] EXCEPT ![t] = seat]]
  BY <1>0 DEF SetState, TypeOK
<1> HIDE DEF seat
<1>3. PICK seats \in [Players -> Seats] : seats = [party[l] EXCEPT ![t] = seat]
  BY <1>0, <1>1
<1>4. party' = [party EXCEPT ![l] = seats]
  BY <1>2, <1>3
<1>5. seats[t] = seat /\ \A q \in Players \ {t} : seats[q] = party[l][q]
  BY <1>0, <1>3
<1>6. Seated(seats) = Members(l)
  BY <1>0, <1>1, <1>5 DEF Seated, Members
<1>7. /\ l \in Members(l) /\ Cardinality(Members(l)) <= MaxMembers
      /\ \A p, q \in Members(l) :
           /\ (party[l][p].role = "leader") <=> (p = l)
           /\ (p # q /\ party[l][p].role = party[l][q].role) => party[l][p].role = "normal"
  BY <1>0 DEF PInv, PartiesAreFormed
<1>8. /\ t # l
      /\ role = "normal" \/ \A q \in Players : party[l][q].role # role
  BY <1>0, <1>7, RolesAssumption DEF SetState
<1>9. \A p, q \in Members(l) :
        /\ (seats[p].role = "leader") <=> (p = l)
        /\ p # q /\ seats[p].role = seats[q].role => seats[p].role = "normal"
  BY <1>0, <1>1, <1>5, <1>7, <1>8 DEF Members
<1>10. Formed(l, seats)
  BY <1>6, <1>7, <1>9 DEF Formed
<1>11. PartiesAreFormed' /\ Members(l)' = Members(l)
  BY <1>4, <1>6, <1>10, FormedKeeps
<1>12. UNCHANGED <<peers, invites, expired, conn, at, job, mail, mine, inbox, known, excuses>>
  BY DEF SetState, session
<1>13. TypeOK'
  BY <1>0, <1>4, <1>12, WriteTypes DEF TypeOK
<1>14. "double" \notin excuses' =>
         \A q \in Players : q \in Members(l)' /\ q \notin Members(l) => PartiesOf(q) = {}
  BY <1>11
<1>15. \A q \in Players : q \in Members(l)' =>
         q \in Members(l) /\ seats[q].conn = party[l][q].conn
  BY <1>1, <1>5, <1>11
<1> HIDE DEF c
<1>16. /\ at'[l][c] = "idle" /\ excuses \subseteq excuses'
       /\ \A q \in Players, d \in Conns : at'[q][d] = at[q][d] /\ job'[q][d] = job[q][d]
  BY <1>0, <1>12
<1> QED
  BY <1>0, <1>4, <1>11, <1>12, <1>13, <1>14, <1>15, <1>16, WriteKeeps

\* A player comes back: the seats of his former connections are still theirs (Register).
LEMMA RegisterStep ==
  ASSUME PInv, NEW p \in Players, Register(p)
  PROVE  PInv'
<1>a. PICK c \in Conns : c = conn[p] + 1
  <2>1. conn[p] \in 0 .. MaxConns /\ conn[p] < MaxConns
    BY DEF Register, PInv, TypeOK, Conns
  <2> QED
    BY <2>1, LimitsAssumption DEF Conns
<1>0. TypeOK /\ spent' \in 0 .. MaxEvents /\ ~Online(p) /\ conn[p] \in Nat /\ Conns \subseteq Nat
  <2>1. TypeOK /\ Spend /\ ~Online(p) /\ conn[p] \in Conns
    BY DEF Register, PInv, TypeOK
  <2>2. Conns \subseteq Nat
    BY LimitsAssumption DEF Conns
  <2> QED
    BY <2>1, <2>2, Budget
<1>1. /\ conn' = [conn EXCEPT ![p] = c] /\ peers' = [peers EXCEPT ![p] = c]
      /\ at' = [at EXCEPT ![p][c] = "idle"]
      /\ UNCHANGED <<invites, expired, party, job, mail, mine, inbox, known, excuses>>
  BY <1>a DEF Register
<1>2. /\ at'[p][c] = "idle" /\ conn'[p] = c
      /\ \A q \in Players, d \in Conns : q # p \/ d # c => at'[q][d] = at[q][d]
      /\ \A q \in Players : q # p => conn'[q] = conn[q]
      /\ at' \in [Players -> [Conns -> Places]]
  <2>1. "idle" \in Places
    BY DEF Places, Live
  <2> QED
    BY <1>0, <1>1, <2>1, Tasks, Only DEF TypeOK
<1>3. TypeOK'
  <2>1. conn' \in [Players -> Conns] /\ peers' \in [Players -> Conns]
    BY <1>0, <1>1 DEF TypeOK
  <2> QED
    BY <1>0, <1>1, <1>2, <2>1 DEF TypeOK
<1>4. \A l \in Players : Members(l)' = Members(l)
  BY <1>1 DEF Members
<1>5. PartiesAreFormed' /\ OneParty'
  BY <1>1, <1>4 DEF PInv, PartiesAreFormed, OneParty
<1>6. JobsAreFormed'
  <2>1. \A q \in Players, d \in Conns : at'[q][d] = at[q][d] \/ at'[q][d] = "idle"
    BY <1>2
  <2> QED
    BY <1>1, <2>1 DEF PInv, JobsAreFormed
<1>7. at[p][c] = "off"
  BY <1>a, <1>0 DEF PInv, NewestIsLive
<1>8. MembersAreConnected'
  <2> SUFFICES ASSUME excuses \cap {"ghost", "double"} = {},
                      NEW l \in Players, NEW q \in Players, q \in Members(l)
               PROVE  LET d == party[l][q].conn IN
                      /\ at'[q][d] \notin {"bye", "off"}
                      /\ at'[q][d] = "leave" => job[q][d].party = l
    BY <1>1, <1>4 DEF MembersAreConnected
  <2>1. PICK d \in Conns : d = party[l][q].conn
    BY <1>0, Fields
  <2>2. at[q][d] \notin {"bye", "off"} /\ (at[q][d] = "leave" => job[q][d].party = l)
    BY <2>1 DEF PInv, MembersAreConnected
  <2>3. q # p \/ d # c
    BY <1>7, <2>2
  <2> QED
    BY <1>2, <2>1, <2>2, <2>3
<1>9. NewestIsLive'
  <2> SUFFICES ASSUME NEW q \in Players, NEW d \in Conns
               PROVE  /\ at'[q][d] \in Live => d = conn'[q]
                      /\ d > conn'[q] => at'[q][d] = "off"
    BY DEF NewestIsLive
  <2>1. CASE q = p /\ d = c
    BY <1>0, <1>2, <2>1
  <2>2. CASE q = p /\ d # c
    <3>1. at'[q][d] = at[q][d] /\ conn'[q] = conn[p] + 1 /\ d \in Nat
      BY <1>a, <1>0, <1>2, <2>2
    <3>2. at[q][d] \notin Live
      BY <1>0, <2>2 DEF PInv, NewestIsLive, Online
    <3>3. d > conn[p] + 1 => d > conn[p]
      BY <1>0, <3>1
    <3> QED
      BY <2>2, <3>1, <3>2, <3>3 DEF PInv, NewestIsLive
  <2>3. CASE q # p
    BY <1>2, <2>3 DEF PInv, NewestIsLive
  <2> QED
    BY <2>1, <2>2, <2>3
<1> QED
  BY <1>3, <1>5, <1>6, <1>8, <1>9 DEF PInv

-----------------------------------------------------------------------------
(* The theorems                                                            *)

\* The channel starts without parties and invitations.
LEMMA InitHolds == Init => PInv
<1> SUFFICES ASSUME Init PROVE PInv
  OBVIOUS
<1>0. /\ 0 \in Conns /\ 1 \in Conns /\ NoSeat \in Seats /\ NoJob \in Jobs /\ <<>> \in Seq(Messages)
      /\ NoSeat.role = "none" /\ NoJob.how = "nothing" /\ {"idle", "off"} \subseteq Places
  BY LimitsAssumption, Constructors, Queues DEF Conns, NoSeat, NoJob, Job, Places, Live
<1>1. TypeOK
  <2>1. /\ at \in [Players -> [Conns -> Places]] /\ job \in [Players -> [Conns -> Jobs]]
        /\ mail \in [Players -> [Conns -> SUBSET Letters]]
    BY <1>0 DEF Init
  <2> QED
    BY <1>0, <2>1, LimitsAssumption DEF Init, TypeOK
<1>2. \A l \in Players : Members(l) = {}
  BY <1>0 DEF Init, Members
<1>3. \A p \in Players, c \in Conns : /\ at[p][c] = (IF c = 1 THEN "idle" ELSE "off")
                                      /\ job[p][c] = NoJob /\ conn[p] = 1
  BY DEF Init
<1>4. JobsAreFormed
  BY <1>0, <1>3 DEF Init, JobsAreFormed
<1>5. NewestIsLive
  <2> SUFFICES ASSUME NEW p \in Players, NEW c \in Conns
               PROVE  /\ at[p][c] \in Live => c = conn[p]
                      /\ c > conn[p] => at[p][c] = "off"
    BY DEF NewestIsLive
  <2>1. c \in Nat
    BY LimitsAssumption DEF Conns
  <2>2. c > 1 => c # 1
    BY <2>1
  <2> QED
    BY <1>3, <2>2 DEF Live
<1> QED
  BY <1>1, <1>2, <1>4, <1>5 DEF PInv, PartiesAreFormed, OneParty, MembersAreConnected

\* Every step keeps the invariant, and so does no step.
LEMMA NextKeeps == PInv /\ [Next]_vars => PInv'
<1> SUFFICES ASSUME PInv, [Next]_vars PROVE PInv'
  OBVIOUS
<1>1. ASSUME NEW p \in Players, NEW c \in Conns, Works(p, c) PROVE PInv'
  <2>1. CASE JoinRefused(p, c) \/ JoinExisting(p, c) \/ JoinNew(p, c)
    BY <2>1, EndStep, JoinExistingStep, JoinNewStep
  <2>2. CASE Disband(p, c) \/ RemoveMember(p, c)
    BY <2>2, DisbandStep, RemoveMemberStep
  <2>3. CASE \E letter \in mail[p][c] : Deliver(p, c, letter)
    BY <2>3, DeliverStep
  <2>4. CASE Finish(p, c) \/ Unlist(p, c) \/ Uninvite(p, c) \/ FindParty(p, c) \/ Gone(p, c)
    BY <2>4, EndStep, DropStep, FindStep, GoneStep
  <2> QED
    BY <1>1, <2>1, <2>2, <2>3, <2>4 DEF Works
<1>2. ASSUME NEW p \in Players, Proceed(p) PROVE PInv'
  BY <1>1, <1>2, HandleStep DEF Proceed
<1>3. ASSUME NEW p \in Players, Asks(p) PROVE PInv'
  <2>1. ASSUME NEW q \in Players, Invite(p, q) \/ Remove(p, q) PROVE PInv'
    BY <2>1, InviteStep, RemoveStep
  <2>2. ASSUME NEW q \in Players, NEW accept \in BOOLEAN, Answer(p, q, accept) PROVE PInv'
    BY <2>2, AnswerStep
  <2>3. ASSUME NEW q \in Players, NEW role \in Roles \cup {"normal"}, SetState(p, q, role)
        PROVE  PInv'
    BY <2>3, SetStateStep
  <2>4. CASE Disconnect(p) \/ Register(p)
    BY <2>4, DisconnectStep, RegisterStep
  <2> QED
    BY <1>3, <2>1, <2>2, <2>3, <2>4 DEF Asks
<1>4. ASSUME NEW i \in invites, Expire(i) PROVE PInv'
  BY <1>4, ExpireStep
<1>5. CASE UNCHANGED vars
  <2>1. UNCHANGED <<peers, invites, expired, party, conn, at, job, mail, mine, inbox, known,
                    excuses, spent>>
    BY <1>5 DEF vars, registry, session
  <2>2. TypeOK'
    BY <2>1 DEF PInv, TypeOK
  <2>3. \A i \in invites' : i[1] # i[2]
    BY <2>1 DEF PInv, JobsAreFormed
  <2> QED
    BY <2>1, <2>2, <2>3, StillKeeps
<1> QED
  BY <1>2, <1>3, <1>4, <1>5 DEF Next

\* The invariant holds in every state: what each handler holds between two locks is what its next
\* step needs, and every party it finds there is well formed.
THEOREM PartyIsConsistent == Spec => []PInv
BY InitHolds, NextKeeps, PTL DEF Spec

\* The registries, the sessions and their outboxes keep their types.
THEOREM PartyTypeCorrect == Spec => []TypeOK
<1>1. PInv => TypeOK
  BY DEF PInv
<1> QED
  BY <1>1, PartyIsConsistent, PTL

\* A party that exists has its leader in it and no other one, is never larger than
\* PARTY_MAX_MEMBER, and gives each role to one member at most.
THEOREM PartiesStayFormed == Spec => []PartiesAreFormed
<1>1. PInv => PartiesAreFormed
  BY DEF PInv
<1> QED
  BY <1>1, PartyIsConsistent, PTL

\* Nobody is in two parties unless one was created for a leader who had entered another.
THEOREM NobodyEntersTwo == Spec => []NobodyInTwoParties
<1>1. PInv => NobodyInTwoParties
  <2> SUFFICES ASSUME PInv, "double" \notin excuses, NEW p \in Players
               PROVE  Cardinality(PartiesOf(p)) <= 1
    BY DEF NobodyInTwoParties
  <2>1. \A x, y \in PartiesOf(p) : x = y
    BY DEF PInv, OneParty, PartiesOf
  <2>2. IsFiniteSet(PartiesOf(p))
    BY PlayersAssumption, FS_Subset DEF PartiesOf
  <2> QED
    BY <2>1, <2>2, AtMostOne
<1> QED
  BY <1>1, PartyIsConsistent, PTL

\* A seat is of a connection that is there or whose guard is still going to take it away, whatever
\* handlers and guards of its player run at once (PartyPeerGuard, session.rs).
THEOREM SeatsAreConnected == Spec => []MembersAreConnected
<1>1. PInv => MembersAreConnected
  BY DEF PInv
<1> QED
  BY <1>1, PartyIsConsistent, PTL

-----------------------------------------------------------------------------
(* What sessions know of the registry                                      *)

\* The party of p is v, or he has none and v is NoParty.
In(p, v) == PartiesOf(p) = {v} \ {NoParty}

\* Where the connection is that a player has now, and what its handler holds.
Now(p) == at[p][conn[p]]
Doing(p) == job[p][conn[p]]

\* His seat is of a connection that has ended: its guard is going to take it away.
Haunted(p) == \E l \in PartiesOf(p) : party[l][p].conn # conn[p]

OnTheWay(m) == \E q \in Players, c \in Conns : m \in mail[q][c]

\* A letter that says so is on its way to p.
Told(p) == \E m \in Letters : OnTheWay(m) /\ m.to = p /\ m.conn = conn[p] /\ In(p, m.msg.party)
\* It has arrived, as the last of his messages.
Waiting(p) == inbox[p] # <<>> /\ In(p, inbox[p][Len(inbox[p])].party)
\* He knows it, or writes it when his handler ends.
Becomes(p) == IF Now(p) = "send" THEN Doing(p).next ELSE mine[p]
Settled(p) ==
  /\ inbox[p] = <<>> /\ In(p, Becomes(p)) /\ known[p] \in {Becomes(p), NoParty}
  /\ p \in Members(p) => known[p] = p
\* He knows of no party, and hears of none.
Blank(p) ==
  /\ inbox[p] = <<>> /\ Becomes(p) = NoParty /\ known[p] = NoParty
  /\ \A m \in Letters : OnTheWay(m) => ~(m.to = p /\ m.conn = conn[p])
Informed(p) == Online(p) => IF Haunted(p) THEN Blank(p) ELSE Told(p) \/ Waiting(p) \/ Settled(p)

\* Letters are to connections that have been opened.
Reached(p) == \A m \in Letters : OnTheWay(m) /\ m.to = p => m.conn <= conn[p]

\* What a handler that leaves, kicks or disbands has read under its first lock is out of date only
\* in ways of which its player is told.
Changing(p) ==
  Now(p) = "change" /\ Doing(p).how \in {"disband", "remove"} =>
    /\ PartiesOf(p) \subseteq {Doing(p).party, p}
    /\ Doing(p).party # p => mine[p] \in {Doing(p).party, NoParty} /\ Doing(p).next = NoParty
    /\ Doing(p).party = p => Doing(p).next = IF Doing(p).how = "remove" THEN mine[p] ELSE NoParty
    /\ Doing(p).how = "remove" => ((Doing(p).target = p) <=> (Doing(p).party # p))

Aware(p) == Informed(p) /\ Reached(p) /\ Changing(p)

\* Players are told of their own party or of none; only a handler that has changed a party has
\* letters, and nobody who is not there has anything.
LettersAreOwn ==
  \A q \in Players, c \in Conns : \A m \in mail[q][c] : m.msg \in {Left, Joined(m.to)}
InboxesAreOwn == \A p \in Players : \A k \in 1 .. Len(inbox[p]) : inbox[p][k].party \in {p, NoParty}
IdleHaveNoMail ==
  \A q \in Players, c \in Conns : at[q][c] \notin {"send", "bye"} => mail[q][c] = {}
GoneAreBlank ==
  \A p \in Players : ~Online(p) => mine[p] = NoParty /\ known[p] = NoParty /\ inbox[p] = <<>>
Mailed == LettersAreOwn /\ InboxesAreOwn /\ IdleHaveNoMail /\ GoneAreBlank

AllInformed == excuses = {} => \A p \in Players : Aware(p)

KInv == Mailed /\ AllInformed

\* What a step leaves alone of one player: his seats, and the letters to him but those that reach
\* nobody.
SamePlace(p) ==
  PartiesOf(p)' = PartiesOf(p) /\ \A l \in PartiesOf(p) : party'[l][p].conn = party[l][p].conn
SameMail(p) ==
  \A m \in Letters : m.to = p => /\ OnTheWay(m)' => OnTheWay(m)
                                 /\ m.conn = conn[p] /\ OnTheWay(m) => OnTheWay(m)'

\* The kinds of messages (Left, Joined).
LEMMA MessageFields ==
  /\ Left.kind = "left" /\ Left.party = NoParty
  /\ \A p : Joined(p).kind = "joined" /\ Joined(p).party = p
BY DEF Left, Joined

\* The party of a player, when nobody has two.
LEMMA PartyOf ==
  ASSUME PInv, excuses = {}, NEW p \in Players
  PROVE  /\ \A l \in Players : p \in Members(l) <=> l \in PartiesOf(p)
         /\ \A l \in Players : p \in Members(l) => In(p, l)
         /\ ~InParty(p) => In(p, NoParty)
         /\ \A l \in Players : In(p, l) => p \in Members(l)
         /\ In(p, NoParty) => PartiesOf(p) = {}
         /\ PartiesOf(p) \subseteq Players
         /\ \A l, m \in PartiesOf(p) : l = m
<1>0. NoParty \notin Players
  BY PlayersAssumption
<1>1. \A l \in Players : p \in Members(l) <=> l \in PartiesOf(p)
  BY DEF PartiesOf
<1>2. \A l, m \in PartiesOf(p) : l = m
  BY <1>1 DEF PInv, OneParty, PartiesOf
<1>3. PartiesOf(p) \subseteq Players
  BY DEF PartiesOf
<1>4. \A l \in Players : p \in Members(l) => In(p, l)
  BY <1>0, <1>1, <1>2, <1>3 DEF In
<1>5. \A l \in Players : In(p, l) => p \in Members(l)
  BY <1>0, <1>1 DEF In
<1> QED
  BY <1>0, <1>1, <1>2, <1>3, <1>4, <1>5 DEF In, InParty

\* A seat is of a connection that has been opened and whose guard has work to do.
LEMMA SeatIsOld ==
  ASSUME PInv, excuses = {}, NEW p \in Players, NEW l \in PartiesOf(p)
  PROVE  /\ party[l][p].conn \in Conns /\ party[l][p].conn <= conn[p]
         /\ at[p][party[l][p].conn] \notin {"bye", "off"}
<1>1. l \in Players /\ p \in Members(l)
  BY DEF PartiesOf
<1>2. PICK c \in Conns : c = party[l][p].conn
  BY <1>1, Fields DEF PInv
<1>3. at[p][c] \notin {"bye", "off"}
  BY <1>1, <1>2 DEF PInv, MembersAreConnected
<1>4. ~(c > conn[p])
  BY <1>3 DEF PInv, NewestIsLive
<1>5. c \in Nat /\ conn[p] \in Nat
  BY Tasks, LimitsAssumption DEF Conns, PInv
<1> QED
  BY <1>2, <1>3, <1>4, <1>5

\* The parties of a player after one party is written.
LEMMA PartiesWritten ==
  ASSUME TypeOK, NEW l \in Players, NEW seats \in [Players -> Seats],
         party' = [party EXCEPT ![l] = seats], NEW q \in Players
  PROVE  /\ seats[q].role # "none" => PartiesOf(q)' = PartiesOf(q) \cup {l}
         /\ seats[q].role = "none" => PartiesOf(q)' = PartiesOf(q) \ {l}
<1>1. \A m \in Players : party'[m] = IF m = l THEN seats ELSE party[m]
  BY DEF TypeOK
<1>2. \A m \in Players : q \in Members(m)' <=> (IF m = l THEN seats[q].role # "none"
                                                 ELSE q \in Members(m))
  BY <1>1 DEF Members
<1>3. PartiesOf(q)' = {m \in Players : q \in Members(m)'}
  BY DEF PartiesOf
<1>4. seats[q].role # "none" => PartiesOf(q)' = PartiesOf(q) \cup {l}
  BY <1>2, <1>3 DEF PartiesOf
<1>5. seats[q].role = "none" => PartiesOf(q)' = PartiesOf(q) \ {l}
  BY <1>2, <1>3 DEF PartiesOf
<1> QED
  BY <1>4, <1>5

\* A player's seat is not written.
LEMMA SeatKept ==
  ASSUME TypeOK, NEW l \in Players, NEW seats \in [Players -> Seats],
         party' = [party EXCEPT ![l] = seats], NEW q \in Players,
         seats[q].role = "none" <=> party[l][q].role = "none",
         seats[q].role # "none" => seats[q].conn = party[l][q].conn
  PROVE  SamePlace(q)
<1>0. party'[l] = seats /\ \A m \in Players \ {l} : party'[m] = party[m]
  BY DEF TypeOK
<1>1. /\ seats[q].role # "none" => PartiesOf(q)' = PartiesOf(q) \cup {l}
      /\ seats[q].role = "none" => PartiesOf(q)' = PartiesOf(q) \ {l}
  BY PartiesWritten
<1>2. PartiesOf(q) \subseteq Players /\ (l \in PartiesOf(q) <=> seats[q].role # "none")
  <2>1. q \in Members(l) <=> party[l][q].role # "none"
    BY DEF Members
  <2> QED
    BY <2>1 DEF PartiesOf
<1>3. PartiesOf(q)' = PartiesOf(q)
  BY <1>1, <1>2
<1>4. ASSUME NEW m \in PartiesOf(q) PROVE party'[m][q].conn = party[m][q].conn
  <2>1. CASE m = l
    BY <1>0, <1>2, <2>1
  <2>2. CASE m # l
    BY <1>0, <1>2, <2>2
  <2> QED
    BY <2>1, <2>2
<1> QED
  BY <1>3, <1>4 DEF SamePlace

\* The parties of everybody, when no party is written, and the letters, when none is sent.
LEMMA SameParties ==
  ASSUME NEW p \in Players
  PROVE  (UNCHANGED party => SamePlace(p)) /\ (UNCHANGED mail => SameMail(p))
<1>1. ASSUME UNCHANGED party PROVE PartiesOf(p)' = PartiesOf(p)
  BY <1>1 DEF PartiesOf, Members
<1>2. ASSUME UNCHANGED mail, NEW m PROVE OnTheWay(m)' <=> OnTheWay(m)
  BY <1>2 DEF OnTheWay
<1>3. UNCHANGED mail => SameMail(p)
  BY <1>2 DEF SameMail
<1> QED
  BY <1>1, <1>3 DEF SamePlace

\* Somebody whose place, memory and queue do not change stays informed, if no letter to him is lost.
LEMMA StaysInformed ==
  ASSUME NEW p \in Players, Informed(p), SamePlace(p), SameMail(p), Online(p)' => Online(p),
         conn'[p] = conn[p], inbox'[p] = inbox[p], known'[p] = known[p],
         Becomes(p)' = Becomes(p)
  PROVE  Informed(p)'
<1>1. \A v : In(p, v)' <=> In(p, v)
  BY DEF In, SamePlace
<1>2. p \in Members(p)' <=> p \in Members(p)
  <2>1. p \in Members(p) <=> p \in PartiesOf(p)
    BY DEF PartiesOf
  <2>2. p \in Members(p)' <=> p \in PartiesOf(p)'
    BY DEF PartiesOf
  <2> QED
    BY <2>1, <2>2 DEF SamePlace
<1>3. Haunted(p)' <=> Haunted(p)
  BY DEF Haunted, SamePlace
<1> SUFFICES ASSUME Online(p)'
             PROVE  IF Haunted(p) THEN Blank(p)' ELSE Told(p)' \/ Waiting(p)' \/ Settled(p)'
  BY <1>3 DEF Informed
<1>4. CASE Haunted(p)
  <2>1. Blank(p)
    BY <1>4 DEF Informed
  <2>2. \A m \in Letters : OnTheWay(m)' => ~(m.to = p /\ m.conn = conn'[p])
    BY <2>1 DEF Blank, SameMail
  <2>3. Blank(p)'
    BY <2>1, <2>2 DEF Blank
  <2> QED
    BY <1>4, <2>3
<1>5. CASE ~Haunted(p) /\ Told(p)
  <2>1. PICK m \in Letters : OnTheWay(m) /\ m.to = p /\ m.conn = conn[p] /\ In(p, m.msg.party)
    BY <1>5 DEF Told
  <2>2. OnTheWay(m)' /\ m.conn = conn'[p] /\ In(p, m.msg.party)'
    BY <1>1, <2>1 DEF SameMail
  <2>3. Told(p)'
    BY <2>1, <2>2 DEF Told
  <2> QED
    BY <1>5, <2>3
<1>6. CASE ~Haunted(p) /\ Waiting(p)
  <2>1. PartiesOf(p)' = PartiesOf(p)
    BY DEF SamePlace
  <2>2. Waiting(p)'
    BY <1>6, <2>1 DEF Waiting, In
  <2> QED
    BY <1>6, <2>2
<1>7. CASE ~Haunted(p) /\ Settled(p)
  <2>1. PartiesOf(p)' = PartiesOf(p)
    BY DEF SamePlace
  <2>2. Settled(p)'
    BY <1>2, <1>7, <2>1 DEF Settled, In
  <2> QED
    BY <1>7, <2>2
<1> QED
  BY <1>4, <1>5, <1>6, <1>7 DEF Informed

\* What a handler has read stays as it was, but for a party that a guest creates for its player.
LEMMA StaysChanging ==
  ASSUME NEW p \in Players, Changing(p), PartiesOf(p)' \subseteq PartiesOf(p) \cup {p},
         Now(p)' = Now(p), Doing(p)' = Doing(p), mine'[p] = mine[p]
  PROVE  Changing(p)'
BY DEF Changing

\* Nobody is sent anything: all letters are to connections that have been opened.
LEMMA StaysReached ==
  ASSUME NEW p \in Players, Reached(p), SameMail(p), conn'[p] = conn[p]
  PROVE  Reached(p)'
BY DEF Reached, SameMail

\* Somebody whom a step does not touch.
LEMMA Bystander ==
  ASSUME NEW p \in Players, Aware(p), SamePlace(p), SameMail(p),
         Now(p)' = Now(p), Doing(p)' = Doing(p), mine'[p] = mine[p],
         conn'[p] = conn[p], inbox'[p] = inbox[p], known'[p] = known[p]
  PROVE  Aware(p)'
<1>1. Becomes(p)' = Becomes(p) /\ (Online(p)' => Online(p))
  BY DEF Becomes, Online, Now
<1>2. Informed(p)' /\ Reached(p)'
  BY <1>1, StaysInformed, StaysReached DEF Aware
<1>3. Changing(p)'
  BY StaysChanging DEF Aware, SamePlace
<1> QED
  BY <1>2, <1>3 DEF Aware

\* Where the last connections of all players are after a step of one connection.
LEMMA Frames ==
  ASSUME TypeOK, NEW a \in Players, NEW c \in Conns, c = conn[a], NEW x, NEW y, UNCHANGED conn,
         at' = [at EXCEPT ![a][c] = x], job' = [job EXCEPT ![a][c] = y], NEW p \in Players
  PROVE  /\ p # a => Now(p)' = Now(p) /\ Doing(p)' = Doing(p)
         /\ p = a => Now(p)' = x /\ Doing(p)' = y
<1>1. conn[p] \in Conns
  BY Tasks
<1>2. at'[a][c] = x /\ \A q \in Players, d \in Conns : q # a \/ d # c => at'[q][d] = at[q][d]
  BY Tasks, Only
<1>3. job'[a][c] = y /\ \A q \in Players, d \in Conns : q # a \/ d # c => job'[q][d] = job[q][d]
  BY Tasks, Only
<1>4. p # a => Now(p)' = Now(p) /\ Doing(p)' = Doing(p)
  BY <1>1, <1>2, <1>3 DEF Now, Doing
<1>5. p = a => Now(p)' = x /\ Doing(p)' = y
  BY <1>2, <1>3 DEF Now, Doing
<1> QED
  BY <1>4, <1>5

\* A session that is alive is of the last connection.
LEMMA LiveIsNew ==
  ASSUME PInv, NEW a \in Players, NEW c \in Conns, at[a][c] \in Live
  PROVE  c = conn[a] /\ Online(a) /\ Now(a) = at[a][c]
<1>1. c = conn[a]
  BY DEF PInv, NewestIsLive
<1> QED
  BY <1>1 DEF Online, Now

-----------------------------------------------------------------------------
(* Steps that change no outbox and no party                                *)

\* Invitations (Invite, Expire) and roles (SetState).
LEMMA SilentSteps ==
  ASSUME PInv, NEW p \in Players, Aware(p),
         \/ \E l, g \in Players : Invite(l, g)
         \/ \E i \in invites : Expire(i)
         \/ \E l, t \in Players, role \in Roles \cup {"normal"} : SetState(l, t, role)
         \/ UNCHANGED vars
  PROVE  Aware(p)'
<1>1. UNCHANGED session /\ UNCHANGED known
  BY DEF Invite, Expire, SetState, session, vars
<1>2. SamePlace(p)
  <2>1. CASE UNCHANGED party
    BY <2>1, SameParties
  <2>2. ASSUME NEW l \in Players, NEW t \in Players, NEW role \in Roles \cup {"normal"},
               SetState(l, t, role)
        PROVE  SamePlace(p)
    <3> DEFINE c == party[l][t].conn
    <3>0. TypeOK /\ role # "none" /\ t \in Members(l) /\ c \in Conns /\ party[l] \in [Players -> Seats]
      BY <2>2, RolesAssumption, Fields DEF PInv, SetState
    <3> DEFINE seats == [party[l] EXCEPT ![t] = Seat(role, c)]
    <3>1. party' = [party EXCEPT ![l] = seats]
      BY <2>2 DEF SetState
    <3>2. Seat(role, c) \in Seats /\ Seat(role, c).role = role /\ Seat(role, c).conn = c
      BY <3>0 DEF Seat, Seats
    <3>3. /\ seats \in [Players -> Seats]
          /\ seats[p].role # "none" <=> party[l][p].role # "none"
          /\ seats[p].conn = party[l][p].conn
      <4>1. p # t => seats[p] = party[l][p]
        BY <3>0
      <4>2. seats[t] = Seat(role, c) /\ party[l][t].role # "none" /\ seats \in [Players -> Seats]
        BY <3>0, <3>2 DEF Members
      <4> HIDE DEF seats
      <4> QED
        BY <3>0, <3>2, <4>1, <4>2
    <3> HIDE DEF seats
    <3> QED
      BY <3>0, <3>1, <3>3, SeatKept
  <2> QED
    BY <2>1, <2>2 DEF Invite, Expire, vars, registry
<1>3. Now(p)' = Now(p) /\ Doing(p)' = Doing(p) /\ SameMail(p)
  BY <1>1, SameParties DEF session, Now, Doing
<1> QED
  BY <1>1, <1>2, <1>3, Bystander DEF session

\* An answer to an invitation, and a guest who is refused (Answer, JoinRefused): the memory stays.
LEMMA AnswerInforms ==
  ASSUME PInv, NEW p \in Players, Aware(p), NEW g \in Players,
         \/ \E l \in Players, accept \in BOOLEAN : Answer(g, l, accept)
         \/ \E c \in Conns : JoinRefused(g, c)
  PROVE  Aware(p)'
<1>0. /\ UNCHANGED <<party, conn, mail, mine, inbox, known>> /\ TypeOK
      /\ SamePlace(p) /\ SameMail(p)
  BY SameParties DEF Answer, JoinRefused, registry, PInv
<1>1. ASSUME NEW phase, phase = "idle" \/ phase = "change", NEW j, NEW c \in Conns, c = conn[g],
             at[g][c] \in {"idle", "change"}, at' = [at EXCEPT ![g][c] = phase],
             job' = [job EXCEPT ![g][c] = j], phase = "idle" \/ j.how = "join"
      PROVE  Aware(p)'
  <2>1. /\ p # g => Now(p)' = Now(p) /\ Doing(p)' = Doing(p)
        /\ p = g => Now(p)' = phase /\ Doing(p)' = j
    <3>1. /\ TypeOK /\ UNCHANGED conn /\ c = conn[g]
          /\ at' = [at EXCEPT ![g][c] = phase] /\ job' = [job EXCEPT ![g][c] = j]
      BY <1>0, <1>1
    <3> QED
      BY <3>1, Frames
  <2>2. CASE p # g
    BY <1>0, <2>1, <2>2, Bystander
  <2>3. CASE p = g
    <3>1. Becomes(p)' = Becomes(p) /\ Online(p)
      BY <1>0, <1>1, <2>1, <2>3 DEF Becomes, Online, Now, Live
    <3>2. Informed(p)' /\ Reached(p)'
      BY <1>0, <3>1, StaysInformed, StaysReached DEF Aware
    <3>3. Changing(p)'
      BY <1>1, <2>1, <2>3 DEF Changing
    <3> QED
      BY <3>2, <3>3 DEF Aware
  <2> QED
    BY <2>2, <2>3
<1>2. ASSUME NEW c \in Conns, JoinRefused(g, c) PROVE Aware(p)'
  <2>1. at[g][c] = "change" /\ at' = [at EXCEPT ![g][c] = "idle"] /\ job' = [job EXCEPT ![g][c] = NoJob]
    BY <1>2 DEF JoinRefused
  <2>2. c = conn[g]
    BY <2>1, LiveIsNew DEF Live
  <2> QED
    BY <1>1, <2>1, <2>2
<1>3. ASSUME NEW l \in Players, NEW accept \in BOOLEAN, Answer(g, l, accept) PROVE Aware(p)'
  <2> DEFINE j == Job(l, peers[l], g, "join", NoParty)
             c == conn[g]
  <2>1. j.how = "join"
    BY DEF Job
  <2>2. \/ UNCHANGED <<at, job>>
        \/ at' = [at EXCEPT ![g][c] = "change"] /\ job' = [job EXCEPT ![g][c] = j]
    BY <1>3 DEF Answer
  <2>3. at[g][c] = "idle" /\ c \in Conns
    BY <1>0, <1>3, Tasks DEF Answer, Idle
  <2> HIDE DEF j
  <2>4. CASE UNCHANGED <<at, job>>
    <3>1. Now(p)' = Now(p) /\ Doing(p)' = Doing(p)
      BY <1>0, <2>4 DEF Now, Doing
    <3> QED
      BY <1>0, <3>1, Bystander
  <2>5. CASE at' = [at EXCEPT ![g][c] = "change"] /\ job' = [job EXCEPT ![g][c] = j]
    BY <1>1, <2>1, <2>3, <2>5
  <2> QED
    BY <2>2, <2>4, <2>5
<1> QED
  BY <1>2, <1>3

-----------------------------------------------------------------------------
\* Those who hear from nobody else have their party from their own handler (JoinExisting, JoinNew),
\* or know of none.
LEMMA MembersKnow ==
  ASSUME PInv, Mailed, excuses = {}, NEW p \in Players, Online(p), Informed(p),
         NEW l \in Players, p \in Members(l), l # p
  PROVE  inbox[p] = <<>> /\ Becomes(p) \in {l, NoParty}
<1>0. NoParty \notin Players
  BY PlayersAssumption
<1>1. PartiesOf(p) = {l}
  BY <1>0, PartyOf DEF In
<1>2. \A v \in Players \cup {NoParty} : In(p, v) => v = l
  BY <1>1 DEF In
<1>3. ~Told(p)
  <2> SUFFICES ASSUME NEW q \in Players, NEW c \in Conns, NEW m \in mail[q][c], m.to = p,
                      In(p, m.msg.party)
               PROVE  FALSE
    BY DEF Told, OnTheWay
  <2>1. m.msg.party \in {p, NoParty}
    BY MessageFields DEF Mailed, LettersAreOwn
  <2> QED
    BY <1>0, <1>2, <2>1
<1>4. ~Waiting(p)
  <2> SUFFICES ASSUME inbox[p] # <<>>, In(p, inbox[p][Len(inbox[p])].party) PROVE FALSE
    BY DEF Waiting
  <2>1. Len(inbox[p]) \in 1 .. Len(inbox[p])
    <3>1. inbox[p] \in Seq(Messages)
      BY DEF PInv, TypeOK
    <3> QED
      BY <3>1
  <2>2. inbox[p][Len(inbox[p])].party \in {p, NoParty}
    BY <2>1 DEF Mailed, InboxesAreOwn
  <2> QED
    BY <1>0, <1>2, <2>2
<1>5. Blank(p) \/ Settled(p)
  BY <1>3, <1>4 DEF Informed
<1>6. Becomes(p) \in Players \cup {NoParty}
  BY Fields, Tasks DEF PInv, TypeOK, Becomes, Doing
<1> QED
  BY <1>2, <1>5, <1>6 DEF Settled, Blank

\* Who leaves, kicks or disbands knows his party, or of none (Remove).
LEMMA RemoveInforms ==
  ASSUME PInv, Mailed, excuses = {}, NEW p \in Players, Aware(p),
         NEW a \in Players, NEW t \in Players, Remove(a, t)
  PROVE  Aware(p)'
<1> DEFINE c == conn[a]
<1>0. /\ UNCHANGED <<party, conn, mail, mine, inbox, known>> /\ at[a][c] = "idle"
      /\ at' = [at EXCEPT ![a][c] = "change"] /\ c \in Conns /\ TypeOK
      /\ SamePlace(p) /\ SameMail(p)
  BY Tasks, SameParties DEF Remove, Idle, registry, PInv
<1>1. PICK l \in PartiesOf(a) :
        /\ a = l \/ a = t
        /\ LET ends == Cardinality(Members(l)) = 2 \/ (a = l /\ t = l) IN
             job' = [job EXCEPT ![a][c] = Job(l, 0, t, IF ends THEN "disband" ELSE "remove",
                                              IF a = l /\ ~ends THEN mine[a] ELSE NoParty)]
  BY DEF Remove
<1>2. l \in Players /\ a \in Members(l)
  BY <1>0 DEF PartiesOf
<1> DEFINE ends == Cardinality(Members(l)) = 2 \/ (a = l /\ t = l)
           j == Job(l, 0, t, IF ends THEN "disband" ELSE "remove",
                    IF a = l /\ ~ends THEN mine[a] ELSE NoParty)
<1>3. /\ j.party = l /\ j.target = t /\ j.how = (IF ends THEN "disband" ELSE "remove")
      /\ j.next = (IF a = l /\ ~ends THEN mine[a] ELSE NoParty)
  BY DEF Job
<1>4. a = l /\ t = l => ends
  OBVIOUS
<1>5. job' = [job EXCEPT ![a][c] = j]
  BY <1>1
<1> HIDE DEF ends, j, c
<1>6. /\ p # a => Now(p)' = Now(p) /\ Doing(p)' = Doing(p)
      /\ p = a => Now(p)' = "change" /\ Doing(p)' = j
  <2>1. /\ TypeOK /\ UNCHANGED conn /\ c = conn[a] /\ c \in Conns
        /\ at' = [at EXCEPT ![a][c] = "change"] /\ job' = [job EXCEPT ![a][c] = j]
    BY <1>0, <1>5 DEF c
  <2> QED
    BY <2>1, Frames
<1>7. CASE p # a
  BY <1>0, <1>6, <1>7, Bystander
<1>8. CASE p = a
  <2>1. Becomes(p) = mine[p] /\ Becomes(p)' = mine'[p] /\ Online(p)
    BY <1>0, <1>6, <1>8 DEF Becomes, Online, Now, Live, c
  <2>2. Informed(p)' /\ Reached(p)'
    BY <1>0, <2>1, StaysInformed, StaysReached DEF Aware
  <2>3. Changing(p)'
    <3>1. PartiesOf(p)' \subseteq {l, p}
      BY <1>0, <1>1, <1>8, PartyOf DEF SamePlace
    <3>2. l # p => mine'[p] \in {l, NoParty}
      BY <1>0, <1>2, <1>8, <2>1, MembersKnow DEF Aware
    <3>3. /\ l # p => j.next = NoParty
          /\ l = p => j.next = IF j.how = "remove" THEN mine'[p] ELSE NoParty
      BY <1>0, <1>3, <1>8
    <3>4. j.how = "remove" => ((j.target = p) <=> (l # p))
      BY <1>1, <1>3, <1>4, <1>8
    <3> QED
      BY <1>3, <1>6, <1>8, <3>1, <3>2, <3>3, <3>4 DEF Changing
  <2> QED
    BY <2>2, <2>3 DEF Aware
<1> QED
  BY <1>7, <1>8

\* The last of a queue that gets one message more, or loses its first.
LEMMA LastOf ==
  ASSUME NEW S, NEW seq \in Seq(S)
  PROVE  /\ \A m \in S : /\ Append(seq, m) # <<>>
                         /\ Append(seq, m)[Len(Append(seq, m))] = m
         /\ seq # <<>> => Len(seq) = 1 \/ Len(seq) >= 2
         /\ Len(seq) >= 2 => Tail(seq) # <<>> /\ Tail(seq)[Len(Tail(seq))] = seq[Len(seq)]
         /\ Len(seq) = 1 => Tail(seq) = <<>> /\ Head(seq) = seq[Len(seq)]
<1>0. Len(seq) \in Nat
  OBVIOUS
<1>n. \A n \in Nat : (n # 0 => n = 1 \/ n >= 2) /\ (n >= 2 => n - 1 # 0)
  OBVIOUS
<1>1. ASSUME NEW m \in S
      PROVE  Append(seq, m) # <<>> /\ Append(seq, m)[Len(Append(seq, m))] = m
  <2>1. Len(Append(seq, m)) = Len(seq) + 1 /\ Append(seq, m)[Len(seq) + 1] = m
    OBVIOUS
  <2> QED
    BY <1>0, <2>1
<1>2. seq # <<>> => Len(seq) = 1 \/ Len(seq) >= 2
  <2>1. seq # <<>> => Len(seq) # 0
    BY EmptySeq
  <2> QED
    BY <1>0, <1>n, <2>1
<1>3. ASSUME seq # <<>>
      PROVE  /\ Tail(seq) \in Seq(S) /\ Len(Tail(seq)) = Len(seq) - 1
             /\ \A i \in 1 .. Len(Tail(seq)) : Tail(seq)[i] = seq[i + 1]
             /\ Head(seq) = seq[1]
  BY <1>3, HeadTailProperties
<1>4. ASSUME Len(seq) >= 2
      PROVE  Tail(seq) # <<>> /\ Tail(seq)[Len(Tail(seq))] = seq[Len(seq)]
  <2>1. seq # <<>>
    BY <1>4, EmptySeq
  <2>2. Len(Tail(seq)) = Len(seq) - 1 /\ Len(Tail(seq)) # 0
    BY <1>0, <1>n, <1>3, <1>4, <2>1
  <2>3. Len(seq) - 1 \in 1 .. Len(Tail(seq)) /\ (Len(seq) - 1) + 1 = Len(seq)
    BY <1>0, <1>4, <2>2
  <2>4. Tail(seq)[Len(seq) - 1] = seq[Len(seq)]
    BY <1>3, <2>1, <2>3
  <2>5. Tail(seq) # <<>>
    BY <2>2, EmptySeq
  <2> QED
    BY <2>2, <2>4, <2>5
<1>5. ASSUME Len(seq) = 1
      PROVE  Tail(seq) = <<>> /\ Head(seq) = seq[Len(seq)]
  <2>1. seq # <<>>
    BY <1>5, EmptySeq
  <2>2. Len(Tail(seq)) = 0 /\ Tail(seq) \in Seq(S)
    BY <1>3, <1>5, <2>1
  <2>3. Tail(seq) = <<>>
    BY <2>2, EmptySeq
  <2> QED
    BY <1>3, <1>5, <2>1, <2>3
<1> QED
  BY <1>1, <1>2, <1>4, <1>5

\* A handler ends (Finish), and a session hears what was sent to it (HandleMsg).
LEMMA EndInforms ==
  ASSUME PInv, NEW p \in Players, Aware(p), NEW a \in Players,
         (\E c \in Conns : Finish(a, c)) \/ HandleMsg(a)
  PROVE  Aware(p)'
<1>0. /\ UNCHANGED <<party, conn, mail>> /\ SamePlace(p) /\ SameMail(p) /\ TypeOK
      /\ inbox \in [Players -> Seq(Messages)] /\ DOMAIN mine = Players /\ DOMAIN known = Players
  BY SameParties DEF Finish, HandleMsg, registry, PInv, TypeOK
<1>1. ASSUME NEW c \in Conns, Finish(a, c) PROVE Aware(p)'
  <2>1. /\ at[a][c] = "send" /\ mine' = [mine EXCEPT ![a] = job[a][c].next]
        /\ at' = [at EXCEPT ![a][c] = "idle"] /\ job' = [job EXCEPT ![a][c] = NoJob]
        /\ UNCHANGED <<inbox, known>>
    BY <1>1 DEF Finish
  <2>2. c = conn[a] /\ Online(a) /\ Now(a) = "send"
    BY <2>1, LiveIsNew DEF Live
  <2>3. /\ p # a => Now(p)' = Now(p) /\ Doing(p)' = Doing(p)
        /\ p = a => Now(p)' = "idle"
    <3>1. /\ TypeOK /\ UNCHANGED conn /\ c = conn[a]
          /\ at' = [at EXCEPT ![a][c] = "idle"] /\ job' = [job EXCEPT ![a][c] = NoJob]
      BY <1>0, <2>1, <2>2
    <3> QED
      BY <3>1, Frames
  <2>4. CASE p # a
    <3>1. mine'[p] = mine[p]
      BY <1>0, <2>1, <2>4
    <3> QED
      BY <1>0, <2>1, <2>3, <2>4, <3>1, Bystander
  <2>5. CASE p = a
    <3>1. mine'[p] = Doing(p).next
      BY <1>0, <2>1, <2>2, <2>5 DEF Doing
    <3>2. Becomes(p)' = Becomes(p) /\ Online(p)
      BY <2>2, <2>3, <2>5, <3>1 DEF Becomes
    <3>3. Informed(p)' /\ Reached(p)'
      BY <1>0, <2>1, <3>2, StaysInformed, StaysReached DEF Aware
    <3>4. Changing(p)'
      BY <2>3, <2>5 DEF Changing
    <3> QED
      BY <3>3, <3>4 DEF Aware
  <2> QED
    BY <2>4, <2>5
<1>2. CASE HandleMsg(a)
  <2>1. /\ Now(a) = "idle" /\ inbox[a] # <<>> /\ inbox' = [inbox EXCEPT ![a] = Tail(inbox[a])]
        /\ mine' = [mine EXCEPT ![a] = Head(inbox[a]).party]
        /\ known' = [known EXCEPT ![a] = Head(inbox[a]).party]
        /\ UNCHANGED <<at, job>>
    BY <1>2 DEF HandleMsg, Idle, Now
  <2>a. Now(p)' = Now(p) /\ Doing(p)' = Doing(p)
    BY <1>0, <2>1 DEF Now, Doing
  <2>2. CASE p # a
    <3>1. inbox'[p] = inbox[p] /\ mine'[p] = mine[p] /\ known'[p] = known[p]
      BY <1>0, <2>1, <2>2
    <3> QED
      BY <1>0, <2>a, <3>1, Bystander
  <2>3. CASE p = a
    <3> DEFINE v == Head(inbox[p]).party
    <3>1. mine'[p] = v /\ known'[p] = v /\ inbox'[p] = Tail(inbox[p])
      BY <1>0, <2>1, <2>3
    <3>2. /\ Len(inbox[p]) = 1 \/ Len(inbox[p]) >= 2
          /\ Len(inbox[p]) >= 2 => /\ Tail(inbox[p]) # <<>>
                                   /\ Tail(inbox[p])[Len(Tail(inbox[p]))] = inbox[p][Len(inbox[p])]
          /\ Len(inbox[p]) = 1 => /\ Tail(inbox[p]) = <<>>
                                  /\ Head(inbox[p]) = inbox[p][Len(inbox[p])]
      <4>1. inbox[p] \in Seq(Messages) /\ inbox[p] # <<>>
        BY <1>0, <2>1, <2>3
      <4> QED
        BY <4>1, LastOf
    <3> HIDE DEF v
    <3>3. ~Settled(p) /\ Online(p) /\ ~Blank(p)
      BY <2>1, <2>3 DEF Settled, Online, Now, Live, Blank
    <3>4. ~Haunted(p) /\ ~Haunted(p)'
      <4>1. ~Haunted(p)
        BY <3>3 DEF Aware, Informed
      <4>2. Haunted(p)' <=> Haunted(p)
        BY <1>0 DEF Haunted, SamePlace
      <4> QED
        BY <4>1, <4>2
    <3>5. \A w : In(p, w)' <=> In(p, w)
      BY <1>0 DEF In, SamePlace
    <3>6. ASSUME Told(p) PROVE Told(p)'
      <4>1. PICK m \in Letters : OnTheWay(m) /\ m.to = p /\ m.conn = conn[p] /\ In(p, m.msg.party)
        BY <3>6 DEF Told
      <4>2. OnTheWay(m)' /\ m.conn = conn'[p] /\ In(p, m.msg.party)'
        BY <1>0, <3>5, <4>1 DEF SameMail
      <4> QED
        BY <4>1, <4>2 DEF Told
    <3>7. ASSUME Waiting(p) PROVE Waiting(p)' \/ Settled(p)'
      <4>0. PartiesOf(p)' = PartiesOf(p)
        BY <1>0 DEF SamePlace
      <4>1. CASE Len(inbox[p]) >= 2
        BY <3>1, <3>2, <3>7, <4>0, <4>1 DEF Waiting, In
      <4>2. CASE Len(inbox[p]) = 1
        <5>1. In(p, v)
          BY <3>2, <3>7, <4>2 DEF Waiting, v
        <5>2. PartiesOf(p)' = {v} \ {NoParty}
          BY <4>0, <5>1 DEF In
        <5>3. Becomes(p)' = v
          BY <2>1, <2>3, <2>a, <3>1 DEF Becomes
        <5>4. p \in Members(p)' => v = p
          BY <5>2 DEF PartiesOf
        <5> QED
          BY <3>1, <3>2, <4>2, <5>2, <5>3, <5>4 DEF Settled, In
      <4> QED
        BY <3>2, <4>1, <4>2
    <3>8. Informed(p)'
      BY <3>3, <3>4, <3>6, <3>7 DEF Aware, Informed
    <3>9. Changing(p)' /\ Reached(p)'
      <4>1. Now(p)' = "idle"
        BY <2>1, <2>3, <2>a
      <4> QED
        BY <1>0, <4>1, StaysReached DEF Changing, Aware
    <3> QED
      BY <3>8, <3>9 DEF Aware
  <2> QED
    BY <2>2, <2>3
<1> QED
  BY <1>1, <1>2

\* The end of a connection (Disconnect, Unlist, Uninvite, FindParty, Gone): nobody is there to know,
\* unless his next connection is, of which it touches nothing yet.
LEMMA GoInforms ==
  ASSUME PInv, NEW p \in Players, Aware(p), NEW a \in Players,
         \/ Disconnect(a)
         \/ \E c \in Conns : Unlist(a, c) \/ Uninvite(a, c) \/ FindParty(a, c) \/ Gone(a, c)
  PROVE  Aware(p)'
<1>0. /\ UNCHANGED <<party, conn, mail>> /\ SamePlace(p) /\ SameMail(p) /\ TypeOK
      /\ DOMAIN mine = Players /\ DOMAIN known = Players /\ DOMAIN inbox = Players
      /\ Reached(p)'
  <2>1. UNCHANGED <<party, conn, mail>>
    BY DEF Disconnect, Unlist, Uninvite, FindParty, Gone, registry
  <2> QED
    BY <2>1, SameParties, StaysReached DEF PInv, TypeOK, Aware
<1>1. ASSUME NEW c \in Conns, NEW phase, phase \notin Live,
             at' = [at EXCEPT ![a][c] = phase], NEW j, job' = job \/ job' = [job EXCEPT ![a][c] = j],
             p # a => mine'[p] = mine[p] /\ inbox'[p] = inbox[p] /\ known'[p] = known[p],
             c # conn[a] => UNCHANGED <<mine, inbox, known>>
      PROVE  Aware(p)'
  <2>1. /\ p # a \/ c # conn[p] => Now(p)' = Now(p) /\ Doing(p)' = Doing(p)
        /\ p = a /\ c = conn[p] => Now(p)' = phase
    <3>0. TypeOK /\ conn'[p] = conn[p] /\ conn[p] \in Conns
      BY <1>0, Tasks
    <3>1. at'[a][c] = phase /\ \A q \in Players, d \in Conns : q # a \/ d # c => at'[q][d] = at[q][d]
      BY <1>1, <3>0, Tasks, Only
    <3>2. \A q \in Players, d \in Conns : q # a \/ d # c => job'[q][d] = job[q][d]
      BY <1>1, <3>0, Tasks, Only
    <3> QED
      BY <3>0, <3>1, <3>2 DEF Now, Doing
  <2>2. CASE p # a \/ c # conn[p]
    <3>1. mine'[p] = mine[p] /\ inbox'[p] = inbox[p] /\ known'[p] = known[p]
      BY <1>1, <2>2
    <3> QED
      BY <1>0, <2>1, <2>2, <3>1, Bystander
  <2>3. CASE p = a /\ c = conn[p]
    <3>1. ~Online(p)' /\ Now(p)' # "change"
      BY <1>1, <2>1, <2>3 DEF Online, Now, Live
    <3> QED
      BY <1>0, <3>1 DEF Aware, Informed, Changing
  <2> QED
    BY <2>2, <2>3
<1>2. CASE Disconnect(a)
  <2>1. /\ at' = [at EXCEPT ![a][conn[a]] = "unlist"] /\ job' = job /\ conn[a] \in Conns
        /\ p # a => mine'[p] = mine[p] /\ inbox'[p] = inbox[p] /\ known'[p] = known[p]
        /\ "unlist" \notin Live
    BY <1>0, <1>2, Tasks DEF Disconnect, Live
  <2> QED
    BY <1>1, <2>1
<1>3. ASSUME NEW c \in Conns, Unlist(a, c) \/ Uninvite(a, c) \/ FindParty(a, c) \/ Gone(a, c)
      PROVE  Aware(p)'
  <2>1. UNCHANGED <<mine, inbox, known>>
    BY <1>3 DEF Unlist, Uninvite, FindParty, Gone
  <2>2. \E phase : phase \notin Live /\ at' = [at EXCEPT ![a][c] = phase]
    BY <1>3 DEF Unlist, Uninvite, FindParty, Gone, Live
  <2>3. \E j : job' = job \/ job' = [job EXCEPT ![a][c] = j]
    BY <1>3 DEF Unlist, Uninvite, FindParty, Gone
  <2> QED
    BY <1>1, <2>1, <2>2, <2>3
<1> QED
  BY <1>2, <1>3

\* A new connection: nothing is on its way to it and its memory is empty, so that it is right of a
\* player without a party, and blank when the guard of his last one still has a seat (Register).
LEMMA RegisterInforms ==
  ASSUME PInv, Mailed, excuses = {}, NEW p \in Players, Aware(p), NEW a \in Players, Register(a)
  PROVE  Aware(p)'
<1> DEFINE c == conn[a] + 1
<1>0. /\ UNCHANGED <<party, mail, job, mine, inbox, known>> /\ SamePlace(p) /\ SameMail(p)
      /\ ~Online(a) /\ at' = [at EXCEPT ![a][c] = "idle"] /\ conn' = [conn EXCEPT ![a] = c]
      /\ TypeOK /\ conn[a] \in Nat /\ c \in Conns /\ DOMAIN conn = Players
  <2>1. conn[a] \in 0 .. MaxConns /\ conn[a] < MaxConns /\ DOMAIN conn = Players
    BY DEF Register, PInv, TypeOK, Conns
  <2>2. conn[a] \in Nat /\ c \in Conns
    BY <2>1, LimitsAssumption DEF Conns
  <2> QED
    BY <2>1, <2>2, SameParties DEF Register, PInv
<1>1. CASE p # a
  <2>1. conn'[p] = conn[p] /\ at'[p] = at[p]
    BY <1>0, <1>1 DEF TypeOK
  <2>2. Now(p)' = Now(p) /\ Doing(p)' = Doing(p)
    BY <1>0, <2>1 DEF Now, Doing
  <2> QED
    BY <1>0, <2>1, <2>2, Bystander
<1>2. CASE p = a
  <2>1. conn'[p] = c /\ c > conn[p] /\ at'[p][c] = "idle"
    BY <1>0, <1>2, Tasks, Only
  <2>2. at[p][c] = "off"
    BY <1>0, <1>2, <2>1 DEF PInv, NewestIsLive
  <2> HIDE DEF c
  <2>3. Now(p)' = "idle"
    BY <2>1 DEF Now
  <2>4. mine'[p] = NoParty /\ known'[p] = NoParty /\ inbox'[p] = <<>>
    BY <1>0, <1>2 DEF Mailed, GoneAreBlank
  <2>5. \A m \in Letters : OnTheWay(m)' /\ m.to = p => m.conn <= conn[p] /\ m.conn \in Nat
    <3>1. \A m \in Letters : m.conn \in Nat
      BY LimitsAssumption DEF Letters, Conns
    <3> QED
      BY <1>0, <3>1 DEF Aware, Reached, SameMail
  <2>6. \A m \in Letters : OnTheWay(m)' /\ m.to = p => m.conn < conn'[p]
    <3>1. \A n \in Nat : n <= conn[p] => n < conn'[p]
      BY <1>0, <1>2, <2>1 DEF c
    <3> QED
      BY <2>5, <3>1
  <2>7. Reached(p)' /\ Changing(p)'
    <3>1. \A n \in Nat : n < conn'[p] => n <= conn'[p]
      BY <1>0, <1>2, <2>1 DEF c
    <3> QED
      BY <2>3, <2>5, <2>6, <3>1 DEF Reached, Changing
  <2>8. Becomes(p)' = NoParty
    BY <2>3, <2>4 DEF Becomes
  <2>9. Blank(p)'
    <3>1. \A m \in Letters : OnTheWay(m)' => ~(m.to = p /\ m.conn = conn'[p])
      <4>1. \A n \in Nat : n < conn'[p] => n # conn'[p]
        BY <1>0, <1>2, <2>1 DEF c
      <4> QED
        BY <2>5, <2>6, <4>1
    <3> QED
      BY <2>4, <2>8, <3>1 DEF Blank
  <2>10. CASE PartiesOf(p) # {}
    <3>1. PICK l \in PartiesOf(p) : TRUE
      BY <2>10
    <3>2. l \in PartiesOf(p)' /\ party'[l][p].conn # conn'[p]
      <4>1. at[p][party[l][p].conn] # "off"
        BY SeatIsOld
      <4> QED
        BY <1>0, <2>1, <2>2, <4>1 DEF SamePlace
    <3>3. Haunted(p)'
      BY <3>2 DEF Haunted
    <3> QED
      BY <2>7, <2>9, <3>3 DEF Aware, Informed
  <2>11. CASE PartiesOf(p) = {}
    <3>1. PartiesOf(p)' = {}
      BY <1>0, <2>11 DEF SamePlace
    <3>2. p \notin Members(p)' /\ ~Haunted(p)'
      BY <3>1 DEF PartiesOf, Haunted
    <3>3. Settled(p)'
      BY <2>4, <2>8, <3>1, <3>2 DEF Settled, In
    <3> QED
      BY <2>7, <3>2, <3>3 DEF Aware, Informed
  <2> QED
    BY <2>10, <2>11
<1> QED
  BY <1>1, <1>2

\* A letter arrives (Deliver), and says what the registry says, or it is late and excused.
LEMMA DeliverInforms ==
  ASSUME PInv, Mailed, excuses = {}, excuses' = {}, NEW p \in Players, Aware(p),
         NEW a \in Players, NEW c \in Conns, NEW m \in mail[a][c], Deliver(a, c, m)
  PROVE  Aware(p)'
<1>0. /\ UNCHANGED <<party, conn, at, job, mine, known>> /\ SamePlace(p) /\ TypeOK
      /\ mail' = [mail EXCEPT ![a][c] = mail[a][c] \ {m}]
      /\ inbox \in [Players -> Seq(Messages)]
      /\ m \in Letters /\ m.to \in Players /\ m.msg \in Messages
  <2>1. TypeOK /\ inbox \in [Players -> Seq(Messages)]
    BY DEF PInv, TypeOK
  <2>2. m \in Letters
    BY <2>1, Tasks
  <2>3. m.to \in Players /\ m.msg \in Messages
    BY <2>2 DEF Letters
  <2> QED
    BY <2>1, <2>2, <2>3, SameParties DEF Deliver, registry
<1>1. \A n \in Letters : /\ OnTheWay(n)' => OnTheWay(n)
                         /\ n # m /\ OnTheWay(n) => OnTheWay(n)'
  <2>1. /\ mail'[a][c] = mail[a][c] \ {m}
        /\ \A q \in Players, d \in Conns : q # a \/ d # c => mail'[q][d] = mail[q][d]
    BY <1>0, Tasks, Only
  <2>2. \A q \in Players, d \in Conns : /\ mail'[q][d] \subseteq mail[q][d]
                                        /\ mail[q][d] \ {m} \subseteq mail'[q][d]
    <3> SUFFICES ASSUME NEW q \in Players, NEW d \in Conns
                 PROVE  mail'[q][d] \subseteq mail[q][d] /\ mail[q][d] \ {m} \subseteq mail'[q][d]
      OBVIOUS
    <3>1. CASE q = a /\ d = c
      BY <2>1, <3>1
    <3>2. CASE q # a \/ d # c
      BY <2>1, <3>2
    <3> QED
      BY <3>1, <3>2
  <2> QED
    BY <2>2 DEF OnTheWay
<1>2. Now(p)' = Now(p) /\ Doing(p)' = Doing(p) /\ (Online(p)' <=> Online(p))
  BY <1>0 DEF Now, Doing, Online
<1>3. Changing(p)' /\ Reached(p)'
  <2>1. Changing(p)'
    BY <1>0, <1>2, StaysChanging DEF Aware, SamePlace
  <2>2. Reached(p)'
    BY <1>0, <1>1 DEF Aware, Reached
  <2> QED
    BY <2>1, <2>2
<1>4. CASE ~(p = m.to /\ Receives(m.to, m.conn))
  <2>1. inbox'[p] = inbox[p]
    BY <1>0, <1>4 DEF Deliver
  <2>2. CASE p = m.to /\ conn[p] = m.conn
    <3>1. ~Online(p)'
      BY <1>2, <1>4, <2>2 DEF Receives
    <3> QED
      BY <1>3, <3>1 DEF Aware, Informed
  <2>3. CASE ~(p = m.to /\ conn[p] = m.conn)
    <3>1. SameMail(p)
      BY <1>1, <2>3 DEF SameMail
    <3> QED
      BY <1>0, <1>2, <2>1, <3>1, Bystander
  <2> QED
    BY <2>2, <2>3
<1>5. CASE p = m.to /\ Receives(m.to, m.conn)
  <2>1. inbox' = [inbox EXCEPT ![p] = Append(inbox[p], m.msg)] /\ ~Stale(m)
    BY <1>5 DEF Deliver, Excuse
  <2>2. In(p, m.msg.party)
    <3>1. m.msg = Left \/ m.msg = Joined(p)
      BY <1>5 DEF Mailed, LettersAreOwn
    <3>2. CASE m.msg = Left
      <4>1. ~InParty(p) /\ m.msg.party = NoParty
        BY <1>5, <2>1, <3>2, MessageFields DEF Stale
      <4> QED
        BY <4>1, PartyOf
    <3>3. CASE m.msg = Joined(p)
      <4>1. p \in Members(p) /\ m.msg.party = p
        BY <1>5, <2>1, <3>3, MessageFields DEF Stale
      <4> QED
        BY <4>1, PartyOf
    <3> QED
      BY <3>1, <3>2, <3>3
  <2>3. inbox'[p] = Append(inbox[p], m.msg) /\ inbox[p] \in Seq(Messages)
    BY <1>0, <2>1
  <2>4. inbox'[p] # <<>> /\ inbox'[p][Len(inbox'[p])] = m.msg
    <3>1. PICK queue \in Seq(Messages) : queue = inbox[p]
      BY <2>3
    <3>2. Append(queue, m.msg) # <<>> /\ Append(queue, m.msg)[Len(Append(queue, m.msg))] = m.msg
      BY <1>0, LastOf
    <3> QED
      BY <2>3, <3>1, <3>2
  <2>5. Waiting(p)'
    BY <1>0, <2>2, <2>4 DEF Waiting, In, SamePlace
  <2>6. ~Haunted(p)'
    <3>1. ~Blank(p) /\ Online(p)
      <4>1. OnTheWay(m) /\ m.to = p /\ m.conn = conn[p] /\ Online(p)
        BY <1>5 DEF OnTheWay, Receives
      <4> QED
        BY <1>0, <4>1 DEF Blank
    <3>2. Haunted(p)' <=> Haunted(p)
      BY <1>0 DEF Haunted, SamePlace
    <3> QED
      BY <3>1, <3>2 DEF Aware, Informed
  <2> QED
    BY <1>3, <2>5, <2>6 DEF Aware, Informed
<1> QED
  BY <1>4, <1>5

-----------------------------------------------------------------------------
(* Steps that change a party                                               *)

\* Where everybody is, and what is on its way, after a handler has changed a party: who begins to
\* send had nothing left to send (SendThen).
LEMMA Posting ==
  ASSUME PInv, Mailed, NEW a \in Players, NEW c \in Conns, at[a][c] \in {"change", "leave"},
         NEW letters \in SUBSET Letters, NEW next \in Players \cup {NoParty},
         SendThen(a, c, letters, next), UNCHANGED conn
  PROVE  /\ \A m \in Letters : OnTheWay(m)' <=> OnTheWay(m) \/ m \in letters
         /\ \A p \in Players : p # a \/ c # conn[p] => Now(p)' = Now(p) /\ Doing(p)' = Doing(p)
         /\ at[a][c] = "change" => /\ c = conn[a] /\ Now(a) = "change" /\ Doing(a) = job[a][c]
                                   /\ Now(a)' = "send" /\ Doing(a)'.next = next
         /\ at[a][c] = "leave" /\ c = conn[a] => Now(a)' = "bye"
<1>0. TypeOK
  BY DEF PInv
<1>1. /\ at'[a][c] = IF at[a][c] = "leave" THEN "bye" ELSE "send"
      /\ job'[a][c].how = "nothing" /\ job'[a][c].next = next
      /\ mail'[a][c] = letters
      /\ \A q \in Players, d \in Conns :
           q # a \/ d # c => /\ at'[q][d] = at[q][d] /\ job'[q][d] = job[q][d]
                             /\ mail'[q][d] = mail[q][d]
      /\ at' \in [Players -> [Conns -> Places]]
      /\ job' \in [Players -> [Conns -> Jobs]]
      /\ mail' \in [Players -> [Conns -> SUBSET Letters]]
  BY <1>0, Sending
<1>2. mail[a][c] = {}
  BY DEF Mailed, IdleHaveNoMail
<1>3. ASSUME NEW m \in Letters PROVE OnTheWay(m)' <=> OnTheWay(m) \/ m \in letters
  <2>1. ASSUME OnTheWay(m) PROVE OnTheWay(m)'
    <3>1. PICK q \in Players, d \in Conns : m \in mail[q][d]
      BY <2>1 DEF OnTheWay
    <3>2. q # a \/ d # c
      BY <1>2, <3>1
    <3>3. m \in mail'[q][d]
      BY <1>1, <3>1, <3>2
    <3> QED
      BY <3>3 DEF OnTheWay
  <2>2. m \in letters => OnTheWay(m)'
    BY <1>1 DEF OnTheWay
  <2>3. ASSUME OnTheWay(m)', m \notin letters PROVE OnTheWay(m)
    <3>1. PICK q \in Players, d \in Conns : m \in mail'[q][d]
      BY <2>3 DEF OnTheWay
    <3>2. q # a \/ d # c
      BY <1>1, <2>3, <3>1
    <3>3. m \in mail[q][d]
      BY <1>1, <3>1, <3>2
    <3> QED
      BY <3>3 DEF OnTheWay
  <2> QED
    BY <2>1, <2>2, <2>3
<1>4. ASSUME NEW p \in Players, p # a \/ c # conn[p]
      PROVE  Now(p)' = Now(p) /\ Doing(p)' = Doing(p)
  <2>1. conn[p] \in Conns /\ conn'[p] = conn[p]
    BY <1>0, Tasks
  <2> QED
    BY <1>1, <1>4, <2>1 DEF Now, Doing
<1>5. at[a][c] = "change" => c = conn[a]
  BY LiveIsNew DEF Live
<1>6. at[a][c] = "change" => /\ c = conn[a] /\ Now(a) = "change" /\ Doing(a) = job[a][c]
                             /\ Now(a)' = "send" /\ Doing(a)'.next = next
  BY <1>1, <1>5 DEF Now, Doing
<1>7. at[a][c] = "leave" /\ c = conn[a] => Now(a)' = "bye"
  BY <1>1 DEF Now
<1> QED
  BY <1>3, <1>4, <1>6, <1>7

\* A guest of whom nothing is on its way has no party in any memory (Crossing).
LEMMA GuestIsBlank ==
  ASSUME PInv, NEW g \in Players, Now(g) = "change", Informed(g), Crossing(g) = {}, ~InParty(g)
  PROVE  inbox[g] = <<>> /\ known[g] = NoParty
<1>1. inbox[g] = <<>> /\ ~(\E q \in Players, c \in Conns : \E m \in mail[q][c] : m.to = g)
  BY DEF Crossing
<1>2. ~Told(g) /\ ~Waiting(g)
  BY <1>1 DEF Told, Waiting, OnTheWay
<1>3. Online(g) /\ ~Haunted(g)
  BY DEF Online, Now, Live, Haunted, InParty
<1>4. Settled(g)
  BY <1>2, <1>3 DEF Informed
<1>5. Becomes(g) = mine[g]
  BY DEF Becomes
<1>6. {mine[g]} \ {NoParty} = {}
  BY <1>4, <1>5 DEF Settled, In, InParty
<1> QED
  BY <1>1, <1>4, <1>5, <1>6 DEF Settled

\* A guest has joined: what he will write is what the registry says (JoinExisting, JoinNew).
LEMMA GuestIsInformed ==
  ASSUME NEW g \in Players, NEW l \in Players, l # g, PartiesOf(g)' = {l},
         party'[l][g].conn = conn'[g], inbox'[g] = <<>>, known'[g] = NoParty,
         Now(g)' = "send", Doing(g)'.next = l
  PROVE  Informed(g)' /\ Changing(g)'
<1>1. Becomes(g)' = l
  BY DEF Becomes
<1>2. {l} = {l} \ {NoParty} /\ g \notin Members(g)'
  BY PlayersAssumption DEF PartiesOf
<1>3. Settled(g)'
  BY <1>1, <1>2 DEF Settled, In
<1>4. ~Haunted(g)'
  BY DEF Haunted
<1> QED
  BY <1>3, <1>4 DEF Informed, Changing

\* A guest takes a seat in a party (JoinExisting).
LEMMA JoinExistingInforms ==
  ASSUME PInv, Mailed, excuses = {}, excuses' = {}, NEW p \in Players, Aware(p),
         NEW g \in Players, Aware(g), NEW c \in Conns, JoinExisting(g, c)
  PROVE  Aware(p)'
<1>a. PICK l \in Players : l = job[g][c].party
  BY DEF PInv, JobsAreFormed, JoinExisting
<1> DEFINE seat == Seat("normal", c)
<1>0. /\ TypeOK /\ l # g /\ at[g][c] = "change" /\ ~InParty(g) /\ Crossing(g) = {}
      /\ UNCHANGED <<conn, mine, inbox, known>> /\ SendThen(g, c, {}, l)
  BY <1>a DEF JoinExisting, PInv, JobsAreFormed, Refused, Excuse
<1>1. party[l] \in [Players -> Seats] /\ seat \in Seats /\ seat.role = "normal" /\ seat.conn = c
  BY <1>0, Constructors, Fields DEF Seat
<1> HIDE DEF seat
<1>2. PICK seats \in [Players -> Seats] : seats = [party[l] EXCEPT ![g] = seat]
  BY <1>1
<1>3. party' = [party EXCEPT ![l] = seats]
  BY <1>a, <1>0, <1>2 DEF JoinExisting, TypeOK, seat
<1>4. seats[g] = seat /\ \A q \in Players \ {g} : seats[q] = party[l][q]
  BY <1>1, <1>2
<1>5. /\ \A m \in Letters : OnTheWay(m)' <=> OnTheWay(m) \/ m \in {}
      /\ \A q \in Players : q # g \/ c # conn[q] => Now(q)' = Now(q) /\ Doing(q)' = Doing(q)
      /\ at[g][c] = "change" => /\ c = conn[g] /\ Now(g) = "change" /\ Doing(g) = job[g][c]
                                /\ Now(g)' = "send" /\ Doing(g)'.next = l
  <2>1. {} \in SUBSET Letters /\ l \in Players \cup {NoParty} /\ at[g][c] \in {"change", "leave"}
    BY <1>0
  <2> QED
    BY <1>0, <2>1, Posting
<1>6. SameMail(p)
  BY <1>5 DEF SameMail
<1>7. CASE p = g
  <2>1. PartiesOf(g)' = PartiesOf(g) \cup {l}
    BY <1>0, <1>1, <1>3, <1>4, PartiesWritten
  <2>2. PartiesOf(g)' = {l}
    BY <1>0, <2>1 DEF InParty
  <2>3. inbox'[g] = <<>> /\ known'[g] = NoParty
    BY <1>0, <1>5, GuestIsBlank DEF Aware
  <2>4. party'[l][g].conn = conn'[g]
    BY <1>0, <1>1, <1>3, <1>4, <1>5 DEF TypeOK
  <2>5. Informed(g)' /\ Changing(g)'
    BY <1>0, <1>5, <2>2, <2>3, <2>4, GuestIsInformed
  <2>6. Reached(p)'
    BY <1>0, <1>6, StaysReached DEF Aware
  <2> QED
    BY <1>7, <2>5, <2>6 DEF Aware
<1>8. CASE p # g
  <2>1. seats[p] = party[l][p]
    BY <1>4, <1>8
  <2>2. SamePlace(p)
    BY <1>0, <1>3, <2>1, SeatKept
  <2>3. Now(p)' = Now(p) /\ Doing(p)' = Doing(p)
    BY <1>5, <1>8
  <2> QED
    BY <1>0, <1>6, <2>2, <2>3, Bystander
<1> QED
  BY <1>7, <1>8

\* A party is created: the guest knows it and the leader is told (JoinNew).
LEMMA JoinNewInforms ==
  ASSUME PInv, Mailed, excuses = {}, excuses' = {}, NEW p \in Players, Aware(p),
         NEW g \in Players, Aware(g), NEW c \in Conns, JoinNew(g, c)
  PROVE  Aware(p)'
<1>a. PICK l \in Players : l = job[g][c].party
  BY DEF PInv, JobsAreFormed, JoinNew
<1>b. PICK d \in Conns : d = job[g][c].conn
  BY Fields DEF PInv
<1> DEFINE first == Seat("leader", d)
           second == Seat("normal", c)
<1>0. /\ TypeOK /\ l # g /\ at[g][c] = "change" /\ ~InParty(g) /\ Members(l) = {}
      /\ UNCHANGED <<conn, mine, inbox, known>>
  BY <1>a DEF JoinNew, PInv, JobsAreFormed, Refused
<1>1. Crossing(g) = {} /\ conn[l] = d /\ ~InParty(l)
  <2>1. excuses' = excuses \cup ({e \in {"ghost"} : ~(Online(l) /\ conn[l] = d)}
            \cup {e \in {"double"} : InParty(l)} \cup Crossing(g))
    BY <1>a, <1>b DEF JoinNew, Excuse
  <2> QED
    BY <2>1
<1>2. /\ first \in Seats /\ first.role = "leader" /\ first.conn = d
      /\ second \in Seats /\ second.role = "normal" /\ second.conn = c
      /\ NoSeat \in Seats /\ NoSeat.role = "none"
  BY Constructors DEF Seat, NoSeat
<1> HIDE DEF first, second
<1>3. PICK seats \in [Players -> Seats] :
        seats = [q \in Players |-> IF q = l THEN first ELSE IF q = g THEN second ELSE NoSeat]
  BY <1>2
<1>4. party' = [party EXCEPT ![l] = seats]
  BY <1>a, <1>b, <1>3 DEF JoinNew, first, second
<1>5. /\ seats[l] = first /\ seats[g] = second
      /\ \A q \in Players \ {l, g} : seats[q] = NoSeat
  BY <1>0, <1>3
<1>6. PICK letter \in Letters :
        /\ SendThen(g, c, {letter}, l)
        /\ letter.to = l /\ letter.conn = d /\ letter.msg.party = l
  <2> DEFINE m == [to |-> l, conn |-> d, msg |-> Joined(l)]
  <2>1. m \in Letters
    BY Constructors DEF Letters
  <2>2. SendThen(g, c, {m}, l)
    BY <1>a, <1>b DEF JoinNew
  <2>3. m.to = l /\ m.conn = d /\ m.msg.party = l
    BY MessageFields
  <2> QED
    BY <2>1, <2>2, <2>3
<1>c. PICK letters \in SUBSET Letters : letters = {letter} /\ SendThen(g, c, letters, l)
  BY <1>6
<1>7. /\ \A m \in Letters : OnTheWay(m)' <=> OnTheWay(m) \/ m \in letters
      /\ \A q \in Players : q # g \/ c # conn[q] => Now(q)' = Now(q) /\ Doing(q)' = Doing(q)
      /\ at[g][c] = "change" => /\ c = conn[g] /\ Now(g) = "change" /\ Doing(g) = job[g][c]
                                /\ Now(g)' = "send" /\ Doing(g)'.next = l
  <2>1. l \in Players \cup {NoParty} /\ at[g][c] \in {"change", "leave"}
    BY <1>0
  <2> QED
    BY <1>0, <1>c, <2>1, Posting
<1>8. p # l => SameMail(p)
  BY <1>6, <1>c, <1>7 DEF SameMail
<1>9. CASE p = g
  <2>1. PartiesOf(g)' = PartiesOf(g) \cup {l}
    BY <1>0, <1>2, <1>4, <1>5, PartiesWritten
  <2>2. PartiesOf(g)' = {l}
    BY <1>0, <2>1 DEF InParty
  <2>3. inbox'[g] = <<>> /\ known'[g] = NoParty
    BY <1>0, <1>1, <1>7, GuestIsBlank DEF Aware
  <2>4. party'[l][g].conn = conn'[g]
    BY <1>0, <1>2, <1>4, <1>5, <1>7 DEF TypeOK
  <2>5. Informed(g)' /\ Changing(g)'
    BY <1>0, <1>7, <2>2, <2>3, <2>4, GuestIsInformed
  <2>6. Reached(p)'
    BY <1>0, <1>8, <1>9, StaysReached DEF Aware
  <2> QED
    BY <1>9, <2>5, <2>6 DEF Aware
<1>10. CASE p = l
  <2>1. PartiesOf(p)' = PartiesOf(p) \cup {l}
    BY <1>0, <1>2, <1>4, <1>5, <1>10, PartiesWritten
  <2>2. PartiesOf(p)' = {l} /\ {l} = {l} \ {NoParty}
    <3>1. PartiesOf(p) = {} /\ NoParty # l
      BY <1>1, <1>10, PlayersAssumption DEF InParty
    <3> QED
      BY <2>1, <3>1
  <2>3. ~Haunted(p)'
    <3>1. party'[l][p].conn = conn'[p]
      BY <1>0, <1>1, <1>2, <1>4, <1>5, <1>10 DEF TypeOK
    <3> QED
      BY <2>2, <3>1 DEF Haunted
  <2>4. Told(p)'
    <3>1. OnTheWay(letter)'
      BY <1>c, <1>7
    <3>2. letter.to = p /\ letter.conn = conn'[p] /\ PartiesOf(p)' = {letter.msg.party} \ {NoParty}
      BY <1>0, <1>1, <1>6, <1>10, <2>2
    <3> QED
      BY <3>1, <3>2 DEF Told, In
  <2>5. Now(p)' = Now(p) /\ Doing(p)' = Doing(p) /\ PartiesOf(p)' \subseteq PartiesOf(p) \cup {p}
    BY <1>0, <1>7, <1>10, <2>1
  <2>6. Changing(p)'
    BY <1>0, <2>5, StaysChanging DEF Aware
  <2>7. Reached(p)'
    <3>1. conn[l] <= conn[l]
      <4>1. conn[l] \in Nat
        BY <1>0, Tasks, LimitsAssumption DEF Conns
      <4> QED
        BY <4>1
    <3> QED
      BY <1>0, <1>1, <1>6, <1>c, <1>7, <1>10, <3>1 DEF Reached, Aware
  <2> QED
    BY <2>3, <2>4, <2>6, <2>7 DEF Aware, Informed
<1>11. CASE p \notin {g, l}
  <2>1. seats[p].role = "none" /\ party[l][p].role = "none"
    BY <1>0, <1>2, <1>5, <1>11 DEF Members
  <2>2. SamePlace(p)
    BY <1>0, <1>4, <2>1, SeatKept
  <2>3. Now(p)' = Now(p) /\ Doing(p)' = Doing(p)
    BY <1>7, <1>11
  <2> QED
    BY <1>0, <1>8, <1>11, <2>2, <2>3, Bystander
<1> QED
  BY <1>9, <1>10, <1>11

-----------------------------------------------------------------------------
\* Members lose their seats and are told, whoever they are, but for those whose connection has
\* ended: they know of no party, and now have none (Disband, RemoveMember).
LEMMA LossInforms ==
  ASSUME PInv, Mailed, excuses = {}, NEW p \in Players, Aware(p),
         NEW a \in Players, NEW c \in Conns, at[a][c] \in {"change", "leave"}, NEW l \in Players,
         NEW lost \in SUBSET Members(l), NEW seats \in [Players -> Seats],
         party' = [party EXCEPT ![l] = seats],
         seats[p].role = "none" <=> p \in lost \/ party[l][p].role = "none",
         seats[p].role # "none" => seats[p].conn = party[l][p].conn,
         NEW letters \in SUBSET Letters, letters = {Letter(l, q, Left) : q \in lost},
         NEW next \in Players \cup {NoParty}, SendThen(a, c, letters, next),
         UNCHANGED <<conn, mine, inbox, known>>,
         p = a /\ at[a][c] = "change" /\ Blank(p) => next = NoParty,
         p = a /\ at[a][c] = "change" /\ p \notin lost /\ Settled(p)
           => In(p, next) /\ known[p] \in {next, NoParty}
  PROVE  Aware(p)'
<1>0. TypeOK /\ conn'[p] = conn[p] /\ mine'[p] = mine[p] /\ inbox'[p] = inbox[p] /\ known'[p] = known[p]
  BY DEF PInv
<1>1. /\ \A m \in Letters : OnTheWay(m)' <=> OnTheWay(m) \/ m \in letters
      /\ \A q \in Players : q # a \/ c # conn[q] => Now(q)' = Now(q) /\ Doing(q)' = Doing(q)
      /\ at[a][c] = "change" => /\ c = conn[a] /\ Now(a) = "change" /\ Doing(a) = job[a][c]
                                /\ Now(a)' = "send" /\ Doing(a)'.next = next
      /\ at[a][c] = "leave" /\ c = conn[a] => Now(a)' = "bye"
  BY Posting
<1>2. \A m \in letters : m.to \in lost /\ m.conn = party[l][m.to].conn /\ m.msg = Left
  BY DEF Letter
<1> DEFINE acts == p = a /\ c = conn[p]
<1>3. ~acts => Now(p)' = Now(p) /\ Doing(p)' = Doing(p)
  BY <1>1
<1>4. acts => Now(p)' \in {"send", "bye"}
  BY <1>1
<1>5. acts /\ Online(p)' => /\ at[a][c] = "change" /\ Now(p) = "change" /\ Now(p)' = "send"
                            /\ Doing(p)'.next = next
  BY <1>1 DEF Online, Now, Live
<1>6. acts => Changing(p)'
  BY <1>4 DEF Changing
<1>7. ASSUME Blank(p), Online(p)' PROVE Becomes(p)' = NoParty
  <2>1. CASE acts
    BY <1>5, <1>7, <2>1 DEF Becomes
  <2>2. CASE ~acts
    BY <1>0, <1>3, <1>7, <2>2 DEF Becomes, Blank
  <2> QED
    BY <2>1, <2>2
<1>8. Online(p)' => Online(p)
  <2>1. Online(p) <=> Now(p) \in Live
    BY DEF Online, Now
  <2>2. Online(p)' <=> Now(p)' \in Live
    BY DEF Online, Now
  <2> QED
    BY <1>3, <1>5, <2>1, <2>2 DEF Live
<1> HIDE DEF acts
<1>9. CASE p \in lost
  <2>1. p \in Members(l) /\ l \in PartiesOf(p) /\ PartiesOf(p) = {l}
    <3>1. p \in Members(l)
      BY <1>9
    <3>2. l \in PartiesOf(p)
      BY <3>1, PartyOf
    <3> QED
      BY <3>1, <3>2, PartyOf
  <2>2. PartiesOf(p)' = {}
    <3>1. PartiesOf(p)' = PartiesOf(p) \ {l}
      BY <1>0, <1>9, PartiesWritten
    <3> QED
      BY <2>1, <3>1
  <2>3. ~Haunted(p)' /\ p \notin Members(p)' /\ In(p, NoParty)'
    BY <2>2 DEF Haunted, PartiesOf, In
  <2>4. Reached(p)'
    <3>1. party[l][p].conn <= conn[p]
      BY <2>1, SeatIsOld
    <3> SUFFICES ASSUME NEW m \in Letters, OnTheWay(m)', m.to = p PROVE m.conn <= conn[p]
      BY <1>0 DEF Reached
    <3>2. CASE OnTheWay(m)
      BY <3>2 DEF Aware, Reached
    <3>3. CASE m \in letters
      BY <1>2, <3>1, <3>3
    <3> QED
      BY <1>1, <3>2, <3>3
  <2>5. Changing(p)'
    <3>1. CASE acts
      BY <1>6, <3>1
    <3>2. CASE ~acts
      BY <1>0, <1>3, <2>2, <3>2, StaysChanging DEF Aware
    <3> QED
      BY <3>1, <3>2
  <2>6. ASSUME Online(p)', Haunted(p) PROVE Settled(p)'
    <3>1. Blank(p)
      BY <1>8, <2>6 DEF Aware, Informed
    <3>2. Becomes(p)' = NoParty
      BY <1>7, <2>6, <3>1
    <3> QED
      BY <1>0, <2>3, <3>1, <3>2 DEF Settled, Blank, In
  <2>7. ASSUME ~Haunted(p) PROVE Told(p)'
    <3>1. party[l][p].conn = conn'[p]
      BY <1>0, <2>1, <2>7 DEF Haunted
    <3>2. PICK m \in letters : m = Letter(l, p, Left)
      BY <1>9
    <3>3. m.to = p /\ m.conn = conn'[p] /\ m.msg.party = NoParty
      BY <3>1, <3>2, MessageFields DEF Letter
    <3>4. m \in Letters /\ OnTheWay(m)'
      BY <1>1
    <3> QED
      BY <2>3, <3>3, <3>4 DEF Told, In
  <2> QED
    BY <2>3, <2>4, <2>5, <2>6, <2>7 DEF Aware, Informed
<1>10. CASE p \notin lost
  <2>1. SamePlace(p)
    BY <1>0, <1>10, SeatKept
  <2>2. SameMail(p)
    BY <1>1, <1>2, <1>10 DEF SameMail
  <2>3. CASE ~acts
    BY <1>0, <1>3, <2>1, <2>2, <2>3, Bystander
  <2>4. CASE acts
    <3>1. Reached(p)' /\ Changing(p)'
      BY <1>0, <1>6, <2>2, <2>4, StaysReached DEF Aware
    <3> SUFFICES ASSUME Online(p)'
                 PROVE  IF Haunted(p)' THEN Blank(p)' ELSE Told(p)' \/ Waiting(p)' \/ Settled(p)'
      BY <3>1 DEF Aware, Informed
    <3>2. Haunted(p)' <=> Haunted(p)
      BY <1>0, <2>1 DEF Haunted, SamePlace
    <3>3. \A v : In(p, v)' <=> In(p, v)
      BY <2>1 DEF In, SamePlace
    <3>4. CASE Haunted(p)
      <4>1. Blank(p)
        BY <1>8, <3>4 DEF Aware, Informed
      <4>2. Becomes(p)' = NoParty
        BY <1>7, <4>1
      <4>3. \A m \in Letters : OnTheWay(m)' => ~(m.to = p /\ m.conn = conn'[p])
        BY <1>0, <2>2, <4>1 DEF Blank, SameMail
      <4>4. Blank(p)'
        BY <1>0, <4>1, <4>2, <4>3 DEF Blank
      <4> QED
        BY <3>2, <3>4, <4>4
    <3>5. CASE ~Haunted(p) /\ Told(p)
      <4>1. PICK m \in Letters : OnTheWay(m) /\ m.to = p /\ m.conn = conn[p] /\ In(p, m.msg.party)
        BY <3>5 DEF Told
      <4>2. OnTheWay(m)' /\ m.conn = conn'[p] /\ In(p, m.msg.party)'
        BY <1>0, <2>2, <3>3, <4>1 DEF SameMail
      <4>3. Told(p)'
        BY <4>1, <4>2 DEF Told
      <4> QED
        BY <3>2, <3>5, <4>3
    <3>6. CASE ~Haunted(p) /\ Waiting(p)
      <4>0. PartiesOf(p)' = PartiesOf(p)
        BY <2>1 DEF SamePlace
      <4>1. Waiting(p)'
        BY <1>0, <3>6, <4>0 DEF Waiting, In
      <4> QED
        BY <3>2, <3>6, <4>1
    <3>7. CASE ~Haunted(p) /\ Settled(p)
      <4>1. In(p, next) /\ known[p] \in {next, NoParty} /\ Becomes(p)' = next
        BY <1>5, <1>10, <2>4, <3>7 DEF Becomes, acts
      <4>2. PartiesOf(p)' = {next} \ {NoParty}
        BY <2>1, <4>1 DEF In, SamePlace
      <4>3. p \in Members(p)' <=> p \in Members(p)
        <5>1. p \in Members(p) <=> p \in PartiesOf(p)
          BY DEF PartiesOf
        <5>2. p \in Members(p)' <=> p \in PartiesOf(p)'
          BY DEF PartiesOf
        <5> QED
          BY <2>1, <5>1, <5>2 DEF SamePlace
      <4>4. Settled(p)'
        BY <1>0, <3>7, <4>1, <4>2, <4>3 DEF Settled, In
      <4> QED
        BY <3>2, <3>7, <4>4
    <3> QED
      BY <1>8, <3>4, <3>5, <3>6, <3>7 DEF Aware, Informed
  <2> QED
    BY <2>3, <2>4
<1> QED
  BY <1>9, <1>10

\* What a handler writes when the party it wanted to change is not his, or it knows of none
\* (Changing).
LEMMA StillRight ==
  ASSUME PInv, excuses = {}, NEW p \in Players, Changing(p), Now(p) = "change",
         Doing(p).how \in {"disband", "remove"}, Doing(p).party \in Players
  PROVE  /\ Blank(p) => Doing(p).next = NoParty
         /\ /\ Settled(p)
            /\ Doing(p).how = "disband" \/ Doing(p).target = Doing(p).party
                 => p \notin Members(Doing(p).party)
            /\ Doing(p).how = "remove" /\ Doing(p).target # Doing(p).party
                 => p \notin Members(Doing(p).party) \cap {Doing(p).target}
            => In(p, Doing(p).next) /\ known[p] \in {Doing(p).next, NoParty}
<1>0. PICK l \in Players : l = Doing(p).party
  OBVIOUS
<1>1. Becomes(p) = mine[p]
  BY DEF Becomes
<1>2. Blank(p) => Doing(p).next = NoParty
  <2>1. Doing(p).next \in {mine[p], NoParty}
    BY DEF Changing
  <2> QED
    BY <1>1, <2>1 DEF Blank
<1> SUFFICES ASSUME Settled(p),
                    Doing(p).how = "disband" \/ Doing(p).target = l => p \notin Members(l),
                    Doing(p).how = "remove" /\ Doing(p).target # l
                      => p \notin Members(l) \cap {Doing(p).target}
             PROVE  In(p, Doing(p).next) /\ known[p] \in {Doing(p).next, NoParty}
  BY <1>0, <1>2
<1>3. In(p, mine[p]) /\ known[p] \in {mine[p], NoParty}
  BY <1>1 DEF Settled
<1>4. CASE l # p /\ mine[p] = l
  <2>1. p \in Members(l)
    BY <1>3, <1>4, PartyOf
  <2>2. Doing(p).how = "remove" => Doing(p).target = p
    BY <1>0, <1>4 DEF Changing
  <2> QED
    BY <1>4, <2>1, <2>2
<1>5. CASE l # p /\ mine[p] # l
  BY <1>0, <1>3, <1>5 DEF Changing
<1>6. CASE l = p /\ Doing(p).how = "remove"
  BY <1>0, <1>3, <1>6 DEF Changing
<1>7. CASE l = p /\ Doing(p).how = "disband"
  <2>1. Doing(p).next = NoParty /\ PartiesOf(p) \subseteq {p}
    BY <1>0, <1>7 DEF Changing
  <2>2. PartiesOf(p) = {}
    BY <1>7, <2>1, PartyOf
  <2>3. mine[p] = NoParty
    BY <1>3, <2>2 DEF In
  <2> QED
    BY <1>3, <2>1, <2>3
<1> QED
  BY <1>4, <1>5, <1>6, <1>7

\* A party ends (Disband).
LEMMA DisbandInforms ==
  ASSUME PInv, Mailed, excuses = {}, NEW p \in Players, Aware(p),
         NEW a \in Players, NEW c \in Conns, Disband(a, c)
  PROVE  Aware(p)'
<1>a. PICK l \in Players : l = job[a][c].party
  BY DEF PInv, JobsAreFormed, Disband
<1>b. PICK next \in Players \cup {NoParty} : next = job[a][c].next
  BY Fields DEF PInv
<1>0. /\ at[a][c] \in {"change", "leave"} /\ job[a][c].how \in {"disband", "remove"}
      /\ job[a][c].how = "disband" \/ job[a][c].target = l
      /\ UNCHANGED <<conn, mine, inbox, known>> /\ TypeOK
      /\ NoSeat \in Seats /\ NoSeat.role = "none"
  BY <1>a, Constructors DEF Disband, PInv, NoSeat
<1>1. PICK seats \in [Players -> Seats] : seats = [q \in Players |-> NoSeat]
  BY <1>0
<1>2. PICK lost \in SUBSET Members(l) : lost = Members(l)
  OBVIOUS
<1>3. PICK letters \in SUBSET Letters : letters = {Letter(l, q, Left) : q \in lost}
  <2>1. lost \subseteq Players
    BY DEF Members
  <2> QED
    BY <1>0, <2>1, LettersType
<1>4. party' = [party EXCEPT ![l] = seats] /\ SendThen(a, c, letters, next)
  BY <1>a, <1>b, <1>1, <1>2, <1>3 DEF Disband
<1>5. seats[p].role = "none"
  BY <1>0, <1>1
<1>6. p \in lost \/ party[l][p].role = "none"
  BY <1>2 DEF Members
<1>7. ASSUME p = a, at[a][c] = "change"
      PROVE  /\ Blank(p) => next = NoParty
             /\ p \notin lost /\ Settled(p) => In(p, next) /\ known[p] \in {next, NoParty}
  <2>1. Now(p) = "change" /\ Doing(p) = job[a][c]
    BY <1>7, LiveIsNew DEF Live, Now, Doing
  <2> QED
    BY <1>a, <1>b, <1>0, <1>2, <2>1, StillRight DEF Aware
<1> QED
  BY <1>0, <1>3, <1>4, <1>5, <1>6, <1>7, LossInforms

\* A member leaves or is kicked (RemoveMember).
LEMMA RemoveMemberInforms ==
  ASSUME PInv, Mailed, excuses = {}, NEW p \in Players, Aware(p),
         NEW a \in Players, NEW c \in Conns, RemoveMember(a, c)
  PROVE  Aware(p)'
<1>a. PICK l \in Players : l = job[a][c].party
  BY DEF PInv, JobsAreFormed, RemoveMember
<1>b. PICK next \in Players \cup {NoParty} : next = job[a][c].next
  BY Fields DEF PInv
<1>c. PICK t \in Players \cup {NoParty} : t = job[a][c].target
  BY Fields DEF PInv
<1>0. /\ at[a][c] \in {"change", "leave"} /\ job[a][c].how = "remove" /\ t # l
      /\ UNCHANGED <<conn, mine, inbox, known>> /\ TypeOK
      /\ NoSeat \in Seats /\ NoSeat.role = "none" /\ party[l] \in [Players -> Seats]
  BY <1>a, <1>c, Constructors, Fields DEF RemoveMember, PInv, NoSeat
<1>1. PICK seats \in [Players -> Seats] : seats = [party[l] EXCEPT ![t] = NoSeat]
  BY <1>0
<1>2. PICK lost \in SUBSET Members(l) : lost = Members(l) \cap {t}
  OBVIOUS
<1>3. PICK letters \in SUBSET Letters : letters = {Letter(l, q, Left) : q \in lost}
  <2>1. lost \subseteq Players
    BY DEF Members
  <2> QED
    BY <1>0, <2>1, LettersType
<1>4. party' = [party EXCEPT ![l] = seats]
  <2>1. party' = [party EXCEPT ![l][t] = NoSeat]
    BY <1>a, <1>c DEF RemoveMember
  <2> QED
    BY <1>0, <1>1, <2>1 DEF TypeOK
<1>5. SendThen(a, c, letters, next)
  BY <1>a, <1>b, <1>c, <1>2, <1>3 DEF RemoveMember
<1>6. seats[p] = IF p = t THEN NoSeat ELSE party[l][p]
  BY <1>0, <1>1
<1>7. /\ seats[p].role = "none" <=> p \in lost \/ party[l][p].role = "none"
      /\ seats[p].role # "none" => seats[p].conn = party[l][p].conn
  <2>1. p \in lost <=> p = t /\ party[l][p].role # "none"
    BY <1>2 DEF Members
  <2> QED
    BY <1>0, <1>6, <2>1
<1>8. ASSUME p = a, at[a][c] = "change"
      PROVE  /\ Blank(p) => next = NoParty
             /\ p \notin lost /\ Settled(p) => In(p, next) /\ known[p] \in {next, NoParty}
  <2>1. Now(p) = "change" /\ Doing(p) = job[a][c]
    BY <1>8, LiveIsNew DEF Live, Now, Doing
  <2> QED
    BY <1>a, <1>b, <1>c, <1>0, <1>2, <2>1, StillRight DEF Aware
<1> QED
  BY <1>0, <1>3, <1>4, <1>5, <1>7, <1>8, LossInforms

-----------------------------------------------------------------------------
(* What is on its way                                                      *)

\* A step that moves no message and lets nobody go offline or idle who may not.
LEMMA CalmMail ==
  ASSUME Mailed, UNCHANGED <<mail, mine, inbox, known>>,
         \A q \in Players : Online(q) => Online(q)',
         \A q \in Players, c \in Conns : at'[q][c] \notin {"send", "bye"} => mail[q][c] = {}
  PROVE  Mailed'
<1>1. LettersAreOwn' /\ InboxesAreOwn'
  BY DEF Mailed, LettersAreOwn, InboxesAreOwn
<1>2. IdleHaveNoMail'
  BY DEF IdleHaveNoMail
<1>3. GoneAreBlank'
  BY DEF Mailed, GoneAreBlank
<1> QED
  BY <1>1, <1>2, <1>3 DEF Mailed

\* The steps of one connection that send nothing.
LEMMA PhaseMail ==
  ASSUME PInv, Mailed, UNCHANGED <<mail, mine, inbox, known, conn>>, NEW a \in Players,
         NEW c \in Conns, NEW phase, at' = [at EXCEPT ![a][c] = phase],
         at[a][c] \in Live => phase \in Live, phase \in {"send", "bye"} \/ mail[a][c] = {}
  PROVE  Mailed'
<1>0. at \in [Players -> [Conns -> Places]] /\ \A q \in Players : conn[q] \in Conns
  BY Tasks DEF PInv
<1>1. at'[a][c] = phase /\ \A q \in Players, d \in Conns : q # a \/ d # c => at'[q][d] = at[q][d]
  BY <1>0, Only
<1>2. ASSUME NEW q \in Players, Online(q) PROVE Online(q)'
  <2>1. PICK d \in Conns : d = conn[q] /\ d = conn'[q]
    BY <1>0
  <2>2. at'[q][d] \in Live
    BY <1>1, <1>2, <2>1 DEF Online
  <2> QED
    BY <2>1, <2>2 DEF Online
<1>3. ASSUME NEW q \in Players, NEW d \in Conns, at'[q][d] \notin {"send", "bye"}
      PROVE  mail[q][d] = {}
  <2>1. CASE q = a /\ d = c
    BY <1>1, <1>3, <2>1
  <2>2. CASE q # a \/ d # c
    BY <1>1, <1>3, <2>2 DEF Mailed, IdleHaveNoMail
  <2> QED
    BY <2>1, <2>2
<1> QED
  BY <1>2, <1>3, CalmMail

\* A handler sends after its last lock (SendThen).
LEMMA SendMail ==
  ASSUME PInv, Mailed, NEW a \in Players, NEW c \in Conns, at[a][c] \in {"change", "leave"},
         NEW letters \in SUBSET Letters, NEW next \in Players \cup {NoParty},
         SendThen(a, c, letters, next), \A m \in letters : m.msg \in {Left, Joined(m.to)},
         UNCHANGED <<mine, inbox, known, conn>>
  PROVE  Mailed'
<1>0. TypeOK /\ \A q \in Players : conn[q] \in Conns
  BY Tasks DEF PInv
<1>1. /\ at'[a][c] = IF at[a][c] = "leave" THEN "bye" ELSE "send"
      /\ job'[a][c].how = "nothing" /\ job'[a][c].next = next
      /\ mail'[a][c] = letters
      /\ \A q \in Players, d \in Conns :
           q # a \/ d # c => /\ at'[q][d] = at[q][d] /\ job'[q][d] = job[q][d]
                             /\ mail'[q][d] = mail[q][d]
      /\ at' \in [Players -> [Conns -> Places]]
      /\ job' \in [Players -> [Conns -> Jobs]]
      /\ mail' \in [Players -> [Conns -> SUBSET Letters]]
  BY <1>0, Sending
<1>3. LettersAreOwn'
  <2> SUFFICES ASSUME NEW q \in Players, NEW d \in Conns, NEW m \in mail'[q][d]
               PROVE  m.msg \in {Left, Joined(m.to)}
    BY DEF LettersAreOwn, Left, Joined
  <2>1. CASE q = a /\ d = c
    BY <1>1, <2>1
  <2>2. CASE q # a \/ d # c
    BY <1>1, <2>2 DEF Mailed, LettersAreOwn
  <2> QED
    BY <2>1, <2>2
<1>4. InboxesAreOwn'
  BY DEF Mailed, InboxesAreOwn
<1>5. IdleHaveNoMail'
  <2> SUFFICES ASSUME NEW q \in Players, NEW d \in Conns, at'[q][d] \notin {"send", "bye"}
               PROVE  mail'[q][d] = {}
    BY DEF IdleHaveNoMail
  <2>1. q # a \/ d # c
    BY <1>1
  <2> QED
    BY <1>1, <2>1 DEF Mailed, IdleHaveNoMail
<1>6. GoneAreBlank'
  <2>1. ASSUME NEW q \in Players, Online(q) PROVE Online(q)'
    <3>1. PICK d \in Conns : d = conn[q] /\ d = conn'[q]
      BY <1>0
    <3>2. at'[q][d] \in Live
      BY <1>1, <2>1, <3>1 DEF Online, Live
    <3> QED
      BY <3>1, <3>2 DEF Online
  <2> QED
    BY <2>1 DEF Mailed, GoneAreBlank
<1> QED
  BY <1>3, <1>4, <1>5, <1>6 DEF Mailed

\* A letter arrives (Deliver).
LEMMA DeliverMail ==
  ASSUME PInv, Mailed, NEW a \in Players, NEW c \in Conns, NEW m \in mail[a][c], Deliver(a, c, m)
  PROVE  Mailed'
<1>0. mail \in [Players -> [Conns -> SUBSET Letters]] /\ inbox \in [Players -> Seq(Messages)]
  BY DEF PInv, TypeOK
<1>1. /\ UNCHANGED <<at, mine, known, conn>>
      /\ mail' = [mail EXCEPT ![a][c] = mail[a][c] \ {m}]
      /\ \/ inbox' = inbox
         \/ Online(m.to) /\ inbox' = [inbox EXCEPT ![m.to] = Append(inbox[m.to], m.msg)]
  BY DEF Deliver, Receives
<1>2. m.to \in Players /\ m.msg \in Messages /\ m.msg.party \in {m.to, NoParty}
  <2>1. m \in Letters
    BY <1>0
  <2>2. m.msg \in {Left, Joined(m.to)}
    BY DEF Mailed, LettersAreOwn
  <2> QED
    BY <2>1, <2>2, MessageFields DEF Letters
<1>3. \A q \in Players, d \in Conns : mail'[q][d] \subseteq mail[q][d]
  <2>1. /\ mail'[a][c] = mail[a][c] \ {m}
        /\ \A q \in Players, d \in Conns : q # a \/ d # c => mail'[q][d] = mail[q][d]
    BY <1>0, <1>1, Only
  <2> SUFFICES ASSUME NEW q \in Players, NEW d \in Conns PROVE mail'[q][d] \subseteq mail[q][d]
    OBVIOUS
  <2>2. CASE q = a /\ d = c
    BY <2>1, <2>2
  <2>3. CASE q # a \/ d # c
    BY <2>1, <2>3
  <2> QED
    BY <2>2, <2>3
<1>4. LettersAreOwn'
  <2> SUFFICES ASSUME NEW q \in Players, NEW d \in Conns, NEW n \in mail'[q][d]
               PROVE  n.msg \in {Left, Joined(n.to)}
    BY DEF LettersAreOwn, Left, Joined
  <2> QED
    BY <1>3 DEF Mailed, LettersAreOwn
<1>5. IdleHaveNoMail'
  <2> SUFFICES ASSUME NEW q \in Players, NEW d \in Conns, at[q][d] \notin {"send", "bye"}
               PROVE  mail'[q][d] = {}
    BY <1>1 DEF IdleHaveNoMail
  <2> QED
    BY <1>3 DEF Mailed, IdleHaveNoMail
<1>6. InboxesAreOwn'
  <2> SUFFICES ASSUME NEW q \in Players, NEW k \in 1 .. Len(inbox'[q])
               PROVE  inbox'[q][k].party \in {q, NoParty}
    BY DEF InboxesAreOwn
  <2>1. CASE inbox'[q] = inbox[q]
    BY <2>1 DEF Mailed, InboxesAreOwn
  <2>2. CASE q = m.to /\ inbox'[q] = Append(inbox[q], m.msg)
    <3>1. /\ k \in 1 .. Len(inbox[q]) \/ k = Len(inbox[q]) + 1
          /\ k \in 1 .. Len(inbox[q]) => inbox'[q][k] = inbox[q][k]
          /\ k = Len(inbox[q]) + 1 => inbox'[q][k] = m.msg
      <4>1. inbox[q] \in Seq(Messages) /\ m.msg \in Messages
        BY <1>0, <1>2
      <4> QED
        BY <2>2, <4>1, AppendProperties
    <3> QED
      BY <1>2, <2>2, <3>1 DEF Mailed, InboxesAreOwn
  <2> QED
    BY <1>0, <1>1, <1>2, <2>1, <2>2
<1>7. GoneAreBlank'
  <2> SUFFICES ASSUME NEW q \in Players, ~Online(q)'
               PROVE  mine'[q] = NoParty /\ known'[q] = NoParty /\ inbox'[q] = <<>>
    BY DEF GoneAreBlank
  <2>1. ~Online(q)
    BY <1>1 DEF Online
  <2>2. inbox'[q] = inbox[q]
    BY <1>0, <1>1, <2>1
  <2> QED
    BY <1>1, <2>1, <2>2 DEF Mailed, GoneAreBlank
<1> QED
  BY <1>4, <1>5, <1>6, <1>7 DEF Mailed

\* Messages are handled, and queues are dropped (HandleMsg, Disconnect).
LEMMA QueueMail ==
  ASSUME PInv, Mailed, NEW a \in Players, HandleMsg(a) \/ Disconnect(a)
  PROVE  Mailed'
<1>0. /\ inbox \in [Players -> Seq(Messages)] /\ at \in [Players -> [Conns -> Places]]
      /\ DOMAIN mine = Players /\ DOMAIN known = Players
      /\ \A q \in Players : conn[q] \in Conns
  BY Tasks DEF PInv, TypeOK
<1>1. CASE HandleMsg(a)
  <2>1. /\ UNCHANGED <<at, mail, conn>> /\ Online(a) /\ inbox[a] # <<>>
        /\ inbox' = [inbox EXCEPT ![a] = Tail(inbox[a])]
        /\ \A q \in Players : q # a => mine'[q] = mine[q] /\ known'[q] = known[q]
    BY <1>0, <1>1 DEF HandleMsg, Idle, Online, Live
  <2>2. LettersAreOwn' /\ IdleHaveNoMail'
    BY <2>1 DEF Mailed, LettersAreOwn, IdleHaveNoMail, Left, Joined
  <2>3. InboxesAreOwn'
    <3> SUFFICES ASSUME NEW q \in Players, NEW k \in 1 .. Len(inbox'[q])
                 PROVE  inbox'[q][k].party \in {q, NoParty}
      BY DEF InboxesAreOwn
    <3>1. CASE q # a
      BY <1>0, <2>1, <3>1 DEF Mailed, InboxesAreOwn
    <3>2. CASE q = a
      <4>1. inbox'[q] = Tail(inbox[q]) /\ inbox[q] \in Seq(Messages) /\ inbox[q] # <<>>
        BY <1>0, <2>1, <3>2
      <4>2. inbox'[q][k] = inbox[q][k + 1] /\ k + 1 \in 1 .. Len(inbox[q])
        BY <4>1
      <4> QED
        BY <4>2 DEF Mailed, InboxesAreOwn
    <3> QED
      BY <3>1, <3>2
  <2>4. GoneAreBlank'
    <3> SUFFICES ASSUME NEW q \in Players, ~Online(q)'
                 PROVE  mine'[q] = NoParty /\ known'[q] = NoParty /\ inbox'[q] = <<>>
      BY DEF GoneAreBlank
    <3>1. ~Online(q) /\ q # a
      BY <2>1 DEF Online
    <3> QED
      BY <1>0, <2>1, <3>1 DEF Mailed, GoneAreBlank
  <2> QED
    BY <2>2, <2>3, <2>4 DEF Mailed
<1>2. CASE Disconnect(a)
  <2>a. PICK c \in Conns : c = conn[a]
    BY <1>0
  <2>1. /\ UNCHANGED <<mail, conn>> /\ at[a][c] = "idle" /\ at' = [at EXCEPT ![a][c] = "unlist"]
        /\ mine'[a] = NoParty /\ known'[a] = NoParty /\ inbox'[a] = <<>>
        /\ \A q \in Players : q # a => /\ mine'[q] = mine[q] /\ known'[q] = known[q]
                                       /\ inbox'[q] = inbox[q]
    BY <1>0, <1>2, <2>a DEF Disconnect, Idle
  <2>2. /\ at'[a][c] = "unlist"
        /\ \A q \in Players, d \in Conns : q # a \/ d # c => at'[q][d] = at[q][d]
    BY <1>0, <2>1, Only
  <2>3. LettersAreOwn'
    BY <2>1 DEF Mailed, LettersAreOwn, Left, Joined
  <2>4. IdleHaveNoMail'
    <3> SUFFICES ASSUME NEW q \in Players, NEW d \in Conns, at'[q][d] \notin {"send", "bye"}
                 PROVE  mail[q][d] = {}
      BY <2>1 DEF IdleHaveNoMail
    <3>1. at[q][d] \notin {"send", "bye"}
      BY <2>1, <2>2
    <3> QED
      BY <3>1 DEF Mailed, IdleHaveNoMail
  <2>5. InboxesAreOwn'
    <3> SUFFICES ASSUME NEW q \in Players, NEW k \in 1 .. Len(inbox'[q])
                 PROVE  inbox'[q][k].party \in {q, NoParty}
      BY DEF InboxesAreOwn
    <3>1. CASE q # a
      BY <2>1, <3>1 DEF Mailed, InboxesAreOwn
    <3>2. CASE q = a
      BY <2>1, <3>2
    <3> QED
      BY <3>1, <3>2
  <2>6. GoneAreBlank'
    <3> SUFFICES ASSUME NEW q \in Players, q # a, ~Online(q)'
                 PROVE  mine[q] = NoParty /\ known[q] = NoParty /\ inbox[q] = <<>>
      BY <2>1 DEF GoneAreBlank
    <3>1. ~Online(q)
      <4>1. conn[q] \in Conns /\ conn'[q] = conn[q]
        BY <1>0, <2>1
      <4> QED
        BY <2>2, <4>1 DEF Online
    <3> QED
      BY <3>1 DEF Mailed, GoneAreBlank
  <2> QED
    BY <2>3, <2>4, <2>5, <2>6 DEF Mailed
<1> QED
  BY <1>1, <1>2

\* A handler ends and writes its party_id (Finish).
LEMMA FinishMail == ASSUME PInv, Mailed, NEW a \in Players, NEW c \in Conns, Finish(a, c) PROVE Mailed'
<1>0. at \in [Players -> [Conns -> Places]] /\ \A q \in Players : conn[q] \in Conns
  BY Tasks DEF PInv
<1>1. /\ DOMAIN mine = Players /\ at[a][c] = "send" /\ mail[a][c] = {}
      /\ at' = [at EXCEPT ![a][c] = "idle"]
      /\ UNCHANGED <<mail, inbox, known, conn>>
      /\ \A q \in Players : q # a => mine'[q] = mine[q]
  BY DEF PInv, TypeOK, Finish
<1>2. /\ at'[a][c] = "idle"
      /\ \A q \in Players, d \in Conns : q # a \/ d # c => at'[q][d] = at[q][d]
  BY <1>0, <1>1, Only
<1>3. LettersAreOwn' /\ InboxesAreOwn'
  BY <1>1 DEF Mailed, LettersAreOwn, InboxesAreOwn, Left, Joined
<1>4. IdleHaveNoMail'
  <2> SUFFICES ASSUME NEW q \in Players, NEW d \in Conns, at'[q][d] \notin {"send", "bye"}
               PROVE  mail[q][d] = {}
    BY <1>1 DEF IdleHaveNoMail
  <2>1. CASE q = a /\ d = c
    BY <1>1, <2>1
  <2>2. CASE q # a \/ d # c
    BY <1>2, <2>2 DEF Mailed, IdleHaveNoMail
  <2> QED
    BY <2>1, <2>2
<1>5. GoneAreBlank'
  <2> SUFFICES ASSUME NEW q \in Players, ~Online(q)'
               PROVE  mine'[q] = NoParty /\ known'[q] = NoParty /\ inbox'[q] = <<>>
    BY DEF GoneAreBlank
  <2>1. PICK d \in Conns : d = conn[q] /\ d = conn'[q]
    BY <1>0, <1>1
  <2>2. at'[q][d] \notin Live
    BY <2>1 DEF Online
  <2>3. c = conn[a]
    BY <1>1, LiveIsNew DEF Live
  <2>4. q # a
    BY <1>2, <2>1, <2>2, <2>3 DEF Live
  <2>5. ~Online(q)
    BY <1>2, <2>1, <2>2, <2>4 DEF Online
  <2> QED
    BY <1>1, <2>4, <2>5 DEF Mailed, GoneAreBlank
<1> QED
  BY <1>3, <1>4, <1>5 DEF Mailed

-----------------------------------------------------------------------------
\* The last step of a handler under the lock of the parties.
LEMMA ChangeMail ==
  ASSUME PInv, Mailed, NEW a \in Players, NEW c \in Conns,
         JoinExisting(a, c) \/ JoinNew(a, c) \/ Disband(a, c) \/ RemoveMember(a, c)
  PROVE  Mailed'
<1>a. PICK l \in Players : l = job[a][c].party
  BY DEF PInv, JobsAreFormed, JoinExisting, JoinNew, Disband, RemoveMember
<1>b. PICK next \in Players \cup {NoParty} : next = job[a][c].next
  BY Fields DEF PInv
<1>c. PICK d \in Conns : d = job[a][c].conn
  BY Fields DEF PInv
<1>0. at[a][c] \in {"change", "leave"} /\ UNCHANGED <<mine, inbox, known, conn>> /\ TypeOK
  BY DEF JoinExisting, JoinNew, Disband, RemoveMember, PInv
<1>1. CASE JoinExisting(a, c)
  <2>0. l \in Players \cup {NoParty}
    OBVIOUS
  <2>1. PICK letters \in SUBSET Letters : letters = {} /\ SendThen(a, c, letters, l)
    BY <1>a, <1>1 DEF JoinExisting
  <2>2. \A m \in letters : m.msg \in {Left, Joined(m.to)}
    BY <2>1
  <2> QED
    BY <1>0, <2>0, <2>1, <2>2, SendMail
<1>2. CASE JoinNew(a, c)
  <2> DEFINE m == [to |-> l, conn |-> d, msg |-> Joined(l)]
  <2>1. m \in Letters /\ m.msg = Joined(m.to)
    BY Constructors DEF Letters
  <2>2. SendThen(a, c, {m}, l)
    BY <1>a, <1>c, <1>2 DEF JoinNew
  <2> HIDE DEF m
  <2>3. PICK letters \in SUBSET Letters : letters = {m} /\ SendThen(a, c, letters, l)
    BY <2>1, <2>2
  <2>4. l \in Players \cup {NoParty} /\ \A n \in letters : n.msg \in {Left, Joined(n.to)}
    BY <2>1, <2>3
  <2> QED
    BY <1>0, <2>3, <2>4, SendMail
<1>3. ASSUME NEW lost \in SUBSET Members(l), SendThen(a, c, {Letter(l, q, Left) : q \in lost}, next)
      PROVE  Mailed'
  <2>1. PICK letters \in SUBSET Letters : letters = {Letter(l, q, Left) : q \in lost}
    <3>1. lost \subseteq Players
      BY DEF Members
    <3> QED
      BY <1>0, <3>1, LettersType
  <2>2. \A m \in letters : m.msg = Left
    BY <2>1 DEF Letter
  <2>3. SendThen(a, c, letters, next)
    BY <1>3, <2>1
  <2> QED
    BY <1>0, <2>2, <2>3, SendMail
<1>4. CASE Disband(a, c)
  BY <1>a, <1>b, <1>3, <1>4 DEF Disband
<1>5. CASE RemoveMember(a, c)
  <2>1. PICK lost \in SUBSET Members(l) : lost = Members(l) \cap {job[a][c].target}
    OBVIOUS
  <2>2. SendThen(a, c, {Letter(l, q, Left) : q \in lost}, next)
    BY <1>a, <1>b, <1>5, <2>1 DEF RemoveMember
  <2> QED
    BY <1>3, <2>2
<1> QED
  BY <1>1, <1>2, <1>4, <1>5

\* The steps that send nothing and handle nothing.
LEMMA OtherMail ==
  ASSUME PInv, Mailed, NEW a \in Players,
         \/ \E g \in Players : Invite(a, g) \/ Remove(a, g)
         \/ \E l \in Players, accept \in BOOLEAN : Answer(a, l, accept)
         \/ \E t \in Players, role \in Roles \cup {"normal"} : SetState(a, t, role)
         \/ \E i \in invites : Expire(i)
         \/ UNCHANGED vars
  PROVE  Mailed'
<1>1. UNCHANGED <<mail, mine, inbox, known, conn>>
  BY DEF Invite, Remove, Answer, SetState, Expire, session, registry, vars
<1>2. CASE UNCHANGED at
  <2>1. \A q \in Players : Online(q) => Online(q)'
    BY <1>1, <1>2 DEF Online
  <2>2. \A q \in Players, d \in Conns : at'[q][d] \notin {"send", "bye"} => mail[q][d] = {}
    BY <1>2 DEF Mailed, IdleHaveNoMail
  <2> QED
    BY <1>1, <2>1, <2>2, CalmMail
<1>3. CASE at' = [at EXCEPT ![a][conn[a]] = "change"] /\ Idle(a)
  <2>1. PICK c \in Conns : c = conn[a]
    BY Tasks DEF PInv
  <2>2. mail[a][c] = {} /\ "change" \in Live
    BY <1>3, <2>1 DEF Mailed, IdleHaveNoMail, Idle, Live
  <2> QED
    BY <1>1, <1>3, <2>1, <2>2, PhaseMail
<1>4. ASSUME NEW l \in Players, NEW accept \in BOOLEAN, Answer(a, l, accept) PROVE Mailed'
  <2>1. Idle(a) /\ (UNCHANGED at \/ at' = [at EXCEPT ![a][conn[a]] = "change"])
    BY <1>4 DEF Answer
  <2> QED
    BY <1>2, <1>3, <2>1
<1>5. CASE \E t \in Players : Remove(a, t)
  BY <1>3, <1>5 DEF Remove
<1>6. CASE \/ \E g \in Players : Invite(a, g)
           \/ \E t \in Players, role \in Roles \cup {"normal"} : SetState(a, t, role)
           \/ \E i \in invites : Expire(i)
           \/ UNCHANGED vars
  BY <1>2, <1>6 DEF Invite, SetState, Expire, session, vars
<1> QED
  BY <1>4, <1>5, <1>6

\* The steps of a guard, and a guest who is refused.
LEMMA GuardMail ==
  ASSUME PInv, Mailed, NEW a \in Players, NEW c \in Conns,
         JoinRefused(a, c) \/ Unlist(a, c) \/ Uninvite(a, c) \/ FindParty(a, c) \/ Gone(a, c)
  PROVE  Mailed'
<1>1. UNCHANGED <<mail, mine, inbox, known, conn>>
  BY DEF JoinRefused, Unlist, Uninvite, FindParty, Gone, registry
<1>2. mail[a][c] = {}
  BY DEF JoinRefused, Unlist, Uninvite, FindParty, Gone, Mailed, IdleHaveNoMail
<1>3. \E phase : at' = [at EXCEPT ![a][c] = phase] /\ (at[a][c] \in Live => phase \in Live)
  BY DEF JoinRefused, Unlist, Uninvite, FindParty, Gone, Live
<1> QED
  BY <1>1, <1>2, <1>3, PhaseMail

\* A new connection begins with an empty queue, and its player had none (Register).
LEMMA RegisterMail == ASSUME PInv, Mailed, NEW a \in Players, Register(a) PROVE Mailed'
<1> DEFINE c == conn[a] + 1
<1>0. /\ at \in [Players -> [Conns -> Places]] /\ \A q \in Players : conn[q] \in Conns
      /\ c \in Conns /\ c > conn[a]
  <2>1. conn[a] \in 0 .. MaxConns /\ conn[a] < MaxConns
    BY DEF Register, PInv, TypeOK, Conns
  <2>2. c \in Conns /\ c > conn[a]
    BY <2>1, LimitsAssumption DEF Conns
  <2> QED
    BY <2>2, Tasks DEF PInv
<1>1. /\ UNCHANGED <<mail, mine, inbox, known>> /\ ~Online(a)
      /\ at' = [at EXCEPT ![a][c] = "idle"] /\ \A q \in Players : q # a => conn'[q] = conn[q]
  BY DEF Register, PInv, TypeOK
<1> HIDE DEF c
<1>2. /\ at'[a][c] = "idle"
      /\ \A q \in Players, d \in Conns : q # a \/ d # c => at'[q][d] = at[q][d]
  BY <1>0, <1>1, Only
<1>3. mail[a][c] = {}
  <2>1. at[a][c] = "off"
    BY <1>0 DEF PInv, NewestIsLive
  <2> QED
    BY <1>0, <2>1 DEF Mailed, IdleHaveNoMail
<1>4. ASSUME NEW q \in Players, Online(q) PROVE Online(q)'
  <2>1. q # a /\ conn'[q] = conn[q] /\ conn[q] \in Conns
    BY <1>0, <1>1, <1>4
  <2> QED
    BY <1>2, <1>4, <2>1 DEF Online
<1>5. ASSUME NEW q \in Players, NEW d \in Conns, at'[q][d] \notin {"send", "bye"}
      PROVE  mail[q][d] = {}
  <2>1. CASE q = a /\ d = c
    BY <1>3, <2>1
  <2>2. CASE q # a \/ d # c
    BY <1>2, <1>5, <2>2 DEF Mailed, IdleHaveNoMail
  <2> QED
    BY <2>1, <2>2
<1> QED
  BY <1>1, <1>4, <1>5, CalmMail

-----------------------------------------------------------------------------
(* The invariant and its theorems                                          *)

\* Nobody is in a party and nothing is on its way.
LEMMA InitInforms == Init => KInv
<1> SUFFICES ASSUME Init PROVE KInv
  OBVIOUS
<1>1. /\ \A l, p \in Players : party[l][p] = NoSeat
      /\ \A p \in Players, c \in Conns : mail[p][c] = {}
      /\ \A p \in Players : /\ conn[p] = 1 /\ at[p][1] = "idle" /\ mine[p] = NoParty
                            /\ inbox[p] = <<>> /\ known[p] = NoParty
  <2>1. 1 \in Conns
    BY LimitsAssumption DEF Conns
  <2> QED
    BY <2>1 DEF Init
<1>2. \A p \in Players : Now(p) = "idle" /\ Online(p)
  BY <1>1 DEF Now, Online, Live
<1>3. Mailed
  <2>1. Len(<<>>) = 0
    OBVIOUS
  <2>2. InboxesAreOwn
    BY <1>1, <2>1 DEF InboxesAreOwn
  <2> QED
    BY <1>1, <1>2, <2>2 DEF Mailed, LettersAreOwn, IdleHaveNoMail, GoneAreBlank
<1>4. \A m \in Letters : ~OnTheWay(m)
  BY <1>1 DEF OnTheWay
<1>5. ASSUME NEW p \in Players PROVE Aware(p)
  <2>1. PartiesOf(p) = {}
    BY <1>1 DEF PartiesOf, Members, NoSeat
  <2>2. Becomes(p) = NoParty /\ p \notin Members(p) /\ ~Haunted(p)
    BY <1>1, <1>2, <2>1 DEF Becomes, PartiesOf, Haunted
  <2>3. Settled(p)
    BY <1>1, <2>1, <2>2 DEF Settled, In
  <2>4. Informed(p) /\ Reached(p) /\ Changing(p)
    BY <1>2, <1>4, <2>2, <2>3 DEF Informed, Reached, Changing
  <2> QED
    BY <2>4 DEF Aware
<1> QED
  BY <1>3, <1>5 DEF KInv, AllInformed

\* Every step keeps everybody informed who was.
LEMMA NextInforms ==
  ASSUME PInv, Mailed, excuses = {}, excuses' = {}, \A q \in Players : Aware(q),
         [Next]_vars, NEW p \in Players
  PROVE  Aware(p)'
<1>1. CASE UNCHANGED vars \/ \E i \in invites : Expire(i)
  BY <1>1, SilentSteps
<1>2. ASSUME NEW a \in Players, Asks(a) PROVE Aware(p)'
  <2>1. CASE \E g \in Players : Invite(a, g)
    BY <2>1, SilentSteps
  <2>2. CASE \E t \in Players : Remove(a, t)
    BY <2>2, RemoveInforms
  <2>3. CASE \E l \in Players, accept \in BOOLEAN : Answer(a, l, accept)
    BY <2>3, AnswerInforms
  <2>4. CASE \E t \in Players, role \in Roles \cup {"normal"} : SetState(a, t, role)
    BY <2>4, SilentSteps
  <2>5. CASE Disconnect(a)
    BY <2>5, GoInforms
  <2>6. CASE Register(a)
    BY <2>6, RegisterInforms
  <2> QED
    BY <1>2, <2>1, <2>2, <2>3, <2>4, <2>5, <2>6 DEF Asks
<1>3. ASSUME NEW a \in Players, NEW c \in Conns, Works(a, c) PROVE Aware(p)'
  <2>1. CASE JoinRefused(a, c)
    BY <2>1, AnswerInforms
  <2>2. CASE JoinExisting(a, c)
    BY <2>2, JoinExistingInforms
  <2>3. CASE JoinNew(a, c)
    BY <2>3, JoinNewInforms
  <2>4. CASE Disband(a, c) \/ RemoveMember(a, c)
    BY <2>4, DisbandInforms, RemoveMemberInforms
  <2>5. CASE \E m \in mail[a][c] : Deliver(a, c, m)
    BY <2>5, DeliverInforms
  <2>6. CASE Finish(a, c)
    BY <2>6, EndInforms
  <2>7. CASE Unlist(a, c) \/ Uninvite(a, c) \/ FindParty(a, c) \/ Gone(a, c)
    BY <2>7, GoInforms
  <2> QED
    BY <1>3, <2>1, <2>2, <2>3, <2>4, <2>5, <2>6, <2>7 DEF Works
<1>4. ASSUME NEW a \in Players, Proceed(a) PROVE Aware(p)'
  <2>1. CASE HandleMsg(a)
    BY <2>1, EndInforms
  <2> QED
    BY <1>3, <1>4, <2>1 DEF Proceed
<1> QED
  BY <1>1, <1>2, <1>4 DEF Next

\* Every step keeps the queues as they are meant to be.
LEMMA NextMail == ASSUME PInv, Mailed, [Next]_vars PROVE Mailed'
<1>1. CASE UNCHANGED vars \/ \E i \in invites : Expire(i)
  <2>1. UNCHANGED <<at, mail, mine, inbox, known, conn>>
    BY <1>1 DEF vars, session, Expire
  <2>2. \A q \in Players : Online(q) => Online(q)'
    BY <2>1 DEF Online
  <2>3. \A q \in Players, d \in Conns : at'[q][d] \notin {"send", "bye"} => mail[q][d] = {}
    BY <2>1 DEF Mailed, IdleHaveNoMail
  <2> QED
    BY <2>1, <2>2, <2>3, CalmMail
<1>2. ASSUME NEW a \in Players, Asks(a) PROVE Mailed'
  <2>1. CASE Disconnect(a)
    BY <2>1, QueueMail
  <2>2. CASE Register(a)
    BY <2>2, RegisterMail
  <2>3. CASE \/ \E g \in Players : Invite(a, g) \/ Remove(a, g)
             \/ \E l \in Players, accept \in BOOLEAN : Answer(a, l, accept)
             \/ \E t \in Players, role \in Roles \cup {"normal"} : SetState(a, t, role)
    BY <2>3, OtherMail
  <2> QED
    BY <1>2, <2>1, <2>2, <2>3 DEF Asks
<1>3. ASSUME NEW a \in Players, NEW c \in Conns, Works(a, c) PROVE Mailed'
  <2>1. CASE \E m \in mail[a][c] : Deliver(a, c, m)
    BY <2>1, DeliverMail
  <2>2. CASE JoinExisting(a, c) \/ JoinNew(a, c) \/ Disband(a, c) \/ RemoveMember(a, c)
    BY <2>2, ChangeMail
  <2>3. CASE Finish(a, c)
    BY <2>3, FinishMail
  <2>4. CASE \/ JoinRefused(a, c) \/ Unlist(a, c) \/ Uninvite(a, c) \/ FindParty(a, c)
             \/ Gone(a, c)
    BY <2>4, GuardMail
  <2> QED
    BY <1>3, <2>1, <2>2, <2>3, <2>4 DEF Works
<1>4. ASSUME NEW a \in Players, Proceed(a) PROVE Mailed'
  <2>1. CASE HandleMsg(a)
    BY <2>1, QueueMail
  <2> QED
    BY <1>3, <1>4, <2>1 DEF Proceed
<1> QED
  BY <1>1, <1>2, <1>4 DEF Next

\* What the code does not defend against is never forgotten.
LEMMA ExcusesStay == ASSUME TypeOK, [Next]_vars, excuses' = {} PROVE excuses = {}
<1>1. ASSUME NEW cases, Excuse(cases) PROVE excuses \subseteq excuses'
  BY <1>1 DEF Excuse
<1>2. CASE UNCHANGED vars \/ \E i \in invites : Expire(i)
  BY <1>2 DEF vars, Expire
<1>3. ASSUME NEW a \in Players, Asks(a) PROVE excuses \subseteq excuses'
  BY <1>3 DEF Asks, Invite, Remove, Answer, SetState, Disconnect, Register
<1>4. ASSUME NEW a \in Players, NEW c \in Conns, Works(a, c) PROVE excuses \subseteq excuses'
  <2>1. CASE JoinExisting(a, c) \/ JoinNew(a, c)
    BY <1>1, <2>1 DEF JoinExisting, JoinNew
  <2>2. CASE \E m \in mail[a][c] : Deliver(a, c, m)
    BY <1>1, <2>2 DEF Deliver
  <2>3. CASE \/ JoinRefused(a, c) \/ Disband(a, c) \/ RemoveMember(a, c) \/ Finish(a, c)
             \/ Unlist(a, c) \/ Uninvite(a, c) \/ FindParty(a, c) \/ Gone(a, c)
    BY <2>3 DEF JoinRefused, Disband, RemoveMember, Finish, Unlist, Uninvite, FindParty, Gone
  <2> QED
    BY <1>4, <2>1, <2>2, <2>3 DEF Works
<1>5. ASSUME NEW a \in Players, Proceed(a) PROVE excuses \subseteq excuses'
  BY <1>4, <1>5 DEF Proceed, HandleMsg
<1> QED
  BY <1>2, <1>3, <1>5 DEF Next

\* Sessions know of the registry, or a letter is on its way that tells them (deliver, handle_msg,
\* and the assignments of party_id at the end of the handlers); one whose seat is still that of an
\* old connection knows of none and hears of none: the invariant behind CachesAgree.
THEOREM SessionsAreInformed == Spec => [](PInv /\ KInv)
<1>1. Init => PInv /\ KInv
  BY InitHolds, InitInforms
<1>2. PInv /\ KInv /\ [Next]_vars => (PInv /\ KInv)'
  <2> SUFFICES ASSUME PInv, KInv, [Next]_vars PROVE PInv' /\ KInv'
    OBVIOUS
  <2>1. PInv' /\ Mailed'
    BY NextKeeps, NextMail DEF KInv
  <2>2. AllInformed'
    <3> SUFFICES ASSUME excuses' = {}, NEW p \in Players PROVE Aware(p)'
      BY DEF AllInformed
    <3>1. excuses = {}
      BY ExcusesStay DEF PInv
    <3>2. \A q \in Players : Aware(q)
      BY <3>1 DEF KInv, AllInformed
    <3> QED
      BY <3>1, <3>2, NextInforms DEF KInv
  <2> QED
    BY <2>1, <2>2 DEF KInv
<1> QED
  BY <1>1, <1>2, PTL DEF Spec

\* Once every handler and guard has ended and every outbox is drained, each session has the
\* party_id that the registry says, and the world the same or none.
THEOREM CachesStayEqual == Spec => []CachesAgree
<1>1. PInv /\ KInv => CachesAgree
  <2> SUFFICES ASSUME PInv, KInv, Quiet, excuses = {}, NEW p \in Players, Idle(p)
               PROVE  /\ PartiesOf(p) = {mine[p]} \ {NoParty}
                      /\ known[p] \in {mine[p], NoParty}
                      /\ p \in Members(p) => known[p] = p
    BY DEF CachesAgree
  <2>1. Informed(p) /\ Online(p) /\ Now(p) = "idle"
    BY DEF KInv, AllInformed, Aware, Idle, Online, Now, Live
  <2>2. \A q \in Players, c \in Conns : at[q][c] \in {"idle", "off"} /\ mail[q][c] = {}
    BY DEF KInv, Mailed, IdleHaveNoMail, Quiet
  <2>3. ~Told(p) /\ ~Waiting(p)
    BY <2>2 DEF Told, Waiting, Quiet, OnTheWay
  <2>4. ~Haunted(p)
    <3> SUFFICES ASSUME NEW l \in PartiesOf(p) PROVE party[l][p].conn = conn[p]
      BY DEF Haunted
    <3>1. PICK c \in Conns : c = party[l][p].conn
      BY SeatIsOld
    <3>2. at[p][c] = "idle"
      BY <2>2, <3>1, SeatIsOld
    <3> QED
      BY <3>1, <3>2, LiveIsNew DEF Live
  <2>5. Settled(p) /\ Becomes(p) = mine[p]
    BY <2>1, <2>3, <2>4 DEF Informed, Becomes
  <2> QED
    BY <2>5 DEF Settled, In
<1> QED
  BY <1>1, SessionsAreInformed, PTL

=============================================================================
