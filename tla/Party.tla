-------------------------------- MODULE Party --------------------------------
(***************************************************************************)
(* The parties of a channel (server_realms/src/channel/party.rs).  Three   *)
(* registries, each behind its own lock, are shared by the sessions, which *)
(* run on several threads: the connected players, the invitations and the  *)
(* parties.  A session changes only its own memory; what it wants another  *)
(* one to know it sends to its outbox, after it has released the lock.     *)
(*                                                                         *)
(* The id of a party is the id of its leader, and the vid of a player is   *)
(* its pid.  An action is what one session does under one lock; lookups    *)
(* that a later lock checks again are part of that later action.  The      *)
(* packets that only draw the party on the screen are left out.            *)
(*                                                                         *)
(* A session is dropped field by field: the login is free (login_guard)    *)
(* before the party knows (party_guard).  So a player may be back, on his  *)
(* next connection, while the guard of his last one is still at work on    *)
(* what the two share: their vid.                                          *)
(***************************************************************************)
EXTENDS Integers, Sequences, FiniteSets

CONSTANTS
  Players,      \* players, and so the ids of their parties
  NoParty,      \* party_id = None
  MayJoin,      \* pairs of players of one empire whose levels are at most 30 apart
  MaxMembers,   \* PARTY_MAX_MEMBER
  Roles,        \* PARTY_ROLE_ATTACKER .. PARTY_ROLE_DEFENDER
  MaxConns,     \* bound: connections of a player, one after another
  MaxEvents     \* bound: what players and time do, all together

ASSUME PlayersAssumption == NoParty \notin Players /\ IsFiniteSet(Players)
ASSUME LimitsAssumption == MaxMembers \in Nat \ {0, 1} /\ MaxConns \in Nat \ {0} /\ MaxEvents \in Nat
ASSUME RolesAssumption == {"none", "normal", "leader"} \cap Roles = {}

VARIABLES
  \* the registries
  peers,    \* sessions(): the connection that is registered for a player, or 0
  invites,  \* invites(): the pending invitations, <<leader, guest>>
  expired,  \* those whose ten seconds have passed
  party,    \* parties(): the seat of every player in the party of every leader
  \* the sessions
  conn,     \* the number of the current or last connection of each player
  at,       \* where the handler or the guard of each connection is
  job,      \* what it holds between two locks
  mail,     \* what it has still to send
  mine,     \* Session.party_id, of the current connection
  inbox,    \* its party_rx
  \* the world
  known,    \* the party of each player for the pvp gate and the party skills
  \* bookkeeping of the model
  excuses,  \* what has happened that the code does not defend against
  spent     \* the part of MaxEvents that is used

registry == <<peers, invites, expired, party>>
session  == <<conn, at, job, mail, mine, inbox>>
vars == <<registry, session, known, excuses, spent>>

Conns == 0 .. MaxConns
Seats == [role : Roles \cup {"none", "normal", "leader"}, conn : Conns]
NoSeat == [role |-> "none", conn |-> 0]
Messages == [kind : {"joined", "left"}, party : Players \cup {NoParty}]
Letters == [to : Players, conn : Conns, msg : Messages]
\* A session is Live until its guard is dropped; "off": not opened yet, or gone.
Live == {"idle", "change", "send"}
Places == Live \cup {"unlist", "uninvite", "find", "leave", "bye", "off"}
\* how: what is to be done to the party; next: the party_id when the handler ends.
Jobs == [party : Players \cup {NoParty}, conn : Conns, target : Players \cup {NoParty},
         how : {"nothing", "join", "disband", "remove"}, next : Players \cup {NoParty}]
Job(l, c, t, how, next) == [party |-> l, conn |-> c, target |-> t, how |-> how, next |-> next]
NoJob == Job(NoParty, 0, NoParty, "nothing", NoParty)

\* ghost: a party was created for a leader who had gone; double: for a player
\* who had entered another party; crossed: a message arrived after a later change had
\* overtaken it.
Excuses == {"ghost", "double", "crossed"}

Members(l) == {p \in Players : party[l][p].role # "none"}
PartiesOf(p) == {l \in Players : p \in Members(l)}
InParty(p) == PartiesOf(p) # {}

Online(p) == at[p][conn[p]] \in Live
Idle(p) == at[p][conn[p]] = "idle"
Spend == spent < MaxEvents /\ spent' = spent + 1
Excuse(cases) == excuses' = excuses \cup cases

Left == [kind |-> "left", party |-> NoParty]
Joined(l) == [kind |-> "joined", party |-> l]
Letter(l, p, m) == [to |-> p, conn |-> party[l][p].conn, msg |-> m]

-----------------------------------------------------------------------------
Init ==
  /\ peers = [p \in Players |-> 1]
  /\ invites = {} /\ expired = {}
  /\ party = [l \in Players |-> [p \in Players |-> NoSeat]]
  /\ conn = [p \in Players |-> 1]
  /\ at = [p \in Players |-> [c \in Conns |-> IF c = 1 THEN "idle" ELSE "off"]]
  /\ job = [p \in Players |-> [c \in Conns |-> NoJob]]
  /\ mail = [p \in Players |-> [c \in Conns |-> {}]]
  /\ mine = [p \in Players |-> NoParty]
  /\ inbox = [p \in Players |-> <<>>]
  /\ known = [p \in Players |-> NoParty]
  /\ excuses = {} /\ spent = 0

-----------------------------------------------------------------------------
\* Invitations (CG_PARTY_INVITE, CG_PARTY_INVITE_ANSWER)

\* A player without a party, or the leader of one with room, invites a player without one.
Invite(l, g) ==
  /\ Idle(l) /\ l # g /\ Spend
  /\ ~InParty(l) \/ (l \in Members(l) /\ Cardinality(Members(l)) < MaxMembers)
  /\ peers[g] # 0 /\ <<l, g>> \in MayJoin /\ ~InParty(g)
  /\ <<l, g>> \notin invites
  /\ invites' = invites \cup {<<l, g>>}
  /\ UNCHANGED <<peers, expired, party, session, known, excuses>>

Expire(i) ==
  /\ i \in invites \ expired /\ Spend
  /\ expired' = expired \cup {i}
  /\ UNCHANGED <<peers, invites, party, session, known, excuses>>

\* An answer takes the invitation; only a fresh one that is accepted, from a leader who is
\* still connected, goes on.
Answer(g, l, accept) ==
  /\ Idle(g) /\ <<l, g>> \in invites
  /\ invites' = invites \ {<<l, g>>} /\ expired' = expired \ {<<l, g>>}
  /\ IF accept /\ <<l, g>> \notin expired /\ peers[l] # 0
       THEN /\ at' = [at EXCEPT ![g][conn[g]] = "change"]
            /\ job' = [job EXCEPT ![g][conn[g]] = Job(l, peers[l], g, "join", NoParty)]
       ELSE UNCHANGED <<at, job>>
  /\ UNCHANGED <<peers, party, conn, mail, mine, inbox, known, excuses, spent>>

Seat(role, c) == [role |-> role, conn |-> c]
SendThen(p, c, letters, next) ==
  /\ mail' = [mail EXCEPT ![p][c] = letters]
  /\ job' = [job EXCEPT ![p][c] = Job(NoParty, 0, NoParty, "nothing", next)]
  /\ at' = [at EXCEPT ![p][c] = IF at[p][c] = "leave" THEN "bye" ELSE "send"]

\* A message that was sent before a player joins and that he will handle after it.
Crossing(g) ==
  {e \in {"crossed"} : inbox[g] # <<>> \/ \E q \in Players, c \in Conns : \E m \in mail[q][c] : m.to = g}

\* variant: the room is not looked at again
RefusedIfInParty(g, l) == InParty(g)

\* variant: the guest is not looked for in the other parties
RefusedIfFull(g, l) == Cardinality(Members(l)) >= MaxMembers

Refused(g, l) == InParty(g) \/ Cardinality(Members(l)) >= MaxMembers

JoinRefused(g, c) ==
  /\ at[g][c] = "change" /\ job[g][c].how = "join" /\ Refused(g, job[g][c].party)
  /\ at' = [at EXCEPT ![g][c] = "idle"] /\ job' = [job EXCEPT ![g][c] = NoJob]
  /\ UNCHANGED <<registry, conn, mail, mine, inbox, known, excuses, spent>>

\* The leader has a party: the guest takes a seat in it.
JoinExisting(g, c) ==
  LET l == job[g][c].party IN
  /\ at[g][c] = "change" /\ job[g][c].how = "join" /\ ~Refused(g, l) /\ Members(l) # {}
  /\ party' = [party EXCEPT ![l][g] = Seat("normal", c)]
  /\ SendThen(g, c, {}, l)
  /\ Excuse(Crossing(g))
  /\ UNCHANGED <<peers, invites, expired, conn, mine, inbox, known, spent>>

\* He has none: it is created with what was read of him before, and he is told.
JoinNew(g, c) ==
  LET l == job[g][c].party
      d == job[g][c].conn
  IN
  /\ at[g][c] = "change" /\ job[g][c].how = "join" /\ ~Refused(g, l) /\ Members(l) = {}
  /\ party' = [party EXCEPT ![l] = [p \in Players |->
                  IF p = l THEN Seat("leader", d) ELSE IF p = g THEN Seat("normal", c) ELSE NoSeat]]
  /\ SendThen(g, c, {[to |-> l, conn |-> d, msg |-> Joined(l)]}, l)
  /\ Excuse({e \in {"ghost"} : ~(Online(l) /\ conn[l] = d)}
            \cup {e \in {"double"} : InParty(l)} \cup Crossing(g))
  /\ UNCHANGED <<peers, invites, expired, conn, mine, inbox, known, spent>>

-----------------------------------------------------------------------------
\* Leaving, kicking and disbanding (CG_PARTY_REMOVE)

\* The handler reads the party, its leader and its size under one lock ...
Remove(p, t) ==
  /\ Idle(p) /\ Spend
  /\ \E l \in PartiesOf(p) :
       /\ p = l \/ p = t
       /\ LET ends == Cardinality(Members(l)) = 2 \/ (p = l /\ t = l) IN
          /\ ends \/ t \in Members(l)
          /\ at' = [at EXCEPT ![p][conn[p]] = "change"]
          /\ job' = [job EXCEPT ![p][conn[p]] =
                       Job(l, 0, t, IF ends THEN "disband" ELSE "remove",
                           IF p = l /\ ~ends THEN mine[p] ELSE NoParty)]
  /\ UNCHANGED <<registry, conn, mail, mine, inbox, known, excuses>>

\* ... and changes it under another, or finds it gone.
Disband(p, c) ==
  LET l == job[p][c].party
      ends == job[p][c].how = "disband" \/ job[p][c].target = l
  IN
  /\ at[p][c] \in {"change", "leave"} /\ job[p][c].how \in {"disband", "remove"} /\ ends
  /\ party' = [party EXCEPT ![l] = [q \in Players |-> NoSeat]]
  /\ SendThen(p, c, {Letter(l, q, Left) : q \in Members(l)}, job[p][c].next)
  /\ UNCHANGED <<peers, invites, expired, conn, mine, inbox, known, excuses, spent>>

\* variant: who is removed is not told
RemoveSilently(p, c) ==
  /\ at[p][c] \in {"change", "leave"} /\ job[p][c].how = "remove"
  /\ job[p][c].target # job[p][c].party
  /\ party' = [party EXCEPT ![job[p][c].party][job[p][c].target] = NoSeat]
  /\ SendThen(p, c, {}, job[p][c].next)
  /\ UNCHANGED <<peers, invites, expired, conn, mine, inbox, known, excuses, spent>>

RemoveMember(p, c) ==
  LET l == job[p][c].party
      t == job[p][c].target
  IN
  /\ at[p][c] \in {"change", "leave"} /\ job[p][c].how = "remove" /\ t # l
  /\ party' = [party EXCEPT ![l][t] = NoSeat]
  /\ SendThen(p, c, {Letter(l, q, Left) : q \in Members(l) \cap {t}}, job[p][c].next)
  /\ UNCHANGED <<peers, invites, expired, conn, mine, inbox, known, excuses, spent>>

\* The leader gives a free role to a member without one, or takes it back (CG_PARTY_SET_STATE).
SetState(l, t, role) ==
  /\ Idle(l) /\ {l, t} \subseteq Members(l) /\ Spend
  /\ \/ /\ role \in Roles /\ party[l][t].role = "normal"
        /\ \A q \in Players : party[l][q].role # role
     \/ role = "normal" /\ party[l][t].role \in Roles
  /\ party' = [party EXCEPT ![l][t] = Seat(role, party[l][t].conn)]
  /\ UNCHANGED <<peers, invites, expired, session, known, excuses>>

-----------------------------------------------------------------------------
\* Outboxes

Receives(to, c) == Online(to) /\ conn[to] = c
Stale(letter) == IF letter.msg.kind = "left"
                   THEN InParty(letter.to)
                   ELSE letter.to \notin Members(letter.msg.party)

\* One letter; a queue without receiver only logs an error.
Deliver(p, c, letter) ==
  /\ letter \in mail[p][c]
  /\ mail' = [mail EXCEPT ![p][c] = @ \ {letter}]
  /\ IF Receives(letter.to, letter.conn)
       THEN /\ inbox' = [inbox EXCEPT ![letter.to] = Append(@, letter.msg)]
            /\ Excuse({e \in {"crossed"} : Stale(letter)})
       ELSE UNCHANGED <<inbox, excuses>>
  /\ UNCHANGED <<registry, conn, at, job, mine, known, spent>>

\* The handler ends by writing its own party_id.
Finish(p, c) ==
  /\ at[p][c] = "send" /\ mail[p][c] = {}
  /\ mine' = [mine EXCEPT ![p] = job[p][c].next]
  /\ at' = [at EXCEPT ![p][c] = "idle"] /\ job' = [job EXCEPT ![p][c] = NoJob]
  /\ UNCHANGED <<registry, conn, mail, inbox, known, excuses, spent>>

\* variant: only Joined changes the party_id
HandleJoined(p) ==
  /\ Idle(p) /\ inbox[p] # <<>>
  /\ inbox' = [inbox EXCEPT ![p] = Tail(@)]
  /\ LET l == IF Head(inbox[p]).kind = "joined" THEN Head(inbox[p]).party ELSE mine[p] IN
       mine' = [mine EXCEPT ![p] = l] /\ known' = [known EXCEPT ![p] = l]
  /\ UNCHANGED <<registry, conn, at, job, mail, excuses, spent>>

\* handle_msg: the party_id of the session and, through pvp_sync_party, of the world.
HandleMsg(p) ==
  /\ Idle(p) /\ inbox[p] # <<>>
  /\ inbox' = [inbox EXCEPT ![p] = Tail(@)]
  /\ mine' = [mine EXCEPT ![p] = Head(inbox[p]).party]
  /\ known' = [known EXCEPT ![p] = Head(inbox[p]).party]
  /\ UNCHANGED <<registry, conn, at, job, mail, excuses, spent>>

-----------------------------------------------------------------------------
\* Connections (register_session, PartyPeerGuard::drop)

\* A session ends.  Its entity in the world, its login and its receiver are gone before the
\* guard is dropped.
Disconnect(p) ==
  /\ Idle(p) /\ Spend
  /\ at' = [at EXCEPT ![p][conn[p]] = "unlist"]
  /\ inbox' = [inbox EXCEPT ![p] = <<>>]
  /\ mine' = [mine EXCEPT ![p] = NoParty]
  /\ known' = [known EXCEPT ![p] = NoParty]
  /\ UNCHANGED <<registry, conn, job, mail, excuses>>

\* The guard knows its player by the vid only, here and below: whichever of his connections
\* is registered now, has invited or has the seat.
Unlist(p, c) ==
  /\ at[p][c] = "unlist"
  /\ peers' = [peers EXCEPT ![p] = 0]
  /\ at' = [at EXCEPT ![p][c] = "uninvite"]
  /\ UNCHANGED <<invites, expired, party, conn, job, mail, mine, inbox, known, excuses, spent>>

Uninvite(p, c) ==
  LET his == {i \in invites : i[1] = p} IN
  /\ at[p][c] = "uninvite"
  /\ invites' = invites \ his /\ expired' = expired \ his
  /\ at' = [at EXCEPT ![p][c] = "find"]
  /\ UNCHANGED <<peers, party, conn, job, mail, mine, inbox, known, excuses, spent>>

\* variant: the guard forgets the party
FindNoParty(p, c) ==
  /\ at[p][c] = "find" /\ at' = [at EXCEPT ![p][c] = "bye"]
  /\ UNCHANGED <<registry, conn, job, mail, mine, inbox, known, excuses, spent>>

\* leave_party_on_disconnect: the party is found under one lock and left under another.
FindParty(p, c) ==
  /\ at[p][c] = "find"
  /\ \/ /\ ~InParty(p)
        /\ at' = [at EXCEPT ![p][c] = "bye"] /\ UNCHANGED job
     \/ \E l \in PartiesOf(p) :
          /\ at' = [at EXCEPT ![p][c] = "leave"]
          /\ job' = [job EXCEPT ![p][c] =
                       Job(l, 0, p, IF p = l THEN "disband" ELSE "remove", NoParty)]
  /\ UNCHANGED <<registry, conn, mail, mine, inbox, known, excuses, spent>>

Gone(p, c) ==
  /\ at[p][c] = "bye" /\ mail[p][c] = {}
  /\ at' = [at EXCEPT ![p][c] = "off"] /\ job' = [job EXCEPT ![p][c] = NoJob]
  /\ UNCHANGED <<registry, conn, mail, mine, inbox, known, excuses, spent>>

\* The player is back; the guards of his former connections may still be at work.
Register(p) ==
  /\ ~Online(p) /\ conn[p] < MaxConns /\ Spend
  /\ conn' = [conn EXCEPT ![p] = @ + 1]
  /\ peers' = [peers EXCEPT ![p] = conn[p] + 1]
  /\ at' = [at EXCEPT ![p][conn[p] + 1] = "idle"]
  /\ UNCHANGED <<invites, expired, party, job, mail, mine, inbox, known, excuses>>

-----------------------------------------------------------------------------
\* What a handler does once it has begun, and what waits in an outbox.
Works(p, c) ==
  \/ JoinRefused(p, c) \/ JoinExisting(p, c) \/ JoinNew(p, c)
  \/ Disband(p, c) \/ RemoveMember(p, c)
  \/ \E letter \in mail[p][c] : Deliver(p, c, letter)
  \/ Finish(p, c)
  \/ Unlist(p, c) \/ Uninvite(p, c) \/ FindParty(p, c) \/ Gone(p, c)
Proceed(p) == HandleMsg(p) \/ \E c \in Conns : Works(p, c)

Asks(p) ==
  \/ \E q \in Players : Invite(p, q) \/ Remove(p, q)
  \/ \E q \in Players, accept \in BOOLEAN : Answer(p, q, accept)
  \/ \E q \in Players, role \in Roles \cup {"normal"} : SetState(p, q, role)
  \/ Disconnect(p) \/ Register(p)

Next == (\E p \in Players : Proceed(p) \/ Asks(p)) \/ (\E i \in invites : Expire(i))

Spec == Init /\ [][Next]_vars
\* tokio polls every ready task: handlers run and queues are drained.  That some task with work
\* left goes on is enough, for there is an end to what players ask (MaxEvents).
FairSpec == Spec /\ WF_vars(\E p \in Players : Proceed(p))

-----------------------------------------------------------------------------
TypeOK ==
  /\ peers \in [Players -> Conns] /\ conn \in [Players -> Conns]
  /\ invites \subseteq Players \X Players /\ expired \subseteq invites
  /\ party \in [Players -> [Players -> Seats]]
  /\ at \in [Players -> [Conns -> Places]]
  /\ job \in [Players -> [Conns -> Jobs]]
  /\ mail \in [Players -> [Conns -> SUBSET Letters]]
  /\ mine \in [Players -> Players \cup {NoParty}]
  /\ inbox \in [Players -> Seq(Messages)]
  /\ known \in [Players -> Players \cup {NoParty}]
  /\ excuses \subseteq Excuses
  /\ spent \in 0 .. MaxEvents

\* A party that exists has its leader in it and nobody else as leader, is never larger
\* than PARTY_MAX_MEMBER, and gives each role to one member at most, whichever handlers
\* of its members and guests run at once (handle_invite_answer, handle_set_state).
PartiesAreFormed ==
  \A l \in Players :
    Members(l) # {} =>
      /\ l \in Members(l) /\ Cardinality(Members(l)) <= MaxMembers
      /\ \A p, q \in Members(l) :
           /\ (party[l][p].role = "leader") <=> (p = l)
           /\ (p # q /\ party[l][p].role = party[l][q].role) => party[l][p].role = "normal"

\* Nobody is in two parties, unless one was created for a leader who had entered another
\* one since he invited: the answer looks for the guest in the parties, not for the leader.
NobodyInTwoParties ==
  "double" \notin excuses => \A p \in Players : Cardinality(PartiesOf(p)) <= 1

\* Leaving the game is leaving the party: a seat belongs to a connection that is there, or
\* to one whose guard is still going to take it away, even when the player is back before
\* that, unless an accepted invitation was overtaken by the end of its leader (or he, in two
\* parties, left only one).
MembersAreConnected ==
  excuses \cap {"ghost", "double"} = {} =>
    \A l, p \in Players :
      p \in Members(l) =>
        LET c == party[l][p].conn IN
        /\ at[p][c] \notin {"bye", "off"}
        /\ at[p][c] = "leave" => job[p][c].party = l

Quiet == \A p \in Players : inbox[p] = <<>> /\ \A c \in Conns : at[p][c] \in {"idle", "off"}

\* Once every handler and guard has ended and every outbox is drained, each session has the party_id
\* that the registry says, and the world the same or none: it is a cache of the registry.
CachesAgree ==
  Quiet /\ excuses = {} =>
    \A p \in Players :
      Idle(p) => /\ PartiesOf(p) = {mine[p]} \ {NoParty}
                 /\ known[p] \in {mine[p], NoParty}
                 /\ p \in Members(p) => known[p] = p

Fresh(p) == ~Online(p) \/ PartiesOf(p) = {mine[p]} \ {NoParty}

\* Sessions whose party_id is not what the registry says learn of it, all of them once players
\* ask for nothing new: no message is lost or overtaken for good while handlers and guards of
\* others run (deliver, handle_msg).
StaleCacheEnds ==
  LET AllFresh == \A p \in Players : Fresh(p) IN
  [](~AllFresh => <>(AllFresh \/ excuses # {}))

\* What the pvp gate needs (party.rs:1467): the world knows the party of each member.
WorldKnowsMembers ==
  Quiet /\ excuses = {} =>
    \A p \in Players : Idle(p) => PartiesOf(p) = {known[p]} \ {NoParty}

=============================================================================
