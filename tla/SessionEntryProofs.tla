-------------------------- MODULE SessionEntryProofs --------------------------
(***************************************************************************)
(* Proofs about SessionEntry for every set of connections, accounts, slots *)
(* and names: its types; that two sessions never hold one character; that  *)
(* the world follows the sessions; that what a player did reaches its row; *)
(* and that the list of an account and its rows are the same, whatever     *)
(* statements fail and whenever the process ends.                          *)
(***************************************************************************)
EXTENDS SessionEntry, FiniteSetTheorems, NaturalsInduction, WellFoundedInduction, TLAPS

-----------------------------------------------------------------------------
(* The inductive invariant                                                 *)

Phased(c) == at[c] \in Serving \cup Ending

\* The registry of logins: a connection has an account while it is served, nobody else has the
\* same one, and it is taken.
LoginsAreOwn ==
  \A c \in Conns :
    /\ who[c] # NoAccount <=> Phased(c)
    /\ who[c] # NoAccount => who[c] \in logins
    /\ \A d \in Conns \ {c} : who[c] # NoAccount => who[d] # who[c]

\* Who has a character: a slot points to no character of another account, and what has not been
\* inserted is not referred to.
TablesAgree ==
  /\ \A pid \in Pids : pid > made => rows[pid] = NoRow
  /\ \A a \in Accounts, s \in Slots :
       LET pid == index[a][s] IN
       pid # NoPid => pid <= made /\ (rows[pid] # NoRow => rows[pid].account = a)

Handling == {"create.place", "create.slot", "create.undo", "delete.gate", "delete.row",
             "rename.name", "rename.write"}
Naming   == {"create.insert", "create.name", "rename.name", "rename.write"}
Playing  == {"loaded", "game", "leaving"}

\* A handler and a session refer to characters of their own account only, which exist when they
\* are renamed or played.
Own(c) ==
  /\ at[c] \in Handling => op[c].pid # NoPid
  /\ ~Phased(c) => op[c].pid = NoPid
  /\ op[c].pid # NoPid =>
       op[c].pid <= made /\ (rows[op[c].pid] # NoRow => rows[op[c].pid].account = who[c])
  /\ at[c] \in Naming => op[c].name \in Names
  /\ at[c] \in {"rename.name", "rename.write"} => Exists(op[c].pid)
  /\ at[c] \in Playing => held[c].pid # NoPid
  /\ held[c].pid # NoPid =>
       /\ at[c] \in Playing \cup {"unlocking"}
       /\ held[c].pid <= made
       /\ rows[held[c].pid] # NoRow /\ rows[held[c].pid].account = who[c]

SInv ==
  /\ TypeOK
  /\ LoginsAreOwn
  /\ TablesAgree
  /\ \A c \in Conns : Own(c)
  /\ \A pid \in Pids : last[pid] <= spent

-----------------------------------------------------------------------------
(* Types                                                                   *)

\* The least that is known of the constants.
LEMMA Limits ==
  /\ MaxPid \in Nat /\ MaxEvents \in Nat /\ MaxFaults \in Nat
  /\ Pids \subseteq Nat /\ NoPid \notin Pids /\ NoPid = 0 /\ NoAccount \notin Accounts
  /\ Nobody \notin Conns
BY BoundsAssumption, AccountsAssumption DEF Pids, NoPid

\* What the constructors and the empty values make (Op, NoRow, NoOp, NoHold).
LEMMA Constructors ==
  /\ NoRow \in Rows /\ NoOp \in Ops /\ NoHold \in Holds
  /\ \A s \in Slots \cup {0}, n \in Names \cup {"none"}, pid \in Pids \cup {NoPid},
        e \in Empires \cup {0} : Op(s, n, pid, e) \in Ops
  /\ \A row \in Rows : row # NoRow => row \in [account : Accounts, name : Names, ver : Versions]
  /\ NoRow.account = NoAccount /\ NoOp.pid = NoPid /\ NoHold.pid = NoPid
BY Limits DEF Rows, NoRow, Ops, Op, NoOp, Holds, NoHold, Versions

\* The fields of what a connection holds.
LEMMA Fields ==
  ASSUME TypeOK, NEW c \in Conns
  PROVE  /\ op[c].pid \in Pids \cup {NoPid} /\ op[c].name \in Names \cup {"none"}
         /\ op[c].empire \in Empires \cup {0} /\ op[c].slot \in Slots \cup {0}
         /\ held[c].pid \in Pids \cup {NoPid} /\ held[c].ver \in Versions
         /\ at[c] \in Phases /\ who[c] \in Accounts \cup {NoAccount}
BY DEF TypeOK, Ops, Holds

\* Budgets are never overdrawn (Spend, Fault, Skip).
LEMMA Budget ==
  ASSUME TypeOK
  PROVE  /\ Spend => spent' \in 0 .. MaxEvents /\ spent' = spent + 1
         /\ \A r \in Results : Fault(r) => faults' \in 0 .. MaxFaults
         /\ \A works \in BOOLEAN : Skip(works) => faults' \in 0 .. MaxFaults
BY Limits DEF TypeOK, Spend, Fault, Skip, Results

\* What the queues hold.
LEMMA ElementsOf ==
  ASSUME NEW S, NEW seq \in Seq(S)
  PROVE  /\ <<>> \in Seq(S)
         /\ seq # <<>> => Head(seq) \in S /\ Tail(seq) \in Seq(S)
         /\ \A e \in S : Append(seq, e) \in Seq(S)
         /\ \A i \in 1 .. Len(seq) : seq[i] \in S
OBVIOUS

\* Excuses only grow, and are of their type (Excuse).
LEMMA ExcuseType ==
  ASSUME TypeOK, NEW cases \in SUBSET Excuses, Excuse(cases)
  PROVE  excuses' \subseteq Excuses
BY DEF TypeOK, Excuse

\* A row that is there belongs to an account, and one of an account is there.
LEMMA RowsOfAccounts ==
  ASSUME TypeOK, NEW pid \in Pids
  PROVE  /\ rows[pid] \in Rows
         /\ rows[pid] # NoRow <=> rows[pid].account \in Accounts
BY Limits DEF TypeOK, Rows, NoRow

-----------------------------------------------------------------------------
(* Steps of a connection                                                   *)

\* What others refer to stays when a connection touches only rows of its own account or new ones.
LEMMA OthersKeep ==
  ASSUME SInv, TypeOK', NEW c \in Conns, who[c] # NoAccount,
         NEW d \in Conns, d # c, UNCHANGED <<at[d], who[d], op[d], held[d]>>,
         made' \in Nat, made' >= made,
         \A pid \in Pids : pid <= made =>
           \/ rows'[pid] = rows[pid]
           \/ rows[pid] # NoRow /\ rows[pid].account = who[c]
              /\ (rows'[pid] = NoRow \/ rows'[pid].account = who[c])
  PROVE  Own(d)'
<1>0. TypeOK /\ Own(d) /\ made \in Nat /\ who[d] # who[c]
  BY DEF SInv, LoginsAreOwn, TypeOK, Pids
<1>1. /\ op[d].pid \in Pids \cup {NoPid} /\ held[d].pid \in Pids \cup {NoPid}
      /\ at[d] \in Phases /\ who[d] \in Accounts \cup {NoAccount}
  BY <1>0, Fields
<1>2. ASSUME NEW pid \in Pids, pid <= made, rows[pid] # NoRow => rows[pid].account = who[d]
      PROVE  rows'[pid] = rows[pid]
  BY <1>0, <1>2
<1>3. ASSUME op[d].pid # NoPid
      PROVE  rows'[op[d].pid] = rows[op[d].pid] /\ op[d].pid <= made'
  <2>1. /\ op[d].pid \in Pids /\ op[d].pid \in Nat /\ op[d].pid <= made
        /\ rows[op[d].pid] # NoRow => rows[op[d].pid].account = who[d]
    BY <1>0, <1>1, <1>3, Limits DEF Own
  <2> QED
    BY <1>0, <1>2, <2>1
<1>4. ASSUME held[d].pid # NoPid
      PROVE  rows'[held[d].pid] = rows[held[d].pid] /\ held[d].pid <= made'
  <2>1. /\ held[d].pid \in Pids /\ held[d].pid \in Nat /\ held[d].pid <= made
        /\ rows[held[d].pid].account = who[d]
    BY <1>0, <1>1, <1>4, Limits DEF Own
  <2> QED
    BY <1>0, <1>2, <2>1
<1> QED
  BY <1>0, <1>1, <1>3, <1>4 DEF Own, Exists, Phased

\* The registry stays when nobody changes his account and a phase stays one of a served connection.
LEMMA LoginsKeep ==
  ASSUME SInv, NEW c \in Conns, UNCHANGED <<logins, who>>, Phased(c),
         NEW phase \in Serving \cup Ending, at' = [at EXCEPT ![c] = phase]
  PROVE  LoginsAreOwn' /\ who[c] # NoAccount /\ who[c] \in Accounts
<1>1. /\ at'[c] = phase /\ at \in [Conns -> Phases] /\ who[c] \in Accounts \cup {NoAccount}
      /\ \A d \in Conns \ {c} : at'[d] = at[d]
  BY DEF SInv, TypeOK
<1> QED
  BY <1>1 DEF SInv, LoginsAreOwn, Phased

\* A step of a served connection: what it must show.
LEMMA ConnectionKeeps ==
  ASSUME SInv, TypeOK', NEW c \in Conns, UNCHANGED <<logins, who>>, Phased(c),
         NEW phase \in Serving \cup Ending, at' = [at EXCEPT ![c] = phase],
         \A d \in Conns \ {c} : op'[d] = op[d] /\ held'[d] = held[d],
         made' \in Nat, made' >= made,
         \A pid \in Pids : pid <= made =>
           \/ rows'[pid] = rows[pid]
           \/ rows[pid] # NoRow /\ rows[pid].account = who[c]
              /\ (rows'[pid] = NoRow \/ rows'[pid].account = who[c]),
         TablesAgree', Own(c)', \A pid \in Pids : last'[pid] <= spent'
  PROVE  SInv'
<1>1. LoginsAreOwn' /\ who[c] # NoAccount
  BY LoginsKeep
<1>2. ASSUME NEW d \in Conns PROVE Own(d)'
  <2>1. CASE d = c
    BY <2>1
  <2>2. CASE d # c
    <3>1. at'[d] = at[d] /\ who'[d] = who[d] /\ op'[d] = op[d] /\ held'[d] = held[d]
      BY <2>2 DEF SInv, TypeOK
    <3> QED
      BY <1>1, <2>2, <3>1, OthersKeep
  <2> QED
    BY <2>1, <2>2
<1> QED
  BY <1>1, <1>2 DEF SInv

\* In the list a session has no character in memory.
LEMMA Listing ==
  ASSUME SInv, NEW c \in Conns, at[c] \in Serving \ Playing
  PROVE  /\ TypeOK /\ Phased(c) /\ who[c] \in Accounts /\ held[c].pid = NoPid /\ Own(c)
         /\ made \in Nat /\ spent \in Nat
<1>1. TypeOK /\ Phased(c) /\ Own(c) /\ who[c] # NoAccount
  BY DEF SInv, LoginsAreOwn, Phased
<1>2. who[c] \in Accounts
  BY <1>1, Fields
<1>3. "unlocking" \notin Serving
  BY DEF Serving
<1> QED
  BY <1>1, <1>2, <1>3 DEF Own, TypeOK

\* Tables that agree still do when a connection touches rows of its own account or new ones and
\* sets slots of its own account to what it has there.
LEMMA TablesKeep ==
  ASSUME SInv, TypeOK', NEW a \in Accounts,
         made' >= made, index' = index,
         \A pid \in Pids :
           \/ rows'[pid] = rows[pid]
           \/ pid <= made' /\ (pid > made \/ (rows[pid] # NoRow /\ rows[pid].account = a))
              /\ (rows'[pid] = NoRow \/ rows'[pid].account = a)
  PROVE  TablesAgree'
<1>0. /\ made \in Nat /\ made' \in Nat /\ Pids \subseteq Nat
      /\ index \in [Accounts -> [Slots -> Pids \cup {NoPid}]]
  BY Limits DEF SInv, TypeOK
<1>1. ASSUME NEW pid \in Pids, pid > made'
      PROVE  rows'[pid] = NoRow
  <2>1. pid \in Nat /\ pid > made /\ ~(pid <= made')
    BY <1>0, <1>1
  <2>2. rows'[pid] = rows[pid]
    BY <2>1
  <2>3. rows[pid] = NoRow
    BY <2>1 DEF SInv, TablesAgree
  <2> QED
    BY <2>2, <2>3
<1>2. ASSUME NEW b \in Accounts, NEW s \in Slots, index[b][s] # NoPid
      PROVE  index[b][s] <= made' /\ (rows'[index[b][s]] # NoRow => rows'[index[b][s]].account = b)
  <2>1. PICK pid \in Pids : pid = index[b][s]
    BY <1>0, <1>2
  <2>2. pid \in Nat /\ pid <= made /\ (rows[pid] # NoRow => rows[pid].account = b)
    BY <1>0, <1>2, <2>1 DEF SInv, TablesAgree
  <2>3. pid <= made' /\ (rows'[pid] # NoRow => rows'[pid].account = b)
    BY <1>0, <2>2
  <2> QED
    BY <2>1, <2>3
<1> QED
  BY <1>1, <1>2 DEF TablesAgree

\* A handler of the list that changes no table: what it must show.
LEMMA CalmKeeps ==
  ASSUME SInv, TypeOK', NEW c \in Conns, at[c] \in Serving \ Playing,
         NEW phase \in (Serving \ Playing) \cup {"unlocking"}, at' = [at EXCEPT ![c] = phase],
         UNCHANGED <<logins, who, held, rows, index, made, last>>, spent' >= spent,
         NEW o \in Ops, op' = [op EXCEPT ![c] = o],
         o.pid # NoPid => o.pid <= made /\ (rows[o.pid] # NoRow => rows[o.pid].account = who[c]),
         phase \in Handling => o.pid # NoPid,
         phase \in Naming => o.name \in Names,
         phase \in {"rename.name", "rename.write"} => rows[o.pid] # NoRow
  PROVE  SInv'
<1>0. /\ TypeOK /\ Phased(c) /\ who[c] \in Accounts /\ held[c].pid = NoPid
      /\ made \in Nat /\ spent \in Nat /\ phase \in Serving \cup Ending
  BY Listing DEF Ending
<1>1. /\ at'[c] = phase /\ op'[c] = o
      /\ \A d \in Conns \ {c} : op'[d] = op[d] /\ held'[d] = held[d]
  BY <1>0 DEF TypeOK
<1>2. TablesAgree'
  BY <1>0, TablesKeep
<1>3. Own(c)'
  <2>1. phase \notin Playing
    BY DEF Playing, Serving
  <2>2. Phased(c)'
    BY <1>0, <1>1 DEF Phased
  <2>3. phase \in {"rename.name", "rename.write"} => Exists(op[c].pid)'
    BY <1>1 DEF Exists, Handling
  <2> QED
    BY <1>0, <1>1, <2>1, <2>2, <2>3 DEF Own
<1>4. \A pid \in Pids : last'[pid] <= spent'
  <2>1. \A pid \in Pids : last[pid] \in Nat /\ last[pid] <= spent
    BY <1>0, Limits DEF SInv, TypeOK, Versions
  <2> QED
    BY <1>0, <2>1 DEF TypeOK
<1>5. /\ made' \in Nat /\ made' >= made /\ UNCHANGED <<logins, who>>
      /\ \A pid \in Pids : rows'[pid] = rows[pid]
  BY <1>0
<1> QED
  BY <1>0, <1>1, <1>2, <1>3, <1>4, <1>5, ConnectionKeeps

-----------------------------------------------------------------------------
(* The list of characters                                                  *)

\* The credentials, and the end of a connection before the game (Credentials, Hangup).
LEMMA EndsStep ==
  ASSUME SInv, NEW c \in Conns, Credentials(c) \/ Hangup(c) \/ (\E s \in Slots : SelectNobody(c, s))
  PROVE  SInv'
<1>0. TypeOK /\ op[c] \in Ops /\ spent \in Nat
  BY DEF SInv, TypeOK
<1>1. CASE at[c] # "loaded"
  <2>1. /\ at[c] \in Serving \ Playing /\ UNCHANGED <<op, held>>
        /\ UNCHANGED <<logins, who, world, database, book>>
    BY <1>1 DEF Credentials, Hangup, SelectNobody, Serving, Playing
  <2>2. PICK phase \in {"select", "unlocking"} : at' = [at EXCEPT ![c] = phase]
    BY DEF Credentials, Hangup, SelectNobody, Goto
  <2>3. emp' = emp \/ emp' = [emp EXCEPT ![c] = empire[who[c]]]
    BY DEF Credentials, Hangup, SelectNobody
  <2>4. who[c] \in Accounts /\ Own(c) /\ made \in Nat
    BY <2>1, Listing
  <2>5. emp' \in [Conns -> Empires \cup {0}]
    BY <1>0, <2>3, <2>4 DEF TypeOK
  <2>6. TypeOK'
    BY <1>0, <2>1, <2>2, <2>5 DEF TypeOK, world, database, book, Phases, Serving, Ending
  <2>7. op' = [op EXCEPT ![c] = op[c]]
    BY <1>0, <2>1 DEF TypeOK
  <2>8. /\ phase \in (Serving \ Playing) \cup {"unlocking"}
        /\ phase \notin Handling /\ phase \notin Naming
        /\ phase \notin {"rename.name", "rename.write"}
    BY DEF Serving, Playing, Handling, Naming
  <2>9. op[c].pid # NoPid => op[c].pid <= made
                             /\ (rows[op[c].pid] # NoRow => rows[op[c].pid].account = who[c])
    BY <2>4 DEF Own
  <2>10. UNCHANGED <<logins, who, held, rows, index, made, last>> /\ spent' >= spent
    BY <1>0, <2>1 DEF world, database, book
  <2> QED
    BY <1>0, <2>1, <2>2, <2>6, <2>7, <2>8, <2>9, <2>10, CalmKeeps
<1>2. CASE at[c] = "loaded"
  <2>1. /\ at' = [at EXCEPT ![c] = "unlocking"]
        /\ UNCHANGED <<logins, who, op, emp, held, world, database, book>>
    BY <1>2 DEF Credentials, Hangup, SelectNobody, Goto
  <2>2. UNCHANGED <<intents, entity, rows, index, empire, queue, made, last, excuses, spent, faults>>
    BY <2>1 DEF world, database, book
  <2>3. TypeOK'
    BY <1>0, <2>1, <2>2 DEF TypeOK, Phases, Ending
  <2>4. Phased(c) /\ "unlocking" \in Serving \cup Ending /\ Own(c) /\ made \in Nat
    BY <1>0, <1>2 DEF SInv, TypeOK, Phased, Serving, Ending
  <2>5. at'[c] = "unlocking"
    BY <1>0, <2>1 DEF TypeOK
  <2>6. Own(c)'
    BY <2>1, <2>2, <2>4, <2>5 DEF Own, Exists, Phased, Playing, Handling, Naming
  <2>7. TablesAgree' /\ \A pid \in Pids : last'[pid] <= spent'
    BY <2>2 DEF SInv, TablesAgree
  <2>8. made' >= made /\ made' \in Nat
    BY <2>2, <2>4
  <2> QED
    BY <2>1, <2>2, <2>3, <2>4, <2>6, <2>7, <2>8, ConnectionKeeps
<1> QED
  BY <1>1, <1>2

\* What a player asks of the list (AskCreate, AskDelete, AskRename, AskEmpire).
LEMMA AskStep ==
  ASSUME SInv, NEW c \in Conns,
         \/ \E s \in Slots, n \in Names : AskCreate(c, s, n) \/ AskRename(c, s, n)
         \/ \E s \in Slots : AskDelete(c, s)
         \/ \E e \in Empires : AskEmpire(c, e)
  PROVE  SInv'
<1>0. TypeOK /\ at[c] = "select" /\ "select" \in Serving \ Playing
  BY DEF SInv, AskCreate, AskRename, AskDelete, AskEmpire, Ask, Serving, Playing
<1>a. /\ who[c] \in Accounts /\ made \in Nat /\ NoPid = 0 /\ Pids \subseteq Nat
      /\ index[who[c]] \in [Slots -> Pids \cup {NoPid}]
  BY <1>0, Listing, Limits DEF TypeOK
<1>1. PICK phase \in {"create.name", "delete.gate", "rename.name", "empire.index"}, o \in Ops :
        /\ Ask(c, phase, o)
        /\ o.pid # NoPid => \E s \in Slots : o.pid = index[who[c]][s]
        /\ phase \in {"delete.gate", "rename.name"} => o.pid # NoPid
        /\ phase \in {"create.name", "rename.name"} => o.name \in Names
        /\ phase = "rename.name" => rows[o.pid] # NoRow
  <2>1. ASSUME NEW s \in Slots, NEW n \in Names, AskCreate(c, s, n)
        PROVE  Ask(c, "create.name", Op(s, n, NoPid, 0)) /\ Op(s, n, NoPid, 0) \in Ops
    BY <2>1, Constructors DEF AskCreate
  <2>2. ASSUME NEW s \in Slots, NEW n \in Names, AskRename(c, s, n)
        PROVE  /\ Ask(c, "rename.name", Op(s, n, index[who[c]][s], 0))
               /\ Op(s, n, index[who[c]][s], 0) \in Ops
               /\ index[who[c]][s] # NoPid /\ rows[index[who[c]][s]] # NoRow
    BY <1>a, <2>2, Constructors DEF AskRename, Exists
  <2>3. ASSUME NEW s \in Slots, AskDelete(c, s)
        PROVE  /\ Ask(c, "delete.gate", Op(s, "none", index[who[c]][s], 0))
               /\ Op(s, "none", index[who[c]][s], 0) \in Ops
               /\ index[who[c]][s] # NoPid
    BY <1>a, <2>3, Constructors DEF AskDelete
  <2>4. ASSUME NEW e \in Empires, AskEmpire(c, e)
        PROVE  /\ Ask(c, "empire.index", Op(0, "none", NoPid, e))
               /\ Op(0, "none", NoPid, e) \in Ops
    BY <2>4, Constructors DEF AskEmpire
  <2>5. \A s, n, pid, e : Op(s, n, pid, e).pid = pid /\ Op(s, n, pid, e).name = n
    BY DEF Op
  <2> QED
    BY <2>1, <2>2, <2>3, <2>4, <2>5
<1>2. /\ at' = [at EXCEPT ![c] = phase] /\ op' = [op EXCEPT ![c] = o]
      /\ UNCHANGED <<logins, who, emp, held, intents, entity, rows, index, empire, queue, made,
                     last, excuses, faults>>
      /\ spent' \in 0 .. MaxEvents /\ spent' = spent + 1
  BY <1>0, <1>1, Budget DEF Ask, Goto, world, database
<1>3. phase \in Serving \ Playing /\ phase \in Phases
  BY DEF Serving, Playing, Phases
<1>4. TypeOK'
  BY <1>0, <1>2, <1>3 DEF TypeOK
<1>5. o.pid # NoPid => o.pid <= made /\ (rows[o.pid] # NoRow => rows[o.pid].account = who[c])
  BY <1>1, <1>a DEF SInv, TablesAgree
<1>6. /\ phase \in Handling => o.pid # NoPid
      /\ phase \in Naming => o.name \in Names
      /\ phase \in {"rename.name", "rename.write"} => rows[o.pid] # NoRow
  BY <1>1 DEF Handling, Naming
<1>7. spent' >= spent
  BY <1>0, <1>2, Limits DEF TypeOK
<1> QED
  BY <1>0, <1>2, <1>3, <1>4, <1>5, <1>6, <1>7, CalmKeeps

\* A statement of the list that changes the tables: what it must show.
LEMMA StatementKeeps ==
  ASSUME SInv, TypeOK', NEW c \in Conns, at[c] \in Serving \ Playing,
         NEW phase \in Serving \ Playing, at' = [at EXCEPT ![c] = phase],
         UNCHANGED <<logins, who, held, last, spent>>, made' >= made,
         NEW o \in Ops, op' = [op EXCEPT ![c] = o],
         \A pid \in Pids : pid <= made =>
           \/ rows'[pid] = rows[pid]
           \/ rows[pid] # NoRow /\ rows[pid].account = who[c]
              /\ (rows'[pid] = NoRow \/ rows'[pid].account = who[c]),
         TablesAgree',
         o.pid # NoPid => o.pid <= made' /\ (rows'[o.pid] # NoRow => rows'[o.pid].account = who[c]),
         phase \in Handling => o.pid # NoPid,
         phase \in Naming => o.name \in Names,
         phase \in {"rename.name", "rename.write"} => rows'[o.pid] # NoRow
  PROVE  SInv'
<1>0. /\ TypeOK /\ Phased(c) /\ who[c] \in Accounts /\ held[c].pid = NoPid
      /\ made' \in Nat /\ phase \in Serving \cup Ending
  BY Listing DEF TypeOK
<1>1. /\ at'[c] = phase /\ op'[c] = o
      /\ \A d \in Conns \ {c} : op'[d] = op[d] /\ held'[d] = held[d]
  BY <1>0 DEF TypeOK
<1>2. Own(c)'
  <2>1. phase \notin Playing /\ Phased(c)'
    BY <1>0, <1>1 DEF Phased
  <2>2. phase \in {"rename.name", "rename.write"} => Exists(op[c].pid)'
    BY <1>1 DEF Exists, Handling
  <2> QED
    BY <1>0, <1>1, <2>1, <2>2 DEF Own
<1>3. \A pid \in Pids : last'[pid] <= spent'
  BY DEF SInv
<1>4. UNCHANGED <<logins, who>>
  OBVIOUS
<1> QED
  BY <1>0, <1>1, <1>2, <1>3, <1>4, ConnectionKeeps

\* A handler that ends with an answer (Return).
LEMMA ReturnKeeps ==
  ASSUME SInv, TypeOK', NEW c \in Conns, at[c] \in Serving \ Playing, Return(c),
         UNCHANGED <<logins, who, held, last, spent>>, made' >= made,
         \A pid \in Pids : pid <= made =>
           \/ rows'[pid] = rows[pid]
           \/ rows[pid] # NoRow /\ rows[pid].account = who[c]
              /\ (rows'[pid] = NoRow \/ rows'[pid].account = who[c]),
         TablesAgree'
  PROVE  SInv'
<1>1. /\ NoOp \in Ops /\ NoOp.pid = NoPid /\ "select" \in Serving \ Playing
      /\ "select" \notin Handling /\ "select" \notin Naming
  BY Constructors DEF Serving, Playing, Handling, Naming
<1>2. at' = [at EXCEPT ![c] = "select"] /\ op' = [op EXCEPT ![c] = NoOp]
  BY DEF Return, Goto
<1> QED
  BY <1>1, <1>2, StatementKeeps

\* Phases and jobs of a handler that goes on, or returns.
LEMMA ReturnTypes ==
  ASSUME TypeOK, NEW c \in Conns
  PROVE  /\ Return(c) => at' \in [Conns -> Phases] /\ op' \in [Conns -> Ops]
         /\ \A phase \in Serving : Goto(c, phase) => at' \in [Conns -> Phases]
BY Constructors DEF TypeOK, Return, Goto, Phases, Serving

\* The name of a new character (CreateName).
LEMMA CreateNameStep ==
  ASSUME SInv, NEW c \in Conns, CreateName(c)
  PROVE  SInv'
<1>0. /\ TypeOK /\ at[c] = "create.name" /\ at[c] \in Serving \ Playing
      /\ UNCHANGED <<logins, who, emp, held, intents, entity, rows, index, empire, queue, made,
                     last, excuses, spent, faults>>
  BY DEF SInv, CreateName, Serving, Playing, world, database, book
<1>1. Own(c) /\ made \in Nat /\ spent \in Nat /\ op[c] \in Ops /\ made' >= made /\ spent' >= spent
  BY <1>0, Listing DEF TypeOK
<1>2. CASE Return(c)
  <2>1. TypeOK'
    BY <1>0, <1>2, ReturnTypes DEF TypeOK
  <2>2. TablesAgree' /\ UNCHANGED <<logins, who, held, last, spent>>
    BY <1>0 DEF SInv, TablesAgree
  <2> QED
    BY <1>0, <1>1, <1>2, <2>1, <2>2, ReturnKeeps
<1>3. CASE Goto(c, "create.insert") /\ UNCHANGED op
  <2>1. "create.insert" \in Serving \ Playing /\ "create.insert" \in (Serving \ Playing) \cup {"unlocking"}
    BY DEF Serving, Playing
  <2>2. TypeOK'
    BY <1>0, <1>3, <2>1, ReturnTypes DEF TypeOK
  <2>3. op' = [op EXCEPT ![c] = op[c]] /\ at' = [at EXCEPT ![c] = "create.insert"]
    BY <1>0, <1>3 DEF TypeOK, Goto
  <2>4. /\ op[c].name \in Names
        /\ op[c].pid # NoPid => op[c].pid <= made
                                /\ (rows[op[c].pid] # NoRow => rows[op[c].pid].account = who[c])
    BY <1>0, <1>1 DEF Own, Naming
  <2>5. "create.insert" \notin Handling /\ "create.insert" \notin {"rename.name", "rename.write"}
    BY DEF Handling
  <2>6. UNCHANGED <<logins, who, held, rows, index, made, last>>
    BY <1>0
  <2> QED
    BY <1>0, <1>1, <2>1, <2>2, <2>3, <2>4, <2>5, <2>6, CalmKeeps
<1> QED
  BY <1>2, <1>3 DEF CreateName

\* The name of a character that is renamed (RenameName).
LEMMA RenameNameStep ==
  ASSUME SInv, NEW c \in Conns, RenameName(c)
  PROVE  SInv'
<1>0. /\ TypeOK /\ at[c] = "rename.name" /\ at[c] \in Serving \ Playing
      /\ UNCHANGED <<logins, who, emp, held, intents, entity, rows, index, empire, queue, made,
                     last, excuses, spent, faults>>
  BY DEF SInv, RenameName, Serving, Playing, world, database, book
<1>1. Own(c) /\ made \in Nat /\ spent \in Nat /\ op[c] \in Ops /\ made' >= made /\ spent' >= spent
  BY <1>0, Listing DEF TypeOK
<1>2. CASE Return(c)
  <2>1. TypeOK'
    BY <1>0, <1>2, ReturnTypes DEF TypeOK
  <2>2. TablesAgree' /\ UNCHANGED <<logins, who, held, last, spent>>
    BY <1>0 DEF SInv, TablesAgree
  <2> QED
    BY <1>0, <1>1, <1>2, <2>1, <2>2, ReturnKeeps
<1>3. CASE Goto(c, "rename.write") /\ UNCHANGED op
  <2>1. "rename.write" \in Serving \ Playing /\ "rename.write" \in (Serving \ Playing) \cup {"unlocking"}
    BY DEF Serving, Playing
  <2>2. TypeOK'
    BY <1>0, <1>3, <2>1, ReturnTypes DEF TypeOK
  <2>3. op' = [op EXCEPT ![c] = op[c]] /\ at' = [at EXCEPT ![c] = "rename.write"]
    BY <1>0, <1>3 DEF TypeOK, Goto
  <2>4. /\ op[c].name \in Names /\ op[c].pid # NoPid /\ rows[op[c].pid] # NoRow
        /\ op[c].pid <= made /\ (rows[op[c].pid] # NoRow => rows[op[c].pid].account = who[c])
    BY <1>0, <1>1 DEF Own, Naming, Handling, Exists
  <2>5. UNCHANGED <<logins, who, held, rows, index, made, last>>
    BY <1>0
  <2> QED
    BY <1>0, <1>1, <2>1, <2>2, <2>3, <2>4, <2>5, CalmKeeps
<1> QED
  BY <1>2, <1>3 DEF RenameName

-----------------------------------------------------------------------------
(* The statements of the list                                              *)

\* The row of a new character (CreateInsert).
LEMMA CreateInsertStep ==
  ASSUME SInv, NEW c \in Conns, NEW r \in Results, CreateInsert(c, r)
  PROVE  SInv'
<1>0. /\ TypeOK /\ at[c] = "create.insert" /\ at[c] \in Serving \ Playing
      /\ UNCHANGED <<logins, who, emp, held, intents, entity, index, empire, queue, last, spent>>
      /\ faults' \in 0 .. MaxFaults /\ excuses' \subseteq Excuses
  <2>1. TypeOK /\ at[c] = "create.insert" /\ at[c] \in Serving \ Playing
    BY DEF SInv, CreateInsert, Serving, Playing
  <2>2. /\ UNCHANGED <<logins, who, emp, held, intents, entity, index, empire, queue, last, spent>>
        /\ faults' \in 0 .. MaxFaults
    BY <2>1, Budget DEF CreateInsert, world
  <2>3. {e \in {"orphan"} : r = "unknown"} \in SUBSET Excuses
    BY DEF Excuses
  <2> QED
    BY <2>1, <2>2, <2>3, ExcuseType DEF CreateInsert
<1>1. /\ Own(c) /\ who[c] \in Accounts /\ made \in Nat /\ op[c] \in Ops /\ op[c].name \in Names
      /\ made + 1 \in Pids /\ made + 1 # NoPid
  <2>1. Own(c) /\ who[c] \in Accounts /\ made \in Nat /\ op[c] \in Ops
    BY <1>0, Listing DEF TypeOK
  <2>2. op[c].name \in Names
    BY <1>0, <2>1 DEF Own, Naming
  <2> QED
    BY <2>1, <2>2, Limits DEF CreateInsert, Pids
<1> DEFINE row == [account |-> who[c], name |-> op[c].name, ver |-> 0]
<1>2. row \in Rows /\ row.account = who[c]
  BY <1>1, Limits DEF Rows, Versions
<1>3. \/ made' = made /\ rows' = rows /\ r # "ok"
      \/ made' = made + 1 /\ rows' = [rows EXCEPT ![made + 1] = row]
  BY DEF CreateInsert, Happens, Results
<1> HIDE DEF row
<1>4. /\ made' \in 0 .. MaxPid /\ made' >= made /\ rows' \in [Pids -> Rows]
      /\ \A pid \in Pids : pid # made + 1 => rows'[pid] = rows[pid]
      /\ rows'[made + 1] = rows[made + 1] \/ (made' = made + 1 /\ rows'[made + 1] = row)
  <2>1. rows \in [Pids -> Rows] /\ made \in 0 .. MaxPid /\ MaxPid \in Nat /\ made + 1 \in 1 .. MaxPid
    BY <1>0, <1>1, Limits DEF TypeOK, Pids
  <2>2. CASE made' = made /\ rows' = rows
    BY <2>1, <2>2
  <2>3. CASE made' = made + 1 /\ rows' = [rows EXCEPT ![made + 1] = row]
    <3>1. made' \in 0 .. MaxPid /\ made' >= made
      BY <2>1, <2>3
    <3>2. \A p \in Pids : rows'[p] = IF p = made + 1 THEN row ELSE rows[p]
      BY <1>2, <2>1, <2>3
    <3>3. rows' \in [Pids -> Rows]
      BY <1>2, <2>1, <2>3
    <3> QED
      BY <1>1, <2>3, <3>1, <3>2, <3>3
  <2> QED
    BY <1>3, <2>2, <2>3
<1>5. ASSUME NEW pid \in Pids, pid <= made
      PROVE  rows'[pid] = rows[pid]
  <2>1. pid # made + 1
    BY <1>1, <1>5, Limits
  <2> QED
    BY <1>4, <2>1
<1>6. CASE Return(c)
  <2>1. TypeOK'
    BY <1>0, <1>4, <1>6, ReturnTypes DEF TypeOK
  <2>2. TablesAgree'
    BY <1>0, <1>1, <1>2, <1>4, <2>1, TablesKeep, Limits
  <2> QED
    BY <1>0, <1>4, <1>5, <1>6, <2>1, <2>2, ReturnKeeps
<1>7. CASE r = "ok" /\ Goto(c, "create.place") /\ op' = [op EXCEPT ![c].pid = made + 1]
  <2> DEFINE o == [op[c] EXCEPT !.pid = made + 1]
  <2>1. o \in Ops /\ o.pid = made + 1 /\ op' = [op EXCEPT ![c] = o]
    BY <1>0, <1>1, <1>7 DEF Ops, TypeOK
  <2> HIDE DEF o
  <2>2. "create.place" \in Serving \ Playing /\ "create.place" \notin Naming
    BY DEF Serving, Playing, Naming
  <2>3. TypeOK'
    BY <1>0, <1>4, <1>7, <2>1, <2>2, ReturnTypes DEF TypeOK
  <2>4. TablesAgree'
    BY <1>0, <1>1, <1>2, <1>4, <2>3, TablesKeep, Limits
  <2>5. made' = made + 1 /\ rows'[made + 1] = row
    BY <1>0, <1>1, <1>3, <1>7 DEF TypeOK
  <2>6. /\ o.pid # NoPid /\ o.pid <= made' /\ rows'[o.pid].account = who[c]
    BY <1>1, <1>2, <2>1, <2>5
  <2>7. at' = [at EXCEPT ![c] = "create.place"]
    BY <1>7 DEF Goto
  <2>8. "create.place" \notin {"rename.name", "rename.write"}
    OBVIOUS
  <2> QED
    BY <1>0, <1>4, <1>5, <2>1, <2>2, <2>3, <2>4, <2>6, <2>7, <2>8, StatementKeeps
<1> QED
  BY <1>6, <1>7 DEF CreateInsert

\* What a handler that goes on or returns without touching rows and slots must show.
LEMMA PhaseKeeps ==
  ASSUME SInv, NEW c \in Conns, at[c] \in Handling \cup {"empire.index", "empire.move"},
         at[c] \notin {"rename.name", "rename.write"},
         UNCHANGED <<logins, who, held, rows, index, made, last, spent>>, TypeOK',
         \/ Return(c)
         \/ \E phase \in {"create.slot", "create.undo", "delete.row", "empire.move"} :
              Goto(c, phase) /\ UNCHANGED op /\ (phase \in Handling => at[c] \in Handling)
  PROVE  SInv'
<1>0. at[c] \in Serving \ Playing /\ TypeOK
  BY DEF SInv, Handling, Serving, Playing
<1>1. Own(c) /\ made \in Nat /\ spent \in Nat /\ op[c] \in Ops /\ made' >= made /\ spent' >= spent
  BY <1>0, Listing DEF TypeOK
<1>2. CASE Return(c)
  <2>1. TablesAgree'
    BY DEF SInv, TablesAgree
  <2>2. UNCHANGED <<logins, who, held, last, spent>>
    OBVIOUS
  <2> QED
    BY <1>0, <1>1, <1>2, <2>1, <2>2, ReturnKeeps
<1>3. ASSUME NEW phase \in {"create.slot", "create.undo", "delete.row", "empire.move"},
             Goto(c, phase), UNCHANGED op, phase \in Handling => at[c] \in Handling
      PROVE  SInv'
  <2>1. /\ phase \in (Serving \ Playing) \cup {"unlocking"} /\ phase \notin Naming
        /\ phase \notin {"rename.name", "rename.write"}
    BY DEF Serving, Playing, Naming
  <2>2. op' = [op EXCEPT ![c] = op[c]] /\ at' = [at EXCEPT ![c] = phase]
    BY <1>0, <1>3 DEF TypeOK, Goto
  <2>3. /\ phase \in Handling => op[c].pid # NoPid
        /\ op[c].pid # NoPid => op[c].pid <= made
                                /\ (rows[op[c].pid] # NoRow => rows[op[c].pid].account = who[c])
    BY <1>0, <1>1, <1>3 DEF Own
  <2>4. UNCHANGED <<logins, who, held, rows, index, made, last>>
    OBVIOUS
  <2> QED
    BY <1>0, <1>1, <2>1, <2>2, <2>3, <2>4, CalmKeeps
<1> QED
  BY <1>2, <1>3

\* The map of a new character, and the two statements of an empire (CreatePlace, EmpireIndex,
\* EmpireMove).
LEMMA PlaceStep ==
  ASSUME SInv, NEW c \in Conns, NEW r \in Results, CreatePlace(c, r) \/ EmpireIndex(c, r) \/ EmpireMove(c, r)
  PROVE  SInv'
<1>0. TypeOK /\ op[c] \in Ops /\ op[c].empire \in Empires \cup {0}
  BY Fields DEF SInv, TypeOK
<1>1. /\ UNCHANGED <<logins, who, held, intents, entity, rows, index, queue, made, last, spent>>
      /\ faults' \in 0 .. MaxFaults
      /\ at[c] \in {"create.place", "empire.index", "empire.move"}
  BY <1>0, Budget DEF CreatePlace, EmpireIndex, EmpireMove, world, database
<1>2. excuses' \subseteq Excuses
  <2>1. \E cases \in SUBSET Excuses : Excuse(cases)
    BY DEF CreatePlace, EmpireIndex, EmpireMove, Excuses
  <2> QED
    BY <1>0, <2>1, ExcuseType
<1>3. empire' \in [Accounts -> Empires \cup {0}] /\ emp' \in [Conns -> Empires \cup {0}]
  BY <1>0 DEF CreatePlace, EmpireIndex, EmpireMove, TypeOK, database
<1>4. \/ Return(c)
      \/ \E phase \in {"create.slot", "create.undo", "delete.row", "empire.move"} :
           Goto(c, phase) /\ UNCHANGED op /\ (phase \in Handling => at[c] \in Handling)
  BY DEF CreatePlace, EmpireIndex, EmpireMove, Handling
<1>5. at' \in [Conns -> Phases] /\ op' \in [Conns -> Ops]
  <2>1. {"create.slot", "create.undo", "delete.row", "empire.move"} \subseteq Serving
    BY DEF Serving
  <2> QED
    BY <1>0, <1>4, <2>1, ReturnTypes DEF TypeOK
<1>6. TypeOK'
  BY <1>0, <1>1, <1>2, <1>3, <1>5 DEF TypeOK
<1>7. at[c] \in Handling \cup {"empire.index", "empire.move"} /\ at[c] \notin {"rename.name", "rename.write"}
  BY <1>1 DEF Handling
<1>8. UNCHANGED <<logins, who, held, rows, index, made, last, spent>>
  BY <1>1
<1> QED
  BY <1>4, <1>6, <1>7, <1>8, PhaseKeeps

\* A slot of an account is set to one of its characters, or to none.
LEMMA SlotKeeps ==
  ASSUME SInv, NEW a \in Accounts, NEW s, NEW p \in Pids \cup {NoPid},
         p # NoPid => p <= made /\ (rows[p] # NoRow => rows[p].account = a),
         UNCHANGED <<rows, made>>, index' = [index EXCEPT ![a][s] = p]
  PROVE  TablesAgree' /\ index' \in [Accounts -> [Slots -> Pids \cup {NoPid}]]
<1>0. index \in [Accounts -> [Slots -> Pids \cup {NoPid}]] /\ TablesAgree
  BY DEF SInv, TypeOK
<1>1. index' \in [Accounts -> [Slots -> Pids \cup {NoPid}]]
  BY <1>0
<1>2. \A b \in Accounts, t \in Slots :
        index'[b][t] = index[b][t] \/ (b = a /\ index'[b][t] = p)
  BY <1>0
<1>3. ASSUME NEW b \in Accounts, NEW t \in Slots, index'[b][t] # NoPid
      PROVE  index'[b][t] <= made /\ (rows[index'[b][t]] # NoRow => rows[index'[b][t]].account = b)
  BY <1>0, <1>2, <1>3 DEF TablesAgree
<1>4. \A pid \in Pids : pid > made => rows[pid] = NoRow
  BY <1>0 DEF TablesAgree
<1> QED
  BY <1>1, <1>3, <1>4 DEF TablesAgree

\* The slots of an account (CreateSlot, DeleteGate).
LEMMA SlotStep ==
  ASSUME SInv, NEW c \in Conns, NEW r \in Results, CreateSlot(c, r) \/ DeleteGate(c, r)
  PROVE  SInv'
<1>0. /\ TypeOK /\ at[c] \in {"create.slot", "delete.gate"} /\ at[c] \in Serving \ Playing
      /\ UNCHANGED <<logins, who, emp, held, intents, entity, rows, empire, queue, made, last, spent>>
      /\ faults' \in 0 .. MaxFaults /\ excuses' \subseteq Excuses
  <2>1. TypeOK /\ at[c] \in {"create.slot", "delete.gate"} /\ at[c] \in Serving \ Playing
    BY DEF SInv, CreateSlot, DeleteGate, Serving, Playing
  <2>2. /\ UNCHANGED <<logins, who, emp, held, intents, entity, rows, empire, queue, made, last, spent>>
        /\ faults' \in 0 .. MaxFaults
    BY <2>1, Budget DEF CreateSlot, DeleteGate, world
  <2>3. excuses' = excuses \/ \E cases \in SUBSET Excuses : Excuse(cases)
    BY DEF CreateSlot, DeleteGate, Excuses
  <2> QED
    BY <2>1, <2>2, <2>3, ExcuseType DEF TypeOK
<1>1. /\ Own(c) /\ who[c] \in Accounts /\ made \in Nat /\ op[c] \in Ops
      /\ op[c].pid \in Pids /\ op[c].pid # NoPid
      /\ op[c].pid <= made /\ (rows[op[c].pid] # NoRow => rows[op[c].pid].account = who[c])
  <2>1. Own(c) /\ who[c] \in Accounts /\ made \in Nat /\ op[c] \in Ops
    BY <1>0, Listing DEF TypeOK
  <2>2. op[c].pid # NoPid /\ op[c].pid \in Pids \cup {NoPid}
    BY <1>0, <2>1, Fields DEF Own, Handling
  <2> QED
    BY <2>1, <2>2 DEF Own
<1>2. \/ index' = index
      \/ \E p \in {NoPid, op[c].pid} : index' = [index EXCEPT ![who[c]][op[c].slot] = p]
  BY DEF CreateSlot, DeleteGate
<1>3. TablesAgree' /\ index' \in [Accounts -> [Slots -> Pids \cup {NoPid}]]
  <2>1. CASE index' = index
    BY <1>0, <2>1 DEF SInv, TypeOK, TablesAgree
  <2>2. ASSUME NEW p \in {NoPid, op[c].pid}, index' = [index EXCEPT ![who[c]][op[c].slot] = p]
        PROVE  TablesAgree' /\ index' \in [Accounts -> [Slots -> Pids \cup {NoPid}]]
    <3>1. /\ p \in Pids \cup {NoPid}
          /\ p # NoPid => p <= made /\ (rows[p] # NoRow => rows[p].account = who[c])
      BY <1>1
    <3>2. PICK a \in Accounts, s \in Slots \cup {0} : a = who[c] /\ s = op[c].slot
      BY <1>0, <1>1, Fields
    <3>3. /\ index' = [index EXCEPT ![a][s] = p]
          /\ p # NoPid => p <= made /\ (rows[p] # NoRow => rows[p].account = a)
      BY <2>2, <3>1, <3>2
    <3> QED
      BY <1>0, <3>1, <3>3, SlotKeeps
  <2> QED
    BY <1>2, <2>1, <2>2
<1>4. \A pid \in Pids : rows'[pid] = rows[pid]
  BY <1>0
<1>5. made' >= made
  BY <1>0, <1>1
<1>6. CASE Return(c)
  <2>1. TypeOK'
    BY <1>0, <1>3, <1>6, ReturnTypes DEF TypeOK
  <2> QED
    BY <1>0, <1>3, <1>4, <1>5, <1>6, <2>1, ReturnKeeps
<1>7. ASSUME NEW phase \in {"create.undo", "delete.row"}, Goto(c, phase), UNCHANGED op
      PROVE  SInv'
  <2>1. phase \in Serving \ Playing /\ phase \notin Naming /\ phase \notin {"rename.name", "rename.write"}
    BY DEF Serving, Playing, Naming
  <2>2. TypeOK'
    BY <1>0, <1>3, <1>7, <2>1, ReturnTypes DEF TypeOK
  <2>3. op' = [op EXCEPT ![c] = op[c]] /\ at' = [at EXCEPT ![c] = phase]
    BY <1>0, <1>7 DEF TypeOK, Goto
  <2>4. op[c].pid <= made' /\ (rows'[op[c].pid] # NoRow => rows'[op[c].pid].account = who[c])
    BY <1>0, <1>1
  <2> QED
    BY <1>0, <1>1, <1>3, <1>4, <1>5, <2>1, <2>2, <2>3, <2>4, StatementKeeps
<1> QED
  BY <1>6, <1>7 DEF CreateSlot, DeleteGate

\* The row of a character goes (CreateUndo, DeleteRow), or gets another name (RenameWrite).
LEMMA RowStep ==
  ASSUME SInv, NEW c \in Conns, NEW r \in Results, CreateUndo(c, r) \/ DeleteRow(c, r) \/ RenameWrite(c, r)
  PROVE  SInv'
<1>0. /\ TypeOK /\ at[c] \in {"create.undo", "delete.row", "rename.write"}
      /\ at[c] \in Serving \ Playing /\ Return(c)
      /\ UNCHANGED <<logins, who, emp, held, intents, entity, index, empire, queue, made, last, spent>>
      /\ faults' \in 0 .. MaxFaults /\ excuses' \subseteq Excuses
  <2>1. TypeOK /\ at[c] \in {"create.undo", "delete.row", "rename.write"} /\ at[c] \in Serving \ Playing
    BY DEF SInv, CreateUndo, DeleteRow, RenameWrite, Serving, Playing
  <2>2. /\ UNCHANGED <<logins, who, emp, held, intents, entity, index, empire, queue, made, last, spent>>
        /\ faults' \in 0 .. MaxFaults /\ Return(c)
    BY <2>1, Budget DEF CreateUndo, DeleteRow, RenameWrite, world
  <2>3. excuses' = excuses \/ \E cases \in SUBSET Excuses : Excuse(cases)
    BY DEF CreateUndo, DeleteRow, RenameWrite, Excuses
  <2> QED
    BY <2>1, <2>2, <2>3, ExcuseType DEF TypeOK
<1>1. /\ Own(c) /\ who[c] \in Accounts /\ made \in Nat
      /\ op[c].pid \in Pids /\ op[c].pid <= made
      /\ rows[op[c].pid] # NoRow => rows[op[c].pid].account = who[c]
  <2>1. Own(c) /\ who[c] \in Accounts /\ made \in Nat
    BY <1>0, Listing
  <2>2. op[c].pid # NoPid /\ op[c].pid \in Pids \cup {NoPid}
    BY <1>0, <2>1, Fields DEF Own, Handling
  <2> QED
    BY <2>1, <2>2 DEF Own
<1>2. PICK pid \in Pids : pid = op[c].pid
  BY <1>1
<1>3. ASSUME rows' # rows
      PROVE  \E row \in Rows : /\ rows' = [rows EXCEPT ![pid] = row]
                               /\ row = NoRow \/ (rows[pid] # NoRow /\ row.account = who[c])
  <2>1. CASE CreateUndo(c, r) \/ DeleteRow(c, r)
    BY <1>2, <1>3, <2>1, Constructors DEF CreateUndo, DeleteRow
  <2>2. CASE RenameWrite(c, r)
    <3>1. op[c].name \in Names /\ rows[pid] # NoRow
      BY <1>1, <1>2, <2>2 DEF RenameWrite, Own, Naming, Exists
    <3>2. rows[pid] \in [account : Accounts, name : Names, ver : Versions] /\ rows[pid].account = who[c]
      BY <1>0, <1>1, <1>2, <3>1, Constructors DEF TypeOK
    <3> DEFINE row == [rows[pid] EXCEPT !.name = op[c].name]
    <3>3. row \in [account : Accounts, name : Names, ver : Versions] /\ row.account = who[c]
      BY <3>1, <3>2
    <3>4. rows' = [rows EXCEPT ![pid] = row]
      BY <1>2, <1>3, <2>2 DEF RenameWrite
    <3> HIDE DEF row
    <3> QED
      BY <3>1, <3>3, <3>4 DEF Rows
  <2> QED
    BY <2>1, <2>2
<1>4. /\ rows' \in [Pids -> Rows]
      /\ \A q \in Pids :
           \/ rows'[q] = rows[q]
           \/ rows[q] # NoRow /\ rows[q].account = who[c] /\ q <= made
              /\ (rows'[q] = NoRow \/ rows'[q].account = who[c])
  <2>1. CASE rows' = rows
    BY <1>0, <2>1 DEF TypeOK
  <2>2. ASSUME NEW row \in Rows, rows' = [rows EXCEPT ![pid] = row],
               row = NoRow \/ (rows[pid] # NoRow /\ row.account = who[c])
        PROVE  <1>4!1 /\ <1>4!2
    <3>1. rows \in [Pids -> Rows]
      BY <1>0 DEF TypeOK
    <3>2. \A q \in Pids : rows'[q] = IF q = pid THEN row ELSE rows[q]
      BY <2>2, <3>1
    <3>3. pid <= made /\ (rows[pid] # NoRow => rows[pid].account = who[c])
      BY <1>1, <1>2
    <3> QED
      BY <2>2, <3>1, <3>2, <3>3
  <2> QED
    BY <1>3, <2>1, <2>2
<1>5. TypeOK'
  BY <1>0, <1>4, ReturnTypes DEF TypeOK
<1>6. made' >= made /\ made' = made
  BY <1>0, <1>1
<1>7. TablesAgree'
  BY <1>0, <1>1, <1>4, <1>5, <1>6, TablesKeep
<1> QED
  BY <1>0, <1>4, <1>5, <1>6, <1>7, ReturnKeeps

-----------------------------------------------------------------------------
(* The game                                                                *)

\* The load of a character (Select).
LEMMA SelectStep ==
  ASSUME SInv, NEW c \in Conns, NEW s \in Slots, NEW corrected \in BOOLEAN, Select(c, s, corrected)
  PROVE  SInv'
<1>0. /\ TypeOK /\ at[c] = "select" /\ at[c] \in Serving \ Playing
      /\ UNCHANGED <<logins, who, op, emp, intents, entity, rows, index, empire, made, last, spent,
                     faults>>
  BY DEF SInv, Select, Serving, Playing, world
<1>1. Own(c) /\ who[c] \in Accounts /\ made \in Nat /\ spent \in Nat /\ Phased(c)
  BY <1>0, Listing
<1>2. PICK pid \in Pids : pid = index[who[c]][s] /\ pid # NoPid /\ rows[pid] # NoRow
  BY <1>0, <1>1 DEF Select, Exists, TypeOK
<1>3. /\ pid <= made /\ rows[pid].account = who[c]
      /\ rows[pid].ver \in Versions
  <2>1. pid <= made /\ rows[pid].account = who[c]
    BY <1>1, <1>2 DEF SInv, TablesAgree
  <2>2. rows[pid] \in [account : Accounts, name : Names, ver : Versions]
    BY <1>0, <1>2, Constructors DEF TypeOK
  <2> QED
    BY <2>1, <2>2
<1>4. PICK row \in Holds : row = [pid |-> pid, ver |-> rows[pid].ver] /\ row.pid = pid /\ row \in Saves
  <2> DEFINE loaded == [pid |-> pid, ver |-> rows[pid].ver]
  <2>1. loaded \in Holds /\ loaded.pid = pid /\ loaded \in Saves
    BY <1>3 DEF Holds, Saves
  <2> QED
    BY <2>1
<1>5. /\ at' = [at EXCEPT ![c] = "loaded"] /\ held' = [held EXCEPT ![c] = row]
      /\ queue' = (IF corrected THEN Append(queue, row) ELSE queue)
  BY <1>2, <1>4 DEF Select, Goto
<1>6. queue' \in Seq(Saves)
  BY <1>0, <1>4, <1>5, ElementsOf DEF TypeOK
<1>7. excuses' \subseteq Excuses
  <2>1. \E cases \in SUBSET Excuses : Excuse(cases)
    BY DEF Select, Excuses
  <2> QED
    BY <1>0, <2>1, ExcuseType
<1>8. TypeOK'
  BY <1>0, <1>5, <1>6, <1>7 DEF TypeOK, Phases, Serving
<1>9. /\ at'[c] = "loaded" /\ held'[c] = row /\ "loaded" \in Serving \cup Ending
      /\ \A d \in Conns \ {c} : op'[d] = op[d] /\ held'[d] = held[d]
  BY <1>0, <1>5 DEF TypeOK, Serving
<1>10. Own(c)'
  <2>1. "loaded" \notin Handling /\ "loaded" \notin Naming /\ "loaded" \in Playing
    BY DEF Handling, Naming, Playing
  <2>2. Phased(c)'
    BY <1>9 DEF Phased
  <2>3. op'[c] = op[c] /\ who'[c] = who[c]
    BY <1>0
  <2>4. op'[c].pid # NoPid =>
          op'[c].pid <= made' /\ (rows'[op'[c].pid] # NoRow => rows'[op'[c].pid].account = who'[c])
    BY <1>0, <1>1 DEF Own
  <2>5. held'[c].pid # NoPid /\ held'[c].pid <= made' /\ rows'[held'[c].pid] # NoRow
        /\ rows'[held'[c].pid].account = who'[c]
    BY <1>0, <1>2, <1>3, <1>4, <1>9
  <2> QED
    BY <1>9, <2>1, <2>2, <2>4, <2>5 DEF Own
<1>11. TablesAgree' /\ \A pid1 \in Pids : last'[pid1] <= spent'
  BY <1>0 DEF SInv, TablesAgree
<1>12. made' >= made /\ made' \in Nat /\ UNCHANGED <<logins, who>> /\ \A q \in Pids : rows'[q] = rows[q]
  BY <1>0, <1>1
<1> QED
  BY <1>1, <1>5, <1>8, <1>9, <1>10, <1>11, <1>12, ConnectionKeeps

\* A session in the game: what its steps must show.
LEMMA PlayerKeeps ==
  ASSUME SInv, TypeOK', NEW c \in Conns, at[c] \in Playing,
         NEW phase \in Playing \cup {"unlocking"}, at' = [at EXCEPT ![c] = phase],
         UNCHANGED <<logins, who, op, rows, index, made>>,
         NEW h \in Holds, h.pid = held[c].pid, held' = [held EXCEPT ![c] = h],
         \A pid \in Pids : last'[pid] <= spent'
  PROVE  SInv'
<1>0. /\ TypeOK /\ Own(c) /\ made \in Nat /\ Phased(c) /\ phase \in Serving \cup Ending
  BY DEF SInv, TypeOK, Pids, Phased, Playing, Serving, Ending
<1>1. /\ at'[c] = phase /\ held'[c] = h
      /\ \A d \in Conns \ {c} : op'[d] = op[d] /\ held'[d] = held[d]
  BY <1>0 DEF TypeOK
<1>2. Own(c)'
  <2>1. phase \notin Handling /\ phase \notin Naming
    BY DEF Handling, Naming, Playing
  <2>2. Phased(c)'
    BY <1>0, <1>1 DEF Phased
  <2>3. held[c].pid # NoPid /\ held[c].pid <= made /\ rows[held[c].pid] # NoRow
        /\ rows[held[c].pid].account = who[c]
    BY <1>0 DEF Own
  <2> QED
    BY <1>0, <1>1, <2>1, <2>2, <2>3 DEF Own, Handling
<1>3. TablesAgree'
  BY DEF SInv, TablesAgree
<1>4. made' >= made /\ made' \in Nat /\ \A q \in Pids : rows'[q] = rows[q]
  BY <1>0
<1> QED
  BY <1>0, <1>1, <1>2, <1>3, <1>4, ConnectionKeeps

\* Into the world and out of it (EnterGame, Close, Leave).
LEMMA WorldwardStep ==
  ASSUME SInv, NEW c \in Conns, EnterGame(c) \/ (\E safe \in BOOLEAN : Close(c, safe)) \/ Leave(c)
  PROVE  SInv'
<1>0. /\ TypeOK /\ at[c] \in Playing
      /\ UNCHANGED <<logins, who, op, emp, held, entity, rows, index, empire, made, last, spent>>
  BY DEF SInv, EnterGame, Close, Leave, Playing, world, database, book
<1>1. PICK phase \in Playing \cup {"unlocking"} : at' = [at EXCEPT ![c] = phase]
  BY DEF EnterGame, Close, Leave, Goto, Playing
<1>2. held[c].pid \in Pids /\ held[c].ver \in Versions /\ held[c] \in Holds /\ Own(c)
  BY <1>0, Fields DEF SInv, Own, TypeOK
<1>3. held[c] \in Saves
  BY <1>2 DEF Holds, Saves
<1>4. intents' \in Seq(Intents)
  <2>1. \A k \in {"join", "leave"} : [kind |-> k, pid |-> held[c].pid, conn |-> c] \in Intents
    BY <1>2 DEF Intents
  <2>2. intents \in Seq(Intents) /\ \A i \in Intents : Append(intents, i) \in Seq(Intents)
    BY <1>0, ElementsOf DEF TypeOK
  <2>3. intents' = intents \/ \E k \in {"join", "leave"} :
          intents' = Append(intents, [kind |-> k, pid |-> held[c].pid, conn |-> c])
    BY DEF EnterGame, Close, Leave, world
  <2> QED
    BY <2>1, <2>2, <2>3
<1>5. queue' \in Seq(Saves)
  <2>1. queue \in Seq(Saves) /\ Append(queue, held[c]) \in Seq(Saves)
    BY <1>0, <1>3, ElementsOf DEF TypeOK
  <2>2. queue' = queue \/ queue' = Append(queue, held[c])
    BY DEF EnterGame, Close, Leave, database
  <2> QED
    BY <2>1, <2>2
<1>6. faults' \in 0 .. MaxFaults /\ excuses' \subseteq Excuses
  <2>1. excuses' = excuses \/ \E cases \in SUBSET Excuses : Excuse(cases)
    BY DEF EnterGame, Close, Leave, Excuses, book
  <2>2. faults' \in 0 .. MaxFaults
    BY <1>0, Budget DEF EnterGame, Close, Leave, book, TypeOK
  <2> QED
    BY <1>0, <2>1, <2>2, ExcuseType DEF TypeOK
<1>7. TypeOK'
  BY <1>0, <1>1, <1>4, <1>5, <1>6 DEF TypeOK, Phases, Playing, Serving, Ending
<1>8. held' = [held EXCEPT ![c] = held[c]]
  BY <1>0 DEF TypeOK
<1>9. /\ UNCHANGED <<logins, who, op, rows, index, made>>
      /\ \A pid \in Pids : last'[pid] <= spent'
  BY <1>0 DEF SInv
<1> QED
  BY <1>0, <1>1, <1>2, <1>7, <1>8, <1>9, PlayerKeeps

\* What a player does (Play).
LEMMA PlayStep ==
  ASSUME SInv, NEW c \in Conns, NEW saves \in BOOLEAN, Play(c, saves)
  PROVE  SInv'
<1>0. /\ TypeOK /\ at[c] = "game" /\ at[c] \in Playing
      /\ UNCHANGED <<logins, at, who, op, emp, intents, entity, rows, index, empire, made, excuses,
                     faults>>
      /\ spent' \in 0 .. MaxEvents /\ spent' = spent + 1
  BY Budget DEF SInv, Play, Playing, world
<1>1. PICK pid \in Pids : pid = held[c].pid
  BY <1>0, Fields DEF SInv, Own
<1>2. /\ \A q \in Pids : last[q] <= spent /\ last[q] \in Nat
      /\ spent \in Nat /\ MaxEvents \in Nat
  BY <1>0, Limits DEF SInv, TypeOK, Versions
<1>3. last[pid] + 1 \in Versions /\ last[pid] + 1 <= spent'
  BY <1>0, <1>2 DEF Versions
<1>4. PICK row \in Holds : /\ row = [pid |-> pid, ver |-> last[pid] + 1]
                           /\ row.pid = pid /\ row \in Saves
  <2> DEFINE played == [pid |-> pid, ver |-> last[pid] + 1]
  <2>1. played \in Holds /\ played.pid = pid /\ played \in Saves
    BY <1>3 DEF Holds, Saves
  <2> QED
    BY <2>1
<1>5. /\ held' = [held EXCEPT ![c] = row]
      /\ last' = [last EXCEPT ![pid] = last[pid] + 1]
      /\ queue' = (IF saves THEN Append(queue, row) ELSE queue)
  BY <1>1, <1>4 DEF Play
<1>6. queue' \in Seq(Saves)
  BY <1>0, <1>4, <1>5, ElementsOf DEF TypeOK
<1>7. TypeOK'
  BY <1>0, <1>3, <1>5, <1>6 DEF TypeOK
<1>8. \A q \in Pids : last'[q] <= spent'
  BY <1>0, <1>2, <1>3, <1>5 DEF TypeOK
<1>9. at' = [at EXCEPT ![c] = "game"] /\ "game" \in Playing
  BY <1>0 DEF TypeOK, Playing
<1>10. UNCHANGED <<logins, who, op, rows, index, made>> /\ row.pid = held[c].pid
  BY <1>0, <1>1, <1>4
<1> QED
  BY <1>0, <1>5, <1>7, <1>8, <1>9, <1>10, PlayerKeeps

-----------------------------------------------------------------------------
(* Logins, the world and the batcher, a crash                              *)

\* The phases, of the connections that are not served.
LEMMA Unserved ==
  /\ "new" \notin Serving \cup Ending /\ "closed" \notin Serving \cup Ending
  /\ \A phase \in {"new", "closed"} :
       phase \notin Playing \cup {"unlocking"} /\ phase \notin Handling /\ phase \notin Naming
  /\ {"new", "closed", "login", "unlocking"} \subseteq Phases
  /\ "login" \in Serving \ Playing /\ "unlocking" \in Ending
  /\ "login" \notin Handling /\ "login" \notin Naming
BY DEF Serving, Ending, Playing, Handling, Naming, Phases, Before

\* The start and the end of a login (Refuse, Acquire, Unlock).
LEMMA LoginStep ==
  ASSUME SInv, NEW c \in Conns, Refuse(c) \/ (\E a \in Accounts : Acquire(c, a)) \/ Unlock(c)
  PROVE  SInv'
<1>0. /\ TypeOK /\ Own(c) /\ LoginsAreOwn /\ TablesAgree
      /\ UNCHANGED <<intents, entity, rows, index, empire, queue, made, last, excuses, spent, faults>>
  BY DEF SInv, Refuse, Acquire, Unlock, world, database, book
<1>1. TablesAgree' /\ \A pid \in Pids : last'[pid] <= spent'
  BY <1>0 DEF SInv, TablesAgree
<1>2. ASSUME NEW d \in Conns, UNCHANGED <<at[d], who[d], op[d], held[d]>>
      PROVE  Own(d)'
  <2>1. Own(d)
    BY DEF SInv
  <2> QED
    BY <1>0, <1>2, <2>1 DEF Own, Exists, Phased
<1>3. CASE Refuse(c)
  <2>1. at[c] = "new" /\ at' = [at EXCEPT ![c] = "closed"] /\ UNCHANGED <<logins, who, op, emp, held>>
    BY <1>3 DEF Refuse, Accepted, Goto
  <2>2. TypeOK'
    BY <1>0, <2>1, Unserved DEF TypeOK
  <2>3. \A d \in Conns : at'[d] = IF d = c THEN "closed" ELSE at[d]
    BY <1>0, <2>1 DEF TypeOK
  <2>4. LoginsAreOwn'
    BY <1>0, <2>1, <2>3, Unserved DEF LoginsAreOwn, Phased
  <2>5. Own(c)'
    BY <1>0, <2>1, <2>3, Unserved DEF Own, Exists, Phased
  <2>6. \A d \in Conns : Own(d)'
    BY <1>2, <2>1, <2>3, <2>5
  <2> QED
    BY <1>1, <2>2, <2>4, <2>6 DEF SInv
<1>4. ASSUME NEW a \in Accounts, Acquire(c, a)
      PROVE  SInv'
  <2>1. /\ at[c] = "new" /\ at' = [at EXCEPT ![c] = "login"] /\ UNCHANGED <<op, emp, held>>
        /\ a \notin logins /\ logins' = logins \cup {a} /\ who' = [who EXCEPT ![c] = a]
    BY <1>4 DEF Acquire, Accepted, Goto
  <2>2. TypeOK'
    BY <1>0, <2>1, Unserved DEF TypeOK
  <2>3. \A d \in Conns : /\ at'[d] = IF d = c THEN "login" ELSE at[d]
                         /\ who'[d] = IF d = c THEN a ELSE who[d]
    BY <1>0, <2>1 DEF TypeOK
  <2>4. a # NoAccount /\ \A d \in Conns : who[d] # a
    BY <1>0, <2>1, Limits DEF LoginsAreOwn
  <2>5. LoginsAreOwn'
    BY <1>0, <2>1, <2>3, <2>4, Unserved DEF LoginsAreOwn, Phased
  <2>6. Own(c)'
    <3>1. op[c].pid = NoPid /\ held[c].pid = NoPid
      BY <1>0, <2>1, Unserved DEF Own, Phased
    <3> QED
      BY <2>1, <2>3, <3>1, Unserved DEF Own, Phased, Handling, Naming, Playing
  <2>7. \A d \in Conns : Own(d)'
    BY <1>2, <2>1, <2>3, <2>6
  <2> QED
    BY <1>1, <2>2, <2>5, <2>7 DEF SInv
<1>5. CASE Unlock(c)
  <2>1. /\ at[c] = "unlocking" /\ at' = [at EXCEPT ![c] = "closed"] /\ op' = [op EXCEPT ![c] = NoOp]
        /\ held' = [held EXCEPT ![c] = NoHold] /\ who' = [who EXCEPT ![c] = NoAccount]
        /\ emp' = [emp EXCEPT ![c] = 0] /\ logins' = logins \ {who[c]}
    BY <1>5 DEF Unlock, Goto
  <2>2. TypeOK'
    BY <1>0, <2>1, Unserved, Constructors DEF TypeOK
  <2>3. \A d \in Conns : /\ at'[d] = IF d = c THEN "closed" ELSE at[d]
                         /\ who'[d] = IF d = c THEN NoAccount ELSE who[d]
                         /\ op'[d] = IF d = c THEN NoOp ELSE op[d]
                         /\ held'[d] = IF d = c THEN NoHold ELSE held[d]
    BY <1>0, <2>1 DEF TypeOK
  <2>4. who[c] # NoAccount
    BY <1>0, <2>1, Unserved DEF LoginsAreOwn, Phased
  <2>5. LoginsAreOwn'
    BY <1>0, <2>1, <2>3, <2>4, Unserved DEF LoginsAreOwn, Phased
  <2>6. Own(c)'
    BY <2>3, Unserved, Constructors DEF Own, Phased
  <2>7. \A d \in Conns : Own(d)'
    BY <1>2, <2>3, <2>6
  <2> QED
    BY <1>1, <2>2, <2>5, <2>7 DEF SInv
<1> QED
  BY <1>3, <1>4, <1>5

\* Writing versions neither makes nor deletes a character, nor gives it to another account.
LEMMA VersionsKeep ==
  ASSUME SInv, NEW table \in [Pids -> Rows],
         \A pid \in Pids : /\ table[pid] = NoRow <=> rows[pid] = NoRow
                           /\ table[pid].account = rows[pid].account,
         rows' = table, UNCHANGED <<index, made>>
  PROVE  /\ TablesAgree'
         /\ \A c \in Conns : UNCHANGED <<at[c], who[c], op[c], held[c]>> => Own(c)'
<1>1. TypeOK /\ TablesAgree /\ \A c \in Conns : Own(c)
  BY DEF SInv
<1>2. TablesAgree'
  BY <1>1 DEF TablesAgree, TypeOK
<1>3. ASSUME NEW c \in Conns, UNCHANGED <<at[c], who[c], op[c], held[c]>>
      PROVE  Own(c)'
  <2>1. op[c].pid \in Pids \cup {NoPid} /\ held[c].pid \in Pids \cup {NoPid} /\ Own(c)
    BY <1>1, Fields
  <2> QED
    BY <1>3, <2>1 DEF Own, Exists, Phased
<1> QED
  BY <1>2, <1>3

\* A row with another version.
LEMMA NewVersion ==
  ASSUME NEW row \in Rows, row # NoRow, NEW v \in Versions
  PROVE  /\ [row EXCEPT !.ver = v] \in Rows /\ [row EXCEPT !.ver = v] # NoRow
         /\ [row EXCEPT !.ver = v].account = row.account
<1>1. row \in [account : Accounts, name : Names, ver : Versions]
  BY Constructors
<1> DEFINE new == [row EXCEPT !.ver = v]
<1>2. new \in [account : Accounts, name : Names, ver : Versions] /\ new.account = row.account
  BY <1>1
<1>3. new # NoRow
  BY <1>2, Constructors, Limits
<1> QED
  BY <1>2, <1>3 DEF Rows

\* The world task and the batcher (WorldStep, Commit).
LEMMA ChannelStep ==
  ASSUME SInv, Channel
  PROVE  SInv'
<1>0. TypeOK /\ intents \in Seq(Intents) /\ queue \in Seq(Saves)
  BY DEF SInv, TypeOK
<1>1. ASSUME NEW built \in BOOLEAN, WorldStep(built)
      PROVE  SInv'
  <2>1. /\ UNCHANGED <<logins, at, who, op, emp, held, rows, index, empire, queue, made, last, spent>>
        /\ intents # <<>> /\ intents' = Tail(intents)
    BY <1>1 DEF WorldStep, channel, database
  <2>2. Head(intents) \in Intents /\ intents' \in Seq(Intents)
    BY <1>0, <2>1, ElementsOf
  <2>3. PICK i \in Intents : i = Head(intents)
    BY <2>2
  <2>4. i.conn \in Conns /\ i.pid \in Pids
    BY DEF Intents
  <2>5. entity' \in [Pids -> Conns \cup {Nobody}]
    <3>1. entity \in [Pids -> Conns \cup {Nobody}]
      BY <1>0 DEF TypeOK
    <3>2. PICK e \in Conns \cup {Nobody} : entity' = [entity EXCEPT ![i.pid] = e]
      BY <1>1, <2>3, <2>4, <3>1 DEF WorldStep
    <3> QED
      BY <3>1, <3>2
  <2>6. faults' \in 0 .. MaxFaults /\ excuses' \subseteq Excuses
    <3>1. \E cases \in SUBSET Excuses : Excuse(cases)
      BY <1>1 DEF WorldStep, Excuses
    <3> QED
      BY <1>0, <1>1, <3>1, Budget, ExcuseType DEF WorldStep
  <2>7. TypeOK'
    BY <1>0, <2>1, <2>2, <2>5, <2>6 DEF TypeOK
  <2>8. LoginsAreOwn' /\ TablesAgree' /\ \A pid \in Pids : last'[pid] <= spent'
    BY <2>1 DEF SInv, LoginsAreOwn, TablesAgree, Phased
  <2>9. \A c \in Conns : Own(c)'
    BY <2>1 DEF SInv, Own, Exists, Phased
  <2> QED
    BY <2>7, <2>8, <2>9 DEF SInv
<1>2. CASE Commit
  <2>1. /\ UNCHANGED <<logins, at, who, op, emp, held, intents, entity, index, empire, made, last,
                       excuses, spent, faults>>
        /\ queue # <<>> /\ queue' = Tail(queue) /\ rows' = Apply(rows, Head(queue))
    BY <1>2 DEF Commit, channel, world, book
  <2>2. Head(queue) \in Saves /\ queue' \in Seq(Saves)
    BY <1>0, <2>1, ElementsOf
  <2>3. PICK save \in Saves : save = Head(queue)
    BY <2>2
  <2>4. save.pid \in Pids /\ save.ver \in Versions /\ rows \in [Pids -> Rows]
    BY <1>0 DEF Saves, TypeOK
  <2>5. PICK table \in [Pids -> Rows] :
          /\ rows' = table
          /\ \A pid \in Pids : /\ table[pid] = NoRow <=> rows[pid] = NoRow
                               /\ table[pid].account = rows[pid].account
    <3>1. CASE rows[save.pid] = NoRow
      BY <2>1, <2>3, <2>4, <3>1 DEF Apply
    <3>2. CASE rows[save.pid] # NoRow
      <4> DEFINE row == [rows[save.pid] EXCEPT !.ver = save.ver]
      <4>1. row \in Rows /\ row # NoRow /\ row.account = rows[save.pid].account
        BY <2>4, <3>2, NewVersion
      <4>2. rows' = [rows EXCEPT ![save.pid] = row]
        BY <2>1, <2>3, <3>2 DEF Apply
      <4> HIDE DEF row
      <4>3. rows' \in [Pids -> Rows] /\ \A pid \in Pids : rows'[pid] = IF pid = save.pid THEN row ELSE rows[pid]
        BY <2>4, <4>1, <4>2
      <4> QED
        BY <3>2, <4>1, <4>3
    <3> QED
      BY <3>1, <3>2
  <2>6. TypeOK'
    BY <1>0, <2>1, <2>2, <2>5 DEF TypeOK
  <2>7. UNCHANGED <<index, made>>
    BY <2>1
  <2>8. TablesAgree' /\ \A c \in Conns : Own(c)'
    <3>1. \A c \in Conns : UNCHANGED <<at[c], who[c], op[c], held[c]>>
      BY <2>1
    <3> QED
      BY <2>5, <2>7, <3>1, VersionsKeep
  <2>9. LoginsAreOwn' /\ \A pid \in Pids : last'[pid] <= spent'
    BY <2>1 DEF SInv, LoginsAreOwn, Phased
  <2> QED
    BY <2>6, <2>8, <2>9 DEF SInv
<1> QED
  BY <1>1, <1>2 DEF Channel

\* A set of places in a queue has a last one.
LEMMA GreatestOf ==
  ASSUME NEW n \in Nat, NEW S \in SUBSET (1 .. n - 1), NEW j \in S
  PROVE  \E m \in S : \A x \in S : x <= m
<1> DEFINE T == {n - x : x \in S}
<1>1. T \subseteq Nat /\ T # {}
  OBVIOUS
<1>2. PICK t \in T : \A y \in T : t <= y
  <2> HIDE DEF T
  <2>1. PICK x \in T : \A y \in T : <<y, x>> \notin OpToRel(<, Nat)
    BY <1>1, NatLessThanWellFounded, WFMin, Zenon
  <2>2. \A y \in T : ~(y < x)
    BY <1>1, <2>1 DEF OpToRel
  <2> QED
    BY <1>1, <2>2
<1>3. PICK m \in S : t = n - m
  BY <1>2
<1>4. \A x \in S : n - m <= n - x
  BY <1>2, <1>3
<1> QED
  BY <1>4

\* The last of several saves (Replayed).
LEMMA LastSave ==
  ASSUME NEW n \in Nat, NEW T \in SUBSET (1 .. n), T # {}
  PROVE  Max(T) \in T
<1>1. PICK i \in T : TRUE
  OBVIOUS
<1>2. \E m \in T : \A x \in T : x <= m
  <2>1. T \in SUBSET (1 .. (n + 1) - 1) /\ n + 1 \in Nat
    OBVIOUS
  <2> QED
    BY <1>1, <2>1, GreatestOf
<1>3. \E m \in T : \A x \in T : m >= x
  BY <1>2
<1> QED
  BY <1>3, Zenon DEF Max

\* The end of the process and its start (Crash).
LEMMA CrashStep ==
  ASSUME SInv, Crash
  PROVE  SInv'
<1>0. TypeOK /\ queue \in Seq(Saves) /\ rows \in [Pids -> Rows] /\ made \in Nat
  BY DEF SInv, TypeOK
<1>1. /\ UNCHANGED <<index, empire, made, last, spent>>
      /\ logins' = {} /\ intents' = <<>> /\ entity' = [pid \in Pids |-> Nobody] /\ queue' = <<>>
      /\ at' = [c \in Conns |-> IF at[c] = "new" THEN "new" ELSE "closed"]
      /\ op' = [c \in Conns |-> NoOp] /\ held' = [c \in Conns |-> NoHold]
      /\ who' = [c \in Conns |-> NoAccount] /\ emp' = [c \in Conns |-> 0]
  BY DEF Crash
<1>2. faults' \in 0 .. MaxFaults /\ excuses' \subseteq Excuses
  <2>1. \E cases \in SUBSET Excuses : Excuse(cases)
    BY DEF Crash, Excuses
  <2>2. faults' \in 0 .. MaxFaults
    BY <1>0, Limits DEF Crash, TypeOK
  <2> QED
    BY <1>0, <2>1, <2>2, ExcuseType
<1>3. PICK n \in 0 .. Len(queue) : rows' = Replayed(n)
  BY DEF Crash
<1>4. ASSUME NEW pid \in Pids
      PROVE  \E row \in Rows : /\ Replayed(n)[pid] = row
                               /\ row = NoRow <=> rows[pid] = NoRow
                               /\ row.account = rows[pid].account
  <2> DEFINE writes == {i \in 1 .. n : queue[i].pid = pid}
  <2>1. Len(queue) \in Nat /\ n \in Nat
    BY <1>0
  <2>2. CASE writes = {} \/ rows[pid] = NoRow
    BY <1>0, <2>2 DEF Replayed
  <2>3. CASE writes # {} /\ rows[pid] # NoRow
    <3>1. Max(writes) \in writes
      BY <2>1, <2>3, LastSave
    <3>2. PICK i \in 1 .. Len(queue) : i = Max(writes)
      <4>1. writes \subseteq 1 .. n /\ 1 .. n \subseteq 1 .. Len(queue)
        BY <2>1
      <4> QED
        BY <3>1, <4>1
    <3>3. queue[i] \in Saves
      BY <1>0, <3>2, ElementsOf
    <3>4. queue[i].ver \in Versions
      BY <3>3 DEF Saves
    <3>5. Replayed(n)[pid] = [rows[pid] EXCEPT !.ver = queue[i].ver]
      BY <2>3, <3>2 DEF Replayed
    <3>6. PICK v \in Versions : v = queue[i].ver
      BY <3>4
    <3> QED
      BY <1>0, <2>3, <3>5, <3>6, NewVersion
  <2> QED
    BY <2>2, <2>3
<1>5. PICK table \in [Pids -> Rows] :
        /\ rows' = table
        /\ \A pid \in Pids : /\ table[pid] = NoRow <=> rows[pid] = NoRow
                             /\ table[pid].account = rows[pid].account
  <2>1. \A pid \in Pids : /\ Replayed(n)[pid] \in Rows
                          /\ Replayed(n)[pid] = NoRow <=> rows[pid] = NoRow
                          /\ Replayed(n)[pid].account = rows[pid].account
    BY <1>4
  <2>2. Replayed(n) \in [Pids -> Rows]
    BY <2>1 DEF Replayed
  <2> QED
    BY <1>3, <2>1, <2>2
<1>6. TypeOK'
  <2>1. at' \in [Conns -> Phases]
    BY <1>1, Unserved
  <2>2. /\ op' \in [Conns -> Ops] /\ held' \in [Conns -> Holds]
        /\ who' \in [Conns -> Accounts \cup {NoAccount}] /\ emp' \in [Conns -> Empires \cup {0}]
    BY <1>1, Constructors
  <2>3. /\ logins' \subseteq Accounts /\ intents' \in Seq(Intents) /\ queue' \in Seq(Saves)
        /\ entity' \in [Pids -> Conns \cup {Nobody}]
    BY <1>1
  <2> QED
    BY <1>0, <1>1, <1>2, <1>5, <2>1, <2>2, <2>3 DEF TypeOK
<1>7. TablesAgree'
  BY <1>1, <1>5, VersionsKeep
<1>8. ASSUME NEW c \in Conns
      PROVE  /\ at'[c] \in {"new", "closed"} /\ op'[c].pid = NoPid /\ held'[c].pid = NoPid
             /\ who'[c] = NoAccount
  BY <1>1, Constructors
<1>9. LoginsAreOwn' /\ \A c \in Conns : Own(c)'
  <2>1. \A c \in Conns : ~Phased(c)'
    BY <1>8, Unserved DEF Phased
  <2> QED
    BY <1>8, <2>1, Unserved DEF LoginsAreOwn, Own
<1>10. \A pid \in Pids : last'[pid] <= spent'
  BY <1>1 DEF SInv
<1> QED
  BY <1>6, <1>7, <1>9, <1>10 DEF SInv

-----------------------------------------------------------------------------
(* The specification                                                       *)

LEMMA InitInv ==
  ASSUME Init
  PROVE  SInv
<1>1. TypeOK
  BY Constructors, Limits, Unserved DEF Init, TypeOK, Versions
<1>2. \A c \in Conns : at[c] = "new" /\ op[c].pid = NoPid /\ held[c].pid = NoPid /\ who[c] = NoAccount
  BY Constructors DEF Init
<1>3. \A c \in Conns : ~Phased(c)
  BY <1>2, Unserved DEF Phased
<1>4. LoginsAreOwn /\ \A c \in Conns : Own(c)
  BY <1>2, <1>3, Unserved DEF LoginsAreOwn, Own
<1>5. TablesAgree /\ \A pid \in Pids : last[pid] <= spent
  BY DEF Init, TablesAgree
<1> QED
  BY <1>1, <1>4, <1>5 DEF SInv

LEMMA NextInv ==
  ASSUME SInv, [Next]_vars
  PROVE  SInv'
<1>1. ASSUME NEW c \in Conns, Connection(c)
      PROVE  SInv'
  <2>1. CASE Refuse(c) \/ (\E a \in Accounts : Acquire(c, a)) \/ Unlock(c)
    BY <2>1, LoginStep
  <2>2. CASE Credentials(c) \/ Hangup(c) \/ (\E s \in Slots : SelectNobody(c, s))
    BY <2>2, EndsStep
  <2>3. CASE CreateName(c)
    BY <2>3, CreateNameStep
  <2>4. CASE RenameName(c)
    BY <2>4, RenameNameStep
  <2>5. CASE Statement(c)
    BY <2>5, CreateInsertStep, PlaceStep, SlotStep, RowStep DEF Statement
  <2>6. CASE \/ \E s \in Slots, n \in Names : AskCreate(c, s, n) \/ AskRename(c, s, n)
             \/ \E s \in Slots : AskDelete(c, s)
             \/ \E e \in Empires : AskEmpire(c, e)
    BY <2>6, AskStep
  <2>7. ASSUME NEW s \in Slots, NEW corrected \in BOOLEAN, Select(c, s, corrected)
        PROVE  SInv'
    BY <2>7, SelectStep
  <2>8. CASE EnterGame(c) \/ (\E safe \in BOOLEAN : Close(c, safe)) \/ Leave(c)
    BY <2>8, WorldwardStep
  <2>9. ASSUME NEW saves \in BOOLEAN, Play(c, saves)
        PROVE  SInv'
    BY <2>9, PlayStep
  <2> QED
    BY <1>1, <2>1, <2>2, <2>3, <2>4, <2>5, <2>6, <2>7, <2>8, <2>9 DEF Connection, Proceed, Asks
<1>2. CASE UNCHANGED vars
  <2>1. UNCHANGED <<logins, at, who, op, emp, held, intents, entity, rows, index, empire, queue,
                    made, last, excuses, spent, faults>>
    BY <1>2 DEF vars, channel, world, database, book
  <2>2. TypeOK'
    BY <2>1 DEF SInv, TypeOK
  <2>3. LoginsAreOwn' /\ TablesAgree' /\ \A pid \in Pids : last'[pid] <= spent'
    BY <2>1 DEF SInv, LoginsAreOwn, TablesAgree, Phased
  <2>4. \A c \in Conns : Own(c)'
    BY <2>1 DEF SInv, Own, Exists, Phased
  <2> QED
    BY <2>2, <2>3, <2>4 DEF SInv
<1> QED
  BY <1>1, <1>2, ChannelStep, CrashStep DEF Next

\* The registry of logins, the tables and what the sessions hold are consistent in every reachable
\* state (entry.rs, session.rs, player.rs).
THEOREM EntryIsConsistent == Spec => []SInv
<1>1. Init => SInv
  BY InitInv
<1>2. SInv /\ [Next]_vars => SInv'
  BY NextInv
<1> QED
  BY <1>1, <1>2, PTL DEF Spec

\* Every variable keeps its type (login_flow, game::run).
THEOREM EntryTypeCorrect == Spec => []TypeOK
<1>1. SInv => TypeOK
  BY DEF SInv
<1> QED
  BY <1>1, EntryIsConsistent, PTL

\* Two sessions of one character would be of one account, which has one connection.
LEMMA OneSession ==
  ASSUME SInv, NEW c \in Conns, NEW d \in Conns, held[c].pid # NoPid, held[d].pid = held[c].pid
  PROVE  d = c
<1>1. SUFFICES ASSUME d # c PROVE FALSE
  OBVIOUS
<1>2. Own(c) /\ Own(d) /\ TypeOK /\ LoginsAreOwn
  BY DEF SInv
<1>3. /\ rows[held[c].pid].account = who[c] /\ rows[held[c].pid].account = who[d]
      /\ rows[held[c].pid] # NoRow /\ held[c].pid \in Pids
  BY <1>2, Fields DEF Own
<1>4. who[c] # NoAccount
  BY <1>2, <1>3, RowsOfAccounts, Limits
<1> QED
  BY <1>1, <1>2, <1>3, <1>4 DEF LoginsAreOwn

\* Two sessions never hold one character: the rows of a session are of its account, and an account
\* has one connection, until the last guard of its session is dropped (ChannelLoginGuard).
THEOREM CharactersHaveOneHolder == Spec => []OneHolder
<1>1. SInv => OneHolder
  BY OneSession DEF OneHolder
<1> QED
  BY <1>1, EntryIsConsistent, PTL

-----------------------------------------------------------------------------
(* The world                                                               *)

\* What a step of a connection does to the sessions: it is of one connection, and only EnterGame
\* and Leave change who is in the world.
InWorld(c) == at[c] \in {"game", "leaving"}
OthersRest(c) ==
  \A d \in Conns \ {c} : UNCHANGED <<at[d], who[d], op[d], held[d]>>
Resting(c) ==
  /\ UNCHANGED <<intents, entity>> /\ (InWorld(c)' <=> InWorld(c))
  /\ InWorld(c) => held'[c].pid = held[c].pid

\* The handlers of the list that run no statement.
LEMMA ListRests ==
  ASSUME TypeOK, NEW c \in Conns,
         \/ \E a \in Accounts : Acquire(c, a)
         \/ Refuse(c) \/ Credentials(c) \/ Hangup(c) \/ CreateName(c) \/ RenameName(c)
         \/ \E s \in Slots, n \in Names : AskCreate(c, s, n) \/ AskRename(c, s, n)
         \/ \E s \in Slots : AskDelete(c, s) \/ SelectNobody(c, s)
         \/ \E e \in Empires : AskEmpire(c, e)
  PROVE  OthersRest(c) /\ Resting(c) /\ UNCHANGED excuses
<1>0. at \in [Conns -> Phases] /\ op \in [Conns -> Ops] /\ who \in [Conns -> Accounts \cup {NoAccount}]
  BY DEF TypeOK
<1>1. ASSUME NEW a \in Accounts, Acquire(c, a) PROVE OthersRest(c) /\ Resting(c) /\ UNCHANGED excuses
  BY <1>0, <1>1 DEF Acquire, Accepted, Goto, world, book, OthersRest, Resting, InWorld
<1>2. CASE Refuse(c)
  BY <1>0, <1>2 DEF Refuse, Accepted, Goto, world, book, OthersRest, Resting, InWorld
<1>3. CASE Credentials(c)
  BY <1>0, <1>3 DEF Credentials, Goto, world, book, OthersRest, Resting, InWorld
<1>4. CASE Hangup(c)
  BY <1>0, <1>4 DEF Hangup, Goto, world, book, OthersRest, Resting, InWorld
<1>5. CASE CreateName(c)
  BY <1>0, <1>5 DEF CreateName, Goto, Return, world, book, OthersRest, Resting, InWorld
<1>6. CASE RenameName(c)
  BY <1>0, <1>6 DEF RenameName, Goto, Return, world, book, OthersRest, Resting, InWorld
<1>7. ASSUME NEW o, NEW phase \in {"create.name", "delete.gate", "rename.name", "empire.index"},
             Ask(c, phase, o)
      PROVE  OthersRest(c) /\ Resting(c) /\ UNCHANGED excuses
  BY <1>0, <1>7 DEF Ask, Goto, world, OthersRest, Resting, InWorld
<1>8. ASSUME NEW s \in Slots, SelectNobody(c, s) PROVE OthersRest(c) /\ Resting(c) /\ UNCHANGED excuses
  BY <1>0, <1>8 DEF SelectNobody, Goto, world, book, OthersRest, Resting, InWorld
<1> QED
  BY <1>1, <1>2, <1>3, <1>4, <1>5, <1>6, <1>7, <1>8 DEF AskCreate, AskRename, AskDelete, AskEmpire

\* The statements.
LEMMA StatementRests ==
  ASSUME TypeOK, NEW c \in Conns, Statement(c)
  PROVE  OthersRest(c) /\ Resting(c) /\ excuses \subseteq excuses'
<1>0. at \in [Conns -> Phases] /\ op \in [Conns -> Ops]
  BY DEF TypeOK
<1>1. PICK r \in Results :
        \/ CreateInsert(c, r) \/ CreatePlace(c, r) \/ CreateSlot(c, r) \/ CreateUndo(c, r)
        \/ DeleteGate(c, r) \/ DeleteRow(c, r) \/ RenameWrite(c, r)
        \/ EmpireIndex(c, r) \/ EmpireMove(c, r)
  BY DEF Statement
<1>2. CASE CreateInsert(c, r)
  BY <1>0, <1>2 DEF CreateInsert, Goto, Return, Excuse, world, OthersRest, Resting, InWorld
<1>3. CASE CreatePlace(c, r)
  BY <1>0, <1>3 DEF CreatePlace, Goto, Return, Excuse, world, OthersRest, Resting, InWorld
<1>4. CASE CreateSlot(c, r)
  BY <1>0, <1>4 DEF CreateSlot, Goto, Return, world, OthersRest, Resting, InWorld
<1>5. CASE CreateUndo(c, r)
  BY <1>0, <1>5 DEF CreateUndo, Goto, Return, Excuse, world, OthersRest, Resting, InWorld
<1>6. CASE DeleteGate(c, r)
  BY <1>0, <1>6 DEF DeleteGate, Goto, Return, Excuse, world, OthersRest, Resting, InWorld
<1>7. CASE DeleteRow(c, r)
  BY <1>0, <1>7 DEF DeleteRow, Goto, Return, Excuse, world, OthersRest, Resting, InWorld
<1>8. CASE RenameWrite(c, r)
  BY <1>0, <1>8 DEF RenameWrite, Goto, Return, world, OthersRest, Resting, InWorld
<1>9. CASE EmpireIndex(c, r)
  BY <1>0, <1>9 DEF EmpireIndex, Goto, Return, Excuse, world, OthersRest, Resting, InWorld
<1>10. CASE EmpireMove(c, r)
  BY <1>0, <1>10 DEF EmpireMove, Goto, Return, Excuse, world, OthersRest, Resting, InWorld
<1> QED
  BY <1>1, <1>2, <1>3, <1>4, <1>5, <1>6, <1>7, <1>8, <1>9, <1>10

\* Load, play, save, and the last guard.
LEMMA SessionRests ==
  ASSUME TypeOK, NEW c \in Conns,
         \/ \E s \in Slots, corrected \in BOOLEAN : Select(c, s, corrected)
         \/ \E saves \in BOOLEAN : Play(c, saves)
         \/ \E safe \in BOOLEAN : Close(c, safe)
         \/ Unlock(c)
  PROVE  OthersRest(c) /\ Resting(c) /\ excuses \subseteq excuses'
<1>0. /\ at \in [Conns -> Phases] /\ op \in [Conns -> Ops] /\ held \in [Conns -> Holds]
      /\ who \in [Conns -> Accounts \cup {NoAccount}]
  BY DEF TypeOK
<1>1. ASSUME NEW s \in Slots, NEW corrected \in BOOLEAN, Select(c, s, corrected)
      PROVE  OthersRest(c) /\ Resting(c) /\ excuses \subseteq excuses'
  BY <1>0, <1>1 DEF Select, Goto, Excuse, world, OthersRest, Resting, InWorld
<1>2. ASSUME NEW saves \in BOOLEAN, Play(c, saves)
      PROVE  OthersRest(c) /\ Resting(c) /\ excuses \subseteq excuses'
  BY <1>0, <1>2 DEF Play, world, OthersRest, Resting, InWorld
<1>3. ASSUME NEW safe \in BOOLEAN, Close(c, safe)
      PROVE  OthersRest(c) /\ Resting(c) /\ excuses \subseteq excuses'
  BY <1>0, <1>3 DEF Close, Goto, Excuse, world, OthersRest, Resting, InWorld
<1>4. CASE Unlock(c)
  BY <1>0, <1>4 DEF Unlock, Goto, world, book, OthersRest, Resting, InWorld
<1> QED
  BY <1>1, <1>2, <1>3, <1>4

\* All steps of a connection but the two that send an intent.
LEMMA ConnectionRests ==
  ASSUME TypeOK, NEW c \in Conns, Connection(c), ~EnterGame(c), ~Leave(c)
  PROVE  OthersRest(c) /\ Resting(c) /\ excuses \subseteq excuses'
BY ListRests, StatementRests, SessionRests DEF Connection, Proceed, Asks

\* Whose sessions are in the world with a character, and what the queue says of the character: the
\* last intent of it is what its session did last, joins and leaves take turns, and a join comes
\* to a world without entity.
Inside(pid) == {c \in Conns : InWorld(c) /\ held[c].pid = pid}
Of(pid) == {k \in DOMAIN intents : intents[k].pid = pid}
Joins(k) == intents[k].kind = "join"

EntityIs(pid) ==
  Of(pid) = {} => /\ entity[pid] \in Inside(pid) \cup {Nobody}
                  /\ "mapless" \notin excuses /\ Inside(pid) # {} => entity[pid] # Nobody
LastIs(pid) ==
  \A k \in Of(pid) :
    (\A j \in Of(pid) : j <= k) =>
       /\ Joins(k) => intents[k].conn \in Inside(pid)
       /\ ~Joins(k) => Inside(pid) = {}
FirstIs(pid) ==
  \A k \in Of(pid) : (\A j \in Of(pid) : k <= j) /\ Joins(k) => entity[pid] = Nobody
TakeTurns(pid) ==
  \A j, k \in Of(pid) : j < k /\ Joins(j) /\ Joins(k) => \E i \in Of(pid) : j < i /\ i < k /\ ~Joins(i)

InWorldOrder(pid) == EntityIs(pid) /\ LastIs(pid) /\ FirstIs(pid) /\ TakeTurns(pid)
WorldInv == \A pid \in Pids : InWorldOrder(pid)

\* The sessions of others in the world stay.
LEMMA InsideStays ==
  ASSUME NEW c \in Conns, OthersRest(c), InWorld(c)' <=> InWorld(c),
         InWorld(c) => held'[c].pid = held[c].pid,
         NEW pid \in Pids
  PROVE  Inside(pid)' = Inside(pid)
BY DEF Inside, OthersRest, InWorld

\* Who is inside stays, and nothing happens to the world.
LEMMA RestKeepsWorld ==
  ASSUME WorldInv, UNCHANGED <<intents, entity>>, excuses \subseteq excuses',
         \A pid \in Pids : Inside(pid)' = Inside(pid)
  PROVE  WorldInv'
<1> SUFFICES ASSUME NEW pid \in Pids PROVE InWorldOrder(pid)'
  BY DEF WorldInv
<1>1. InWorldOrder(pid)
  BY DEF WorldInv
<1>2. Of(pid)' = Of(pid) /\ \A k : Joins(k)' <=> Joins(k)
  BY DEF Of, Joins
<1>3. EntityIs(pid)'
  BY <1>1, <1>2 DEF InWorldOrder, EntityIs
<1>4. LastIs(pid)'
  BY <1>1, <1>2 DEF InWorldOrder, LastIs
<1>5. FirstIs(pid)'
  BY <1>1, <1>2 DEF InWorldOrder, FirstIs
<1>6. TakeTurns(pid)'
  BY <1>1, <1>2 DEF InWorldOrder, TakeTurns
<1> QED
  BY <1>3, <1>4, <1>5, <1>6 DEF InWorldOrder

\* One more intent at the end: a join when nobody is inside, or the leave of who was.
LEMMA SendKeepsWorld ==
  ASSUME WorldInv, intents \in Seq(Intents), NEW i \in Intents, intents' = Append(intents, i),
         UNCHANGED <<entity, excuses>>,
         \A pid \in Pids : pid # i.pid => Inside(pid)' = Inside(pid),
         i.kind = "join" => Inside(i.pid) = {} /\ i.conn \in Inside(i.pid)',
         i.kind = "leave" => Inside(i.pid)' = {}
  PROVE  WorldInv'
<1> SUFFICES ASSUME NEW pid \in Pids PROVE InWorldOrder(pid)'
  BY DEF WorldInv
<1>0. PICK n \in Nat : n = Len(intents) + 1
  OBVIOUS
<1>1. InWorldOrder(pid)
  BY DEF WorldInv
<1>2. /\ n \in Nat /\ DOMAIN intents = 1 .. n - 1 /\ DOMAIN intents' = 1 .. n
      /\ intents'[n] = i /\ \A k \in 1 .. n - 1 : intents'[k] = intents[k]
  BY <1>0
<1>3. Of(pid) \subseteq 1 .. n - 1 /\ \A k \in Of(pid) : Joins(k)' <=> Joins(k)
  BY <1>2 DEF Of, Joins
<1>4. Joins(n)' <=> i.kind = "join"
  BY <1>2 DEF Joins
<1>5. i.kind \in {"join", "leave"}
  BY DEF Intents
<1>6. CASE pid # i.pid
  <2>1. Of(pid)' = Of(pid) /\ \A k \in Of(pid) : intents'[k] = intents[k]
    BY <1>2, <1>6 DEF Of
  <2>2. Inside(pid)' = Inside(pid)
    BY <1>6
  <2>3. EntityIs(pid)'
    BY <1>1, <2>1, <2>2 DEF InWorldOrder, EntityIs
  <2>4. LastIs(pid)'
    BY <1>1, <1>3, <2>1, <2>2 DEF InWorldOrder, LastIs
  <2>5. FirstIs(pid)'
    BY <1>1, <1>3, <2>1 DEF InWorldOrder, FirstIs
  <2>6. TakeTurns(pid)'
    BY <1>1, <1>3, <2>1 DEF InWorldOrder, TakeTurns
  <2> QED
    BY <2>3, <2>4, <2>5, <2>6 DEF InWorldOrder
<1>7. CASE pid = i.pid
  <2>1. Of(pid)' = Of(pid) \cup {n} /\ n \notin Of(pid)
    BY <1>2, <1>3, <1>7 DEF Of
  <2>2. \A k \in Of(pid) : k \in Nat /\ k < n
    BY <1>2, <1>3
  <2>3. EntityIs(pid)'
    BY <2>1 DEF EntityIs
  <2>4. LastIs(pid)'
    <3>1. ASSUME NEW k \in Of(pid)', \A j \in Of(pid)' : j <= k PROVE k = n
      BY <2>1, <2>2, <3>1, <1>2
    <3> QED
      BY <3>1, <1>2, <1>4, <1>5, <1>7 DEF LastIs
  <2>5. FirstIs(pid)'
    <3> SUFFICES ASSUME NEW k \in Of(pid)', \A j \in Of(pid)' : k <= j, Joins(k)'
                 PROVE  entity[pid] = Nobody
      BY DEF FirstIs
    <3>1. CASE k \in Of(pid)
      BY <1>1, <1>3, <2>1, <3>1 DEF InWorldOrder, FirstIs
    <3>2. CASE k = n
      <4>1. Of(pid) = {}
        BY <2>1, <2>2, <3>2, <1>2
      <4>2. Inside(pid) = {}
        BY <1>4, <1>7, <3>2
      <4> QED
        BY <1>1, <4>1, <4>2 DEF InWorldOrder, EntityIs
    <3> QED
      BY <2>1, <3>1, <3>2
  <2>6. TakeTurns(pid)'
    <3> SUFFICES ASSUME NEW j \in Of(pid)', NEW k \in Of(pid)', j < k, Joins(j)', Joins(k)'
                 PROVE  \E m \in Of(pid)' : j < m /\ m < k /\ ~Joins(m)'
      BY DEF TakeTurns
    <3>1. j \in Of(pid)
      BY <1>2, <2>1, <2>2
    <3>2. CASE k \in Of(pid)
      BY <1>1, <1>3, <2>1, <3>1, <3>2 DEF InWorldOrder, TakeTurns
    <3>3. CASE k = n
      <4>1. Inside(pid) = {}
        BY <1>4, <1>7, <3>3
      <4>2. PICK m \in Of(pid) : \A x \in Of(pid) : x <= m
        <5>1. Of(pid) \subseteq 1 .. n - 1 /\ j \in Of(pid)
          BY <1>3, <3>1
        <5> QED
          BY <5>1, <1>2, GreatestOf
      <4>3. ~Joins(m) /\ j # m /\ j <= m
        BY <1>1, <1>3, <3>1, <4>1, <4>2 DEF InWorldOrder, LastIs
      <4> QED
        BY <1>3, <2>1, <2>2, <3>1, <3>3, <4>3
    <3> QED
      BY <2>1, <3>2, <3>3
  <2> QED
    BY <2>3, <2>4, <2>5, <2>6 DEF InWorldOrder
<1> QED
  BY <1>6, <1>7

\* The intents that are left, when the first is gone, follow each other as before.
LEMMA LaterIntents ==
  ASSUME NEW pid \in Pids, InWorldOrder(pid), NEW n \in Nat, Of(pid) \subseteq 1 .. n,
         \A k : k \in Of(pid)' <=> k \in 1 .. n - 1 /\ k + 1 \in Of(pid),
         \A k \in 1 .. n - 1 : intents'[k] = intents[k + 1],
         Inside(pid)' = Inside(pid), EntityIs(pid)', FirstIs(pid)'
  PROVE  InWorldOrder(pid)'
<1>1. \A k \in Of(pid)' : Joins(k)' <=> Joins(k + 1)
  BY DEF Joins
<1>2. LastIs(pid)'
  <2> SUFFICES ASSUME NEW k \in Of(pid)', \A j \in Of(pid)' : j <= k
               PROVE  /\ Joins(k)' => intents'[k].conn \in Inside(pid)
                      /\ ~Joins(k)' => Inside(pid) = {}
    BY DEF LastIs
  <2>1. k \in 1 .. n - 1 /\ k + 1 \in Of(pid)
    OBVIOUS
  <2>2. ASSUME NEW j \in Of(pid) PROVE j <= k + 1
    <3>1. CASE j = 1
      BY <2>1, <3>1
    <3>2. CASE j # 1
      <4>1. j - 1 \in 1 .. n - 1 /\ (j - 1) + 1 = j
        BY <3>2
      <4>2. j - 1 <= k
        BY <4>1
      <4> QED
        BY <2>1, <4>1, <4>2
    <3> QED
      BY <3>1, <3>2
  <2> QED
    BY <1>1, <2>1, <2>2 DEF InWorldOrder, LastIs
<1>3. TakeTurns(pid)'
  <2> SUFFICES ASSUME NEW j \in Of(pid)', NEW k \in Of(pid)', j < k, Joins(j)', Joins(k)'
               PROVE  \E i \in Of(pid)' : j < i /\ i < k /\ ~Joins(i)'
    BY DEF TakeTurns
  <2>1. /\ j \in 1 .. n - 1 /\ k \in 1 .. n - 1 /\ j + 1 \in Of(pid) /\ k + 1 \in Of(pid)
        /\ Joins(j + 1) /\ Joins(k + 1) /\ j + 1 < k + 1
    BY <1>1
  <2>2. PICK m \in Of(pid) : j + 1 < m /\ m < k + 1 /\ ~Joins(m)
    BY <2>1 DEF InWorldOrder, TakeTurns
  <2>3. m - 1 \in 1 .. n - 1 /\ (m - 1) + 1 = m /\ j < m - 1 /\ m - 1 < k
    BY <2>1, <2>2
  <2>4. m - 1 \in Of(pid)'
    BY <2>2, <2>3
  <2> QED
    BY <1>1, <2>2, <2>3, <2>4
<1> QED
  BY <1>2, <1>3 DEF InWorldOrder

\* A step of the world takes the first intent, and does what it says, or loses a join.
LEMMA WorldStepKeepsWorld ==
  ASSUME SInv, WorldInv, NEW built \in BOOLEAN, WorldStep(built)
  PROVE  WorldInv'
<1> SUFFICES ASSUME NEW pid \in Pids PROVE InWorldOrder(pid)'
  BY DEF WorldInv
<1>1. InWorldOrder(pid) /\ intents \in Seq(Intents) /\ entity \in [Pids -> Conns \cup {Nobody}]
  BY DEF WorldInv, SInv, TypeOK
<1>2. PICK n \in Nat : n = Len(intents) /\ n > 0
  BY <1>1 DEF WorldStep
<1>3. /\ DOMAIN intents = 1 .. n /\ DOMAIN intents' = 1 .. n - 1
      /\ \A k \in 1 .. n - 1 : intents'[k] = intents[k + 1]
      /\ Head(intents) = intents[1] /\ intents[1] \in Intents
  BY <1>1, <1>2 DEF WorldStep
<1>4. Inside(pid)' = Inside(pid) /\ excuses \subseteq excuses'
  BY DEF WorldStep, channel, Inside, InWorld, Excuse
<1>5. \A k : k \in Of(pid)' <=> k \in 1 .. n - 1 /\ k + 1 \in Of(pid)
  BY <1>2, <1>3 DEF Of
<1>6. \A k \in Of(pid)' : Joins(k)' <=> Joins(k + 1)
  BY <1>3, <1>5 DEF Joins
<1>7. Of(pid) \subseteq 1 .. n
  BY <1>3 DEF Of
<1>8. CASE 1 \notin Of(pid)
  <2>1. entity'[pid] = entity[pid]
    BY <1>1, <1>2, <1>3, <1>8 DEF WorldStep, Of
  <2>2. \A k \in Of(pid) : k - 1 \in Of(pid)' /\ (k - 1) + 1 = k
    BY <1>5, <1>7, <1>8
  <2>3. EntityIs(pid)'
    BY <1>1, <1>4, <2>1, <2>2 DEF InWorldOrder, EntityIs
  <2>4. FirstIs(pid)'
    <3> SUFFICES ASSUME NEW k \in Of(pid)', \A j \in Of(pid)' : k <= j, Joins(k)'
                 PROVE  entity[pid] = Nobody
      BY <2>1 DEF FirstIs
    <3>1. k + 1 \in Of(pid) /\ Joins(k + 1) /\ \A j \in Of(pid) : k + 1 <= j
      BY <1>5, <1>6, <1>7, <2>2
    <3> QED
      BY <1>1, <3>1 DEF InWorldOrder, FirstIs
  <2> QED
    BY <1>1, <1>3, <1>4, <1>5, <1>7, <2>3, <2>4, LaterIntents
<1>9. CASE 1 \in Of(pid)
  <2>1. /\ ~Joins(1) => entity'[pid] = Nobody
        /\ Joins(1) => entity'[pid] = IF built THEN intents[1].conn ELSE entity[pid]
        /\ Joins(1) /\ ~built => "mapless" \in excuses'
    BY <1>1, <1>3, <1>9 DEF WorldStep, Of, Joins, Excuse, Intents
  <2>2. Joins(1) => entity[pid] = Nobody
    BY <1>1, <1>7, <1>9 DEF InWorldOrder, FirstIs
  <2>3. EntityIs(pid)'
    <3> SUFFICES ASSUME Of(pid)' = {}
                 PROVE  /\ entity'[pid] \in Inside(pid) \cup {Nobody}
                        /\ "mapless" \notin excuses' /\ Inside(pid) # {} => entity'[pid] # Nobody
      BY <1>4 DEF EntityIs
    <3>1. \A j \in Of(pid) : j <= 1
      <4> SUFFICES ASSUME NEW j \in Of(pid), j > 1 PROVE FALSE
        BY <1>7
      <4>1. j - 1 \in 1 .. n - 1 /\ (j - 1) + 1 = j
        BY <1>7
      <4> QED
        BY <4>1, <1>5
    <3>2. /\ Joins(1) => intents[1].conn \in Inside(pid)
          /\ ~Joins(1) => Inside(pid) = {}
      BY <1>1, <1>9, <3>1 DEF InWorldOrder, LastIs
    <3>3. Nobody \notin Inside(pid)
      BY Limits DEF Inside
    <3> QED
      BY <2>1, <2>2, <3>2, <3>3
  <2>4. FirstIs(pid)'
    <3> SUFFICES ASSUME NEW k \in Of(pid)', \A j \in Of(pid)' : k <= j, Joins(k)'
                 PROVE  entity'[pid] = Nobody
      BY DEF FirstIs
    <3>1. k \in 1 .. n - 1 /\ k + 1 \in Of(pid) /\ Joins(k + 1)
      BY <1>5, <1>6
    <3>2. ~Joins(1)
      <4> SUFFICES ASSUME Joins(1) PROVE FALSE
        OBVIOUS
      <4>1. PICK i \in Of(pid) : 1 < i /\ i < k + 1
        BY <1>1, <1>9, <3>1 DEF InWorldOrder, TakeTurns
      <4>2. i - 1 \in Of(pid)' /\ i - 1 < k
        BY <1>5, <1>7, <3>1, <4>1
      <4> QED
        BY <1>7, <3>1, <4>2
    <3> QED
      BY <2>1, <3>2
  <2> QED
    BY <1>1, <1>3, <1>4, <1>5, <1>7, <2>3, <2>4, LaterIntents
<1> QED
  BY <1>8, <1>9

\* After a crash the world is empty and nobody is inside.
LEMMA CrashKeepsWorld ==
  ASSUME Crash
  PROVE  WorldInv'
<1> SUFFICES ASSUME NEW pid \in Pids PROVE InWorldOrder(pid)'
  BY DEF WorldInv
<1>1. Of(pid)' = {} /\ entity'[pid] = Nobody
  BY DEF Crash, Of
<1>2. Inside(pid)' = {}
  BY DEF Crash, Inside, InWorld
<1> QED
  BY <1>1, <1>2 DEF InWorldOrder, EntityIs, LastIs, FirstIs, TakeTurns

\* A connection sends a join when it enters the game, and a leave when it is over.
LEMMA ConnectionKeepsWorld ==
  ASSUME SInv, WorldInv, NEW c \in Conns, Connection(c)
  PROVE  WorldInv'
<1>0. TypeOK /\ Own(c) /\ at \in [Conns -> Phases]
  BY DEF SInv, TypeOK
<1>1. CASE ~EnterGame(c) /\ ~Leave(c)
  <2>1. OthersRest(c) /\ Resting(c) /\ excuses \subseteq excuses'
    BY <1>0, <1>1, ConnectionRests
  <2> QED
    BY <2>1, InsideStays, RestKeepsWorld DEF Resting
<1>2. ASSUME at[c] \in {"loaded", "leaving"}
      PROVE  /\ held[c].pid \in Pids
             /\ \A kind \in {"join", "leave"} : [kind |-> kind, pid |-> held[c].pid, conn |-> c] \in Intents
             /\ \A d \in Conns : held[d].pid = held[c].pid => d = c
  <2>1. held[c].pid # NoPid /\ held[c].pid \in Pids
    BY <1>0, <1>2, Fields DEF Own, Playing
  <2> QED
    BY <2>1, OneSession DEF Intents
<1>3. CASE EnterGame(c)
  <2>1. PICK p \in Pids : p = held[c].pid
    BY <1>2, <1>3 DEF EnterGame
  <2>2. /\ at[c] = "loaded" /\ at'[c] = "game" /\ held' = held
        /\ \A d \in Conns \ {c} : at'[d] = at[d]
        /\ UNCHANGED <<entity, excuses>>
        /\ intents' = Append(intents, [kind |-> "join", pid |-> p, conn |-> c])
    BY <1>0, <1>3, <2>1 DEF EnterGame, Goto, book
  <2>3. \A pid \in Pids : pid # p => Inside(pid)' = Inside(pid)
    BY <2>1, <2>2 DEF Inside, InWorld
  <2>4. Inside(p) = {} /\ c \in Inside(p)'
    BY <1>2, <2>1, <2>2 DEF Inside, InWorld
  <2> DEFINE i == [kind |-> "join", pid |-> p, conn |-> c]
  <2>5. i \in Intents /\ i.kind = "join" /\ i.pid = p /\ i.conn = c /\ intents' = Append(intents, i)
    BY <1>2, <2>1, <2>2
  <2> HIDE DEF i
  <2> QED
    BY <2>2, <2>3, <2>4, <2>5, SendKeepsWorld DEF SInv, TypeOK
<1>4. CASE Leave(c)
  <2>1. PICK p \in Pids : p = held[c].pid
    BY <1>2, <1>4 DEF Leave
  <2>2. /\ at[c] = "leaving" /\ at'[c] = "unlocking" /\ held' = held
        /\ \A d \in Conns \ {c} : at'[d] = at[d]
        /\ UNCHANGED <<entity, excuses>>
        /\ intents' = Append(intents, [kind |-> "leave", pid |-> p, conn |-> c])
    BY <1>0, <1>4, <2>1 DEF Leave, Goto, book
  <2>3. \A pid \in Pids : pid # p => Inside(pid)' = Inside(pid)
    BY <2>1, <2>2 DEF Inside, InWorld
  <2>4. Inside(p)' = {}
    BY <1>2, <2>1, <2>2 DEF Inside, InWorld
  <2> DEFINE i == [kind |-> "leave", pid |-> p, conn |-> c]
  <2>5. i \in Intents /\ i.kind = "leave" /\ i.pid = p /\ i.conn = c /\ intents' = Append(intents, i)
    BY <1>2, <2>1, <2>2
  <2> HIDE DEF i
  <2> QED
    BY <2>2, <2>3, <2>4, <2>5, SendKeepsWorld DEF SInv, TypeOK
<1> QED
  BY <1>1, <1>3, <1>4

\* Every step keeps the order of the world.
LEMMA NextWorld ==
  ASSUME SInv, WorldInv, [Next]_vars
  PROVE  WorldInv'
<1>1. CASE Commit \/ UNCHANGED vars
  <2>1. UNCHANGED <<intents, entity, excuses, at, held>>
    BY <1>1 DEF Commit, vars, channel, world, book
  <2>2. \A pid \in Pids : Inside(pid)' = Inside(pid)
    BY <2>1 DEF Inside, InWorld
  <2> QED
    BY <2>1, <2>2, RestKeepsWorld
<1> QED
  BY <1>1, ConnectionKeepsWorld, WorldStepKeepsWorld, CrashKeepsWorld DEF Next, Channel

\* When its queue is empty the world has the entity of every session in the game, and no other.
THEOREM WorldKeepsThePlayers == Spec => []WorldHasThePlayers
<1>1. Init => WorldInv
  <2> SUFFICES ASSUME Init, NEW pid \in Pids PROVE InWorldOrder(pid)
    BY DEF WorldInv
  <2>1. Of(pid) = {} /\ entity[pid] = Nobody /\ Inside(pid) = {}
    BY DEF Init, Of, Inside, InWorld
  <2> QED
    BY <2>1 DEF InWorldOrder, EntityIs, LastIs, FirstIs, TakeTurns
<1>2. SInv /\ WorldInv /\ [Next]_vars => WorldInv'
  BY NextWorld
<1>3. WorldInv => WorldHasThePlayers
  <2> SUFFICES ASSUME WorldInv, intents = <<>>, NEW pid \in Pids
               PROVE  /\ entity[pid] \in Inside(pid) \cup {Nobody}
                      /\ "mapless" \notin excuses /\ Inside(pid) # {} => entity[pid] # Nobody
    BY DEF WorldHasThePlayers, Inside, InWorld
  <2>1. Of(pid) = {}
    BY DEF Of
  <2> QED
    BY <2>1 DEF WorldInv, InWorldOrder, EntityIs
<1> QED
  BY <1>1, <1>2, <1>3, EntryIsConsistent, PTL DEF Spec

-----------------------------------------------------------------------------
(* What a player did                                                       *)

\* What is not inserted has neither progress nor saves.  As long as no save is skipped, lost or
\* overtaken by a load, who holds a character has its last version in memory, and of a character
\* that nobody plays the last version is the one of its last save in the queue, or, without one,
\* the one of its row.
SavesOf(pid) == {k \in DOMAIN queue : queue[k].pid = pid}
Calm == excuses \cap {"stale", "unsaved", "crash"} = {}

Unborn == \A pid \in Pids : pid > made => last[pid] = 0 /\ SavesOf(pid) = {}
Settled(pid) ==
  /\ SavesOf(pid) = {} => rows[pid].ver = last[pid]
  /\ \A k \in SavesOf(pid) : (\A j \in SavesOf(pid) : j <= k) => queue[k].ver = last[pid]
HeldAreLast(pid) == \A c \in Conns : held[c].pid = pid => held[c].ver = last[pid]
Played(pid) == \E c \in Conns : held[c].pid = pid /\ at[c] = "game"
Kept(pid) == rows[pid] # NoRow => HeldAreLast(pid) /\ (Played(pid) \/ Settled(pid))
ProgressInv == Unborn /\ (Calm => \A pid \in Pids : Kept(pid))

\* The rows keep their versions; a new one has none.
SameVersions ==
  \A pid \in Pids : rows'[pid] # NoRow =>
    \/ rows[pid] # NoRow /\ rows'[pid].ver = rows[pid].ver
    \/ pid > made /\ rows'[pid].ver = 0

\* Steps that neither change nor save what a player did, and end no game.
LEMMA QuietKeepsProgress ==
  ASSUME SInv, ProgressInv, UNCHANGED <<queue, last>>, made' \in Nat, made' >= made,
         excuses \subseteq excuses', SameVersions,
         \A c \in Conns : /\ held'[c] = held[c] \/ held'[c].pid = NoPid
                          /\ at[c] = "game" => at'[c] = "game" /\ held'[c] = held[c]
  PROVE  ProgressInv'
<1>1. made \in Nat /\ Pids \subseteq Nat /\ NoPid \notin Pids
  BY Limits DEF SInv, TypeOK
<1>2. \A pid \in Pids : SavesOf(pid)' = SavesOf(pid)
  BY DEF SavesOf
<1>3. Unborn'
  <2> SUFFICES ASSUME NEW pid \in Pids, pid > made' PROVE last[pid] = 0 /\ SavesOf(pid)' = {}
    BY DEF Unborn
  <2>1. pid > made
    BY <1>1
  <2> QED
    BY <1>2, <2>1 DEF ProgressInv, Unborn
<1>4. ASSUME Calm', NEW pid \in Pids, rows'[pid] # NoRow
      PROVE  HeldAreLast(pid)' /\ (Played(pid)' \/ Settled(pid)')
  <2>1. Calm
    BY <1>4 DEF Calm
  <2>2. CASE rows[pid] # NoRow /\ rows'[pid].ver = rows[pid].ver
    <3>1. HeldAreLast(pid) /\ (Played(pid) \/ Settled(pid))
      BY <2>1, <2>2 DEF ProgressInv, Kept
    <3>2. HeldAreLast(pid)'
      BY <1>1, <3>1 DEF HeldAreLast
    <3>3. Played(pid) => Played(pid)'
      BY DEF Played
    <3>4. Settled(pid) => Settled(pid)'
      BY <1>2, <2>2 DEF Settled
    <3> QED
      BY <3>1, <3>2, <3>3, <3>4
  <2>3. CASE pid > made /\ rows'[pid].ver = 0
    <3>1. last[pid] = 0 /\ SavesOf(pid) = {}
      BY <2>3 DEF ProgressInv, Unborn
    <3>2. \A c \in Conns : held[c].pid # pid
      BY <1>1, <2>3 DEF SInv, Own
    <3> QED
      BY <1>1, <1>2, <2>3, <3>1, <3>2 DEF HeldAreLast, Settled
  <2> QED
    BY <1>4, <2>2, <2>3 DEF SameVersions
<1> QED
  BY <1>3, <1>4 DEF ProgressInv, Kept

\* A save at the end of the queue.
LEMMA AppendedSave ==
  ASSUME queue \in Seq(Saves), NEW save \in Saves, queue' = Append(queue, save), NEW pid \in Pids
  PROVE  /\ pid # save.pid => SavesOf(pid)' = SavesOf(pid) /\ \A k \in SavesOf(pid) : queue'[k] = queue[k]
         /\ pid = save.pid =>
              \E n \in SavesOf(pid)' : /\ queue'[n] = save
                                       /\ \A k \in SavesOf(pid)' : k <= n
<1>1. PICK n \in Nat : n = Len(queue)
  OBVIOUS
<1>2. /\ DOMAIN queue = 1 .. n /\ DOMAIN queue' = 1 .. n + 1
      /\ queue'[n + 1] = save /\ \A k \in 1 .. n : queue'[k] = queue[k]
  BY <1>1
<1>3. CASE pid # save.pid
  BY <1>2, <1>3 DEF SavesOf
<1>4. CASE pid = save.pid
  <2>1. n + 1 \in SavesOf(pid)'
    BY <1>2, <1>4 DEF SavesOf
  <2>2. \A k \in SavesOf(pid)' : k <= n + 1
    BY <1>2 DEF SavesOf
  <2>3. \E m \in SavesOf(pid)' : queue'[m] = save /\ \A k \in SavesOf(pid)' : k <= m
    <3> WITNESS n + 1 \in SavesOf(pid)'
    <3> QED
      BY <1>2, <2>2
  <2> QED
    BY <1>4, <2>3
<1> QED
  BY <1>3, <1>4

\* A session reads, changes or saves its character, and may put a save in the queue.
LEMMA SaveKeepsProgress ==
  ASSUME SInv, ProgressInv, NEW save \in Saves, save.pid <= made,
         queue' = queue \/ queue' = Append(queue, save), UNCHANGED <<rows, made>>,
         excuses \subseteq excuses',
         \A pid \in Pids : pid # save.pid =>
           /\ last'[pid] = last[pid]
           /\ \A c \in Conns : held'[c].pid = pid <=> held[c].pid = pid
           /\ \A c \in Conns : held[c].pid = pid => held'[c] = held[c] /\ at'[c] = at[c],
         Calm' => /\ save.ver = last'[save.pid]
                  /\ HeldAreLast(save.pid)' /\ (Played(save.pid)' \/ queue' # queue \/ Settled(save.pid)')
  PROVE  ProgressInv'
<1>1. made \in Nat /\ Pids \subseteq Nat /\ queue \in Seq(Saves) /\ save.pid \in Pids
  BY Limits DEF SInv, TypeOK, Saves
<1>2. \A pid \in Pids : pid # save.pid =>
        SavesOf(pid)' = SavesOf(pid) /\ \A k \in SavesOf(pid) : queue'[k] = queue[k]
  BY <1>1, AppendedSave DEF SavesOf
<1>3. Unborn'
  <2> SUFFICES ASSUME NEW pid \in Pids, pid > made PROVE last'[pid] = 0 /\ SavesOf(pid)' = {}
    BY DEF Unborn
  <2>1. pid # save.pid
    BY <1>1
  <2> QED
    BY <1>2, <2>1 DEF ProgressInv, Unborn
<1>4. ASSUME Calm', NEW pid \in Pids, rows'[pid] # NoRow, pid # save.pid
      PROVE  HeldAreLast(pid)' /\ (Played(pid)' \/ Settled(pid)')
  <2>1. HeldAreLast(pid) /\ (Played(pid) \/ Settled(pid))
    BY <1>4 DEF ProgressInv, Kept, Calm
  <2>2. HeldAreLast(pid)'
    BY <1>4, <2>1 DEF HeldAreLast
  <2>3. Played(pid) => Played(pid)'
    BY <1>4 DEF Played
  <2>4. Settled(pid) => Settled(pid)'
    BY <1>2, <1>4 DEF Settled
  <2> QED
    BY <2>1, <2>2, <2>3, <2>4
<1>5. ASSUME Calm', queue' = Append(queue, save) PROVE Settled(save.pid)'
  <2>1. PICK n \in SavesOf(save.pid)' : queue'[n] = save /\ \A k \in SavesOf(save.pid)' : k <= n
    BY <1>1, <1>5, AppendedSave
  <2>2. SavesOf(save.pid)' \subseteq Nat
    BY <1>1, <1>5 DEF SavesOf
  <2>3. \A k \in SavesOf(save.pid)' : (\A j \in SavesOf(save.pid)' : j <= k) => k = n
    BY <2>1, <2>2
  <2> QED
    BY <1>5, <2>1, <2>3 DEF Settled
<1> QED
  BY <1>1, <1>3, <1>4, <1>5 DEF ProgressInv, Kept

\* The steps of a connection that are quiet.
LEMMA QuietSteps ==
  ASSUME SInv, ProgressInv, SInv', NEW c \in Conns, Connection(c),
         \A s \in Slots, corrected \in BOOLEAN : ~Select(c, s, corrected),
         \A saves \in BOOLEAN : ~Play(c, saves), \A safe \in BOOLEAN : ~Close(c, safe)
  PROVE  ProgressInv'
<1>0. /\ TypeOK /\ at \in [Conns -> Phases] /\ held \in [Conns -> Holds] /\ rows \in [Pids -> Rows]
      /\ op \in [Conns -> Ops] /\ made \in Nat /\ made' \in Nat
  BY DEF SInv, TypeOK
<1>1. OthersRest(c) /\ excuses \subseteq excuses'
  <2>1. CASE EnterGame(c) \/ Leave(c)
    BY <1>0, <2>1 DEF EnterGame, Leave, Goto, OthersRest, book
  <2> QED
    BY <1>0, <2>1, ConnectionRests
<1>2. /\ UNCHANGED <<queue, last>> /\ (at[c] = "game" => at'[c] = "game" /\ held'[c] = held[c])
      /\ (held'[c] = held[c] \/ held'[c].pid = NoPid) /\ (made' = made \/ made' = made + 1)
      /\ SameVersions
  <2>1. CASE UNCHANGED <<rows, made, queue, last, held>> /\ at[c] # "game"
    BY <2>1 DEF SameVersions
  <2>2. CASE \E a \in Accounts : Acquire(c, a)
    BY <2>1, <2>2 DEF Acquire, Accepted, database, book
  <2>3. CASE \/ Refuse(c) \/ Credentials(c) \/ Hangup(c) \/ CreateName(c) \/ RenameName(c)
             \/ EnterGame(c) \/ Leave(c)
             \/ \E s \in Slots : SelectNobody(c, s)
    BY <2>1, <2>3 DEF Refuse, Accepted, Credentials, Hangup, CreateName, RenameName, EnterGame,
                      Leave, SelectNobody, database, book
  <2>4. CASE \/ \E s \in Slots, n \in Names : AskCreate(c, s, n) \/ AskRename(c, s, n)
             \/ \E s \in Slots : AskDelete(c, s)
             \/ \E e \in Empires : AskEmpire(c, e)
    BY <2>1, <2>4 DEF AskCreate, AskRename, AskDelete, AskEmpire, Ask, database
  <2>5. CASE Unlock(c)
    BY <1>0, <2>5, Constructors DEF Unlock, database, book, SameVersions
  <2>6. ASSUME NEW r \in Results,
               \/ CreatePlace(c, r) \/ CreateSlot(c, r) \/ DeleteGate(c, r)
               \/ EmpireIndex(c, r) \/ EmpireMove(c, r)
        PROVE  UNCHANGED <<rows, made, queue, last, held>> /\ at[c] # "game"
    BY <2>6 DEF CreatePlace, CreateSlot, DeleteGate, EmpireIndex, EmpireMove, database
  <2>7. ASSUME NEW r \in Results, CreateUndo(c, r) \/ DeleteRow(c, r)
        PROVE  /\ UNCHANGED <<made, queue, last, held>> /\ at[c] # "game"
               /\ \A pid \in Pids : rows'[pid] # NoRow => rows'[pid] = rows[pid]
    BY <1>0, <2>7 DEF CreateUndo, DeleteRow
  <2>8. ASSUME NEW r \in Results, RenameWrite(c, r)
        PROVE  /\ UNCHANGED <<made, queue, last, held>> /\ at[c] # "game" /\ SameVersions
    <3>1. /\ UNCHANGED <<made, queue, last, held>> /\ at[c] = "rename.write"
          /\ rows' = rows \/ rows' = [rows EXCEPT ![op[c].pid].name = op[c].name]
      BY <2>8 DEF RenameWrite
    <3>2. rows[op[c].pid] # NoRow /\ op[c].pid \in Pids
      BY <1>0, <3>1, Fields DEF SInv, Own, Exists
    <3>3. PICK row : rows[op[c].pid] = row /\ row \in [account : Accounts, name : Names, ver : Versions]
      BY <1>0, <3>2, Constructors
    <3>4. [row EXCEPT !.name = op[c].name].ver = row.ver
      BY <3>3
    <3>5. \A pid \in Pids : rows'[pid].ver = rows[pid].ver /\ (rows[pid] = NoRow => rows'[pid] = NoRow)
      BY <1>0, <3>1, <3>2, <3>3, <3>4
    <3> QED
      BY <3>1, <3>5 DEF SameVersions
  <2>9. ASSUME NEW r \in Results, CreateInsert(c, r)
        PROVE  /\ UNCHANGED <<queue, last, held>> /\ at[c] # "game" /\ SameVersions
               /\ (made' = made \/ made' = made + 1)
    <3> DEFINE row == [account |-> who[c], name |-> op[c].name, ver |-> 0]
    <3>0. row.ver = 0
      OBVIOUS
    <3>1. /\ UNCHANGED <<queue, last, held>> /\ at[c] # "game"
          /\ \/ UNCHANGED <<made, rows>>
             \/ made' = made + 1 /\ rows' = [rows EXCEPT ![made + 1] = row]
      BY <2>9 DEF CreateInsert
    <3> HIDE DEF row
    <3>2. \A pid \in Pids : rows'[pid] = rows[pid] \/ (pid = made + 1 /\ rows'[pid].ver = 0)
      BY <1>0, <3>0, <3>1
    <3> QED
      BY <1>0, <3>1, <3>2 DEF SameVersions
  <2>10. CASE Statement(c)
    <3>1. PICK r \in Results :
        \/ CreateInsert(c, r) \/ CreatePlace(c, r) \/ CreateSlot(c, r) \/ CreateUndo(c, r)
        \/ DeleteGate(c, r) \/ DeleteRow(c, r) \/ RenameWrite(c, r)
        \/ EmpireIndex(c, r) \/ EmpireMove(c, r)
      BY <2>10 DEF Statement
    <3> QED
      BY <2>1, <2>6, <2>7, <2>8, <2>9, <3>1 DEF SameVersions
  <2> QED
    BY <2>2, <2>3, <2>4, <2>5, <2>10 DEF Connection, Proceed, Asks
<1>3. \A d \in Conns : /\ held'[d] = held[d] \/ held'[d].pid = NoPid
                       /\ at[d] = "game" => at'[d] = "game" /\ held'[d] = held[d]
  BY <1>1, <1>2 DEF OthersRest
<1>4. made' >= made
  BY <1>0, <1>2
<1> QED
  BY <1>0, <1>1, <1>2, <1>3, <1>4, QuietKeepsProgress

\* Load, play, save at the end.
LEMMA SavingSteps ==
  ASSUME SInv, ProgressInv, NEW c \in Conns,
         \/ \E s \in Slots, corrected \in BOOLEAN : Select(c, s, corrected)
         \/ \E saves \in BOOLEAN : Play(c, saves)
         \/ \E safe \in BOOLEAN : Close(c, safe)
  PROVE  ProgressInv'
<1>0. /\ TypeOK /\ at \in [Conns -> Phases] /\ held \in [Conns -> Holds] /\ rows \in [Pids -> Rows]
      /\ last \in [Pids -> Versions] /\ made \in Nat /\ queue \in Seq(Saves)
  BY DEF SInv, TypeOK
<1>1. ASSUME NEW d \in Conns, held[d].pid # NoPid
      PROVE  /\ held[d].pid \in Pids /\ held[d] \in Saves /\ held[d].pid <= made
             /\ rows[held[d].pid] # NoRow
             /\ \A e \in Conns : held[e].pid = held[d].pid => e = d
  <2>1. held[d].pid \in Pids /\ held[d] \in Holds
    BY <1>0, <1>1, Fields
  <2>2. held[d] \in Saves
    BY <2>1 DEF Holds, Saves
  <2> QED
    BY <1>1, <2>1, <2>2, OneSession DEF SInv, Own
<1>2. ASSUME NEW s \in Slots, NEW corrected \in BOOLEAN, Select(c, s, corrected) PROVE ProgressInv'
  <2>1. /\ at[c] = "select" /\ at[c] \in Serving \ Playing
        /\ at' = [at EXCEPT ![c] = "loaded"] /\ UNCHANGED <<rows, made, last, who, index>>
        /\ index[who[c]][s] # NoPid /\ rows[index[who[c]][s]] # NoRow
    BY <1>2 DEF Select, Goto, Exists, Serving, Playing
  <2>2. held[c].pid = NoPid /\ who[c] \in Accounts /\ who[c] # NoAccount
    BY <2>1, Listing, Limits
  <2>3. PICK p \in Pids : p = index[who[c]][s]
    BY <1>0, <2>1, <2>2 DEF TypeOK
  <2>4. /\ p <= made /\ rows[p] # NoRow /\ rows[p].account = who[c] /\ rows[p].ver \in Versions
    <3>1. rows[p] \in [account : Accounts, name : Names, ver : Versions]
      BY <1>0, <2>1, <2>3, Constructors
    <3> QED
      BY <2>1, <2>2, <2>3, <3>1 DEF SInv, TablesAgree
  <2>5. \A d \in Conns : held[d].pid # p
    <3> SUFFICES ASSUME NEW d \in Conns, held[d].pid = p PROVE FALSE
      OBVIOUS
    <3>1. who[d] = who[c]
      BY <2>3, <2>4, Limits DEF SInv, Own
    <3> QED
      BY <2>2, <2>3, <3>1, Limits DEF SInv, LoginsAreOwn
  <2> DEFINE row == [pid |-> p, ver |-> rows[p].ver]
  <2>6. row \in Saves /\ row.pid = p /\ row.ver = rows[p].ver
    BY <2>4 DEF Saves
  <2>7. /\ held' = [held EXCEPT ![c] = row] /\ queue' = (IF corrected THEN Append(queue, row) ELSE queue)
        /\ excuses' = excuses \cup {e \in {"stale"} : Pending(p)}
    BY <1>2, <2>3 DEF Select, Excuse
  <2> HIDE DEF row
  <2>8. \A d \in Conns : held'[d] = IF d = c THEN row ELSE held[d]
    BY <1>0, <2>7
  <2>9. \A d \in Conns : at'[d] = IF d = c THEN "loaded" ELSE at[d]
    BY <1>0, <2>1
  <2>10. ASSUME Calm' PROVE row.ver = last[p] /\ HeldAreLast(p)' /\ (queue' # queue \/ Settled(p)')
    <3>1. Calm /\ SavesOf(p) = {}
      BY <2>7, <2>10 DEF Calm, Pending, SavesOf
    <3>2. ~Played(p)
      BY <2>5 DEF Played
    <3>3. rows[p].ver = last[p]
      BY <2>4, <3>1, <3>2 DEF ProgressInv, Kept, Settled
    <3>4. HeldAreLast(p)'
      BY <2>1, <2>5, <2>6, <2>8, <3>3 DEF HeldAreLast
    <3>5. queue' = queue => Settled(p)'
      BY <2>1, <3>1, <3>3 DEF Settled, SavesOf
    <3> QED
      BY <2>6, <3>3, <3>4, <3>5
  <2>11. \A pid \in Pids : pid # p =>
           /\ last'[pid] = last[pid]
           /\ \A d \in Conns : held'[d].pid = pid <=> held[d].pid = pid
           /\ \A d \in Conns : held[d].pid = pid => held'[d] = held[d] /\ at'[d] = at[d]
    BY <2>1, <2>2, <2>6, <2>8, <2>9, Limits
  <2>12. row.pid <= made /\ (queue' = queue \/ queue' = Append(queue, row)) /\ excuses \subseteq excuses'
    BY <2>4, <2>6, <2>7
  <2> QED
    BY <2>1, <2>6, <2>10, <2>11, <2>12, SaveKeepsProgress
<1>3. ASSUME NEW saves \in BOOLEAN, Play(c, saves) PROVE ProgressInv'
  <2>1. at[c] = "game" /\ UNCHANGED <<at, rows, made, excuses>>
    BY <1>3 DEF Play
  <2>2. PICK p \in Pids : p = held[c].pid
    BY <1>0, <1>1, <2>1 DEF SInv, Own, Playing
  <2>3. p <= made /\ p # NoPid /\ \A d \in Conns : held[d].pid = p => d = c
    BY <1>1, <2>2, Limits
  <2> DEFINE row == [pid |-> p, ver |-> last[p] + 1]
  <2>4. /\ held' = [held EXCEPT ![c] = row] /\ queue' = (IF saves THEN Append(queue, row) ELSE queue)
        /\ last' = [last EXCEPT ![p] = row.ver] /\ row.pid = p
    BY <1>3, <2>2 DEF Play
  <2>5. row \in Saves
    <3>1. SInv'
      BY <1>3, PlayStep
    <3>2. last'[p] \in Versions /\ last'[p] = row.ver
      BY <1>0, <2>4, <3>1 DEF SInv, TypeOK
    <3> QED
      BY <2>4, <3>2 DEF Saves
  <2> HIDE DEF row
  <2>6. /\ \A d \in Conns : held'[d] = IF d = c THEN row ELSE held[d]
        /\ \A pid \in Pids : last'[pid] = IF pid = p THEN row.ver ELSE last[pid]
    BY <1>0, <2>4
  <2>7. HeldAreLast(p)' /\ Played(p)' /\ row.ver = last'[p]
    BY <2>1, <2>3, <2>4, <2>6 DEF HeldAreLast, Played
  <2>8. \A pid \in Pids : pid # p =>
           /\ last'[pid] = last[pid]
           /\ \A d \in Conns : held'[d].pid = pid <=> held[d].pid = pid
           /\ \A d \in Conns : held[d].pid = pid => held'[d] = held[d] /\ at'[d] = at[d]
    BY <2>1, <2>2, <2>4, <2>6
  <2>9. row.pid <= made /\ (queue' = queue \/ queue' = Append(queue, row)) /\ excuses \subseteq excuses'
    BY <2>1, <2>3, <2>4
  <2> QED
    BY <2>1, <2>4, <2>5, <2>7, <2>8, <2>9, SaveKeepsProgress
<1>4. ASSUME NEW safe \in BOOLEAN, Close(c, safe) PROVE ProgressInv'
  <2>1. /\ at[c] = "game" /\ at' = [at EXCEPT ![c] = "leaving"] /\ UNCHANGED <<held, rows, made, last>>
        /\ queue' = (IF safe THEN Append(queue, held[c]) ELSE queue)
        /\ excuses \subseteq excuses' /\ (~safe => "unsaved" \in excuses')
    BY <1>4 DEF Close, Goto, Excuse
  <2>2. PICK p \in Pids : p = held[c].pid
    BY <1>0, <1>1, <2>1 DEF SInv, Own, Playing
  <2>3. held[c] \in Saves /\ p <= made /\ rows[p] # NoRow /\ \A d \in Conns : held[d].pid = p => d = c
    BY <1>1, <2>2, Limits
  <2>4. \A d \in Conns : at'[d] = IF d = c THEN "leaving" ELSE at[d]
    BY <1>0, <2>1
  <2>5. ASSUME Calm' PROVE held[c].ver = last[p] /\ HeldAreLast(p)' /\ queue' # queue
    <3>1. Calm /\ safe
      BY <2>1, <2>5 DEF Calm
    <3>2. HeldAreLast(p)
      BY <2>3, <3>1 DEF ProgressInv, Kept
    <3>3. Append(queue, held[c]) # queue
      BY <1>0, <2>3
    <3> QED
      BY <2>1, <2>2, <3>1, <3>2, <3>3 DEF HeldAreLast
  <2>6. \A pid \in Pids : pid # p =>
           /\ last'[pid] = last[pid]
           /\ \A d \in Conns : held'[d].pid = pid <=> held[d].pid = pid
           /\ \A d \in Conns : held[d].pid = pid => held'[d] = held[d] /\ at'[d] = at[d]
    BY <2>1, <2>2, <2>4
  <2>7. PICK save \in Saves : save = held[c]
    BY <2>3
  <2>8. (queue' = queue \/ queue' = Append(queue, save)) /\ save.pid = p
    BY <2>1, <2>2, <2>7
  <2> QED
    BY <2>1, <2>3, <2>5, <2>6, <2>7, <2>8, SaveKeepsProgress
<1> QED
  BY <1>2, <1>3, <1>4

\* The batcher writes the first save.
LEMMA CommitKeepsProgress ==
  ASSUME SInv, ProgressInv, Commit
  PROVE  ProgressInv'
<1>0. /\ TypeOK /\ rows \in [Pids -> Rows] /\ queue \in Seq(Saves)
      /\ UNCHANGED <<held, at, made, last, excuses>>
      /\ queue # <<>> /\ queue' = Tail(queue) /\ rows' = Apply(rows, Head(queue))
  BY DEF SInv, TypeOK, Commit, channel, book
<1>1. PICK n \in Nat : n = Len(queue) /\ n > 0
  BY <1>0
<1>2. /\ DOMAIN queue = 1 .. n /\ DOMAIN queue' = 1 .. n - 1
      /\ \A k \in 1 .. n - 1 : queue'[k] = queue[k + 1]
      /\ Head(queue) = queue[1] /\ queue[1] \in Saves
  BY <1>0, <1>1
<1>3. PICK save \in Saves : save = queue[1] /\ save.pid \in Pids
  BY <1>2 DEF Saves
<1>4. /\ \A pid \in Pids : pid # save.pid => rows'[pid] = rows[pid]
      /\ rows[save.pid] = NoRow => rows' = rows
      /\ rows[save.pid] # NoRow => rows'[save.pid].ver = save.ver
  <2>1. CASE rows[save.pid] = NoRow
    BY <1>0, <1>2, <1>3, <2>1 DEF Apply
  <2>2. CASE rows[save.pid] # NoRow
    <3>1. PICK row : rows[save.pid] = row /\ row \in [account : Accounts, name : Names, ver : Versions]
      BY <1>0, <1>3, <2>2, Constructors
    <3>2. PICK new : new = [row EXCEPT !.ver = save.ver]
      OBVIOUS
    <3>3. new.ver = save.ver
      BY <3>1, <3>2
    <3>4. rows' = [rows EXCEPT ![save.pid] = new]
      BY <1>0, <1>2, <1>3, <2>2, <3>1, <3>2 DEF Apply
    <3> QED
      BY <1>0, <1>3, <2>2, <3>3, <3>4
  <2> QED
    BY <2>1, <2>2
<1> SUFFICES ASSUME NEW pid \in Pids
             PROVE  /\ SavesOf(pid) = {} => SavesOf(pid)' = {}
                    /\ Calm /\ Kept(pid) => Kept(pid)'
  BY <1>0 DEF ProgressInv, Unborn, Calm
<1>5. /\ SavesOf(pid) \subseteq 1 .. n
      /\ \A k : k \in SavesOf(pid)' <=> k \in 1 .. n - 1 /\ k + 1 \in SavesOf(pid)
      /\ 1 \in SavesOf(pid) <=> pid = save.pid
  BY <1>1, <1>2, <1>3 DEF SavesOf
<1>6. \A k \in SavesOf(pid) : k # 1 => k - 1 \in SavesOf(pid)' /\ (k - 1) + 1 = k
  BY <1>5
<1>7. SavesOf(pid) = {} => SavesOf(pid)' = {}
  BY <1>5
<1>8. ASSUME Kept(pid), rows'[pid] # NoRow PROVE Kept(pid)'
  <2>1. rows[pid] # NoRow
    BY <1>4, <1>8
  <2>2. HeldAreLast(pid)' /\ (Played(pid) => Played(pid)')
    BY <1>0, <1>8, <2>1 DEF Kept, HeldAreLast, Played
  <2>3. ASSUME Settled(pid) PROVE Settled(pid)'
    <3>1. ASSUME NEW k \in SavesOf(pid)', \A j \in SavesOf(pid)' : j <= k
          PROVE  queue'[k].ver = last[pid]
      <4>1. k \in 1 .. n - 1 /\ k + 1 \in SavesOf(pid) /\ queue'[k] = queue[k + 1]
        BY <1>2, <1>5
      <4>2. \A j \in SavesOf(pid) : j <= k + 1
        <5> SUFFICES ASSUME NEW j \in SavesOf(pid), j # 1 PROVE j <= k + 1
          BY <4>1
        <5>1. j - 1 <= k /\ j \in 1 .. n
          BY <1>5, <1>6, <3>1
        <5> QED
          BY <4>1, <5>1
      <4> QED
        BY <2>3, <4>1, <4>2 DEF Settled
    <3>2. ASSUME SavesOf(pid)' = {} PROVE rows'[pid].ver = last[pid]
      <4>1. \A j \in SavesOf(pid) : j = 1
        BY <1>6, <3>2
      <4>2. CASE SavesOf(pid) = {}
        BY <1>4, <1>5, <2>3, <4>2 DEF Settled
      <4>3. CASE SavesOf(pid) # {}
        <5>1. 1 \in SavesOf(pid) /\ pid = save.pid
          BY <1>5, <4>1, <4>3
        <5>2. queue[1].ver = last[pid]
          BY <2>3, <4>1, <5>1 DEF Settled
        <5> QED
          BY <1>3, <1>4, <2>1, <5>1, <5>2
      <4> QED
        BY <4>2, <4>3
    <3> QED
      BY <1>0, <3>1, <3>2 DEF Settled
  <2> QED
    BY <1>8, <2>1, <2>2, <2>3 DEF Kept
<1> QED
  BY <1>7, <1>8 DEF Kept

\* Every step keeps the progress.
LEMMA NextProgress ==
  ASSUME SInv, ProgressInv, [Next]_vars
  PROVE  ProgressInv'
<1>0. SInv'
  BY NextInv
<1>1. made \in Nat
  BY DEF SInv, TypeOK
<1>2. CASE UNCHANGED vars
  <2>1. UNCHANGED <<at, held, rows, queue, made, last, excuses>>
    BY <1>2 DEF vars, channel, database, book
  <2> QED
    BY <1>1, <2>1, QuietKeepsProgress DEF SameVersions
<1>3. ASSUME NEW built \in BOOLEAN, WorldStep(built) PROVE ProgressInv'
  <2>1. UNCHANGED <<at, held, rows, queue, made, last>> /\ excuses \subseteq excuses'
    BY <1>3 DEF WorldStep, channel, database, Excuse
  <2> QED
    BY <1>1, <2>1, QuietKeepsProgress DEF SameVersions
<1>4. CASE Crash
  <2>1. queue' = <<>> /\ UNCHANGED <<made, last>> /\ "crash" \in excuses'
    BY <1>4 DEF Crash, Excuse
  <2>2. \A pid \in Pids : SavesOf(pid)' = {}
    BY <2>1 DEF SavesOf
  <2>3. ~Calm'
    BY <2>1 DEF Calm
  <2>4. Unborn'
    BY <2>1, <2>2 DEF ProgressInv, Unborn
  <2> QED
    BY <2>3, <2>4 DEF ProgressInv
<1>5. ASSUME NEW c \in Conns, Connection(c) PROVE ProgressInv'
  BY <1>0, <1>5, QuietSteps, SavingSteps
<1> QED
  BY <1>2, <1>3, <1>4, <1>5, CommitKeepsProgress DEF Next, Channel

\* What a player did is in its row when nobody holds the character and no save of it waits
\* (game::run, Session::save).
THEOREM ProgressStays == Spec => []ProgressIsKept
<1>1. Init => ProgressInv
  <2> SUFFICES ASSUME Init PROVE ProgressInv
    OBVIOUS
  <2>1. \A pid \in Pids : SavesOf(pid) = {} /\ last[pid] = 0 /\ rows[pid] = NoRow
    BY DEF Init, SavesOf
  <2> QED
    BY <2>1 DEF ProgressInv, Unborn, Kept
<1>2. SInv /\ ProgressInv /\ [Next]_vars => ProgressInv'
  BY NextProgress
<1>3. ProgressInv => ProgressIsKept
  <2> SUFFICES ASSUME ProgressInv, Calm, NEW pid \in Pids, rows[pid] # NoRow, Idle(pid)
               PROVE  rows[pid].ver = last[pid]
    BY DEF ProgressIsKept, Calm, Exists
  <2>1. SavesOf(pid) = {} /\ ~Played(pid)
    BY DEF Idle, Pending, SavesOf, Played
  <2> QED
    BY <2>1 DEF ProgressInv, Kept, Settled
<1> QED
  BY <1>1, <1>2, <1>3, EntryIsConsistent, PTL DEF Spec

-----------------------------------------------------------------------------
(* The list of characters and the rows                                     *)

\* Two characters of an account have different names, a character is in one slot at most, a slot
\* has a row unless a rollback took it, and a row has a slot, or a handler that is about to give it
\* one or to delete it, unless its statements failed.
Shown(pid) == \E a \in Accounts, s \in Slots : index[a][s] = pid
Opening == {"create.place", "create.slot", "create.undo"}
Unlisted(c, pid) == op[c].pid = pid /\ at[c] \in Opening \cup {"delete.row"}

NamesAreChecked ==
  \A p, q \in Pids :
    p # q /\ rows[p] # NoRow /\ rows[q] # NoRow /\ rows[p].account = rows[q].account
      => rows[p].name # rows[q].name
OneSlot(pid) ==
  \A a, b \in Accounts, s, t \in Slots : index[a][s] = pid /\ index[b][t] = pid => a = b /\ s = t
SlotIsRow(pid) == "dangling" \notin excuses /\ Shown(pid) => rows[pid] # NoRow
RowIsShown(pid) ==
  "orphan" \notin excuses /\ rows[pid] # NoRow => Shown(pid) \/ \E c \in Conns : Unlisted(c, pid)

\* What the handlers of the list have checked before they write.
Lists(c) ==
  /\ at[c] \in {"create.name", "create.insert", "create.place", "create.slot"} =>
       op[c].slot \in Slots /\ index[who[c]][op[c].slot] = NoPid
  /\ at[c] \in {"create.name", "create.insert"} => op[c].pid = NoPid
  /\ at[c] \in {"create.insert", "rename.write"} =>
       \A p \in Pids : p # op[c].pid /\ rows[p] # NoRow /\ rows[p].account = who[c]
                         => rows[p].name # op[c].name
  /\ at[c] \in Opening => rows[op[c].pid] # NoRow
  /\ at[c] \in {"create.undo", "delete.gate"} => op[c].slot \in Slots
  /\ at[c] \in {"create.place", "create.slot", "delete.row"} => ~Shown(op[c].pid)
  /\ at[c] = "create.undo" =>
       \A a \in Accounts, s \in Slots : index[a][s] = op[c].pid => a = who[c] /\ s = op[c].slot

ListInv ==
  /\ NamesAreChecked
  /\ \A pid \in Pids : OneSlot(pid) /\ SlotIsRow(pid) /\ RowIsShown(pid)
  /\ \A c \in Conns : Lists(c)

\* A step that changes no name, no account and no slot, and no handler of the list.
LEMMA QuietKeepsList ==
  ASSUME ListInv, UNCHANGED index, excuses \subseteq excuses',
         \A pid \in Pids : /\ rows'[pid] = NoRow <=> rows[pid] = NoRow
                           /\ rows'[pid].account = rows[pid].account /\ rows'[pid].name = rows[pid].name,
         \/ UNCHANGED <<at, who, op>>
         \/ /\ \A c \in Conns : at'[c] \in {"new", "closed"}
            /\ (\E c \in Conns : at[c] \in Opening \cup {"delete.row"}) => "orphan" \in excuses',
         SInv
  PROVE  ListInv'
<1>1. NamesAreChecked'
  BY DEF ListInv, NamesAreChecked
<1>2. ASSUME NEW pid \in Pids PROVE OneSlot(pid)' /\ SlotIsRow(pid)' /\ RowIsShown(pid)'
  <2>1. OneSlot(pid) /\ SlotIsRow(pid) /\ RowIsShown(pid) /\ (Shown(pid)' <=> Shown(pid))
    BY DEF ListInv, Shown
  <2>2. OneSlot(pid)' /\ SlotIsRow(pid)'
    BY <2>1 DEF OneSlot, SlotIsRow
  <2>3. RowIsShown(pid)'
    BY <2>1 DEF RowIsShown, Unlisted
  <2> QED
    BY <2>2, <2>3
<1>3. ASSUME NEW c \in Conns PROVE Lists(c)'
  <2>1. CASE at'[c] \in {"new", "closed"}
    BY <2>1 DEF Lists, Opening
  <2>2. CASE UNCHANGED <<at, who, op>>
    <3>1. Lists(c) /\ \A pid : Shown(pid)' <=> Shown(pid)
      BY DEF ListInv, Shown
    <3>2. at[c] \in Opening => (rows'[op[c].pid] = NoRow <=> rows[op[c].pid] = NoRow)
      <4>1. at[c] \in Opening => op[c].pid \in Pids
        BY Fields DEF SInv, Own, Handling, Opening
      <4> QED
        BY <4>1
    <3> QED
      BY <2>2, <3>1, <3>2 DEF Lists
  <2> QED
    BY <2>1, <2>2
<1> QED
  BY <1>1, <1>2, <1>3 DEF ListInv

\* What a step of one connection does to the rows and the slots: one character of its account, or a
\* new one, is written, and at most one slot of its account gets or loses it.
Writes(c, p) ==
  /\ who[c] \in Accounts /\ p \in Pids
  /\ rows[p] # NoRow => rows[p].account = who[c]
  /\ rows'[p] # NoRow => rows'[p].account = who[c]
  /\ \A q \in Pids \ {p} : rows'[q] = rows[q]
  /\ \A a \in Accounts, s \in Slots :
       \/ index'[a][s] = index[a][s]
       \/ a = who[c] /\ index[a][s] = NoPid /\ index'[a][s] = p /\ rows[p] # NoRow
       \/ a = who[c] /\ index[a][s] = p /\ index'[a][s] = NoPid

\* What the handlers of other accounts have checked stays true.
LEMMA OthersLists ==
  ASSUME SInv, ListInv, NEW c \in Conns, OthersRest(c), NEW p, UNCHANGED <<rows, index>> \/ Writes(c, p),
         NEW d \in Conns \ {c}
  PROVE  Lists(d)'
<1>0. /\ Lists(d) /\ Own(d) /\ TypeOK /\ UNCHANGED <<at[d], who[d], op[d]>>
      /\ op[d].pid \in Pids \cup {NoPid} /\ (at[d] \in Handling => op[d].pid \in Pids)
  <2>1. Lists(d) /\ Own(d) /\ TypeOK
    BY DEF ListInv, SInv
  <2> QED
    BY <2>1, Fields DEF OthersRest, Own
<1>1. CASE UNCHANGED <<rows, index>>
  BY <1>0, <1>1 DEF Lists, Shown
<1>2. CASE Writes(c, p)
  <2>1. /\ who[c] # NoAccount /\ who[d] # who[c]
        /\ at[d] \in Handling \cup {"create.name", "create.insert"} => who[d] \in Accounts
    <3>1. at[d] \in Handling \cup {"create.name", "create.insert"} => at[d] \in Serving
      BY DEF Handling, Serving
    <3>2. at[d] \in Serving => who[d] # NoAccount
      BY DEF SInv, LoginsAreOwn, Phased
    <3>3. who[d] \in Accounts \cup {NoAccount}
      BY <1>0, Fields
    <3> QED
      BY <1>2, <3>1, <3>2, <3>3, Limits DEF SInv, LoginsAreOwn, Writes
  <2>2. \A a \in Accounts, s \in Slots : a # who[c] => index'[a][s] = index[a][s]
    BY <1>2 DEF Writes
  <2>3. ASSUME NEW q \in Pids, q = op[d].pid, rows[q] # NoRow \/ p # q
        PROVE  rows'[q] = rows[q]
    <3>1. rows[q] # NoRow => q # p
      BY <1>0, <1>2, <2>1, <2>3, Limits DEF Own, Writes
    <3> QED
      BY <1>2, <2>3, <3>1 DEF Writes
  <2>4. ASSUME NEW a \in Accounts, NEW s \in Slots, at[d] \in Handling, index'[a][s] = op[d].pid
        PROVE  index[a][s] = op[d].pid
    <3>1. op[d].pid # NoPid /\ op[d].pid \in Pids
      BY <1>0, <2>4, Limits
    <3>2. CASE index'[a][s] = p /\ rows[p] # NoRow
      BY <1>0, <1>2, <2>1, <2>4, <3>1, <3>2 DEF Own, Writes
    <3> QED
      BY <1>2, <2>4, <3>1, <3>2 DEF Writes
  <2>5. /\ at[d] \in {"create.name", "create.insert", "create.place", "create.slot"} =>
             op[d].slot \in Slots /\ index'[who[d]][op[d].slot] = NoPid
        /\ at[d] \in {"create.name", "create.insert"} => op[d].pid = NoPid
        /\ at[d] \in {"create.undo", "delete.gate"} => op[d].slot \in Slots
    BY <1>0, <2>1, <2>2 DEF Lists, Handling
  <2>6. ASSUME at[d] \in {"create.insert", "rename.write"},
               NEW q \in Pids, q # op[d].pid, rows'[q] # NoRow, rows'[q].account = who[d]
        PROVE  rows'[q].name # op[d].name
    <3>1. rows'[q] = rows[q]
      BY <1>2, <2>1, <2>6 DEF Writes
    <3> QED
      BY <1>0, <2>6, <3>1 DEF Lists
  <2>7. at[d] \in Opening => rows'[op[d].pid] # NoRow
    <3>1. at[d] \in Opening => at[d] \in Handling /\ rows[op[d].pid] # NoRow
      BY <1>0 DEF Lists, Opening, Handling
    <3> QED
      BY <1>0, <2>3, <3>1
  <2>8. at[d] \in {"create.place", "create.slot", "delete.row"} => ~Shown(op[d].pid)'
    <3>1. at[d] \in {"create.place", "create.slot", "delete.row"} => at[d] \in Handling /\ ~Shown(op[d].pid)
      BY <1>0 DEF Lists, Handling
    <3> QED
      BY <1>0, <2>4, <3>1 DEF Shown
  <2>9. at[d] = "create.undo" =>
          \A a \in Accounts, s \in Slots : index'[a][s] = op[d].pid => a = who[d] /\ s = op[d].slot
    <3>1. "create.undo" \in Handling
      BY DEF Handling
    <3> QED
      BY <1>0, <2>4, <3>1 DEF Lists
  <2> QED
    BY <1>0, <2>5, <2>6, <2>7, <2>8, <2>9 DEF Lists
<1> QED
  BY <1>1, <1>2

\* What a step of a connection that writes the character p must show.
LEMMA WriteKeepsList ==
  ASSUME SInv, ListInv, NEW c \in Conns, OthersRest(c), NEW p, Writes(c, p),
         excuses \subseteq excuses', Lists(c)',
         at[c] \in Opening \cup {"delete.row"} => op[c].pid = p,
         OneSlot(p)', SlotIsRow(p)', RowIsShown(p)',
         \A q \in Pids \ {p} : rows'[p] # NoRow /\ rows[q] # NoRow /\ rows[q].account = who[c]
                              => rows[q].name # rows'[p].name
  PROVE  ListInv'
<1>1. \A d \in Conns : Lists(d)'
  BY OthersLists
<1>2. NamesAreChecked'
  <2> SUFFICES ASSUME NEW q \in Pids, NEW r \in Pids, q # r, rows'[q] # NoRow, rows'[r] # NoRow,
                      rows'[q].account = rows'[r].account
               PROVE  rows'[q].name # rows'[r].name
    BY DEF NamesAreChecked
  <2>1. CASE q # p /\ r # p
    BY <2>1 DEF ListInv, NamesAreChecked, Writes
  <2>2. CASE q = p
    BY <2>2 DEF Writes
  <2>3. CASE r = p
    BY <2>3 DEF Writes
  <2> QED
    BY <2>1, <2>2, <2>3
<1>3. ASSUME NEW pid \in Pids, pid # p PROVE OneSlot(pid)' /\ SlotIsRow(pid)' /\ RowIsShown(pid)'
  <2>0. OneSlot(pid) /\ SlotIsRow(pid) /\ RowIsShown(pid) /\ rows'[pid] = rows[pid]
    BY <1>3 DEF ListInv, Writes
  <2>1. \A a \in Accounts, s \in Slots : index'[a][s] = pid <=> index[a][s] = pid
    BY <1>3, Limits DEF Writes
  <2>2. Shown(pid)' <=> Shown(pid)
    BY <2>1 DEF Shown
  <2>3. OneSlot(pid)'
    BY <2>0, <2>1 DEF OneSlot
  <2>4. SlotIsRow(pid)'
    BY <2>0, <2>2 DEF SlotIsRow
  <2>5. \A d \in Conns : Unlisted(d, pid) => Unlisted(d, pid)'
    BY <1>3 DEF Unlisted, OthersRest
  <2>6. RowIsShown(pid)'
    BY <2>0, <2>2, <2>5 DEF RowIsShown
  <2> QED
    BY <2>3, <2>4, <2>6
<1> QED
  BY <1>1, <1>2, <1>3 DEF ListInv

\* What a step of a connection that writes nothing must show.
LEMMA RestKeepsList ==
  ASSUME SInv, ListInv, NEW c \in Conns, OthersRest(c), UNCHANGED <<rows, index>>,
         excuses \subseteq excuses', Lists(c)',
         \A pid \in Pids : Unlisted(c, pid) => RowIsShown(pid)' \/ Unlisted(c, pid)'
  PROVE  ListInv'
<1>1. \A d \in Conns : Lists(d)'
  BY OthersLists
<1>2. NamesAreChecked'
  BY DEF ListInv, NamesAreChecked
<1>3. ASSUME NEW pid \in Pids PROVE OneSlot(pid)' /\ SlotIsRow(pid)' /\ RowIsShown(pid)'
  <2>0. OneSlot(pid) /\ SlotIsRow(pid) /\ RowIsShown(pid) /\ (Shown(pid)' <=> Shown(pid))
    BY DEF ListInv, Shown
  <2>1. OneSlot(pid)' /\ SlotIsRow(pid)'
    BY <2>0 DEF OneSlot, SlotIsRow
  <2>2. CASE \A d \in Conns : Unlisted(d, pid) => Unlisted(d, pid)'
    BY <2>0, <2>1, <2>2 DEF RowIsShown
  <2>3. CASE \E d \in Conns : Unlisted(d, pid) /\ ~Unlisted(d, pid)'
    <3>1. Unlisted(c, pid) /\ ~Unlisted(c, pid)'
      BY <2>3 DEF Unlisted, OthersRest
    <3> QED
      BY <2>1, <3>1 DEF Unlisted
  <2> QED
    BY <2>2, <2>3
<1> QED
  BY <1>1, <1>2, <1>3 DEF ListInv

-----------------------------------------------------------------------------
\* The handlers that write nothing.
LEMMA RestingSteps ==
  ASSUME SInv, ListInv, NEW c \in Conns, Connection(c), UNCHANGED <<rows, index>>,
         \A n \in Names, s \in Slots : ~AskCreate(c, s, n),
         ~Statement(c)
  PROVE  ListInv'
<1>0. /\ TypeOK /\ at \in [Conns -> Phases] /\ op \in [Conns -> Ops]
  BY DEF SInv, TypeOK
<1>1. OthersRest(c) /\ excuses \subseteq excuses'
  <2>1. CASE EnterGame(c) \/ Leave(c)
    BY <1>0, <2>1 DEF EnterGame, Leave, Goto, OthersRest, book
  <2> QED
    BY <1>0, <2>1, ConnectionRests
<1>2. CASE at[c] \notin Opening \cup {"delete.row"} /\ Lists(c)'
  BY <1>1, <1>2, RestKeepsList DEF Unlisted
<1>3. CASE CreateName(c)
  <2>1. Lists(c)
    BY DEF ListInv
  <2>2. at[c] = "create.name" /\ UNCHANGED <<rows, index, who>>
    BY <1>3 DEF CreateName, database
  <2>3. CASE NameTaken(op[c].name, NoPid)
    <3>1. at'[c] = "select"
      BY <1>0, <1>3, <2>3 DEF CreateName, Return, Goto
    <3> QED
      BY <1>2, <2>2, <3>1 DEF Lists, Opening
  <2>4. CASE ~NameTaken(op[c].name, NoPid)
    <3>1. at'[c] = "create.insert" /\ op' = op
      BY <1>0, <1>3, <2>4 DEF CreateName, Goto
    <3>2. \A pid \in Pids : rows[pid] # NoRow => rows[pid].name # op[c].name
      BY <2>4, Limits DEF NameTaken, Exists
    <3>3. Lists(c)'
      BY <2>1, <2>2, <3>1, <3>2 DEF Lists, Opening
    <3> QED
      BY <1>2, <2>2, <3>3 DEF Opening
  <2> QED
    BY <2>3, <2>4
<1>4. CASE RenameName(c)
  <2>2. at[c] = "rename.name" /\ UNCHANGED <<rows, index, who>>
    BY <1>4 DEF RenameName, database
  <2>3. CASE NameTaken(op[c].name, op[c].pid)
    <3>1. at'[c] = "select"
      BY <1>0, <1>4, <2>3 DEF RenameName, Return, Goto
    <3> QED
      BY <1>2, <2>2, <3>1 DEF Lists, Opening
  <2>4. CASE ~NameTaken(op[c].name, op[c].pid)
    <3>1. at'[c] = "rename.write" /\ op' = op
      BY <1>0, <1>4, <2>4 DEF RenameName, Goto
    <3>2. \A pid \in Pids : pid # op[c].pid /\ rows[pid] # NoRow => rows[pid].name # op[c].name
      BY <2>4, Limits DEF NameTaken, Exists
    <3>3. Lists(c)'
      BY <2>2, <3>1, <3>2 DEF Lists, Opening
    <3> QED
      BY <1>2, <2>2, <3>3 DEF Opening
  <2> QED
    BY <2>3, <2>4
<1>5. ASSUME at[c] \notin Opening \cup {"delete.row"},
             at'[c] \in {"closed", "login", "select", "unlocking", "rename.name", "empire.index",
                         "loaded", "game", "leaving"}
      PROVE  ListInv'
  BY <1>2, <1>5 DEF Lists, Opening
<1>6. CASE (\E a \in Accounts : Acquire(c, a)) \/ Refuse(c) \/ Credentials(c) \/ Hangup(c) \/ Unlock(c)
  BY <1>0, <1>5, <1>6 DEF Acquire, Accepted, Refuse, Credentials, Hangup, Unlock, Goto, Opening
<1>7. CASE \/ EnterGame(c) \/ Leave(c)
           \/ \E safe \in BOOLEAN : Close(c, safe)
           \/ \E saves \in BOOLEAN : Play(c, saves)
  BY <1>0, <1>5, <1>7 DEF EnterGame, Leave, Close, Play, Goto, Opening
<1>8. CASE \/ \E s \in Slots : SelectNobody(c, s)
           \/ \E s \in Slots, corrected \in BOOLEAN : Select(c, s, corrected)
  BY <1>0, <1>5, <1>8 DEF SelectNobody, Select, Goto, Opening
<1>9. ASSUME NEW s \in Slots, AskDelete(c, s) PROVE ListInv'
  <2> DEFINE o == Op(s, "none", index[who[c]][s], 0)
  <2>0. o.slot = s
    BY DEF Op
  <2>1. at[c] = "select" /\ at'[c] = "delete.gate" /\ op' = [op EXCEPT ![c] = o]
    BY <1>0, <1>9 DEF AskDelete, Ask, Goto
  <2> HIDE DEF o
  <2>2. op'[c].slot \in Slots
    BY <1>0, <2>0, <2>1
  <2> QED
    BY <1>2, <2>1, <2>2 DEF Lists, Opening
<1>10. CASE (\E s \in Slots, n \in Names : AskRename(c, s, n)) \/ (\E e \in Empires : AskEmpire(c, e))
  BY <1>0, <1>5, <1>10 DEF AskRename, AskEmpire, Ask, Goto, Opening
<1> QED
  BY <1>3, <1>4, <1>6, <1>7, <1>8, <1>9, <1>10 DEF Connection, Proceed, Asks

\* AskCreate only asks for a slot that is free; its handler has no character yet.
LEMMA AskCreateStep ==
  ASSUME SInv, ListInv, NEW c \in Conns, NEW s \in Slots, NEW n \in Names, AskCreate(c, s, n)
  PROVE  ListInv'
<1>0. /\ TypeOK /\ at \in [Conns -> Phases] /\ op \in [Conns -> Ops]
  BY DEF SInv, TypeOK
<1> DEFINE o == Op(s, n, NoPid, 0)
<1>1. o.slot = s /\ o.pid = NoPid
  BY DEF Op
<1>2. /\ at[c] = "select" /\ at' = [at EXCEPT ![c] = "create.name"] /\ op' = [op EXCEPT ![c] = o]
      /\ index[who[c]][s] = NoPid /\ UNCHANGED <<rows, index, who, held, excuses>>
  BY <1>0 DEF AskCreate, Ask, Goto, database
<1> HIDE DEF o
<1>3. at'[c] = "create.name" /\ op'[c] = o /\ OthersRest(c)
  BY <1>0, <1>2 DEF OthersRest
<1>4. Lists(c)'
  BY <1>1, <1>2, <1>3 DEF Lists, Opening
<1> QED
  BY <1>2, <1>3, <1>4, RestKeepsList DEF Unlisted, Opening

\* The phases of the statements are phases of a connection with an account and a character of its own.
LEMMA Handled ==
  ASSUME SInv, ListInv, NEW c \in Conns, at[c] \in Serving \ Playing
  PROVE  /\ TypeOK /\ at \in [Conns -> Phases] /\ op \in [Conns -> Ops] /\ rows \in [Pids -> Rows]
         /\ index \in [Accounts -> [Slots -> Pids \cup {NoPid}]] /\ made \in Nat
         /\ who[c] \in Accounts /\ Lists(c)
         /\ at[c] \in Handling => /\ op[c].pid \in Pids /\ op[c].pid # NoPid
                                  /\ rows[op[c].pid] # NoRow => rows[op[c].pid].account = who[c]
BY Listing, Fields DEF SInv, TypeOK, ListInv, Own

\* The new character is in no slot, and its name is free (CreateInsert).
LEMMA CreateInsertList ==
  ASSUME SInv, ListInv, NEW c \in Conns, NEW r \in Results, CreateInsert(c, r)
  PROVE  ListInv'
<1>0. at[c] = "create.insert" /\ at[c] \in Serving \ Playing
  BY DEF CreateInsert, Serving, Playing
<1>1. /\ TypeOK /\ at \in [Conns -> Phases] /\ op \in [Conns -> Ops] /\ rows \in [Pids -> Rows]
      /\ index \in [Accounts -> [Slots -> Pids \cup {NoPid}]] /\ made \in Nat
      /\ who[c] \in Accounts /\ Lists(c)
  BY <1>0, Handled
<1>2. OthersRest(c) /\ excuses \subseteq excuses' /\ UNCHANGED <<who, index>>
  BY <1>1, StatementRests DEF Statement, CreateInsert
<1>3. CASE r = "failed"
  <2>1. at'[c] = "select" /\ UNCHANGED rows
    BY <1>1, <1>3 DEF CreateInsert, Happens, Return, Goto
  <2>2. Lists(c)'
    BY <2>1 DEF Lists, Opening
  <2> QED
    BY <1>0, <1>2, <2>1, <2>2, RestKeepsList DEF Unlisted, Opening
<1>4. CASE r # "failed"
  <2> DEFINE row == [account |-> who[c], name |-> op[c].name, ver |-> 0]
  <2>1. PICK p \in Pids : p = made + 1
    BY <1>1, Limits DEF CreateInsert, Pids
  <2>2. rows' = [rows EXCEPT ![p] = row] /\ row.account = who[c] /\ row.name = op[c].name
    BY <1>4, <2>1 DEF CreateInsert, Happens
  <2> HIDE DEF row
  <2>3. row # NoRow
    BY <1>1, <2>2, Constructors, Limits
  <2>4. /\ rows[p] = NoRow /\ rows'[p] = row /\ \A q \in Pids \ {p} : rows'[q] = rows[q]
        /\ \A a \in Accounts, s \in Slots : index[a][s] # p
    <3>1. p > made /\ ~(p <= made) /\ p # NoPid
      BY <1>1, <2>1, Limits
    <3> QED
      BY <1>1, <2>2, <3>1 DEF SInv, TablesAgree
  <2>5. Writes(c, p)
    BY <1>1, <1>2, <2>1, <2>2, <2>4 DEF Writes
  <2>6. ~Shown(p)' /\ ~Shown(p)
    BY <1>2, <2>4 DEF Shown
  <2>7. OneSlot(p)' /\ SlotIsRow(p)'
    BY <1>2, <2>4, <2>6 DEF OneSlot, SlotIsRow
  <2>8. /\ r = "ok" => at'[c] = "create.place" /\ op'[c].pid = p /\ op'[c].slot = op[c].slot
        /\ r # "ok" => at'[c] = "select" /\ "orphan" \in excuses'
    <3>1. CASE r = "ok"
      <4>1. /\ at' = [at EXCEPT ![c] = "create.place"]
            /\ op' = [op EXCEPT ![c] = [op[c] EXCEPT !.pid = p]]
        BY <1>1, <2>1, <3>1 DEF CreateInsert, Goto
      <4>2. op[c] \in Ops
        BY <1>1
      <4>3. [op[c] EXCEPT !.pid = p].pid = p /\ [op[c] EXCEPT !.pid = p].slot = op[c].slot
        BY <4>2 DEF Ops
      <4> QED
        BY <1>1, <3>1, <4>1, <4>3
    <3>2. CASE r # "ok"
      BY <1>1, <1>4, <3>2 DEF CreateInsert, Return, Goto, Excuse, Results
    <3> QED
      BY <3>1, <3>2
  <2>9. RowIsShown(p)'
    BY <2>8 DEF RowIsShown, Unlisted, Opening
  <2>10. Lists(c)'
    <3>1. CASE r = "ok"
      <4>1. \A a \in Accounts, s \in Slots : index'[a][s] # op'[c].pid
        BY <2>6, <2>8, <3>1 DEF Shown
      <4>2. /\ at'[c] = "create.place" /\ op'[c].slot \in Slots /\ index'[who'[c]][op'[c].slot] = NoPid
            /\ rows'[op'[c].pid] # NoRow
        BY <1>0, <1>1, <1>2, <2>3, <2>4, <2>8, <3>1 DEF Lists
      <4> QED
        BY <4>1, <4>2 DEF Lists, Opening, Shown
    <3>2. CASE r # "ok"
      BY <2>8, <3>2 DEF Lists, Opening
    <3> QED
      BY <3>1, <3>2
  <2>11. \A q \in Pids \ {p} : rows'[p] # NoRow /\ rows[q] # NoRow /\ rows[q].account = who[c]
                              => rows[q].name # rows'[p].name
    <3>1. op[c].pid = NoPid
      BY <1>0, <1>1 DEF Lists
    <3> QED
      BY <1>0, <1>1, <2>2, <2>4, <3>1, Limits DEF Lists
  <2>12. at[c] \notin Opening \cup {"delete.row"}
    BY <1>0 DEF Opening
  <2> QED
    BY <1>2, <2>5, <2>7, <2>9, <2>10, <2>11, <2>12, WriteKeepsList
<1> QED
  BY <1>3, <1>4

\* The map and the empire (CreatePlace, EmpireIndex, EmpireMove).
LEMMA PlaceList ==
  ASSUME SInv, ListInv, NEW c \in Conns, NEW r \in Results,
         CreatePlace(c, r) \/ EmpireIndex(c, r) \/ EmpireMove(c, r)
  PROVE  ListInv'
<1>0. at[c] \in {"create.place", "empire.index", "empire.move"} /\ at[c] \in Serving \ Playing
  BY DEF CreatePlace, EmpireIndex, EmpireMove, Serving, Playing
<1>1. TypeOK /\ at \in [Conns -> Phases] /\ op \in [Conns -> Ops] /\ Lists(c)
  BY <1>0, Handled
<1>2. OthersRest(c) /\ excuses \subseteq excuses' /\ UNCHANGED <<who, index, rows>>
  BY <1>1, StatementRests DEF Statement, CreatePlace, EmpireIndex, EmpireMove, database
<1>3. CASE CreatePlace(c, r)
  <2>1. CASE r = "ok"
    <3>1. at[c] = "create.place" /\ at'[c] = "create.slot" /\ op' = op
      BY <1>1, <1>3, <2>1 DEF CreatePlace, Goto
    <3>2. Lists(c)'
      BY <1>1, <1>2, <3>1 DEF Lists, Opening, Shown
    <3> QED
      BY <1>2, <3>1, <3>2, RestKeepsList DEF Unlisted, Opening
  <2>2. CASE r # "ok"
    <3>1. at'[c] = "select" /\ "orphan" \in excuses'
      BY <1>1, <1>3, <2>2 DEF CreatePlace, Return, Goto, Excuse
    <3>2. Lists(c)' /\ \A pid \in Pids : RowIsShown(pid)'
      BY <3>1 DEF Lists, Opening, RowIsShown
    <3> QED
      BY <1>2, <3>2, RestKeepsList
  <2> QED
    BY <2>1, <2>2
<1>4. CASE EmpireIndex(c, r) \/ EmpireMove(c, r)
  <2>1. at[c] \in {"empire.index", "empire.move"} /\ at'[c] \in {"empire.move", "select"}
    BY <1>1, <1>4 DEF EmpireIndex, EmpireMove, Return, Goto
  <2>2. Lists(c)'
    BY <2>1 DEF Lists, Opening
  <2> QED
    BY <1>2, <2>1, <2>2, RestKeepsList DEF Unlisted, Opening
<1> QED
  BY <1>3, <1>4

\* One slot is written.
LEMMA SlotWritten ==
  ASSUME NEW f \in [Accounts -> [Slots -> Pids \cup {NoPid}]], NEW a \in Accounts, NEW s \in Slots, NEW v
  PROVE  \A b \in Accounts, t \in Slots :
           [f EXCEPT ![a][s] = v][b][t] = IF b = a /\ t = s THEN v ELSE f[b][t]
<1>1. [f EXCEPT ![a][s] = v] = [f EXCEPT ![a] = [f[a] EXCEPT ![s] = v]]
  OBVIOUS
<1>2. f[a] \in [Slots -> Pids \cup {NoPid}]
  OBVIOUS
<1>3. \A t \in Slots : [f[a] EXCEPT ![s] = v][t] = IF t = s THEN v ELSE f[a][t]
  BY <1>2
<1>4. \A b \in Accounts : [f EXCEPT ![a] = [f[a] EXCEPT ![s] = v]][b] =
                            IF b = a THEN [f[a] EXCEPT ![s] = v] ELSE f[b]
  OBVIOUS
<1> QED
  BY <1>1, <1>3, <1>4

\* The new character gets its slot, which is still free (CreateSlot).
LEMMA CreateSlotList ==
  ASSUME SInv, ListInv, NEW c \in Conns, NEW r \in Results, CreateSlot(c, r)
  PROVE  ListInv'
<1>0. at[c] = "create.slot" /\ at[c] \in Serving \ Playing /\ at[c] \in Handling
  BY DEF CreateSlot, Serving, Playing, Handling
<1>1. /\ TypeOK /\ at \in [Conns -> Phases] /\ op \in [Conns -> Ops] /\ rows \in [Pids -> Rows]
      /\ index \in [Accounts -> [Slots -> Pids \cup {NoPid}]] /\ made \in Nat
      /\ who[c] \in Accounts /\ Lists(c)
  BY <1>0, Handled
<1>2. OthersRest(c) /\ excuses \subseteq excuses' /\ UNCHANGED <<who, rows>>
  BY <1>1, StatementRests DEF Statement, CreateSlot
<1>3. PICK p \in Pids : /\ p = op[c].pid /\ p # NoPid /\ rows[p] # NoRow /\ rows[p].account = who[c]
                        /\ ~Shown(p) /\ op[c].slot \in Slots /\ index[who[c]][op[c].slot] = NoPid
  BY <1>0, <1>1, Handled DEF Lists, Opening
<1>4. /\ r = "ok" => at'[c] = "select"
      /\ r # "ok" => at'[c] = "create.undo" /\ op'[c] = op[c]
  BY <1>1 DEF CreateSlot, Return, Goto
<1>5. CASE r = "failed"
  <2>1. index' = index
    BY <1>5 DEF CreateSlot, Happens
  <2>2. Lists(c)'
    BY <1>2, <1>3, <1>4, <1>5, <2>1 DEF Lists, Opening, Shown
  <2> QED
    BY <1>2, <1>4, <1>5, <2>1, <2>2, RestKeepsList DEF Unlisted, Opening
<1>6. CASE r # "failed"
  <2>1. index' = [index EXCEPT ![who[c]][op[c].slot] = p]
    BY <1>3, <1>6 DEF CreateSlot, Happens
  <2>2. \A a \in Accounts, s \in Slots : index'[a][s] = IF a = who[c] /\ s = op[c].slot THEN p ELSE index[a][s]
    <3>1. PICK w \in Accounts, t \in Slots : w = who[c] /\ t = op[c].slot
      BY <1>1, <1>3
    <3> QED
      BY <1>1, <2>1, <3>1, SlotWritten
  <2>3. Writes(c, p)
    BY <1>1, <1>2, <1>3, <2>2 DEF Writes
  <2>4. \A a \in Accounts, s \in Slots : index'[a][s] = p => a = who[c] /\ s = op[c].slot
    BY <1>3, <2>2 DEF Shown
  <2>5. OneSlot(p)'
    BY <2>4 DEF OneSlot
  <2>6. SlotIsRow(p)' /\ RowIsShown(p)'
    <3>1. Shown(p)'
      BY <1>1, <1>3, <2>2 DEF Shown
    <3> QED
      BY <1>2, <1>3, <3>1 DEF SlotIsRow, RowIsShown
  <2>7. Lists(c)'
    BY <1>2, <1>3, <1>4, <2>4 DEF Lists, Opening
  <2>8. \A q \in Pids \ {p} : rows[q] # NoRow /\ rows[q].account = who[c] => rows[q].name # rows'[p].name
    BY <1>2, <1>3 DEF ListInv, NamesAreChecked
  <2> QED
    BY <1>2, <1>3, <2>3, <2>5, <2>6, <2>7, <2>8, WriteKeepsList
<1> QED
  BY <1>5, <1>6

\* A row is deleted (CreateUndo, DeleteRow).
LEMMA DeletedList ==
  ASSUME SInv, ListInv, NEW c \in Conns, NEW r \in Results, CreateUndo(c, r) \/ DeleteRow(c, r)
  PROVE  ListInv'
<1>0. at[c] \in {"create.undo", "delete.row"} /\ at[c] \in Serving \ Playing /\ at[c] \in Handling
  BY DEF CreateUndo, DeleteRow, Serving, Playing, Handling
<1>1. /\ TypeOK /\ at \in [Conns -> Phases] /\ op \in [Conns -> Ops] /\ rows \in [Pids -> Rows]
      /\ who[c] \in Accounts /\ Lists(c)
  BY <1>0, Handled
<1>2. OthersRest(c) /\ excuses \subseteq excuses' /\ UNCHANGED <<who, index>>
  BY <1>1, StatementRests DEF Statement, CreateUndo, DeleteRow
<1>3. PICK p \in Pids : p = op[c].pid /\ p # NoPid /\ (rows[p] # NoRow => rows[p].account = who[c])
  BY <1>0, Handled
<1>4. at'[c] = "select" /\ rows' = (IF Happens(r) THEN [rows EXCEPT ![p] = NoRow] ELSE rows)
  BY <1>1, <1>3 DEF CreateUndo, DeleteRow, Return, Goto
<1>5. Lists(c)'
  BY <1>4 DEF Lists, Opening
<1>6. Writes(c, p)
  BY <1>1, <1>2, <1>3, <1>4 DEF Writes
<1>7. OneSlot(p)' /\ (Shown(p)' <=> Shown(p)) /\ SlotIsRow(p)
  BY <1>2 DEF ListInv, OneSlot, Shown
<1>8. SlotIsRow(p)' /\ RowIsShown(p)'
  <2>1. CASE DeleteRow(c, r)
    <3>1. ~Shown(p)
      BY <1>1, <1>3, <2>1 DEF DeleteRow, Lists
    <3>2. ~Happens(r) /\ rows[p] # NoRow => "orphan" \in excuses'
      BY <1>3, <2>1 DEF DeleteRow, Excuse, Exists
    <3> QED
      BY <1>1, <1>4, <1>7, <3>1, <3>2 DEF SlotIsRow, RowIsShown
  <2>2. CASE CreateUndo(c, r)
    <3>1. /\ op[c].slot \in Slots
          /\ \A a \in Accounts, s \in Slots : index[a][s] = p => a = who[c] /\ s = op[c].slot
      BY <1>1, <1>3, <2>2 DEF CreateUndo, Lists
    <3>2. Shown(p) <=> index[who[c]][op[c].slot] = p
      BY <1>1, <3>1 DEF Shown
    <3>3. /\ ~Happens(r) /\ ~Shown(p) => "orphan" \in excuses'
          /\ Happens(r) /\ Shown(p) => "dangling" \in excuses'
      BY <1>3, <2>2, <3>2 DEF CreateUndo, Excuse
    <3> QED
      BY <1>1, <1>2, <1>4, <1>7, <3>3 DEF SlotIsRow, RowIsShown
  <2> QED
    BY <2>1, <2>2
<1>9. \A q \in Pids \ {p} : rows'[p] # NoRow /\ rows[q] # NoRow /\ rows[q].account = who[c]
                              => rows[q].name # rows'[p].name
  <2>1. rows'[p] # NoRow => rows'[p] = rows[p]
    BY <1>1, <1>4
  <2> QED
    BY <1>3, <2>1 DEF ListInv, NamesAreChecked
<1> QED
  BY <1>2, <1>3, <1>5, <1>6, <1>7, <1>8, <1>9, WriteKeepsList

\* A character loses its slot before its row (DeleteGate).
LEMMA DeleteGateList ==
  ASSUME SInv, ListInv, NEW c \in Conns, NEW r \in Results, DeleteGate(c, r)
  PROVE  ListInv'
<1>0. at[c] = "delete.gate" /\ at[c] \in Serving \ Playing /\ at[c] \in Handling
  BY DEF DeleteGate, Serving, Playing, Handling
<1>1. /\ TypeOK /\ at \in [Conns -> Phases] /\ op \in [Conns -> Ops]
      /\ index \in [Accounts -> [Slots -> Pids \cup {NoPid}]] /\ who[c] \in Accounts /\ Lists(c)
  BY <1>0, Handled
<1>2. OthersRest(c) /\ excuses \subseteq excuses' /\ UNCHANGED <<who, rows>>
  BY <1>1, StatementRests DEF Statement, DeleteGate
<1>3. PICK p \in Pids : p = op[c].pid /\ p # NoPid /\ (rows[p] # NoRow => rows[p].account = who[c])
  BY <1>0, Handled
<1>4. op[c].slot \in Slots /\ OneSlot(p) /\ SlotIsRow(p)
  BY <1>0, <1>1 DEF Lists, ListInv
<1> DEFINE gate == index[who[c]][op[c].slot] = p
<1>5. CASE ~(gate /\ Happens(r))
  <2>1. index' = index /\ at'[c] = "select"
    BY <1>1, <1>3, <1>5 DEF DeleteGate, Happens, Return, Goto
  <2>2. Lists(c)'
    BY <2>1 DEF Lists, Opening
  <2> QED
    BY <1>0, <1>2, <2>1, <2>2, RestKeepsList DEF Unlisted, Opening
<1>6. CASE gate /\ Happens(r)
  <2>1. index' = [index EXCEPT ![who[c]][op[c].slot] = NoPid]
    BY <1>3, <1>6 DEF DeleteGate
  <2>2. \A a \in Accounts, s \in Slots : index'[a][s] = IF a = who[c] /\ s = op[c].slot THEN NoPid ELSE index[a][s]
    <3>1. PICK w \in Accounts, t \in Slots : w = who[c] /\ t = op[c].slot
      BY <1>1, <1>4
    <3> QED
      BY <1>1, <2>1, <3>1, SlotWritten
  <2>3. Writes(c, p)
    BY <1>1, <1>2, <1>3, <1>6, <2>2 DEF Writes
  <2>4. \A a \in Accounts, s \in Slots : index'[a][s] # p
    BY <1>1, <1>3, <1>4, <1>6, <2>2 DEF OneSlot
  <2>5. /\ r = "ok" => at'[c] = "delete.row" /\ op'[c] = op[c]
        /\ r # "ok" => at'[c] = "select" /\ (rows[p] # NoRow => "orphan" \in excuses')
    BY <1>1, <1>3, <1>6 DEF DeleteGate, Happens, Return, Goto, Excuse, Exists, Results
  <2>6. Lists(c)'
    BY <1>3, <2>4, <2>5 DEF Lists, Opening, Shown
  <2>7. OneSlot(p)' /\ SlotIsRow(p)'
    BY <2>4 DEF OneSlot, SlotIsRow, Shown
  <2>8. RowIsShown(p)'
    BY <1>2, <1>3, <2>5 DEF RowIsShown, Unlisted
  <2>9. \A q \in Pids \ {p} : rows'[p] # NoRow /\ rows[q] # NoRow /\ rows[q].account = who[c]
                              => rows[q].name # rows'[p].name
    BY <1>2, <1>3 DEF ListInv, NamesAreChecked
  <2> QED
    BY <1>2, <1>3, <2>3, <2>6, <2>7, <2>8, <2>9, WriteKeepsList
<1> QED
  BY <1>5, <1>6

\* A character gets a name that none of its account has (RenameWrite).
LEMMA RenameWriteList ==
  ASSUME SInv, ListInv, NEW c \in Conns, NEW r \in Results, RenameWrite(c, r)
  PROVE  ListInv'
<1>0. at[c] = "rename.write" /\ at[c] \in Serving \ Playing /\ at[c] \in Handling
  BY DEF RenameWrite, Serving, Playing, Handling
<1>1. /\ TypeOK /\ at \in [Conns -> Phases] /\ op \in [Conns -> Ops] /\ rows \in [Pids -> Rows]
      /\ who[c] \in Accounts /\ Lists(c)
  BY <1>0, Handled
<1>2. OthersRest(c) /\ excuses \subseteq excuses' /\ UNCHANGED <<who, index>>
  BY <1>1, StatementRests DEF Statement, RenameWrite
<1>3. PICK p \in Pids : p = op[c].pid /\ p # NoPid /\ rows[p] # NoRow /\ rows[p].account = who[c]
  BY <1>0, Handled DEF SInv, Own, Exists
<1>4. at'[c] = "select"
  BY <1>1 DEF RenameWrite, Return, Goto
<1>5. Lists(c)'
  BY <1>4 DEF Lists, Opening
<1>6. CASE rows' = rows
  BY <1>0, <1>2, <1>5, <1>6, RestKeepsList DEF Unlisted, Opening
<1>7. CASE rows' # rows
  <2>1. PICK row : rows[p] = row /\ row \in [account : Accounts, name : Names, ver : Versions]
    BY <1>1, <1>3, Constructors
  <2>2. PICK new : new = [row EXCEPT !.name = op[c].name]
    OBVIOUS
  <2>3. new.name = op[c].name /\ new.account = who[c]
    BY <1>3, <2>1, <2>2
  <2>4. rows' = [rows EXCEPT ![p] = new]
    BY <1>1, <1>3, <1>7, <2>1, <2>2 DEF RenameWrite
  <2>5. rows'[p] = new /\ \A q \in Pids \ {p} : rows'[q] = rows[q]
    BY <1>1, <2>4
  <2>6. new # NoRow
    BY <1>1, <2>3, Constructors, Limits
  <2>7. Writes(c, p)
    BY <1>1, <1>2, <1>3, <2>3, <2>5 DEF Writes
  <2>8. OneSlot(p)' /\ SlotIsRow(p)' /\ RowIsShown(p)'
    <3>1. OneSlot(p) /\ RowIsShown(p) /\ (Shown(p)' <=> Shown(p))
      BY <1>2 DEF ListInv, Shown
    <3>2. \A d \in Conns : Unlisted(d, p) => Unlisted(d, p)'
      BY <1>0, <1>2 DEF Unlisted, OthersRest, Opening
    <3> QED
      BY <1>2, <1>3, <2>5, <2>6, <3>1, <3>2 DEF OneSlot, SlotIsRow, RowIsShown
  <2>9. \A q \in Pids \ {p} : rows[q] # NoRow /\ rows[q].account = who[c] => rows[q].name # rows'[p].name
    BY <1>0, <1>1, <1>3, <2>3, <2>5 DEF Lists
  <2> QED
    BY <1>2, <1>3, <1>5, <2>7, <2>8, <2>9, WriteKeepsList
<1> QED
  BY <1>6, <1>7

\* A row with another version is of the same character.
LEMMA SameCharacter ==
  ASSUME NEW row \in Rows, row # NoRow, NEW v \in Versions
  PROVE  LET new == [row EXCEPT !.ver = v] IN
         new # NoRow /\ new.account = row.account /\ new.name = row.name
<1>1. row \in [account : Accounts, name : Names, ver : Versions]
  BY Constructors
<1>2. [row EXCEPT !.ver = v].name = row.name
  BY <1>1
<1> QED
  BY <1>2, NewVersion

\* Saves, in the queue or from the log, change versions only (Apply, Replayed).
LEMMA SavesKeepCharacters ==
  ASSUME SInv, Commit \/ Crash, NEW pid \in Pids
  PROVE  /\ rows'[pid] = NoRow <=> rows[pid] = NoRow
         /\ rows'[pid].account = rows[pid].account /\ rows'[pid].name = rows[pid].name
<1>0. TypeOK /\ rows \in [Pids -> Rows] /\ queue \in Seq(Saves)
  BY DEF SInv, TypeOK
<1>1. CASE Commit
  <2>1. queue # <<>> /\ rows' = Apply(rows, Head(queue))
    BY <1>1 DEF Commit
  <2>2. PICK save \in Saves : save = Head(queue) /\ save.pid \in Pids /\ save.ver \in Versions
    BY <1>0, <2>1, ElementsOf DEF Saves
  <2>3. CASE rows[save.pid] = NoRow \/ pid # save.pid
    BY <1>0, <2>1, <2>2, <2>3 DEF Apply
  <2>4. CASE rows[save.pid] # NoRow /\ pid = save.pid
    <3>1. PICK row \in Rows : row = rows[pid] /\ row # NoRow
      BY <1>0, <2>4
    <3>2. PICK v \in Versions : v = save.ver
      BY <2>2
    <3>3. rows'[pid] = [row EXCEPT !.ver = v]
      <4>1. PICK new : new = [row EXCEPT !.ver = v]
        OBVIOUS
      <4>2. rows' = [rows EXCEPT ![pid] = new]
        BY <2>1, <2>2, <2>4, <3>1, <3>2, <4>1 DEF Apply
      <4> QED
        BY <1>0, <4>1, <4>2
    <3> QED
      BY <3>1, <3>3, SameCharacter
  <2> QED
    BY <2>3, <2>4
<1>2. CASE Crash
  <2>1. PICK n \in 0 .. Len(queue) : rows' = Replayed(n)
    BY <1>2 DEF Crash
  <2> DEFINE writes == {i \in 1 .. n : queue[i].pid = pid}
  <2>2. CASE writes = {} \/ rows[pid] = NoRow
    BY <1>0, <2>1, <2>2 DEF Replayed
  <2>3. CASE writes # {} /\ rows[pid] # NoRow
    <3>1. n \in Nat /\ Len(queue) \in Nat
      BY <1>0
    <3>2. Max(writes) \in writes
      BY <2>3, <3>1, LastSave
    <3>3. PICK i \in 1 .. Len(queue) : i = Max(writes)
      <4>1. writes \subseteq 1 .. Len(queue)
        BY <3>1
      <4> QED
        BY <3>2, <4>1
    <3>4. queue[i] \in Saves
      BY <1>0, <3>3, ElementsOf
    <3>5. PICK v \in Versions : v = queue[i].ver
      BY <3>4 DEF Saves
    <3>6. PICK row \in Rows : row = rows[pid] /\ row # NoRow
      BY <1>0, <2>3
    <3>7. rows'[pid] = [row EXCEPT !.ver = v]
      BY <2>1, <2>3, <3>3, <3>5, <3>6 DEF Replayed
    <3> QED
      BY <3>6, <3>7, SameCharacter
  <2> QED
    BY <2>2, <2>3
<1> QED
  BY <1>1, <1>2

\* Every step keeps the lists.
LEMMA NextList ==
  ASSUME SInv, ListInv, [Next]_vars
  PROVE  ListInv'
<1>1. CASE UNCHANGED vars \/ \E built \in BOOLEAN : WorldStep(built)
  <2>1. UNCHANGED <<at, who, op, rows, index>> /\ excuses \subseteq excuses'
    BY <1>1 DEF vars, WorldStep, channel, database, book, Excuse
  <2> QED
    BY <2>1, QuietKeepsList
<1>2. CASE Commit
  <2>1. UNCHANGED <<at, who, op, index, excuses>>
    BY <1>2 DEF Commit, channel, book
  <2> QED
    BY <1>2, <2>1, SavesKeepCharacters, QuietKeepsList
<1>3. CASE Crash
  <2>1. /\ UNCHANGED index /\ excuses \subseteq excuses'
        /\ \A c \in Conns : at'[c] \in {"new", "closed"}
        /\ (\E c \in Conns : at[c] \in Opening \cup {"delete.row"}) => "orphan" \in excuses'
    BY <1>3 DEF Crash, Excuse, Opening
  <2> QED
    BY <1>3, <2>1, SavesKeepCharacters, QuietKeepsList
<1>4. ASSUME NEW c \in Conns, Connection(c) PROVE ListInv'
  <2>1. CASE Statement(c)
    <3>1. PICK r \in Results :
        \/ CreateInsert(c, r) \/ CreatePlace(c, r) \/ CreateSlot(c, r) \/ CreateUndo(c, r)
        \/ DeleteGate(c, r) \/ DeleteRow(c, r) \/ RenameWrite(c, r)
        \/ EmpireIndex(c, r) \/ EmpireMove(c, r)
      BY <2>1 DEF Statement
    <3> QED
      BY <3>1, CreateInsertList, PlaceList, CreateSlotList, DeletedList, DeleteGateList, RenameWriteList
  <2>2. CASE ~Statement(c) /\ \A n \in Names, s \in Slots : ~AskCreate(c, s, n)
    <3>1. UNCHANGED <<rows, index>>
      <4>1. CASE \/ \E s \in Slots, n \in Names : AskRename(c, s, n)
                 \/ \E s \in Slots : AskDelete(c, s)
                 \/ \E e \in Empires : AskEmpire(c, e)
        BY <4>1 DEF AskRename, AskDelete, AskEmpire, Ask, database
      <4>2. CASE \/ \E s \in Slots : SelectNobody(c, s)
                 \/ \E s \in Slots, corrected \in BOOLEAN : Select(c, s, corrected)
        BY <4>2 DEF SelectNobody, Select, database
      <4>3. CASE \/ EnterGame(c) \/ Leave(c) \/ Unlock(c) \/ Refuse(c) \/ Credentials(c) \/ Hangup(c)
                 \/ CreateName(c) \/ RenameName(c) \/ \E a \in Accounts : Acquire(c, a)
        BY <4>3 DEF EnterGame, Leave, Unlock, Refuse, Credentials, Hangup, CreateName, RenameName,
                    Acquire, database
      <4>4. CASE (\E safe \in BOOLEAN : Close(c, safe)) \/ (\E saves \in BOOLEAN : Play(c, saves))
        BY <4>4 DEF Close, Play
      <4> QED
        BY <1>4, <2>2, <4>1, <4>2, <4>3, <4>4 DEF Connection, Proceed, Asks
    <3> QED
      BY <1>4, <2>2, <3>1, RestingSteps
  <2> QED
    BY <2>1, <2>2, AskCreateStep
<1> QED
  BY <1>1, <1>2, <1>3, <1>4 DEF Next, Channel

\* Between two handlers the slots of an account and its rows are the same, one for one, and its
\* characters have different names (create_character, delete_character, change_name).
THEOREM ListStaysTheRows == Spec => []ListIsTheRows
<1>1. Init => ListInv
  <2> SUFFICES ASSUME Init PROVE ListInv
    OBVIOUS
  <2>1. /\ \A pid \in Pids : rows[pid] = NoRow /\ ~Shown(pid)
        /\ \A c \in Conns : at[c] = "new"
    BY Limits DEF Init, Shown
  <2>2. \A c \in Conns : Lists(c)
    BY <2>1 DEF Lists, Opening
  <2>3. \A pid \in Pids : OneSlot(pid) /\ SlotIsRow(pid) /\ RowIsShown(pid)
    BY <2>1 DEF OneSlot, SlotIsRow, RowIsShown, Shown
  <2> QED
    BY <2>1, <2>2, <2>3 DEF ListInv, NamesAreChecked
<1>2. SInv /\ ListInv /\ [Next]_vars => ListInv'
  BY NextList
<1>3. SInv /\ ListInv => ListIsTheRows
  <2> SUFFICES ASSUME SInv, ListInv PROVE ListIsTheRows
    OBVIOUS
  <2>0. TypeOK /\ index \in [Accounts -> [Slots -> Pids \cup {NoPid}]] /\ rows \in [Pids -> Rows]
    BY DEF SInv, TypeOK
  <2>1. \A p, q \in Pids :
          p # q /\ Exists(p) /\ Exists(q) /\ rows[p].account = rows[q].account
            => rows[p].name # rows[q].name
    BY DEF ListInv, NamesAreChecked, Exists
  <2>2. ASSUME NEW a \in Accounts, "dangling" \notin excuses, NEW s \in Slots, index[a][s] # NoPid
        PROVE  Exists(index[a][s]) /\ rows[index[a][s]].account = a
    <3>1. PICK pid \in Pids : pid = index[a][s]
      BY <2>0, <2>2
    <3>2. rows[pid] # NoRow
      BY <2>2, <3>1 DEF ListInv, SlotIsRow, Shown
    <3> QED
      BY <2>2, <3>1, <3>2 DEF SInv, TablesAgree, Exists
  <2>3. ASSUME NEW a \in Accounts, ~Busy(a), "orphan" \notin excuses, NEW pid \in Pids, rows[pid].account = a
        PROVE  Cardinality(Listed(pid)) = 1
    <3>1. rows[pid] # NoRow
      BY <2>0, <2>3, RowsOfAccounts
    <3>2. ASSUME NEW c \in Conns, Unlisted(c, pid) PROVE FALSE
      <4>1. op[c].pid # NoPid /\ at[c] \in Serving
        BY <3>2, Limits DEF Unlisted, Opening, Serving
      <4>2. who[c] = a
        BY <2>3, <3>1, <3>2, <4>1 DEF SInv, Own, Unlisted
      <4> QED
        BY <2>3, <4>1, <4>2 DEF Busy
    <3>3. PICK b \in Accounts, s \in Slots : index[b][s] = pid
      BY <2>3, <3>1, <3>2 DEF ListInv, RowIsShown, Shown
    <3>4. Listed(pid) = {<<b, s>>}
      <4>1. \A i \in Accounts \X Slots : i = <<i[1], i[2]>> /\ i[1] \in Accounts /\ i[2] \in Slots
        OBVIOUS
      <4>2. \A i \in Listed(pid) : i = <<b, s>>
        BY <3>3, <4>1 DEF Listed, ListInv, OneSlot
      <4> QED
        BY <3>3, <4>2 DEF Listed
    <3> QED
      BY <3>4, FS_Singleton
  <2> QED
    BY <2>1, <2>2, <2>3 DEF ListIsTheRows
<1> QED
  BY <1>1, <1>2, <1>3, EntryIsConsistent, PTL DEF Spec

=============================================================================
