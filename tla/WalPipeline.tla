----------------------------- MODULE WalPipeline -----------------------------
(***************************************************************************)
(* The durable write pipeline of the channel process: the sessions that    *)
(* push mutations, the Batcher worker, the WalSink that persists a batch   *)
(* to a local file before its PostgreSQL transaction, and the replay of    *)
(* the leftover files at the next start (database/src/wal.rs,              *)
(* game_core/src/world.rs).                                                *)
(*                                                                         *)
(* A session is a player: the model keeps the gold of its row and the item *)
(* rows its exchanges created.  A value written is the number of the       *)
(* mutation that writes it, and so is the id of an item row.               *)
(***************************************************************************)
EXTENDS Naturals, Sequences, FiniteSets

CONSTANTS
  Sessions,        \* the connected players
  NoSession,       \* "no flush is waiting for this batch"
  MaxBatch,        \* Batcher::spawn's max_batch
  PushPause,       \* may a caller stop longer than flush_interval between two pushes?
  MaxMutations,    \* bound: mutations issued in a behaviour
  MaxCrashes,      \* bound: process crashes
  MaxFaults        \* bound: disk and database errors the process survives

ASSUME SessionsAssumption == NoSession \notin Sessions
ASSUME BatchAssumption == MaxBatch \in Nat \ {0}
ASSUME PauseAssumption == PushPause \in BOOLEAN
ASSUME BoundsAssumption == MaxMutations \in Nat /\ MaxCrashes \in Nat /\ MaxFaults \in Nat

VARIABLES
  \* volatile
  phase,      \* "replay" (start-up) or "serve"
  replaying,  \* the step of replay_wal on its current file
  mem,        \* the gold and the items each session holds in memory
  caller,     \* where each session is in exchange_mutated
  unit,       \* the mutations of the session's last exchange, 0 for none
  answer,     \* what flush() returned to it
  queue,      \* the unbounded channel into the worker
  worker,     \* the worker's program counter
  batch, ack, \* the batch being built or applied, and who waits for it
  \* on disk
  files,      \* the *.wal files, oldest name first
  \* in PostgreSQL
  db,         \* the gold and the item rows of each player
  audit,      \* the keys of log.mutation_audit
  \* bookkeeping of the model
  ideal,      \* what db would be had every mutation been applied only once
  issued,     \* mutations created so far
  born,       \* issued when the process last started
  crashes, faults

sessionVars == <<mem, caller, unit, answer>>
workerVars  == <<worker, batch, ack>>
startVars   == <<phase, replaying>>
pgVars      == <<db, audit, ideal>>
bounds      == <<issued, born, crashes, faults>>
vars == <<startVars, sessionVars, queue, workerVars, files, pgVars, bounds>>

MutationIds == 1 .. MaxMutations
Players == [Sessions -> [gold : 0 .. MaxMutations, items : SUBSET MutationIds]]
NewPlayers == [s \in Sessions |-> [gold |-> 0, items |-> {}]]

\* Msg::M carries a Mutation; pre is the gold a guarded statement expects.
Mutations == [id : MutationIds, by : Sessions, kind : {"save", "gold", "row"},
              pre : 0 .. MaxMutations]
\* Msg::Flush carries the oneshot of the session that waits for the answer.
Flushes == [id : {0}, by : Sessions, kind : {"flush"}, pre : {0}]
Msg == Mutations \cup Flushes

WalFile == [muts : Seq(Mutations), torn : BOOLEAN]

Message(n, s, kind, pre) == [id |-> n, by |-> s, kind |-> kind, pre |-> pre]

IdsOf(seq) == {seq[i].id : i \in DOMAIN seq}
FileIds    == UNION {IdsOf(files[f].muts) : f \in DOMAIN files}
PendingIds == (IdsOf(queue) \cup IdsOf(batch)) \ {0}
NoUnit == [gold |-> 0, row |-> 0]
UnitIds(s) == {unit[s].gold, unit[s].row} \ {0}

-----------------------------------------------------------------------------
\* PostgreSQL

\* The statement of one mutation: the absolute UPDATE of the save, the UPDATE
\* of an exchange guarded by the gold it expects, and the upsert of its result.
Execute(d, m) ==
  CASE m.kind = "save" -> [d EXCEPT ![m.by].gold = m.id]
    [] m.kind = "gold" -> IF d[m.by].gold = m.pre THEN [d EXCEPT ![m.by].gold = m.id]
                                                  ELSE d
    [] m.kind = "row"  -> [d EXCEPT ![m.by].items = @ \cup {m.id}]
    [] OTHER           -> d

\* The statements of a transaction in order, but those of the mutations in skip.
ExecuteAll(d, muts, skip) ==
  LET after[i \in 0 .. Len(muts)] ==
        IF i = 0 THEN d
        ELSE IF muts[i].id \in skip THEN after[i - 1]
        ELSE Execute(after[i - 1], muts[i])
  IN  after[Len(muts)]

\* PgMutationSink::apply: every statement runs, whatever the audit table holds,
\* and the audit rows are inserted ON CONFLICT DO NOTHING.
Commit(muts) ==
  /\ db' = ExecuteAll(db, muts, {})
  /\ audit' = audit \cup IdsOf(muts)
  /\ ideal' = ExecuteAll(ideal, muts, audit)

-----------------------------------------------------------------------------
Init ==
  /\ phase = "serve" /\ replaying = "apply"
  /\ mem = NewPlayers
  /\ caller = [s \in Sessions |-> "idle"]
  /\ unit = [s \in Sessions |-> NoUnit]
  /\ answer = [s \in Sessions |-> "none"]
  /\ queue = <<>>
  /\ worker = "recv" /\ batch = <<>> /\ ack = NoSession
  /\ files = <<>>
  /\ db = NewPlayers /\ audit = {} /\ ideal = NewPlayers
  /\ issued = 0 /\ born = 0 /\ crashes = 0 /\ faults = 0

-----------------------------------------------------------------------------
\* The sessions

Serving(s) == phase = "serve" /\ caller[s] = "idle"

Push(m) == /\ issued < MaxMutations
           /\ issued' = issued + 1
           /\ queue' = Append(queue, m)

\* Something changed the player's gold and Session::save pushes the whole row.
Save(s) ==
  /\ Serving(s)
  /\ Push(Message(issued + 1, s, "save", 0))
  /\ mem' = [mem EXCEPT ![s].gold = issued + 1]
  /\ UNCHANGED <<startVars, caller, unit, answer, workerVars, files, pgVars,
                 born, crashes, faults>>

\* exchange_mutated pushes the unit one mutation at a time and then the flush:
\* the result row, when the unit has one (MaxMutations leaves room for its gold) ...
PushRow(s) ==
  /\ Serving(s) /\ issued + 1 < MaxMutations
  /\ Push(Message(issued + 1, s, "row", 0))
  /\ caller' = [caller EXCEPT ![s] = "gold"]
  /\ unit' = [unit EXCEPT ![s] = [gold |-> 0, row |-> issued + 1]]
  /\ answer' = [answer EXCEPT ![s] = "none"]
  /\ UNCHANGED <<startVars, mem, workerVars, files, pgVars, born, crashes, faults>>

\* ... the gold, guarded by the gold in memory ...
PushGold(s) ==
  /\ Serving(s) \/ caller[s] = "gold"
  /\ Push(Message(issued + 1, s, "gold", mem[s].gold))
  /\ caller' = [caller EXCEPT ![s] = "flush"]
  /\ unit' = [unit EXCEPT ![s] = [gold |-> issued + 1,
                                  row  |-> IF Serving(s) THEN 0 ELSE @.row]]
  /\ answer' = [answer EXCEPT ![s] = "none"]
  /\ UNCHANGED <<startVars, mem, workerVars, files, pgVars, born, crashes, faults>>

\* ... and Msg::Flush, whose answer the session awaits.
SendFlush(s) ==
  /\ caller[s] = "flush"
  /\ queue' = Append(queue, Message(0, s, "flush", 0))
  /\ caller' = [caller EXCEPT ![s] = "wait"]
  /\ UNCHANGED <<startVars, mem, unit, answer, workerVars, files, pgVars, bounds>>

\* The player leaves and comes back, or returns to the character selection:
\* select_player reads the row straight from PostgreSQL.
Reload(s) ==
  /\ Serving(s)
  /\ mem' = [mem EXCEPT ![s] = db[s]]
  /\ UNCHANGED <<startVars, caller, unit, answer, queue, workerVars, files, pgVars, bounds>>

\* The player drops an item: ItemRepo::delete goes to PostgreSQL at once, past
\* the batcher and the audit.
DropItem(s) ==
  /\ Serving(s)
  /\ \E i \in mem[s].items :
       /\ mem' = [mem EXCEPT ![s].items = @ \ {i}]
       /\ db' = [db EXCEPT ![s].items = @ \ {i}]
       /\ ideal' = [ideal EXCEPT ![s].items = @ \ {i}]
  /\ UNCHANGED <<startVars, caller, unit, answer, queue, workerVars, files, audit, bounds>>

\* The oneshot of a flush resolves.  On Ok the session puts the new gold and
\* the new item in memory; on Err it leaves its memory as it was.
Answer(s, r) ==
  IF s = NoSession
  THEN UNCHANGED sessionVars
  ELSE /\ answer' = [answer EXCEPT ![s] = r]
       /\ caller' = [caller EXCEPT ![s] = "idle"]
       /\ mem' = IF r = "ok"
                 THEN [mem EXCEPT ![s] =
                         [gold |-> unit[s].gold, items |-> @.items \cup ({unit[s].row} \ {0})]]
                 ELSE mem
       /\ UNCHANGED unit

-----------------------------------------------------------------------------
\* The Batcher worker

Received == phase = "serve" /\ queue # <<>> /\ queue' = Tail(queue)

\* The first message of a batch is a mutation.
RecvFirst ==
  /\ worker = "recv" /\ Received
  /\ Head(queue).kind # "flush"
  /\ batch' = <<Head(queue)>>
  /\ worker' = IF MaxBatch > 1 THEN "collect" ELSE "persist"
  /\ UNCHANGED <<startVars, sessionVars, ack, files, pgVars, bounds>>

\* The first message is a flush: there is no batch, the answer is Ok.
RecvIdleFlush ==
  /\ worker = "recv" /\ Received
  /\ Head(queue).kind = "flush"
  /\ Answer(Head(queue).by, "ok")
  /\ UNCHANGED <<startVars, workerVars, files, pgVars, bounds>>

\* variant: the size limit is off by one
CollectMutationOneMore ==
  /\ worker = "collect" /\ Received
  /\ Head(queue).kind # "flush"
  /\ batch' = Append(batch, Head(queue))
  /\ worker' = IF Len(batch) < MaxBatch THEN "collect" ELSE "persist"
  /\ UNCHANGED <<startVars, sessionVars, ack, files, pgVars, bounds>>

CollectMutation ==
  /\ worker = "collect" /\ Received
  /\ Head(queue).kind # "flush"
  /\ batch' = Append(batch, Head(queue))
  /\ worker' = IF Len(batch) + 1 < MaxBatch THEN "collect" ELSE "persist"
  /\ UNCHANGED <<startVars, sessionVars, ack, files, pgVars, bounds>>

\* variants: the flush is answered before its batch is applied; it is forgotten
CollectFlushEarly ==
  /\ worker = "collect" /\ Received
  /\ Head(queue).kind = "flush"
  /\ Answer(Head(queue).by, "ok")
  /\ worker' = "persist"
  /\ UNCHANGED <<startVars, batch, ack, files, pgVars, bounds>>
CollectFlushForgets ==
  /\ worker = "collect" /\ Received
  /\ Head(queue).kind = "flush"
  /\ worker' = "persist"
  /\ UNCHANGED <<startVars, sessionVars, batch, ack, files, pgVars, bounds>>

CollectFlush ==
  /\ worker = "collect" /\ Received
  /\ Head(queue).kind = "flush"
  /\ ack' = Head(queue).by
  /\ worker' = "persist"
  /\ UNCHANGED <<startVars, sessionVars, batch, files, pgVars, bounds>>

\* flush_interval passes with nothing to receive.
TimeoutPassed == /\ worker = "collect" /\ queue = <<>>
                 /\ PushPause \/ \A s \in Sessions : caller[s] \notin {"gold", "flush"}

\* variants: the timeout drops the batch; the timeout waits again
CollectTimeoutDrops ==
  /\ TimeoutPassed
  /\ worker' = "recv" /\ batch' = <<>>
  /\ UNCHANGED <<startVars, sessionVars, queue, ack, files, pgVars, bounds>>
CollectTimeoutRearms == TimeoutPassed /\ UNCHANGED vars

CollectTimeout ==
  /\ TimeoutPassed
  /\ worker' = "persist"
  /\ UNCHANGED <<startVars, sessionVars, queue, batch, ack, files, pgVars, bounds>>

\* The batch is over; the flush that closed it, if any, learns the result.
Finish(r) ==
  /\ worker' = "recv" /\ batch' = <<>> /\ ack' = NoSession
  /\ Answer(ack, r)

Fault == /\ faults < MaxFaults
         /\ faults' = faults + 1
         /\ UNCHANGED <<issued, born, crashes>>

\* persist_batch writes the whole batch and sync_all returns.
Persist ==
  /\ worker = "persist"
  /\ files' = Append(files, [muts |-> batch, torn |-> FALSE])
  /\ worker' = "apply"
  /\ UNCHANGED <<startVars, sessionVars, queue, batch, ack, pgVars, bounds>>

\* What persist_batch leaves behind when it is cut short: no file, or one with
\* the first lines and maybe a piece of the next.
CutShort ==
  \/ files' = files
  \/ \E n \in 0 .. Len(batch), torn \in BOOLEAN :
       /\ torn => n < Len(batch)
       /\ files' = Append(files, [muts |-> SubSeq(batch, 1, n), torn |-> torn])

\* create, writeln or sync_all fails: the batch is dropped, its file is not.
PersistFail ==
  /\ worker = "persist" /\ Fault
  /\ CutShort
  /\ Finish("err")
  /\ UNCHANGED <<startVars, queue, pgVars>>

ApplyCommit ==
  /\ worker = "apply"
  /\ Commit(batch)
  /\ worker' = "remove"
  /\ UNCHANGED <<startVars, sessionVars, queue, batch, ack, files, bounds>>

\* variants: the statements run outside a transaction; the file goes on any result
ApplyFailHalfway ==
  /\ worker = "apply" /\ Fault
  /\ \E n \in 0 .. Len(batch) : Commit(SubSeq(batch, 1, n))
  /\ Finish("err")
  /\ UNCHANGED <<startVars, queue, files>>
ApplyFailDeletes ==
  /\ worker = "apply" /\ Fault
  /\ files' = SubSeq(files, 1, Len(files) - 1)
  /\ Finish("err")
  /\ UNCHANGED <<startVars, queue, pgVars>>

\* The transaction fails, or only the reply to its COMMIT is lost.
ApplyFail ==
  /\ worker = "apply" /\ Fault
  /\ Commit(batch) \/ UNCHANGED pgVars
  /\ Finish("err")
  /\ UNCHANGED <<startVars, queue, files>>

\* variant: the file is never deleted
RemoveForgets ==
  /\ worker = "remove"
  /\ Finish("ok")
  /\ UNCHANGED <<startVars, queue, files, pgVars, bounds>>

Remove ==
  /\ worker = "remove"
  /\ files' = SubSeq(files, 1, Len(files) - 1)
  /\ Finish("ok")
  /\ UNCHANGED <<startVars, queue, pgVars, bounds>>

\* remove_file fails after the commit: it is logged and the answer is Ok.
RemoveFail ==
  /\ worker = "remove" /\ Fault
  /\ Finish("ok")
  /\ UNCHANGED <<startVars, queue, files, pgVars>>

-----------------------------------------------------------------------------
\* Crash and start-up

\* Memory is gone; a file that was being written keeps what reached it.
Crash ==
  /\ crashes < MaxCrashes
  /\ crashes' = crashes + 1
  /\ IF worker = "persist" THEN CutShort ELSE files' = files
  /\ phase' = "replay" /\ replaying' = "apply"
  /\ mem' = NewPlayers
  /\ caller' = [s \in Sessions |-> "idle"]
  /\ unit' = [s \in Sessions |-> NoUnit]
  /\ answer' = [s \in Sessions |-> "none"]
  /\ queue' = <<>>
  /\ worker' = "recv" /\ batch' = <<>> /\ ack' = NoSession
  /\ born' = issued
  /\ UNCHANGED <<pgVars, issued, faults>>

Replaying(step) == phase = "replay" /\ replaying = step /\ files # <<>>

\* replay_wal re-applies the oldest file as one transaction ...
ReplayApply ==
  /\ Replaying("apply") /\ ~Head(files).torn
  /\ Commit(Head(files).muts)
  /\ replaying' = "remove"
  /\ UNCHANGED <<phase, sessionVars, queue, workerVars, files, bounds>>

\* ... and deletes it.
ReplayRemove ==
  /\ Replaying("remove")
  /\ files' = Tail(files)
  /\ replaying' = "apply"
  /\ UNCHANGED <<phase, sessionVars, queue, workerVars, pgVars, bounds>>

\* The channel serves; a player's row and items are loaded when it enters.
StartServing == /\ phase' = "serve" /\ replaying' = "apply"
                /\ mem' = db'
                /\ UNCHANGED <<caller, unit, answer, queue, workerVars, files>>

ReplayDone ==
  /\ phase = "replay" /\ files = <<>>
  /\ UNCHANGED <<pgVars, bounds>>
  /\ StartServing

\* A line that does not parse ends the replay; the channel serves all the same.
ReplayTorn ==
  /\ Replaying("apply") /\ Head(files).torn
  /\ UNCHANGED <<pgVars, bounds>>
  /\ StartServing

\* So does a failed transaction, a lost COMMIT reply or a failed deletion.
ReplayFail ==
  /\ phase = "replay" /\ files # <<>> /\ Fault
  /\ \/ UNCHANGED pgVars
     \/ replaying = "apply" /\ ~Head(files).torn /\ Commit(Head(files).muts)
  /\ StartServing

-----------------------------------------------------------------------------
WorkerStep == \/ RecvFirst \/ RecvIdleFlush
              \/ CollectMutation \/ CollectFlush \/ CollectTimeout
              \/ Persist \/ PersistFail
              \/ ApplyCommit \/ ApplyFail
              \/ Remove \/ RemoveFail

ReplayStep == ReplayApply \/ ReplayRemove \/ ReplayDone \/ ReplayTorn \/ ReplayFail

SessionStep(s) == Save(s) \/ PushRow(s) \/ PushGold(s) \/ SendFlush(s) \/ Reload(s)
                  \/ DropItem(s)

Next == WorkerStep \/ ReplayStep \/ Crash \/ \E s \in Sessions : SessionStep(s)

Spec == Init /\ [][Next]_vars

\* A session in the middle of exchange_mutated does not wait for anything.
GoOn(s) == (caller[s] = "gold" /\ PushGold(s)) \/ SendFlush(s)

\* The tokio runtime polls the worker, the timer and the start-up future, and
\* a session that has begun to push a unit.
Fairness == /\ WF_vars(WorkerStep) /\ WF_vars(ReplayStep)
            /\ \A s \in Sessions : WF_vars(GoOn(s))

FairSpec == Spec /\ Fairness
-----------------------------------------------------------------------------
\* Properties

\* Every variable has its type; a batch never outgrows max_batch and a file
\* never holds more than a batch.
TypeOK ==
  /\ phase \in {"replay", "serve"} /\ replaying \in {"apply", "remove"}
  /\ mem \in Players /\ db \in Players /\ ideal \in Players
  /\ caller \in [Sessions -> {"idle", "gold", "flush", "wait"}]
  /\ unit \in [Sessions -> [gold : 0 .. MaxMutations, row : 0 .. MaxMutations]]
  /\ answer \in [Sessions -> {"none", "ok", "err"}]
  /\ queue \in Seq(Msg)
  /\ worker \in {"recv", "collect", "persist", "apply", "remove"}
  /\ batch \in Seq(Mutations) /\ Len(batch) <= MaxBatch
  /\ ack \in Sessions \cup {NoSession}
  /\ files \in Seq(WalFile)
  /\ \A f \in DOMAIN files : Len(files[f].muts) <= MaxBatch
  /\ audit \subseteq MutationIds
  /\ issued \in 0 .. MaxMutations /\ born \in 0 .. issued
  /\ crashes \in 0 .. MaxCrashes /\ faults \in 0 .. MaxFaults

\* The inductive invariant: a batch has room while it is collected, is gone when
\* the worker waits, and nothing of the worker runs during a replay ...
BatchIsConsistent ==
  /\ worker = "collect" => Len(batch) < MaxBatch
  /\ worker = "recv" => batch = <<>>
  /\ phase = "replay" => worker = "recv"

\* ... the newest file is the batch being applied, and a file about to be
\* deleted is committed ...
FilesAreConsistent ==
  /\ worker \in {"apply", "remove"} =>
       files # <<>> /\ files[Len(files)] = [muts |-> batch, torn |-> FALSE]
  /\ worker = "remove" => IdsOf(batch) \subseteq audit
  /\ replaying = "remove" =>
       phase = "replay" /\ files # <<>> /\ IdsOf(Head(files).muts) \subseteq audit

\* ... and no mutation is anywhere before it is issued.
NothingUnborn == audit \cup FileIds \cup PendingIds \subseteq 1 .. issued

\* Everything a step of the worker or of the replay relies on when it deletes a
\* file or drops a batch (Batcher::spawn, WalSink::apply, replay_wal).
IInv == TypeOK /\ BatchIsConsistent /\ FilesAreConsistent /\ NothingUnborn

\* The stage of a mutation is the furthest place it can be found in.
Stage(i) == IF i \in audit THEN "committed"
            ELSE IF i \in FileIds THEN "durable"
            ELSE IF i \in PendingIds THEN "pending"
            ELSE IF i > issued THEN "unborn"
            ELSE "lost"

Durable == INSTANCE DurableWrites
             WITH Ids <- MutationIds, status <- [i \in MutationIds |-> Stage(i)]

\* The pipeline implements the life cycle of DurableWrites: whatever crashes and
\* errors happen, a mutation commits only from the disk, and once on disk or
\* committed it is never dropped (WalSink::apply, replay_wal).
ImplementsDurableWrites == Durable!Spec

\* When flush() returns, whatever it returns, nothing of the caller's unit is
\* still on its way: its outcome is already decided on disk or in PostgreSQL.
FlushIsBarrier ==
  \A s \in Sessions : answer[s] # "none" => UnitIds(s) \cap PendingIds = {}

\* A file is committed as a whole or not at all (one transaction per batch).
FileIsAtomic ==
  \A f \in DOMAIN files :
    IdsOf(files[f].muts) \subseteq audit \/ IdsOf(files[f].muts) \cap audit = {}

\* As long as no disk or database error happened, commits follow the order of
\* the pushes: nothing pushed since the start is skipped by a later commit.
CommitsInPushOrder ==
  faults = 0 => \A i \in audit : \A j \in born + 1 .. i : j \in audit

\* As long as no disk or database error happened, crashes and replays in any
\* number leave every player as if each audited mutation had been applied once
\* (the idempotence audit of WalSink, the guards of ItemExchange).
ReplayKeepsPlayers == faults = 0 => db = ideal

\* A session that awaits flush() is answered, unless the process dies.
FlushAnswered == \A s \in Sessions : caller[s] = "wait" ~> caller[s] # "wait"

\* A pushed mutation does not stay in memory: it reaches a file or is lost.
PushedIsSettled == \A i \in MutationIds : i \in PendingIds ~> i \notin PendingIds

\* What the documentation says

\* Applying a file again never changes what applying it once gave, whatever
\* errors made the file stay.
ReplayIsIdempotent == db = ideal

\* Once its flush is sent, a unit is committed whole or not at all.
UnitIsAtomic ==
  \A s \in Sessions : caller[s] \in {"wait", "idle"} =>
    UnitIds(s) \subseteq audit \/ UnitIds(s) \cap audit = {}
=============================================================================
