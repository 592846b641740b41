--------------------------- MODULE DurableWrites ---------------------------
(***************************************************************************)
(* What the durable write pipeline promises about one mutation, without    *)
(* its queue, batches, files or transactions (ADR-0008): a mutation is     *)
(* born pending in memory, may become durable on disk, and is committed    *)
(* only from there.  A durable mutation is never forgotten, a committed    *)
(* one is never taken back, and one lost before it was durable never comes *)
(* back to life.                                                           *)
(***************************************************************************)

CONSTANT Ids          \* the identities of the mutations (uuidv7 in the code)

VARIABLE status       \* the stage of every mutation

Stages == {"unborn", "pending", "durable", "committed", "lost"}

Init == status = [i \in Ids |-> "unborn"]

\* Every mutation that changes stage takes the same edge, from one of From
\* to one of To; the others keep theirs.
Edge(From, To) ==
  /\ status' \in [Ids -> Stages]
  /\ \A i \in Ids : \/ status'[i] = status[i]
                    \/ status[i] \in From /\ status'[i] \in To

\* A session hands a mutation to the batcher.
Issue == Edge({"unborn"}, {"pending"})

\* A batch reaches the disk, whole or in part, or memory is lost.
Settle == Edge({"pending"}, {"durable", "lost"})

\* One transaction commits mutations that were already on disk.
Commit == Edge({"durable"}, {"committed"})

Next == Issue \/ Settle \/ Commit

Spec == Init /\ [][Next]_status
=============================================================================
