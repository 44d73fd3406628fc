------------------------------- MODULE Store --------------------------------
(***************************************************************************)
(* The one SQLite connection of the daemon (db/database.py) and the        *)
(* coroutines that write through it (runtime/store.py, chat/history.py).   *)
(*                                                                         *)
(* Every statement and every commit is awaited on the connection's thread, *)
(* so statements of different coroutines interleave inside one and the     *)
(* same open transaction.  Database.transaction serialises its users with  *)
(* a lock, but a plain writer (execute, then commit) takes no lock: its    *)
(* commit ends whatever transaction is open.  A data statement outside a   *)
(* transaction opens one, and BEGIN inside a transaction is an error.      *)
(***************************************************************************)
EXTENDS Naturals, FiniteSets

CONSTANTS
  Writers,   \* coroutines in a plain writer: execute and commit, once or more
  Appends,   \* coroutines in HistoryStore.extend, of one conversation
  Deletes,   \* coroutines in a transaction of two or more statements
  NoClient

ASSUME StoreAssumption ==
  /\ NoClient \notin Writers \cup Appends \cup Deletes
  /\ Writers \cap Appends = {} /\ Writers \cap Deletes = {} /\ Appends \cap Deletes = {}

Batches == Appends \cup Deletes
Clients == Writers \cup Batches

VARIABLES
  txLock,   \* holder of Database._transaction_lock
  inTx,     \* the connection is inside a transaction
  pending,  \* changes of the open transaction
  durable,  \* committed changes
  at,       \* where each coroutine is
  rounds,   \* execute-and-commit pairs a writer still has to do
  seqRead   \* the sequence number an append has read

storeVars == <<txLock, inTx, pending, durable, at, rounds, seqRead>>

\* A change: the coroutine that made it and which one it is, the sequence number of the
\* row for an append.
Change(c, n) == [by |-> c, n |-> n]

StoreInit ==
  /\ txLock = NoClient /\ inTx = FALSE /\ pending = {} /\ durable = {}
  /\ at = [c \in Clients |-> "out"]
  /\ rounds = [w \in Writers |-> 0] /\ seqRead = [a \in Appends |-> 0]

-----------------------------------------------------------------------------

\* How many execute-and-commit pairs an operation of the stores makes: one for an upsert, a
\* column or a delete, two when an error column goes with it, three for put_actor.
UpsertRounds == 1
ColumnRounds == 1
DeleteRounds == 1
ConversationRounds == 1
ResponseStateRounds == 1
GatewayRounds == 1
IntegrationRounds == 2 * ColumnRounds
McpServerRounds == 2 * ColumnRounds
ActorRounds == UpsertRounds + 2 * ColumnRounds
ActorStatusRounds == {1, 2 * ColumnRounds}
OperationRounds ==
  {UpsertRounds, DeleteRounds, ConversationRounds, ResponseStateRounds, GatewayRounds,
   IntegrationRounds, McpServerRounds, ActorRounds} \cup ActorStatusRounds

Writes(w) ==
  /\ at[w] = "out"
  /\ \E n \in OperationRounds : rounds' = [rounds EXCEPT ![w] = n]
  /\ at' = [at EXCEPT ![w] = "executing"]
  /\ UNCHANGED <<txLock, inTx, pending, durable, seqRead>>

\* execute: the statement joins the open transaction, or opens one.
ExecuteSql(c, change) == inTx' = TRUE /\ pending' = pending \cup {change} /\ UNCHANGED durable

Executed(w) ==
  /\ at[w] = "executing"
  /\ ExecuteSql(w, Change(w, rounds[w]))
  /\ at' = [at EXCEPT ![w] = "committing"]
  /\ UNCHANGED <<txLock, rounds, seqRead>>

\* commit: of everything the connection has open, whoever wrote it.
CommitAll == inTx' = FALSE /\ pending' = {} /\ durable' = durable \cup pending

Committed(w) ==
  /\ at[w] = "committing"
  /\ CommitAll
  /\ rounds' = [rounds EXCEPT ![w] = @ - 1]
  /\ at' = [at EXCEPT ![w] = IF rounds[w] = 1 THEN "returned" ELSE "executing"]
  /\ UNCHANGED <<txLock, seqRead>>

-----------------------------------------------------------------------------

\* mistake: the lock is not taken.
UnlockedTransaction(b) ==
  /\ at[b] = "out"
  /\ txLock' = b
  /\ at' = [at EXCEPT ![b] = "beginning"]
  /\ UNCHANGED <<inTx, pending, durable, rounds, seqRead>>

\* transaction(): the lock, then BEGIN IMMEDIATE, which fails inside a transaction that a
\* plain writer has opened and not committed yet.
TransactionEnters(b) == txLock = NoClient /\ UnlockedTransaction(b)

Begin(b) ==
  /\ at[b] = "beginning"
  /\ IF inTx THEN /\ at' = [at EXCEPT ![b] = "failed"] /\ txLock' = NoClient
                  /\ UNCHANGED inTx
             ELSE /\ at' = [at EXCEPT ![b] = "began"] /\ inTx' = TRUE
                  /\ UNCHANGED txLock
  /\ UNCHANGED <<pending, durable, rounds, seqRead>>

\* extend: the next sequence number as the connection sees it, then all the rows.
SeqsSeen == {x.n : x \in {y \in pending \cup durable : y.by \in Appends}}
NextSeq == IF SeqsSeen = {} THEN 0 ELSE 1 + (CHOOSE n \in SeqsSeen : \A k \in SeqsSeen : k <= n)

ReadSeq(a) ==
  /\ at[a] = "began"
  /\ seqRead' = [seqRead EXCEPT ![a] = NextSeq]
  /\ at' = [at EXCEPT ![a] = "inserting"]
  /\ UNCHANGED <<txLock, inTx, pending, durable, rounds>>

Insert(a) ==
  /\ at[a] = "inserting"
  /\ ExecuteSql(a, Change(a, seqRead[a]))
  /\ at' = [at EXCEPT ![a] = "closing"]
  /\ UNCHANGED <<txLock, rounds, seqRead>>

\* delete_conversation_data, delete_skill: the first and the last statement of a transaction.
FirstStatement(d) ==
  /\ at[d] = "began"
  /\ ExecuteSql(d, Change(d, 1))
  /\ at' = [at EXCEPT ![d] = "between"]
  /\ UNCHANGED <<txLock, rounds, seqRead>>

LastStatement(d) ==
  /\ at[d] = "between"
  /\ ExecuteSql(d, Change(d, 2))
  /\ at' = [at EXCEPT ![d] = "closing"]
  /\ UNCHANGED <<txLock, rounds, seqRead>>

\* The end of the context manager: commit, or roll back what the connection has open when
\* the body raised or its task was cancelled.
TransactionCommits(b) ==
  /\ at[b] = "closing"
  /\ CommitAll
  /\ txLock' = NoClient
  /\ at' = [at EXCEPT ![b] = "returned"]
  /\ UNCHANGED <<rounds, seqRead>>

TransactionRollsBack(b) ==
  /\ at[b] \in {"began", "inserting", "between", "closing"}
  /\ inTx' = FALSE /\ pending' = {} /\ txLock' = NoClient
  /\ at' = [at EXCEPT ![b] = "failed"]
  /\ UNCHANGED <<durable, rounds, seqRead>>

\* The daemon dies: SQLite keeps what was committed.
StoreCrash ==
  /\ \E c \in Clients : at[c] \notin {"out", "returned", "failed"}
  /\ inTx' = FALSE /\ pending' = {} /\ txLock' = NoClient
  /\ at' = [c \in Clients |-> IF at[c] = "returned" THEN "returned" ELSE "failed"]
  /\ UNCHANGED <<durable, rounds, seqRead>>

StoreNext ==
  \/ \E w \in Writers : Writes(w) \/ Executed(w) \/ Committed(w)
  \/ \E b \in Batches : TransactionEnters(b) \/ Begin(b) \/ TransactionCommits(b) \/ TransactionRollsBack(b)
  \/ \E a \in Appends : ReadSeq(a) \/ Insert(a)
  \/ \E d \in Deletes : FirstStatement(d) \/ LastStatement(d)
  \/ StoreCrash

StoreSpec == StoreInit /\ [][StoreNext]_storeVars

-----------------------------------------------------------------------------

StoreTypeOK ==
  /\ txLock \in Batches \cup {NoClient} /\ inTx \in BOOLEAN
  /\ pending \subseteq [by : Clients, n : Nat] /\ durable \subseteq [by : Clients, n : Nat]
  /\ at \in [Clients -> {"out", "executing", "committing", "beginning", "began", "inserting",
                         "between", "closing", "returned", "failed"}]
  /\ rounds \in [Writers -> 0..3] /\ seqRead \in [Appends -> Nat]

\* A transaction that returned has all its changes in the database file: nothing else on
\* the shared connection rolls them back, whoever committed or failed in between.
ReturnedIsDurable ==
  /\ \A a \in Appends : at[a] = "returned" => Change(a, seqRead[a]) \in durable
  /\ \A d \in Deletes : at[d] = "returned" => {Change(d, 1), Change(d, 2)} \subseteq durable

\* Seen from the database file, the appends of a conversation are the abstract log of
\* AppendLog: each commit adds the next row, whichever writer's commit it is.
Log == INSTANCE AppendLog WITH Authors <- Appends, rows <- {x \in durable : x.by \in Appends}

\* HistoryStore.extend implements that log through interleaved statements, commits of plain
\* writers in the middle of its transaction, rollbacks and crashes.
AppendsInOrder == Log!LogSpec
=============================================================================
