---------------------------- MODULE StorageProofs ----------------------------
(***************************************************************************)
(* Proofs about what is kept: the writers of the one database connection   *)
(* and its append log (Store), schema migrations, processes and upgrades   *)
(* (Daemon), the copies of directories (Copies), the import of the previous *)
(* database (LegacyImport), the records of tasks that have ended           *)
(* (Retention), and the documents of an actor (Kv).  They share no state;  *)
(* every result is about the specification of one of them.                 *)
(***************************************************************************)
EXTENDS Store, Daemon, Copies, LegacyImport, Retention, Kv, FiniteSetTheorems, SequenceTheorems,
        WellFoundedInduction, TLAPS

-----------------------------------------------------------------------------
(* Store                                                                   *)

\* The committed rows of the conversation, the variable of AppendLog.
Rows == {x \in durable : x.by \in Appends}

\* A writer that still has a statement or a commit to do has a round left.
RoundsLeft == \A w \in Writers : at[w] \in {"executing", "committing"} => rounds[w] >= 1

\* A coroutine inside Database.transaction holds the lock.
LockHeld ==
  \A b \in Batches :
    at[b] \in {"beginning", "began", "inserting", "between", "closing"} => txLock = b

\* The statements of an open transaction are in the database file or in what the connection
\* has open.
StatementsKept ==
  /\ \A a \in Appends : at[a] = "closing" => Change(a, seqRead[a]) \in pending \cup durable
  /\ \A d \in Deletes :
       /\ at[d] \in {"between", "closing"} => Change(d, 1) \in pending \cup durable
       /\ at[d] = "closing" => Change(d, 2) \in pending \cup durable

\* The rows are numbered with their places, and the row an append is about to write, or has
\* written in the open transaction, is the next one and its first.
Numbered ==
  /\ IsFiniteSet(Rows)
  /\ \A k \in Nat : k < Cardinality(Rows) <=> \E x \in Rows : x.n = k
  /\ \A x \in Rows : at[x.by] \in {"closing", "returned", "failed"}
  /\ \A a \in Appends : at[a] = "inserting" => seqRead[a] = Cardinality(Rows)
  /\ \A x \in pending : x.by \in Appends =>
       /\ at[x.by] = "closing"
       /\ seqRead[x.by] = Cardinality(Rows)
       /\ x = Change(x.by, Cardinality(Rows))
       /\ \A y \in Rows : y.by # x.by

StoreInv ==
  StoreTypeOK /\ RoundsLeft /\ LockHeld /\ StatementsKept /\ ReturnedIsDurable /\ Numbered

-----------------------------------------------------------------------------

\* Every initial state satisfies the invariant.
LEMMA StoreInitInv == StoreInit => StoreInv
<1>. SUFFICES ASSUME StoreInit PROVE StoreInv
  OBVIOUS
<1>1. StoreTypeOK
  <2>1. \A w \in Writers : rounds[w] = 0 /\ 0 \in 0..3
    BY DEF StoreInit
  <2>. QED BY <2>1 DEF StoreInit, StoreTypeOK
<1>2. RoundsLeft /\ LockHeld /\ StatementsKept /\ ReturnedIsDurable
  BY DEF StoreInit, RoundsLeft, LockHeld, StatementsKept, ReturnedIsDurable, Clients, Batches
<1>3. Rows = {}
  BY DEF StoreInit, Rows
<1>4. Numbered
  BY <1>3, FS_EmptySet DEF StoreInit, Numbered, Clients, Batches
<1>. QED BY <1>1, <1>2, <1>4 DEF StoreInv

\* What every commit does to the rows, whoever commits: nothing, or the next row of an append
\* that is about to close its transaction.
LEMMA CommitRows ==
  ASSUME StoreInv, CommitAll
  PROVE  \/ Rows' = Rows /\ \A x \in pending : x.by \notin Appends
         \/ \E a \in Appends : /\ at[a] = "closing" /\ seqRead[a] = Cardinality(Rows)
                               /\ Rows' = Rows \cup {Change(a, Cardinality(Rows))}
                               /\ \A y \in Rows : y.by # a
<1>1. CASE \A x \in pending : x.by \notin Appends
  BY <1>1 DEF CommitAll, Rows
<1>2. CASE \E x \in pending : x.by \in Appends
  <2>1. PICK x \in pending : x.by \in Appends
    BY <1>2
  <2>2. \A y \in pending : y.by \in Appends => y = x
    BY <2>1 DEF StoreInv, Numbered, LockHeld, Batches
  <2>3. Rows' = Rows \cup {x}
    BY <2>1, <2>2 DEF CommitAll, Rows
  <2>. QED BY <2>1, <2>3 DEF StoreInv, Numbered
<1>. QED BY <1>1, <1>2

\* The next row keeps the rows numbered with their places.
LEMMA NextRow ==
  ASSUME StoreInv, NEW a \in Appends, \A y \in Rows : y.by # a,
         Rows' = Rows \cup {Change(a, Cardinality(Rows))}
  PROVE  /\ IsFiniteSet(Rows') /\ Cardinality(Rows') = Cardinality(Rows) + 1
         /\ \A k \in Nat : k < Cardinality(Rows') <=> \E x \in Rows' : x.n = k
<1>. DEFINE row == Change(a, Cardinality(Rows))
<1>1. row.by = a /\ row.n = Cardinality(Rows)
  BY DEF Change
<1>2. row \notin Rows
  BY <1>1
<1>3. IsFiniteSet(Rows) /\ Cardinality(Rows) \in Nat
  BY FS_CardinalityType DEF StoreInv, Numbered
<1>4. IsFiniteSet(Rows') /\ Cardinality(Rows') = Cardinality(Rows) + 1
  BY <1>2, <1>3, FS_AddElement
<1>5. ASSUME NEW k \in Nat
      PROVE  k < Cardinality(Rows') <=> \E x \in Rows' : x.n = k
  <2>1. k < Cardinality(Rows') <=> k < Cardinality(Rows) \/ k = Cardinality(Rows)
    BY <1>3, <1>4
  <2>2. k < Cardinality(Rows) <=> \E x \in Rows : x.n = k
    BY DEF StoreInv, Numbered
  <2>. QED BY <1>1, <2>1, <2>2
<1>. QED BY <1>4, <1>5

\* The sequence number an append reads inside its transaction is the next place.
LEMMA NextSeqIsNext ==
  ASSUME StoreInv, \A x \in pending : x.by \notin Appends
  PROVE  NextSeq = Cardinality(Rows)
<1>1. SeqsSeen = {x.n : x \in Rows}
  BY DEF SeqsSeen, Rows
<1>2. IsFiniteSet(Rows) /\ Cardinality(Rows) \in Nat
  BY FS_CardinalityType DEF StoreInv, Numbered
<1>3. \A x \in Rows : x.n \in Nat
  BY DEF StoreInv, StoreTypeOK, Rows
<1>4. \A k : k \in SeqsSeen <=> k \in Nat /\ k < Cardinality(Rows)
  BY <1>1, <1>3 DEF StoreInv, Numbered
<1>5. CASE Cardinality(Rows) = 0
  <2>1. SeqsSeen = {}
    BY <1>4, <1>5
  <2>. QED BY <1>5, <2>1 DEF NextSeq
<1>6. CASE Cardinality(Rows) # 0
  <2>. DEFINE last == Cardinality(Rows) - 1
  <2>1. last \in SeqsSeen /\ \A k \in SeqsSeen : k <= last
    BY <1>2, <1>4, <1>6
  <2>2. \A n \in SeqsSeen : (\A k \in SeqsSeen : k <= n) => n = last
    BY <1>2, <1>4, <2>1
  <2>3. (CHOOSE n \in SeqsSeen : \A k \in SeqsSeen : k <= n) = last
    BY <2>1, <2>2
  <2>4. NextSeq = 1 + last
    BY <2>1, <2>3 DEF NextSeq
  <2>. QED BY <1>2, <2>4
<1>. QED BY <1>5, <1>6

-----------------------------------------------------------------------------
(* The steps.                                                              *)

\* The plain writers.
LEMMA WritePreserves ==
  ASSUME StoreInv, NEW w \in Writers, Writes(w) \/ Executed(w)
  PROVE  StoreInv' /\ Rows' = Rows
<1>. w \in Clients /\ w \notin Batches
  BY StoreAssumption DEF Clients, Batches
<1>1. CASE Writes(w)
  <2>1. OperationRounds \subseteq 1..3
    BY DEF OperationRounds, UpsertRounds, ColumnRounds, DeleteRounds, ConversationRounds,
           ResponseStateRounds, GatewayRounds, IntegrationRounds, McpServerRounds, ActorRounds,
           ActorStatusRounds
  <2>2. StoreTypeOK' /\ RoundsLeft'
    BY <1>1, <2>1 DEF StoreInv, StoreTypeOK, RoundsLeft, Writes, Clients
  <2>3. Rows' = Rows /\ UNCHANGED <<txLock, pending, durable, seqRead>>
    BY <1>1 DEF Rows, Writes
  <2>4. \A b \in Batches : at'[b] = at[b]
    BY <1>1 DEF StoreInv, StoreTypeOK, Writes, Clients
  <2>5. LockHeld' /\ StatementsKept' /\ ReturnedIsDurable' /\ Numbered'
    BY <2>3, <2>4, SMTT(60)
    DEF StoreInv, LockHeld, StatementsKept, ReturnedIsDurable, Numbered, Batches, Rows
  <2>. QED BY <2>2, <2>3, <2>5 DEF StoreInv
<1>2. CASE Executed(w)
  <2>1. Change(w, rounds[w]) \in [by : Clients, n : Nat]
    BY DEF StoreInv, StoreTypeOK, Change
  <2>2. StoreTypeOK' /\ RoundsLeft'
    BY <1>2, <2>1 DEF StoreInv, StoreTypeOK, RoundsLeft, Executed, ExecuteSql, Clients
  <2>3. /\ Rows' = Rows /\ UNCHANGED <<txLock, durable, seqRead>>
        /\ pending' = pending \cup {Change(w, rounds[w])}
    BY <1>2 DEF Rows, Executed, ExecuteSql
  <2>4. \A b \in Batches : at'[b] = at[b]
    BY <1>2 DEF StoreInv, StoreTypeOK, Executed, Clients
  <2>5. Change(w, rounds[w]).by \notin Appends
    BY DEF Change, Batches
  <2>6. LockHeld' /\ StatementsKept' /\ ReturnedIsDurable' /\ Numbered'
    BY <2>3, <2>4, <2>5
    DEF StoreInv, LockHeld, StatementsKept, ReturnedIsDurable, Numbered, Batches, Rows
  <2>. QED BY <2>2, <2>3, <2>6 DEF StoreInv
<1>. QED BY <1>1, <1>2

\* What every commit keeps, whoever commits: only the place of the committer changes.
LEMMA CommitPreserves ==
  ASSUME StoreInv, CommitAll, UNCHANGED seqRead,
         \A a \in Appends : at'[a] = at[a] \/ (at[a] = "closing" /\ at'[a] = "returned"),
         \A d \in Deletes : at'[d] = at[d] \/ (at[d] = "closing" /\ at'[d] = "returned")
  PROVE  StatementsKept' /\ ReturnedIsDurable' /\ Numbered'
<1>1. durable' = durable \cup pending /\ pending' = {}
  BY DEF CommitAll
<1>2. StatementsKept' /\ ReturnedIsDurable'
  BY <1>1 DEF StoreInv, StatementsKept, ReturnedIsDurable, Change
<1>3. \A x \in Rows' : at'[x.by] \in {"closing", "returned", "failed"}
  BY <1>1 DEF StoreInv, Numbered, Rows
<1>4. \A a \in Appends : at'[a] = "inserting" => at[a] = "inserting"
  OBVIOUS
<1>5. CASE Rows' = Rows
  BY <1>1, <1>2, <1>3, <1>4, <1>5 DEF StoreInv, Numbered
<1>6. ASSUME NEW a \in Appends, at[a] = "closing",
             Rows' = Rows \cup {Change(a, Cardinality(Rows))}, \A y \in Rows : y.by # a
      PROVE  Numbered'
  <2>1. /\ IsFiniteSet(Rows') /\ Cardinality(Rows') = Cardinality(Rows) + 1
        /\ \A k \in Nat : k < Cardinality(Rows') <=> \E x \in Rows' : x.n = k
    BY <1>6, NextRow
  <2>2. \A b \in Appends : at[b] # "inserting"
    BY <1>6 DEF StoreInv, LockHeld, Batches
  <2>. QED BY <1>1, <1>3, <1>4, <2>1, <2>2 DEF Numbered
<1>. QED BY <1>2, <1>5, <1>6, CommitRows

\* The commit of a plain writer.
LEMMA CommittedPreserves ==
  ASSUME StoreInv, NEW w \in Writers, Committed(w)
  PROVE  StoreInv'
<1>1. w \in Clients /\ w \notin Batches
  BY StoreAssumption DEF Clients, Batches
<1>2. StoreTypeOK'
  <2>1. rounds[w] \in 0..3 /\ rounds[w] - 1 \in 0..3
    BY DEF StoreInv, StoreTypeOK, RoundsLeft, Committed
  <2>. QED BY <1>1, <2>1 DEF StoreInv, StoreTypeOK, Committed, CommitAll
<1>3. RoundsLeft'
  BY <1>1 DEF StoreInv, StoreTypeOK, RoundsLeft, Committed, Clients
<1>4. \A b \in Batches : at'[b] = at[b]
  BY <1>1 DEF StoreInv, StoreTypeOK, Committed, Clients
<1>5. LockHeld'
  BY <1>4 DEF StoreInv, LockHeld, Committed
<1>6. StatementsKept' /\ ReturnedIsDurable' /\ Numbered'
  BY <1>4, CommitPreserves DEF Committed, Batches
<1>. QED BY <1>2, <1>3, <1>5, <1>6 DEF StoreInv

\* The steps of a transaction that write nothing.
LEMMA EnterPreserves ==
  ASSUME StoreInv, NEW b \in Batches, TransactionEnters(b) \/ Begin(b)
  PROVE  StoreInv' /\ Rows' = Rows
<1>. USE DEF TransactionEnters, UnlockedTransaction, Begin
<1>1. b \in Clients /\ b \notin Writers
  BY StoreAssumption DEF Clients, Batches
<1>2. StoreTypeOK'
  BY <1>1 DEF StoreInv, StoreTypeOK
<1>3. Rows' = Rows /\ UNCHANGED <<pending, durable, rounds, seqRead>>
  BY DEF Rows
<1>4. /\ \A c \in Clients \ {b} : at'[c] = at[c]
      /\ at[b] \in {"out", "beginning"} /\ at'[b] \in {"beginning", "began", "failed"}
  BY <1>1 DEF StoreInv, StoreTypeOK
<1>5. RoundsLeft'
  BY <1>1, <1>3, <1>4 DEF StoreInv, RoundsLeft, Clients
<1>6. LockHeld'
  <2>1. CASE TransactionEnters(b)
    <3>1. \A c \in Batches : at[c] \notin {"beginning", "began", "inserting", "between", "closing"}
      BY <2>1, StoreAssumption DEF StoreInv, LockHeld, Batches
    <3>. QED BY <1>1, <1>4, <2>1, <3>1 DEF LockHeld, Clients
  <2>2. CASE Begin(b)
    BY <1>1, <2>2, StoreAssumption DEF StoreInv, StoreTypeOK, LockHeld, Clients
  <2>. QED BY <2>1, <2>2
<1>7. StatementsKept' /\ ReturnedIsDurable'
  BY <1>3, <1>4 DEF StoreInv, StatementsKept, ReturnedIsDurable, Clients, Batches
<1>8. Numbered'
  BY <1>3, <1>4 DEF StoreInv, Numbered, Clients, Batches, Rows
<1>. QED BY <1>2, <1>3, <1>5, <1>6, <1>7, <1>8 DEF StoreInv

\* The statements of an append.
LEMMA AppendPreserves ==
  ASSUME StoreInv, NEW a \in Appends, ReadSeq(a) \/ Insert(a)
  PROVE  StoreInv' /\ Rows' = Rows
<1>1. a \in Clients /\ a \in Batches /\ a \notin Writers /\ a \notin Deletes
  BY StoreAssumption DEF Clients, Batches
<1>2. \A x \in pending : x.by \notin Appends
  BY <1>1 DEF StoreInv, LockHeld, Numbered, ReadSeq, Insert, Batches
<1>3. \A y \in Rows : y.by # a
  BY <1>1 DEF StoreInv, Numbered, ReadSeq, Insert
<1>4. Cardinality(Rows) \in Nat
  BY FS_CardinalityType DEF StoreInv, Numbered
<1>5. CASE ReadSeq(a)
  <2>1. NextSeq = Cardinality(Rows)
    BY <1>2, NextSeqIsNext
  <2>2. Rows' = Rows /\ UNCHANGED <<txLock, inTx, pending, durable, rounds>>
    BY <1>5 DEF Rows, ReadSeq
  <2>3. /\ at[a] = "began" /\ at'[a] = "inserting" /\ seqRead'[a] = Cardinality(Rows)
        /\ \A c \in Clients \ {a} : at'[c] = at[c]
        /\ \A c \in Appends \ {a} : seqRead'[c] = seqRead[c]
    BY <1>1, <1>5, <2>1 DEF StoreInv, StoreTypeOK, ReadSeq
  <2>4. StoreTypeOK'
    BY <1>1, <1>4, <1>5, <2>1 DEF StoreInv, StoreTypeOK, ReadSeq
  <2>5. RoundsLeft' /\ LockHeld'
    BY <1>1, <2>2, <2>3 DEF StoreInv, RoundsLeft, LockHeld, Clients
  <2>6. StatementsKept' /\ ReturnedIsDurable'
    BY <1>1, <2>2, <2>3 DEF StoreInv, StatementsKept, ReturnedIsDurable, Clients, Batches
  <2>7. Numbered'
    <3>1. \A x \in Rows : x.by \in Clients \ {a}
      BY <1>3 DEF Rows, Clients, Batches
    <3>2. \A x \in Rows : at'[x.by] \in {"closing", "returned", "failed"}
      BY <2>3, <3>1 DEF StoreInv, Numbered
    <3>3. \A b \in Appends : at'[b] = "inserting" => seqRead'[b] = Cardinality(Rows)
      BY <2>3 DEF StoreInv, Numbered, Clients, Batches
    <3>. QED BY <1>2, <2>2, <3>2, <3>3 DEF StoreInv, Numbered
  <2>. QED BY <2>2, <2>4, <2>5, <2>6, <2>7 DEF StoreInv
<1>6. CASE Insert(a)
  <2>. DEFINE row == Change(a, Cardinality(Rows))
  <2>1. /\ at[a] = "inserting" /\ seqRead[a] = Cardinality(Rows) /\ at'[a] = "closing"
        /\ \A c \in Clients \ {a} : at'[c] = at[c]
    BY <1>1, <1>6 DEF StoreInv, StoreTypeOK, Numbered, Insert
  <2>2. /\ Rows' = Rows /\ UNCHANGED <<txLock, durable, rounds, seqRead>>
        /\ pending' = pending \cup {row}
    BY <1>6, <2>1 DEF Rows, Insert, ExecuteSql
  <2>3. row.by = a /\ row \in [by : Clients, n : Nat]
    BY <1>1, <1>4 DEF Change
  <2>4. StoreTypeOK'
    BY <1>1, <1>6, <2>2, <2>3 DEF StoreInv, StoreTypeOK, Insert, ExecuteSql
  <2>5. RoundsLeft' /\ LockHeld'
    BY <1>1, <2>1, <2>2 DEF StoreInv, RoundsLeft, LockHeld, Clients
  <2>6. StatementsKept' /\ ReturnedIsDurable'
    BY <1>1, <2>1, <2>2 DEF StoreInv, StatementsKept, ReturnedIsDurable, Clients, Batches
  <2>7. Numbered'
    BY <1>2, <1>3, <2>1, <2>2, <2>3 DEF StoreInv, Numbered, Clients, Batches, Rows
  <2>. QED BY <2>2, <2>4, <2>5, <2>6, <2>7 DEF StoreInv
<1>. QED BY <1>5, <1>6

\* The statements of a transaction that deletes.
LEMMA DeletePreserves ==
  ASSUME StoreInv, NEW d \in Deletes, FirstStatement(d) \/ LastStatement(d)
  PROVE  StoreInv' /\ Rows' = Rows
<1>1. d \in Clients /\ d \in Batches /\ d \notin Writers /\ d \notin Appends
  BY StoreAssumption DEF Clients, Batches
<1>2. PICK n \in {1, 2} : /\ pending' = pending \cup {Change(d, n)}
                          /\ n = 1 <=> at'[d] = "between"
                          /\ n = 2 <=> at[d] = "between"
  BY <1>1 DEF StoreInv, StoreTypeOK, FirstStatement, LastStatement, ExecuteSql
<1>3. /\ Rows' = Rows /\ UNCHANGED <<txLock, durable, rounds, seqRead>>
      /\ at[d] \in {"began", "between"} /\ at'[d] \in {"between", "closing"}
      /\ \A c \in Clients \ {d} : at'[c] = at[c]
  BY <1>1 DEF StoreInv, StoreTypeOK, Rows, FirstStatement, LastStatement, ExecuteSql
<1>4. Change(d, n).by = d /\ Change(d, n) \in [by : Clients, n : Nat]
  BY <1>1 DEF Change
<1>5. StoreTypeOK'
  BY <1>1, <1>2, <1>4 DEF StoreInv, StoreTypeOK, FirstStatement, LastStatement, ExecuteSql
<1>6. RoundsLeft' /\ LockHeld'
  BY <1>1, <1>3 DEF StoreInv, RoundsLeft, LockHeld, Clients
<1>7. StatementsKept' /\ ReturnedIsDurable'
  BY <1>1, <1>2, <1>3 DEF StoreInv, StatementsKept, ReturnedIsDurable, Clients, Batches
<1>8. Numbered'
  BY <1>1, <1>2, <1>3, <1>4 DEF StoreInv, Numbered, Clients, Batches, Rows
<1>. QED BY <1>3, <1>5, <1>6, <1>7, <1>8 DEF StoreInv

\* The ends of a transaction, and the death of the daemon.
LEMMA TransactionCommitsPreserves ==
  ASSUME StoreInv, NEW b \in Batches, TransactionCommits(b)
  PROVE  StoreInv'
<1>1. b \in Clients /\ b \notin Writers
  BY StoreAssumption DEF Clients, Batches
<1>2. /\ at[b] = "closing" /\ at'[b] = "returned"
      /\ \A c \in Clients \ {b} : at'[c] = at[c]
  BY <1>1 DEF StoreInv, StoreTypeOK, TransactionCommits
<1>3. StoreTypeOK'
  BY <1>1 DEF StoreInv, StoreTypeOK, TransactionCommits, CommitAll
<1>4. RoundsLeft' /\ LockHeld'
  BY <1>1, <1>2 DEF StoreInv, RoundsLeft, LockHeld, TransactionCommits, Clients
<1>5. StatementsKept' /\ ReturnedIsDurable' /\ Numbered'
  BY <1>1, <1>2, CommitPreserves DEF TransactionCommits, Clients, Batches
<1>. QED BY <1>3, <1>4, <1>5 DEF StoreInv

\* A rollback loses what the connection has open, and a crash every coroutine as well.
LEMMA LossPreserves ==
  ASSUME StoreInv, StoreCrash \/ \E b \in Batches : TransactionRollsBack(b)
  PROVE  StoreInv' /\ Rows' = Rows
<1>1. Rows' = Rows /\ pending' = {} /\ UNCHANGED <<durable, rounds, seqRead>>
  BY DEF StoreCrash, TransactionRollsBack, Rows
<1>2. CASE StoreCrash
  <2>1. \A c \in Clients : at'[c] = "failed" \/ (at[c] = "returned" /\ at'[c] = "returned")
    BY <1>2 DEF StoreCrash
  <2>2. StoreTypeOK'
    BY <1>1, <1>2 DEF StoreInv, StoreTypeOK, StoreCrash
  <2>3. RoundsLeft' /\ LockHeld' /\ StatementsKept' /\ ReturnedIsDurable'
    BY <1>1, <2>1
    DEF StoreInv, RoundsLeft, LockHeld, StatementsKept, ReturnedIsDurable, Clients, Batches
  <2>4. Numbered'
    BY <1>1, <2>1 DEF StoreInv, Numbered, Rows, Clients, Batches
  <2>. QED BY <1>1, <2>2, <2>3, <2>4 DEF StoreInv
<1>3. ASSUME NEW b \in Batches, TransactionRollsBack(b)
      PROVE  StoreInv'
  <2>1. b \in Clients /\ b \notin Writers
    BY StoreAssumption DEF Clients, Batches
  <2>2. /\ at[b] \in {"began", "inserting", "between", "closing"} /\ at'[b] = "failed"
        /\ \A c \in Clients \ {b} : at'[c] = at[c]
    BY <1>3, <2>1 DEF StoreInv, StoreTypeOK, TransactionRollsBack
  <2>3. \A c \in Batches \ {b} :
          at[c] \notin {"beginning", "began", "inserting", "between", "closing"}
    BY <2>2 DEF StoreInv, LockHeld
  <2>4. StoreTypeOK'
    BY <1>1, <1>3, <2>1 DEF StoreInv, StoreTypeOK, TransactionRollsBack
  <2>5. RoundsLeft' /\ LockHeld' /\ StatementsKept' /\ ReturnedIsDurable'
    BY <1>1, <2>1, <2>2, <2>3
    DEF StoreInv, RoundsLeft, LockHeld, StatementsKept, ReturnedIsDurable, Clients, Batches
  <2>6. Numbered'
    BY <1>1, <2>1, <2>2 DEF StoreInv, Numbered, Rows, Clients, Batches
  <2>. QED BY <2>4, <2>5, <2>6 DEF StoreInv
<1>. QED BY <1>1, <1>2, <1>3

-----------------------------------------------------------------------------

\* Every step preserves the invariant.
LEMMA StoreInvStep == StoreInv /\ [StoreNext]_storeVars => StoreInv'
<1>. SUFFICES ASSUME StoreInv, [StoreNext]_storeVars PROVE StoreInv'
  OBVIOUS
<1>1. CASE StoreNext
  BY <1>1, WritePreserves, CommittedPreserves, EnterPreserves, TransactionCommitsPreserves,
     AppendPreserves, DeletePreserves, LossPreserves DEF StoreNext
<1>2. CASE UNCHANGED storeVars
  BY <1>2 DEF storeVars, StoreInv, StoreTypeOK, RoundsLeft, LockHeld, StatementsKept,
              ReturnedIsDurable, Numbered, Rows
<1>. QED BY <1>1, <1>2

\* The inductive invariant of Store (db/database.py, chat/history.py).
THEOREM StoreInvariant == StoreSpec => []StoreInv
  BY StoreInitInv, StoreInvStep, PTL DEF StoreSpec

\* The types hold for any coroutines on the connection.
THEOREM StoreTypes == StoreSpec => []StoreTypeOK
<1>1. StoreInv => StoreTypeOK
  BY DEF StoreInv
<1>. QED BY <1>1, StoreInvariant, PTL

\* What a transaction returned is in the database file, whatever else used its connection.
THEOREM ReturnedIsDurableAlways == StoreSpec => []ReturnedIsDurable
<1>1. StoreInv => ReturnedIsDurable
  BY DEF StoreInv
<1>. QED BY <1>1, StoreInvariant, PTL

\* A commit adds the next row of the log, or none.
LEMMA CommitImplementsLog ==
  ASSUME StoreInv, CommitAll
  PROVE  Log!LogNext \/ Rows' = Rows
<1>1. ASSUME NEW a \in Appends, Rows' = Rows \cup {Change(a, Cardinality(Rows))},
             \A y \in Rows : y.by # a
      PROVE  Log!LogNext
  <2>1. Log!Cardinality(Rows) = Cardinality(Rows)
    BY DEF Log!Cardinality, Cardinality
  <2>. QED BY <1>1, <2>1 DEF Log!LogNext, Log!AppendRow, Log!Row, Change, Rows
<1>. QED BY <1>1, CommitRows

\* Every step of the store is a step of the log or leaves it alone.
LEMMA StepImplementsLog ==
  ASSUME StoreInv, [StoreNext]_storeVars
  PROVE  Log!LogNext \/ Rows' = Rows
<1>1. CASE UNCHANGED storeVars
  BY <1>1 DEF storeVars, Rows
<1>2. CASE StoreNext
  <2>1. \A c \in Clients : Committed(c) \/ TransactionCommits(c) => CommitAll
    BY DEF Committed, TransactionCommits
  <2>. QED
    BY <1>2, <2>1, CommitImplementsLog, WritePreserves, EnterPreserves, AppendPreserves,
       DeletePreserves, LossPreserves
    DEF StoreNext, Clients, Batches
<1>. QED BY <1>1, <1>2

\* HistoryStore.extend over the shared connection implements the append-only log of AppendLog:
\* a row at a time, numbered with its place, for any number of appends, plain writers and
\* transactions, rollbacks and crashes.
THEOREM AppendsInOrderAlways == StoreSpec => AppendsInOrder
<1>1. StoreInit => Log!LogInit
  BY DEF StoreInit, Log!LogInit
<1>2. StoreInv /\ [StoreNext]_storeVars => [Log!LogNext]_Rows
  BY StepImplementsLog
<1>. QED BY <1>1, <1>2, StoreInvariant, PTL DEF StoreSpec, AppendsInOrder, Log!LogSpec, Rows

-----------------------------------------------------------------------------
(* Daemon                                                                  *)

\* What a process takes as applied is in the database.
AppliedIsRun == \A p \in Procs : \A v \in 1..applied[p] : script[v] = "done"

\* What the place of a process in migrate() says of the versions.
PlaceTellsVersion ==
  \A p \in Procs :
    /\ pc[p] \in {"script", "ran"} => applied[p] < LastVersion
    /\ pc[p] = "ran" => script[applied[p] + 1] = "done"
    /\ pc[p] \in {"loaded", "bound", "started", "serving", "stopping"} =>
         applied[p] = LastVersion

DaemonInv ==
  /\ DaemonTypeOK
  /\ RecordedIsRun
  /\ AppliedIsRun
  /\ PlaceTellsVersion
  /\ StaleOnlyAfterKill

\* What the steps share that leave the database and the versions alone.
LEMMA SameDatabase ==
  ASSUME DaemonInv, UNCHANGED <<script, schemaRow, applied>>,
         \A p \in Procs : pc'[p] = "ran" => pc[p] = "ran",
         \A p \in Procs : pc'[p] \in {"script", "ran"} => pc[p] \in {"script", "ran"},
         \A p \in Procs : pc'[p] \in {"loaded", "bound", "started", "serving", "stopping"} =>
           applied[p] = LastVersion
  PROVE  RecordedIsRun' /\ AppliedIsRun' /\ PlaceTellsVersion'
  BY DEF DaemonInv, RecordedIsRun, AppliedIsRun, PlaceTellsVersion

\* What the steps share that leave the listeners and the run state alone.
LEMMA SameListeners ==
  ASSUME DaemonInv, UNCHANGED <<listeners, runState>>,
         \A p \in Procs : pc[p] = "killed" => pc'[p] = "killed"
  PROVE  StaleOnlyAfterKill'
  BY DEF DaemonInv, DaemonTypeOK, StaleOnlyAfterKill

\* What is in the database stays there: the steps of a script only add to it.
LEMMA ScriptOnlyGrows ==
  ASSUME DaemonInv, NEW p \in Procs, BeginScript(p) \/ FinishScript(p)
  PROVE  /\ script' \in [Versions -> {"none", "part", "done"}]
         /\ \A v \in Versions : script[v] = "done" => script'[v] = "done"
         /\ applied[p] + 1 \in Versions
<1>1. applied[p] \in 0..LastVersion /\ applied[p] < LastVersion
  BY DEF DaemonInv, DaemonTypeOK, PlaceTellsVersion, BeginScript, FinishScript, Goes
<1>2. applied[p] + 1 \in Versions
  BY <1>1, VersionAssumption DEF Versions
<1>3. CASE BeginScript(p)
  BY <1>2, <1>3 DEF DaemonInv, DaemonTypeOK, BeginScript
<1>4. CASE FinishScript(p)
  BY <1>2, <1>4 DEF DaemonInv, DaemonTypeOK, FinishScript
<1>. QED BY <1>2, <1>3, <1>4

\* Every initial state satisfies the invariant.
LEMMA DaemonInitInv == DaemonInit => DaemonInv
  BY ProcsAssumption, VersionAssumption
  DEF DaemonInit, DaemonInv, DaemonTypeOK, RecordedIsRun, AppliedIsRun, PlaceTellsVersion,
      StaleOnlyAfterKill, Versions, Roles, Gone, Places

\* The steps of migrate() that write.
LEMMA MigrationPreserves ==
  ASSUME DaemonInv, NEW p \in Procs,
         BeginScript(p) \/ FinishScript(p) \/ RecordVersion(p) \/ ReadVersion(p)
  PROVE  DaemonInv'
<1>1. CASE BeginScript(p)
  <2>1. DaemonTypeOK'
    BY <1>1, ScriptOnlyGrows DEF DaemonInv, DaemonTypeOK, BeginScript, Goes, Places
  <2>2. RecordedIsRun' /\ AppliedIsRun'
    BY <1>1, ScriptOnlyGrows, VersionAssumption
    DEF DaemonInv, DaemonTypeOK, RecordedIsRun, AppliedIsRun, BeginScript, Versions
  <2>3. PlaceTellsVersion'
    BY <1>1, ScriptOnlyGrows, VersionAssumption
    DEF DaemonInv, DaemonTypeOK, PlaceTellsVersion, BeginScript, Goes, Versions
  <2>4. StaleOnlyAfterKill'
    BY <1>1, SameListeners DEF DaemonInv, DaemonTypeOK, BeginScript, Goes
  <2>. QED BY <2>1, <2>2, <2>3, <2>4 DEF DaemonInv
<1>2. CASE FinishScript(p)
  <2>1. DaemonTypeOK'
    BY <1>2, ScriptOnlyGrows DEF DaemonInv, DaemonTypeOK, FinishScript, Goes, Places
  <2>2. RecordedIsRun' /\ AppliedIsRun'
    BY <1>2, ScriptOnlyGrows, VersionAssumption
    DEF DaemonInv, DaemonTypeOK, RecordedIsRun, AppliedIsRun, FinishScript, Versions
  <2>3. PlaceTellsVersion'
    BY <1>2, ScriptOnlyGrows, VersionAssumption
    DEF DaemonInv, DaemonTypeOK, PlaceTellsVersion, FinishScript, Goes, Versions
  <2>4. StaleOnlyAfterKill'
    BY <1>2, SameListeners DEF DaemonInv, DaemonTypeOK, FinishScript, Goes
  <2>. QED BY <2>1, <2>2, <2>3, <2>4 DEF DaemonInv
<1>3. CASE RecordVersion(p)
  <2>1. DaemonTypeOK'
    BY <1>3, VersionAssumption
    DEF DaemonInv, DaemonTypeOK, PlaceTellsVersion, RecordVersion, Goes, Places
  <2>2. RecordedIsRun' /\ AppliedIsRun'
    BY <1>3, VersionAssumption
    DEF DaemonInv, DaemonTypeOK, RecordedIsRun, AppliedIsRun, PlaceTellsVersion, RecordVersion, Goes
  <2>3. PlaceTellsVersion'
    BY <1>3, VersionAssumption DEF DaemonInv, DaemonTypeOK, PlaceTellsVersion, RecordVersion, Goes
  <2>4. StaleOnlyAfterKill'
    BY <1>3, SameListeners DEF DaemonInv, DaemonTypeOK, RecordVersion, Goes
  <2>. QED BY <2>1, <2>2, <2>3, <2>4 DEF DaemonInv
<1>4. CASE ReadVersion(p)
  <2>1. DaemonTypeOK'
    BY <1>4, VersionAssumption DEF DaemonInv, DaemonTypeOK, ReadVersion, Goes, Places
  <2>2. RecordedIsRun' /\ AppliedIsRun' /\ PlaceTellsVersion'
    BY <1>4, VersionAssumption
    DEF DaemonInv, DaemonTypeOK, RecordedIsRun, AppliedIsRun, PlaceTellsVersion, ReadVersion, Goes
  <2>3. StaleOnlyAfterKill'
    BY <1>4, SameListeners DEF DaemonInv, DaemonTypeOK, ReadVersion, Goes
  <2>. QED BY <2>1, <2>2, <2>3 DEF DaemonInv
<1>. QED BY <1>1, <1>2, <1>3, <1>4

\* The steps that only move a process, or take and free the port.
LEMMA MovePreserves ==
  ASSUME DaemonInv, NEW p \in Procs,
         \/ StartServer(p) \/ ScriptFails(p) \/ Loads(p) \/ Binds(p) \/ BindFails(p)
         \/ AppStarts(p) \/ LeavesLoop(p) \/ Closes(p)
         \/ UpgradeMigrates(p) \/ UpgradeChecks(p) \/ UpgradeRestarts(p)
  PROVE  DaemonInv'
<1>. USE DEF StartServer, ScriptFails, Loads, Binds, BindFails, AppStarts, LeavesLoop, Closes,
             UpgradeMigrates, UpgradeChecks, UpgradeRestarts, Starts, Goes
<1>1. DaemonTypeOK'
  BY DEF DaemonInv, DaemonTypeOK, Places, Gone, Roles
<1>2. RecordedIsRun' /\ AppliedIsRun' /\ PlaceTellsVersion'
  <2>1. UNCHANGED <<script, schemaRow, applied>>
    OBVIOUS
  <2>2. \A q \in Procs : /\ pc'[q] = "ran" => pc[q] = "ran"
                         /\ pc'[q] \in {"script", "ran"} => pc[q] \in {"script", "ran"}
    BY DEF DaemonInv, DaemonTypeOK
  <2>3. \A q \in Procs : pc'[q] \in {"loaded", "bound", "started", "serving", "stopping"} =>
          applied[q] = LastVersion
    BY DEF DaemonInv, DaemonTypeOK, PlaceTellsVersion
  <2>. QED BY <2>1, <2>2, <2>3, SameDatabase
<1>3. StaleOnlyAfterKill'
  <2>1. UNCHANGED <<listeners, runState>>
    OBVIOUS
  <2>2. \A q \in Procs : pc[q] = "killed" => pc'[q] = "killed"
    BY DEF DaemonInv, DaemonTypeOK
  <2>. QED BY <2>1, <2>2, SameListeners
<1>. QED BY <1>1, <1>2, <1>3 DEF DaemonInv

\* The steps of the listeners, and a kill.
LEMMA ListenerPreserves ==
  ASSUME DaemonInv, NEW p \in Procs,
         \/ Killed(p)
         \/ \E surface \in {"admin", "public"} : Listens(p, surface) \/ ListenerEnds(p, surface)
  PROVE  DaemonInv'
<1>. USE DEF Killed, Listens, ListenerEnds, RunStateAfter, Alive
<1>1. DaemonTypeOK'
  BY VersionAssumption DEF DaemonInv, DaemonTypeOK, Places, Gone
<1>2. RecordedIsRun' /\ AppliedIsRun' /\ PlaceTellsVersion'
  <2>1. UNCHANGED <<script, schemaRow, applied>>
    OBVIOUS
  <2>2. \A q \in Procs : /\ pc'[q] = "ran" => pc[q] = "ran"
                         /\ pc'[q] \in {"script", "ran"} => pc[q] \in {"script", "ran"}
    BY DEF DaemonInv, DaemonTypeOK
  <2>3. \A q \in Procs : pc'[q] \in {"loaded", "bound", "started", "serving", "stopping"} =>
          applied[q] = LastVersion
    BY DEF DaemonInv, DaemonTypeOK, PlaceTellsVersion
  <2>. QED BY <2>1, <2>2, <2>3, SameDatabase
<1>3. StaleOnlyAfterKill'
  <2>1. CASE Killed(p)
    BY <2>1, ProcsAssumption DEF DaemonInv, DaemonTypeOK, StaleOnlyAfterKill, Gone
  <2>2. ASSUME NEW surface \in {"admin", "public"}, Listens(p, surface)
        PROVE  StaleOnlyAfterKill'
    BY <2>2, ProcsAssumption DEF DaemonInv, DaemonTypeOK, StaleOnlyAfterKill
  <2>3. ASSUME NEW surface \in {"admin", "public"}, ListenerEnds(p, surface)
        PROVE  StaleOnlyAfterKill'
    BY <2>3, ProcsAssumption DEF DaemonInv, DaemonTypeOK, StaleOnlyAfterKill
  <2>. QED BY <2>1, <2>2, <2>3
<1>. QED BY <1>1, <1>2, <1>3 DEF DaemonInv

\* The steps of the upgrade script that move no process.
LEMMA UpgradePreserves ==
  ASSUME DaemonInv, UpgradeStops \/ \E p \in Procs : UpgradeGoesOn(p)
  PROVE  DaemonInv'
<1>1. UNCHANGED <<script, schemaRow, pc, applied, listeners, runState>>
  BY DEF UpgradeStops, UpgradeGoesOn
<1>2. DaemonTypeOK'
  BY DEF DaemonInv, DaemonTypeOK, UpgradeStops, UpgradeGoesOn
<1>3. RecordedIsRun' /\ AppliedIsRun' /\ PlaceTellsVersion' /\ StaleOnlyAfterKill'
  BY <1>1 DEF DaemonInv, RecordedIsRun, AppliedIsRun, PlaceTellsVersion, StaleOnlyAfterKill
<1>. QED BY <1>2, <1>3 DEF DaemonInv

\* Every step preserves the invariant.
LEMMA DaemonInvStep == DaemonInv /\ [DaemonNext]_daemonVars => DaemonInv'
<1>. SUFFICES ASSUME DaemonInv, [DaemonNext]_daemonVars PROVE DaemonInv'
  OBVIOUS
<1>1. CASE DaemonNext
  BY <1>1, MigrationPreserves, MovePreserves, ListenerPreserves, UpgradePreserves DEF DaemonNext
<1>2. CASE UNCHANGED daemonVars
  BY <1>2 DEF daemonVars, DaemonInv, DaemonTypeOK, RecordedIsRun, AppliedIsRun, PlaceTellsVersion,
              StaleOnlyAfterKill
<1>. QED BY <1>1, <1>2

\* The inductive invariant of Daemon (db/migrate.py, web/server.py): what is recorded or taken
\* as applied is in the database, whichever processes migrate at the same time or are killed.
THEOREM DaemonInvariant == DaemonSpec => []DaemonInv
  BY DaemonInitInv, DaemonInvStep, PTL DEF DaemonSpec

\* The types hold for every set of processes and every number of migrations.
THEOREM DaemonTypes == DaemonSpec => []DaemonTypeOK
<1>1. DaemonInv => DaemonTypeOK
  BY DEF DaemonInv
<1>. QED BY <1>1, DaemonInvariant, PTL

\* A daemon serves only on the complete schema of its code, for any number of migrations,
\* processes and kills (db/migrate.py).
THEOREM ServesWholeSchemaAlways == DaemonSpec => []ServesWholeSchema
<1>1. DaemonInv => ServesWholeSchema
  BY DEF DaemonInv, AppliedIsRun, PlaceTellsVersion, ServesWholeSchema, Versions
<1>. QED BY <1>1, DaemonInvariant, PTL

\* Only a killed process leaves a run state that names no serving process (web/server.py).
THEOREM StaleOnlyAfterKillAlways == DaemonSpec => []StaleOnlyAfterKill
<1>1. DaemonInv => StaleOnlyAfterKill
  BY DEF DaemonInv
<1>. QED BY <1>1, DaemonInvariant, PTL

-----------------------------------------------------------------------------
(* Copies                                                                  *)

\* A grant exists only from the moment its directory is whole until its removal starts.
GrantFollowsDirectory ==
  \A s \in Shares :
    /\ grant[s] \/ grantRow[s] => shareDir[s] = "whole"
    /\ shareAt[s] \in {"shown", "persisted"} => shareDir[s] = "whole"
    /\ shareAt[s] \in {"new", "copying", "shown", "removing", "over"} => ~grant[s] /\ ~grantRow[s]

\* A copy that touches the skill or its backup has a whole copy staged, and a backup is
\* removed only while a skill is in place.
CopyIsStaged ==
  /\ copyAt \in {"clear", "aside", "install"} => staging = "whole"
  /\ copyAt \in {"clear", "aside", "cleanup"} => skillDir # "none"
  /\ owned => skillDir = "whole" \/ (skillDir = "none" /\ backup = "whole")

CopyInv == CopyTypeOK /\ GrantFollowsDirectory /\ CopyIsStaged

\* The steps of one share, and the steps of the skill's copy.
ShareStep(s) ==
  \/ PublishCopies(s) \/ PublishFails(s) \/ PublishShows(s) \/ PersistGrant(s) \/ GrantShare(s)
  \/ Expire(s) \/ RemoveGrant(s) \/ RemoveStarts(s) \/ Removed(s)
SkillStep ==
  \/ CopyStarts \/ CopyStaged \/ ClearBackup \/ MoveAside \/ Install \/ CleanupBackup \/ CopyFails
  \/ ActorDeletes

-----------------------------------------------------------------------------

\* Every initial state satisfies the invariant.
LEMMA CopyInitInv == CopyInit => CopyInv
  BY DEF CopyInit, CopyInv, CopyTypeOK, GrantFollowsDirectory, CopyIsStaged

\* A step of a share keeps its grant behind its directory, and leaves the others alone.
LEMMA SharePreserves ==
  ASSUME CopyInv, NEW s \in Shares, ShareStep(s)
  PROVE  CopyInv'
<1>. USE DEF CopyInv, CopyTypeOK, GrantFollowsDirectory
<1>1. UNCHANGED skillVars => CopyIsStaged'
  BY DEF CopyIsStaged, skillVars
<1>2. CASE PublishCopies(s)
  BY <1>1, <1>2 DEF PublishCopies, skillVars
<1>3. CASE PublishFails(s)
  BY <1>1, <1>3 DEF PublishFails, skillVars
<1>4. CASE PublishShows(s)
  BY <1>1, <1>4 DEF PublishShows, skillVars
<1>5. CASE PersistGrant(s)
  BY <1>1, <1>5 DEF PersistGrant, skillVars
<1>6. CASE GrantShare(s)
  BY <1>1, <1>6 DEF GrantShare, skillVars
<1>7. CASE Expire(s)
  BY <1>1, <1>7 DEF Expire, skillVars
<1>8. CASE RemoveGrant(s)
  BY <1>1, <1>8 DEF RemoveGrant, DropGrant, skillVars
<1>9. CASE RemoveStarts(s)
  BY <1>1, <1>9 DEF RemoveStarts, skillVars
<1>10. CASE Removed(s)
  BY <1>1, <1>10 DEF Removed, skillVars
<1>. QED BY <1>2, <1>3, <1>4, <1>5, <1>6, <1>7, <1>8, <1>9, <1>10 DEF ShareStep

\* A step of the copy, or of the actor on its workspace, leaves a whole skill or a whole backup.
LEMMA SkillPreserves ==
  ASSUME CopyInv, SkillStep
  PROVE  CopyInv'
<1>. USE DEF CopyInv, CopyTypeOK, CopyIsStaged, shareVars
<1>1. UNCHANGED shareVars => GrantFollowsDirectory'
  BY DEF GrantFollowsDirectory
<1>2. CASE CopyStarts
  BY <1>1, <1>2 DEF CopyStarts
<1>3. CASE CopyStaged
  BY <1>1, <1>3 DEF CopyStaged
<1>4. CASE ClearBackup
  BY <1>1, <1>4 DEF ClearBackup
<1>5. CASE MoveAside
  BY <1>1, <1>5 DEF MoveAside, SetAside
<1>6. CASE Install
  BY <1>1, <1>6 DEF Install
<1>7. CASE CleanupBackup
  BY <1>1, <1>7 DEF CleanupBackup
<1>8. CASE CopyFails
  BY <1>1, <1>8 DEF CopyFails
<1>9. CASE ActorDeletes
  BY <1>1, <1>9 DEF ActorDeletes
<1>. QED BY <1>2, <1>3, <1>4, <1>5, <1>6, <1>7, <1>8, <1>9 DEF SkillStep

\* The daemon dies: the grants are those of the rows, the copy under way is forgotten.
LEMMA RestartPreserves ==
  ASSUME CopyInv, CopyRestart
  PROVE  CopyInv'
  BY DEF CopyInv, CopyTypeOK, GrantFollowsDirectory, CopyIsStaged, CopyRestart

\* The invariant is inductive.
THEOREM CopyInvariant == CopySpec => []CopyInv
<1>1. ASSUME CopyInv, [CopyNext]_copyVars
      PROVE  CopyInv'
  <2>1. CASE \E s \in Shares : ShareStep(s)
    BY <1>1, <2>1, SharePreserves
  <2>2. CASE SkillStep
    BY <1>1, <2>2, SkillPreserves
  <2>3. CASE CopyRestart
    BY <1>1, <2>3, RestartPreserves
  <2>4. CASE UNCHANGED copyVars
    BY <1>1, <2>4
    DEF CopyInv, CopyTypeOK, GrantFollowsDirectory, CopyIsStaged, copyVars, shareVars, skillVars
  <2>. QED BY <1>1, <2>1, <2>2, <2>3, <2>4 DEF CopyNext, ShareStep, SkillStep
<1>. QED BY <1>1, CopyInitInv, PTL DEF CopySpec

\* Every variable has its type (Copies).
THEOREM CopyTypes == CopySpec => []CopyTypeOK
<1>1. CopyInv => CopyTypeOK
  BY DEF CopyInv
<1>. QED BY <1>1, CopyInvariant, PTL

\* A grant has its whole snapshot, an installed skill is in place or in its backup
\* (runtime/shares.py publish, _remove; runtime/skills.py copy_skill).
THEOREM CopiesAreWholeAlways == CopySpec => []CopiesAreWhole
<1>1. CopyInv => CopiesAreWhole
  BY DEF CopyInv, GrantFollowsDirectory, CopyIsStaged, CopiesAreWhole
<1>. QED BY <1>1, CopyInvariant, PTL

-----------------------------------------------------------------------------
(* LegacyImport                                                            *)

\* What a conversation of the source becomes, and the keys of its rows.
Source(c) == FromHistory(c) \o FromMessages(c)
HistoryKeys == DOMAIN HistoryRows(FromHistory)
MessageKeys == DOMAIN HistoryRows(FromMessages)

OtherKeys == {Row("app_integrations", "legacy"), Row("app_actors", "legacy"),
              Row("app_routes", "legacy")} \cup {Row("app_conversations", c) : c \in Conversations}

\* What an import has written when it comes to a step.
Written(where) ==
  CASE where \in {"idle", "integrations"} -> {}
    [] where \in {"workspace", "copying", "actors"} -> {Row("app_integrations", "legacy")}
    [] where = "routes" -> {Row("app_integrations", "legacy"), Row("app_actors", "legacy")}
    [] where = "conversations" ->
         {Row("app_integrations", "legacy"), Row("app_actors", "legacy"), Row("app_routes", "legacy")}
    [] where = "history" -> OtherKeys
    [] where = "messages" -> OtherKeys \cup HistoryKeys
    [] where \in {"written", "committed"} -> SourceKeys

\* Every key that says history is of an item of a conversation.
KeysAreRows ==
  \A key \in DOMAIN stored : key[1] = "history" =>
    \E c \in Conversations : \E s \in Nat : key = HistoryRow(c, s)

\* Without the rows of the source the database knows none of its conversations.
NothingBefore ==
  SourceKeys \cap DOMAIN stored = {} =>
    \A c \in Conversations : \A s \in Nat : HistoryRow(c, s) \notin DOMAIN stored

\* What was said since the import, at the places from Len(Source(c)) up to m.
Since(c, m) ==
  \A s \in Nat : Len(Source(c)) <= s /\ s < m =>
    /\ stored[HistoryRow(c, s)][1] = "chat"
    /\ stored[HistoryRow(c, s)][2] \in Nat /\ stored[HistoryRow(c, s)][2] < uses
    /\ \A t \in Nat : s < t /\ t < m =>
         stored[HistoryRow(c, s)][2] < stored[HistoryRow(c, t)][2]

\* The history of a conversation is its m first places: the items of the source, then that.
HistoryIs(c, m) ==
  /\ Len(Source(c)) <= m
  /\ \A s \in Nat : HistoryRow(c, s) \in DOMAIN stored <=> s < m
  /\ \A k \in DOMAIN Source(c) : stored[HistoryRow(c, k - 1)] = Source(c)[k]
  /\ Since(c, m)

ItemsBehind ==
  SourceKeys \subseteq DOMAIN stored => \A c \in Conversations : \E m \in Nat : HistoryIs(c, m)

\* What the import has written so far beside what is stored.
Uncommitted ==
  /\ importStep \in {"idle"} \cup ImportSteps
  /\ importStep \in {"idle", "committed"} => uncommitted = stored
  /\ DOMAIN uncommitted = DOMAIN stored \cup Written(importStep)
  /\ \A key \in DOMAIN stored : key[1] = "history" => uncommitted[key] = stored[key]
  /\ \A c \in Conversations : \A k \in DOMAIN Source(c) :
       HistoryRow(c, k - 1) \in DOMAIN uncommitted \ DOMAIN stored =>
         uncommitted[HistoryRow(c, k - 1)] = Source(c)[k]

AllOrNone == SourceKeys \cap DOMAIN stored \in {{}, SourceKeys}

ImportInv ==
  /\ uses \in Nat
  /\ AllOrNone /\ KeysAreRows /\ NothingBefore /\ ItemsBehind /\ Uncommitted
  /\ marked => SourceKeys \subseteq DOMAIN stored

-----------------------------------------------------------------------------
(* The sequence of the known entries.                                      *)

\* A set of natural numbers has a least one.
LEMMA LeastNat ==
  ASSUME NEW S, S \subseteq Nat, S # {}
  PROVE  \E n \in S : \A m \in S : n <= m
<1>1. \E n \in S : \A m \in S : <<m, n>> \notin OpToRel(<, Nat)
  BY NatLessThanWellFounded, WFMin
<1>2. \A m, n \in Nat : m < n => <<m, n>> \in OpToRel(<, Nat)
  BY DEF OpToRel
<1>3. \A m, n \in Nat : m < n \/ n <= m
  OBVIOUS
<1> QED BY <1>1, <1>2, <1>3

\* f tells the known entries among the first n.
Follows(f, entries, n) ==
  /\ f \in [0..n -> Seq(Nat)] /\ f[0] = <<>>
  /\ \A m \in 1..n : f[m] = IF entries[m] = "item" THEN Append(f[m - 1], m) ELSE f[m - 1]

\* There is such a function, by the least n without one.
LEMMA KnownFollows ==
  ASSUME NEW entries \in Seq({"item", "odd"})
  PROVE  \E f : Follows(f, entries, Len(entries))
<1>0. Len(entries) \in Nat
  OBVIOUS
<1> DEFINE Bad == {n \in 0..Len(entries) : ~ \E f : Follows(f, entries, n)}
<1>1. SUFFICES ASSUME Bad # {} PROVE FALSE
  BY <1>0
<1>2. PICK n \in Bad : \A m \in Bad : n <= m
  <2>1. Bad \subseteq Nat
    OBVIOUS
  <2> HIDE DEF Bad
  <2> QED BY <1>1, <2>1, LeastNat
<1>3. n # 0
  <2>1. <<>> \in Seq(Nat)
    OBVIOUS
  <2>2. Follows([i \in 0..0 |-> <<>>], entries, 0)
    BY <2>1 DEF Follows
  <2> QED BY <1>2, <2>2
<1>4. n \in Nat /\ n - 1 \in 0..Len(entries) /\ n - 1 \notin Bad
  BY <1>0, <1>2, <1>3
<1>5. PICK f : Follows(f, entries, n - 1)
  BY <1>4
<1> DEFINE new == IF entries[n] = "item" THEN Append(f[n - 1], n) ELSE f[n - 1]
           g == [i \in 0..n |-> IF i = n THEN new ELSE f[i]]
<1>6. f[n - 1] \in Seq(Nat)
  BY <1>4, <1>5 DEF Follows
<1>7. new \in Seq(Nat)
  BY <1>4, <1>6
<1> HIDE DEF new
<1>8. g \in [0..n -> Seq(Nat)] /\ g[0] = <<>>
  BY <1>3, <1>4, <1>5, <1>7 DEF Follows
<1>9. ASSUME NEW m \in 1..n
      PROVE  g[m] = IF entries[m] = "item" THEN Append(g[m - 1], m) ELSE g[m - 1]
  <2>1. m \in Nat /\ m - 1 \in 0..n /\ m - 1 # n /\ g[m - 1] = f[m - 1]
    BY <1>4
  <2>2. CASE m = n
    BY <2>1, <2>2 DEF new
  <2>3. CASE m # n
    <3>1. m \in 1..(n - 1) /\ g[m] = f[m]
      BY <1>4, <2>3
    <3> QED BY <3>1, <2>1, <1>5 DEF Follows
  <2> QED BY <2>2, <2>3
<1>10. Follows(g, entries, n)
  BY <1>8, <1>9 DEF Follows
<1> QED BY <1>2, <1>10

\* The known entries are a sequence of positions.
LEMMA KnownIsSeq ==
  ASSUME NEW entries \in Seq({"item", "odd"}) PROVE Known(entries) \in Seq(Nat)
<1> DEFINE Def(f) == [n \in 0..Len(entries) |->
                        IF n = 0 THEN <<>>
                        ELSE IF entries[n] = "item" THEN Append(f[n - 1], n) ELSE f[n - 1]]
           known == CHOOSE f : f = Def(f)
<1>0. Len(entries) \in Nat
  OBVIOUS
<1>1. PICK f : Follows(f, entries, Len(entries))
  BY KnownFollows
<1>2. ASSUME NEW n \in 0..Len(entries) PROVE f[n] = Def(f)[n]
  <2>1. CASE n = 0
    BY <1>1, <2>1 DEF Follows
  <2>2. CASE n # 0
    <3>1. n \in 1..Len(entries)
      BY <1>0, <2>2
    <3> QED BY <1>1, <2>2, <3>1 DEF Follows
  <2> QED BY <2>1, <2>2
<1>3. f = Def(f)
  BY <1>0, <1>1, <1>2 DEF Follows
<1>4. known = Def(known)
  BY <1>3
<1>5. Known(entries) = known[Len(entries)]
  BY DEF Known
<1> HIDE DEF known
<1>6. \A n \in 0..Len(entries) : known[n] \in Seq(Nat)
  <2> DEFINE Bad == {n \in 0..Len(entries) : known[n] \notin Seq(Nat)}
  <2> SUFFICES ASSUME Bad # {} PROVE FALSE
    OBVIOUS
  <2>1. PICK n \in Bad : \A m \in Bad : n <= m
    <3>1. Bad \subseteq Nat
      BY <1>0
    <3> HIDE DEF Bad
    <3> QED BY <3>1, LeastNat
  <2>2. known[n] = IF n = 0 THEN <<>>
                   ELSE IF entries[n] = "item" THEN Append(known[n - 1], n) ELSE known[n - 1]
    BY <1>4, <2>1
  <2>3. n # 0
    <3>1. <<>> \in Seq(Nat)
      OBVIOUS
    <3> QED BY <2>1, <2>2, <3>1
  <2>4. n \in Nat /\ n - 1 \in 0..Len(entries) /\ n - 1 \notin Bad
    BY <2>1, <2>3, <1>0
  <2>5. known[n - 1] \in Seq(Nat)
    BY <2>4
  <2>6. known[n] \in Seq(Nat)
    BY <2>2, <2>3, <2>4, <2>5
  <2> QED BY <2>6, <2>1
<1> QED BY <1>0, <1>5, <1>6

-----------------------------------------------------------------------------
(* The rows of the source.                                                 *)

\* The items of a conversation are those of its history, or else its first message.
LEMMA SourceIs ==
  ASSUME NEW c \in Conversations
  PROVE  /\ Len(Source(c)) \in Nat /\ DOMAIN Source(c) = 1..Len(Source(c))
         /\ DOMAIN FromHistory(c) \cup DOMAIN FromMessages(c) = DOMAIN Source(c)
         /\ \A k \in DOMAIN FromHistory(c) : FromHistory(c)[k] = Source(c)[k]
         /\ \A k \in DOMAIN FromMessages(c) : FromMessages(c)[k] = Source(c)[k]
<1> DEFINE h == Known(LegacyItems[c])
           m == Known(LegacyMessages[c])
<1>1. LegacyItems[c] \in Seq({"item", "odd"}) /\ LegacyMessages[c] \in Seq({"item", "odd"})
  BY LegacyAssumption DEF Conversations
<1>2. h \in Seq(Nat) /\ m \in Seq(Nat)
  BY <1>1, KnownIsSeq
<1>3. FromHistory(c) = [k \in DOMAIN h |-> <<"item", h[k]>>]
  BY DEF FromHistory
<1>4. FromMessages(c) = IF FromHistory(c) = <<>> /\ m # <<>> THEN <<(<<"message", m[1]>>)>> ELSE <<>>
  BY DEF FromMessages
<1> DEFINE Values == ({"item"} \X Nat) \cup ({"message"} \X Nat)
<1> HIDE DEF h, m
<1>5. FromHistory(c) \in Seq(Values)
  <2>1. DOMAIN h = 1..Len(h) /\ Len(h) \in Nat /\ \A k \in DOMAIN h : <<"item", h[k]>> \in Values
    BY <1>2
  <2> HIDE DEF Values
  <2> QED BY <2>1, <1>3, IsASeq
<1>6. m # <<>> => <<"message", m[1]>> \in Values
  BY <1>2
<1> HIDE DEF Values
<1>7. FromMessages(c) \in Seq(Values)
  BY <1>4, <1>6
<1>8. CASE FromHistory(c) = <<>>
  <2>1. Source(c) = FromMessages(c)
    BY <1>7, <1>8 DEF Source
  <2>2. DOMAIN FromHistory(c) = {}
    BY <1>8
  <2> QED BY <2>1, <2>2, <1>7
<1>9. CASE FromHistory(c) # <<>>
  <2>1. FromMessages(c) = <<>>
    BY <1>4, <1>9
  <2>2. Source(c) = FromHistory(c)
    BY <1>5, <2>1 DEF Source
  <2>3. DOMAIN FromMessages(c) = {}
    BY <2>1
  <2> QED BY <2>2, <2>3, <1>5
<1> QED BY <1>8, <1>9

\* The parts of a key.
LEMMA Keys ==
  /\ \A c, s : HistoryRow(c, s)[1] = "history" /\ HistoryRow(c, s)[2] = c /\ HistoryRow(c, s)[3] = s
  /\ \A table, id : Row(table, id)[1] = table /\ Row(table, id)[2] = id
BY DEF HistoryRow, Row

\* The rows of the items, from the history and from the messages.
LEMMA ItemRows ==
  /\ \A c \in Conversations : \A s \in Nat :
       HistoryRow(c, s) \in HistoryKeys \cup MessageKeys <=> s < Len(Source(c))
  /\ \A key \in HistoryKeys \cup MessageKeys :
       \E c \in Conversations : \E k \in DOMAIN Source(c) : key = HistoryRow(c, k - 1)
  /\ \A c \in Conversations : \A k \in DOMAIN Source(c) :
       /\ HistoryRow(c, k - 1) \in HistoryKeys =>
            HistoryRows(FromHistory)[HistoryRow(c, k - 1)] = Source(c)[k]
       /\ HistoryRow(c, k - 1) \in MessageKeys =>
            HistoryRows(FromMessages)[HistoryRow(c, k - 1)] = Source(c)[k]
<1>1. HistoryKeys = UNION {{HistoryRow(c, k - 1) : k \in DOMAIN FromHistory(c)} : c \in Conversations}
  BY DEF HistoryKeys, HistoryRows
<1>2. MessageKeys = UNION {{HistoryRow(c, k - 1) : k \in DOMAIN FromMessages(c)} : c \in Conversations}
  BY DEF MessageKeys, HistoryRows
<1>3. \A key \in HistoryKeys \cup MessageKeys :
        \E c \in Conversations : \E k \in DOMAIN Source(c) : key = HistoryRow(c, k - 1)
  BY <1>1, <1>2, SourceIs
<1>4. ASSUME NEW c \in Conversations, NEW s \in Nat
      PROVE  HistoryRow(c, s) \in HistoryKeys \cup MessageKeys <=> s < Len(Source(c))
  <2>1. ASSUME HistoryRow(c, s) \in HistoryKeys \cup MessageKeys PROVE s < Len(Source(c))
    <3>1. PICK d \in Conversations : \E k \in DOMAIN Source(d) : HistoryRow(c, s) = HistoryRow(d, k - 1)
      BY <1>3, <2>1
    <3>2. PICK k \in DOMAIN Source(d) : HistoryRow(c, s) = HistoryRow(d, k - 1)
      BY <3>1
    <3>3. d = c /\ s = k - 1
      BY <3>2, Keys
    <3>4. DOMAIN Source(c) = 1..Len(Source(c)) /\ Len(Source(c)) \in Nat
      BY SourceIs
    <3> QED BY <3>3, <3>4
  <2>2. ASSUME s < Len(Source(c)) PROVE HistoryRow(c, s) \in HistoryKeys \cup MessageKeys
    <3>1. s + 1 \in DOMAIN Source(c) /\ (s + 1) - 1 = s
      BY <2>2, SourceIs
    <3>2. s + 1 \in DOMAIN FromHistory(c) \/ s + 1 \in DOMAIN FromMessages(c)
      BY <3>1, SourceIs
    <3>3. \A k : k - 1 = s => HistoryRow(c, k - 1) = HistoryRow(c, s)
      OBVIOUS
    <3>4. CASE s + 1 \in DOMAIN FromHistory(c)
      BY <1>1, <3>1, <3>3, <3>4
    <3>5. CASE s + 1 \in DOMAIN FromMessages(c)
      BY <1>2, <3>1, <3>3, <3>5
    <3> QED BY <3>2, <3>4, <3>5
  <2> QED BY <2>1, <2>2
<1>5. ASSUME NEW c \in Conversations, NEW k \in DOMAIN Source(c), HistoryRow(c, k - 1) \in HistoryKeys
      PROVE  HistoryRows(FromHistory)[HistoryRow(c, k - 1)] = Source(c)[k]
  <2>1. k \in Nat /\ (k - 1) + 1 = k
    BY SourceIs
  <2>2. HistoryRows(FromHistory)[HistoryRow(c, k - 1)] = FromHistory(c)[k]
    <3>1. HistoryRows(FromHistory)[HistoryRow(c, k - 1)] =
            FromHistory(HistoryRow(c, k - 1)[2])[HistoryRow(c, k - 1)[3] + 1]
      BY <1>5 DEF HistoryRows, HistoryKeys
    <3> QED BY <3>1, <2>1, Keys
  <2>3. k \in DOMAIN FromHistory(c)
    <3>1. PICK d \in Conversations : \E j \in DOMAIN FromHistory(d) : HistoryRow(c, k - 1) = HistoryRow(d, j - 1)
      BY <1>1, <1>5
    <3>2. PICK j \in DOMAIN FromHistory(d) : HistoryRow(c, k - 1) = HistoryRow(d, j - 1)
      BY <3>1
    <3>3. d = c /\ k - 1 = j - 1
      BY <3>2, Keys
    <3>4. j \in Nat
      BY <3>3, SourceIs
    <3> QED BY <3>2, <3>3, <3>4, <2>1
  <2> QED BY <2>2, <2>3, SourceIs
<1>6. ASSUME NEW c \in Conversations, NEW k \in DOMAIN Source(c), HistoryRow(c, k - 1) \in MessageKeys
      PROVE  HistoryRows(FromMessages)[HistoryRow(c, k - 1)] = Source(c)[k]
  <2>1. k \in Nat /\ (k - 1) + 1 = k
    BY SourceIs
  <2>2. HistoryRows(FromMessages)[HistoryRow(c, k - 1)] = FromMessages(c)[k]
    <3>1. HistoryRows(FromMessages)[HistoryRow(c, k - 1)] =
            FromMessages(HistoryRow(c, k - 1)[2])[HistoryRow(c, k - 1)[3] + 1]
      BY <1>6 DEF HistoryRows, MessageKeys
    <3> QED BY <3>1, <2>1, Keys
  <2>3. k \in DOMAIN FromMessages(c)
    <3>1. PICK d \in Conversations : \E j \in DOMAIN FromMessages(d) : HistoryRow(c, k - 1) = HistoryRow(d, j - 1)
      BY <1>2, <1>6
    <3>2. PICK j \in DOMAIN FromMessages(d) : HistoryRow(c, k - 1) = HistoryRow(d, j - 1)
      BY <3>1
    <3>3. d = c /\ k - 1 = j - 1
      BY <3>2, Keys
    <3>4. j \in Nat
      BY <3>3, SourceIs
    <3> QED BY <3>2, <3>3, <3>4, <2>1
  <2> QED BY <2>2, <2>3, SourceIs
<1> QED BY <1>3, <1>4, <1>5, <1>6

\* The rows of the source are those of the tables and those of the items.
LEMMA SourceRows ==
  /\ SourceKeys = OtherKeys \cup HistoryKeys \cup MessageKeys
  /\ Row("app_integrations", "legacy") \in SourceKeys
  /\ \A key \in OtherKeys : key[1] # "history"
  /\ \A c \in Conversations : \A s \in Nat : HistoryRow(c, s) \notin OtherKeys
  /\ \A c \in Conversations : \A s \in Nat : HistoryRow(c, s) \in SourceKeys <=> s < Len(Source(c))
<1>1. SourceKeys = OtherKeys \cup HistoryKeys \cup MessageKeys
  BY DEF SourceKeys, OtherKeys, HistoryKeys, MessageKeys
<1>2. Row("app_integrations", "legacy") \in OtherKeys /\ \A key \in OtherKeys : key[1] # "history"
  BY Keys DEF OtherKeys
<1>3. \A c \in Conversations : \A s \in Nat : HistoryRow(c, s) \notin OtherKeys
  BY <1>2, Keys
<1> QED BY <1>1, <1>2, <1>3, ItemRows

-----------------------------------------------------------------------------
(* The steps of an import.                                                 *)

StoredInv == uses \in Nat /\ AllOrNone /\ KeysAreRows /\ NothingBefore /\ ItemsBehind

\* What is said of the database stays true while it is left alone.
LEMMA StoredKept ==
  ASSUME ImportInv, UNCHANGED <<stored, uses>> PROVE StoredInv'
BY DEF ImportInv, StoredInv, AllOrNone, KeysAreRows, NothingBefore, ItemsBehind, HistoryIs, Since

\* The rows of a table are written; the history is as it was.
LEMMA TableWritten ==
  ASSUME ImportInv, NEW new, NEW to \in ImportSteps \ {"committed"},
         importStep' = to, uncommitted' = Replace(uncommitted, new), UNCHANGED stored,
         Written(to) = Written(importStep) \cup DOMAIN new,
         \A key \in DOMAIN new : key[1] # "history"
  PROVE  Uncommitted'
<1>1. DOMAIN uncommitted = DOMAIN stored \cup Written(importStep)
  BY DEF ImportInv, Uncommitted
<1>2. DOMAIN uncommitted' = DOMAIN stored' \cup Written(importStep')
  BY <1>1 DEF Replace, Ignore
<1>3. \A key \in DOMAIN uncommitted : key[1] = "history" => uncommitted'[key] = uncommitted[key]
  BY DEF Replace, Ignore
<1>4. \A key \in DOMAIN stored : key[1] = "history" => uncommitted'[key] = stored[key]
  BY <1>1, <1>3 DEF ImportInv, Uncommitted
<1>5. ASSUME NEW c \in Conversations, NEW k \in DOMAIN Source(c),
             HistoryRow(c, k - 1) \in DOMAIN uncommitted' \ DOMAIN stored
      PROVE  uncommitted'[HistoryRow(c, k - 1)] = Source(c)[k]
  <2>1. HistoryRow(c, k - 1)[1] = "history"
    BY Keys
  <2>2. HistoryRow(c, k - 1) \in DOMAIN uncommitted
    BY <1>5, <2>1 DEF Replace, Ignore
  <2> QED BY <1>3, <1>5, <2>1, <2>2 DEF ImportInv, Uncommitted
<1>6. importStep' \in {"idle"} \cup ImportSteps /\ importStep' \notin {"idle", "committed"}
  BY DEF ImportSteps
<1> QED BY <1>2, <1>4, <1>5, <1>6 DEF Uncommitted

\* The items of a table of the source are written where no item is.
LEMMA ItemsWritten ==
  ASSUME ImportInv, NEW new, NEW to \in ImportSteps \ {"committed"},
         importStep' = to, uncommitted' = Ignore(uncommitted, new), UNCHANGED stored,
         Written(to) = Written(importStep) \cup DOMAIN new,
         \A c \in Conversations : \A k \in DOMAIN Source(c) :
           HistoryRow(c, k - 1) \in DOMAIN new => new[HistoryRow(c, k - 1)] = Source(c)[k]
  PROVE  Uncommitted'
<1>1. DOMAIN uncommitted = DOMAIN stored \cup Written(importStep)
  BY DEF ImportInv, Uncommitted
<1>2. DOMAIN uncommitted' = DOMAIN stored' \cup Written(importStep')
  BY <1>1 DEF Replace, Ignore
<1>3. \A key \in DOMAIN uncommitted : uncommitted'[key] = uncommitted[key]
  BY DEF Replace, Ignore
<1>4. \A key \in DOMAIN stored : key[1] = "history" => uncommitted'[key] = stored[key]
  BY <1>1, <1>3 DEF ImportInv, Uncommitted
<1>5. ASSUME NEW c \in Conversations, NEW k \in DOMAIN Source(c),
             HistoryRow(c, k - 1) \in DOMAIN uncommitted' \ DOMAIN stored
      PROVE  uncommitted'[HistoryRow(c, k - 1)] = Source(c)[k]
  <2>1. CASE HistoryRow(c, k - 1) \in DOMAIN uncommitted
    BY <1>3, <1>5, <2>1 DEF ImportInv, Uncommitted
  <2>2. CASE HistoryRow(c, k - 1) \notin DOMAIN uncommitted
    <3>1. HistoryRow(c, k - 1) \in DOMAIN new \ DOMAIN uncommitted
      BY <1>5, <2>2 DEF Replace, Ignore
    <3>2. uncommitted'[HistoryRow(c, k - 1)] = new[HistoryRow(c, k - 1)]
      BY <3>1 DEF Replace, Ignore
    <3> QED BY <3>1, <3>2
  <2> QED BY <2>1, <2>2
<1>6. importStep' \in {"idle"} \cup ImportSteps /\ importStep' \notin {"idle", "committed"}
  BY DEF ImportSteps
<1> QED BY <1>2, <1>4, <1>5, <1>6 DEF Uncommitted

\* The transaction is committed: the rows of the source are there, as a whole.
LEMMA CommitKeeps ==
  ASSUME ImportInv, importStep = "written", stored' = uncommitted, UNCHANGED <<uncommitted, uses>>,
         importStep' = "committed"
  PROVE  StoredInv' /\ Uncommitted' /\ SourceKeys \subseteq DOMAIN stored'
<1>1. Written("written") = SourceKeys /\ Written("committed") = SourceKeys
  BY DEF Written
<1>2. DOMAIN stored' = DOMAIN stored \cup SourceKeys
  BY <1>1 DEF ImportInv, Uncommitted
<1>3. AllOrNone' /\ NothingBefore'
  BY <1>2, SourceRows DEF AllOrNone, NothingBefore
<1>4. KeysAreRows'
  <2> SUFFICES ASSUME NEW key \in DOMAIN stored', key[1] = "history"
               PROVE  \E c \in Conversations : \E s \in Nat : key = HistoryRow(c, s)
    BY DEF KeysAreRows
  <2>1. CASE key \in DOMAIN stored
    BY <2>1 DEF ImportInv, KeysAreRows
  <2>2. CASE key \in SourceKeys
    <3>1. key \in HistoryKeys \cup MessageKeys
      BY <2>2, SourceRows
    <3>2. PICK c \in Conversations : \E k \in DOMAIN Source(c) : key = HistoryRow(c, k - 1)
      BY <3>1, ItemRows
    <3>3. PICK k \in DOMAIN Source(c) : key = HistoryRow(c, k - 1)
      BY <3>2
    <3>4. k - 1 \in Nat
      BY SourceIs
    <3> QED BY <3>3, <3>4
  <2> QED BY <1>2, <2>1, <2>2
<1>5. ASSUME NEW c \in Conversations PROVE \E m \in Nat : HistoryIs(c, m)'
  <2>0. Len(Source(c)) \in Nat /\ \A k \in DOMAIN Source(c) : k - 1 \in Nat /\ k - 1 < Len(Source(c))
    BY SourceIs
  <2>1. CASE SourceKeys \cap DOMAIN stored = {}
    <3> DEFINE m == Len(Source(c))
    <3>1. \A s \in Nat : HistoryRow(c, s) \notin DOMAIN stored
      BY <2>1 DEF ImportInv, NothingBefore
    <3>2. \A s \in Nat : HistoryRow(c, s) \in DOMAIN stored' <=> s < m
      BY <1>2, <3>1, SourceRows
    <3>3. \A k \in DOMAIN Source(c) : stored'[HistoryRow(c, k - 1)] = Source(c)[k]
      <4> SUFFICES ASSUME NEW k \in DOMAIN Source(c)
                   PROVE  stored'[HistoryRow(c, k - 1)] = Source(c)[k]
        OBVIOUS
      <4>1. HistoryRow(c, k - 1) \in DOMAIN uncommitted \ DOMAIN stored
        BY <2>0, <3>1, <3>2
      <4> QED BY <4>1 DEF ImportInv, Uncommitted
    <3>4. Since(c, m)'
      BY <2>0 DEF Since
    <3> QED BY <2>0, <3>2, <3>3, <3>4 DEF HistoryIs
  <2>2. CASE SourceKeys \subseteq DOMAIN stored
    <3>1. PICK m \in Nat : HistoryIs(c, m)
      BY <2>2 DEF ImportInv, ItemsBehind
    <3>2. DOMAIN stored' = DOMAIN stored
      BY <1>2, <2>2
    <3>3. \A s \in Nat : HistoryRow(c, s) \in DOMAIN stored =>
            stored'[HistoryRow(c, s)] = stored[HistoryRow(c, s)]
      BY Keys DEF ImportInv, Uncommitted
    <3>4. \A k \in DOMAIN Source(c) : stored'[HistoryRow(c, k - 1)] = Source(c)[k]
      BY <2>0, <3>1, <3>3 DEF HistoryIs
    <3>5. \A s \in Nat : s < m => stored'[HistoryRow(c, s)] = stored[HistoryRow(c, s)]
      BY <3>1, <3>3 DEF HistoryIs
    <3>6. Since(c, m)'
      BY <3>1, <3>5 DEF HistoryIs, Since
    <3>7. HistoryIs(c, m)'
      BY <3>1, <3>2, <3>4, <3>6 DEF HistoryIs
    <3> QED BY <3>7
  <2>3. SourceKeys \cap DOMAIN stored = {} \/ SourceKeys \subseteq DOMAIN stored
    BY DEF ImportInv, AllOrNone
  <2> QED BY <2>1, <2>2, <2>3
<1>6. ItemsBehind'
  BY <1>5 DEF ItemsBehind
<1>7. Uncommitted'
  BY <1>1, <1>2 DEF Uncommitted, ImportSteps
<1> QED BY <1>2, <1>3, <1>4, <1>6, <1>7 DEF StoredInv, ImportInv

\* The import begins or ends: nothing of it is written.
LEMMA NothingWritten ==
  ASSUME ImportInv, importStep' \in {"idle", "integrations"}, uncommitted' = stored, UNCHANGED stored
  PROVE  Uncommitted'
<1>1. Written(importStep') = {}
  BY DEF Written
<1> QED BY <1>1 DEF Uncommitted, ImportSteps

\* The daemon writes a row that is not of a history, and none of the source that is not there.
LEMMA RowWritten ==
  ASSUME ImportInv, importStep = "idle", NEW key, NEW value, key[1] # "history",
         key \in SourceKeys => key \in DOMAIN stored,
         stored' = Replace(stored, OneRow(key, value)), uncommitted' = stored',
         uses' = uses + 1, UNCHANGED importStep
  PROVE  StoredInv' /\ Uncommitted' /\ DOMAIN stored \subseteq DOMAIN stored'
<1>1. DOMAIN stored' = DOMAIN stored \cup {key}
  BY DEF Replace, OneRow
<1>2. \A c \in Conversations : \A s \in Nat :
        /\ HistoryRow(c, s) \in DOMAIN stored' <=> HistoryRow(c, s) \in DOMAIN stored
        /\ HistoryRow(c, s) \in DOMAIN stored => stored'[HistoryRow(c, s)] = stored[HistoryRow(c, s)]
  BY <1>1, Keys DEF Replace, OneRow
<1>3. SourceKeys \cap DOMAIN stored' = SourceKeys \cap DOMAIN stored
  BY <1>1
<1>4. AllOrNone' /\ NothingBefore'
  BY <1>2, <1>3 DEF ImportInv, AllOrNone, NothingBefore
<1>5. KeysAreRows'
  BY <1>1 DEF ImportInv, KeysAreRows
<1>6. uses \in Nat /\ uses' \in Nat /\ uses < uses'
  BY DEF ImportInv
<1>7. ASSUME SourceKeys \subseteq DOMAIN stored', NEW c \in Conversations
      PROVE  \E m \in Nat : HistoryIs(c, m)'
  <2>1. PICK m \in Nat : HistoryIs(c, m)
    BY <1>3, <1>7 DEF ImportInv, ItemsBehind
  <2>2. \A s \in Nat : s < m => stored'[HistoryRow(c, s)] = stored[HistoryRow(c, s)]
    BY <1>2, <2>1 DEF HistoryIs
  <2>3. Since(c, m)'
    BY <1>6, <2>1, <2>2 DEF HistoryIs, Since
  <2>4. \A k \in DOMAIN Source(c) : stored'[HistoryRow(c, k - 1)] = Source(c)[k]
    <3>1. \A k \in DOMAIN Source(c) : k - 1 \in Nat /\ k - 1 < m
      BY <2>1, SourceIs DEF HistoryIs
    <3> QED BY <2>1, <2>2, <3>1 DEF HistoryIs
  <2>5. HistoryIs(c, m)'
    BY <1>2, <2>1, <2>3, <2>4 DEF HistoryIs
  <2> QED BY <2>5
<1>8. ItemsBehind'
  BY <1>7 DEF ItemsBehind
<1>9. Uncommitted'
  BY DEF Uncommitted, Written
<1> QED BY <1>1, <1>4, <1>5, <1>6, <1>8, <1>9 DEF StoredInv

\* The places of a conversation's history.
LEMMA SeqsAre ==
  ASSUME KeysAreRows, NEW c \in Conversations
  PROVE  \A s : s \in Seqs(c) <=> s \in Nat /\ HistoryRow(c, s) \in DOMAIN stored
<1>1. ASSUME NEW s, s \in Seqs(c) PROVE s \in Nat /\ HistoryRow(c, s) \in DOMAIN stored
  <2>1. PICK r \in DOMAIN stored : r[1] = "history" /\ r[2] = c /\ r[3] = s
    BY <1>1 DEF Seqs
  <2>2. PICK d \in Conversations : \E n \in Nat : r = HistoryRow(d, n)
    BY <2>1 DEF KeysAreRows
  <2>3. PICK n \in Nat : r = HistoryRow(d, n)
    BY <2>2
  <2>4. d = c /\ n = s
    BY <2>1, <2>3, Keys
  <2> QED BY <2>3, <2>4
<1>2. ASSUME NEW s \in Nat, HistoryRow(c, s) \in DOMAIN stored PROVE s \in Seqs(c)
  BY <1>2, Keys DEF Seqs
<1> QED BY <1>1, <1>2

\* A message of a conversation that was imported takes the next place.
LEMMA ChatKeeps ==
  ASSUME ImportInv, NEW c \in Conversations, Chat(c)
  PROVE  StoredInv' /\ Uncommitted' /\ DOMAIN stored \subseteq DOMAIN stored'
<1>1. SourceKeys \subseteq DOMAIN stored
  <2>1. Row("app_conversations", c) \in SourceKeys \cap DOMAIN stored
    BY SourceRows DEF Chat, OtherKeys
  <2> QED BY <2>1 DEF ImportInv, AllOrNone
<1>2. PICK m \in Nat : HistoryIs(c, m)
  BY <1>1 DEF ImportInv, ItemsBehind
<1>3. \A s : s \in Seqs(c) <=> s \in 0..(m - 1)
  <2>1. \A s : s \in 0..(m - 1) <=> s \in Nat /\ s < m
    OBVIOUS
  <2> QED BY <2>1, <1>2, SeqsAre DEF ImportInv, HistoryIs
<1>4. (IF Seqs(c) = {} THEN 0 ELSE Max(Seqs(c)) + 1) = m
  <2>1. CASE m = 0
    <3>1. Seqs(c) = {}
      BY <1>3, <2>1
    <3> QED BY <2>1, <3>1
  <2>2. CASE m # 0
    <3>1. m - 1 \in Seqs(c) /\ \A s \in Seqs(c) : s \in Nat /\ m - 1 >= s
      BY <1>3, <2>2
    <3>2. Max(Seqs(c)) \in Seqs(c) /\ \A s \in Seqs(c) : Max(Seqs(c)) >= s
      BY <3>1 DEF Max
    <3>3. Max(Seqs(c)) = m - 1
      BY <3>1, <3>2
    <3> QED BY <3>1, <3>3
  <2> QED BY <2>1, <2>2
<1>5. /\ importStep = "idle" /\ uses' = uses + 1
      /\ stored' = Replace(stored, OneRow(HistoryRow(c, m), <<"chat", uses>>))
      /\ uncommitted' = stored' /\ importStep' = importStep
  BY <1>4 DEF Chat, Uses
<1>6. /\ DOMAIN stored' = DOMAIN stored \cup {HistoryRow(c, m)}
      /\ stored'[HistoryRow(c, m)] = <<"chat", uses>>
      /\ \A key \in DOMAIN stored : key # HistoryRow(c, m) => stored'[key] = stored[key]
  BY <1>5 DEF Replace, OneRow
<1>7. AllOrNone' /\ NothingBefore'
  BY <1>1, <1>6, SourceRows DEF AllOrNone, NothingBefore
<1>8. KeysAreRows'
  BY <1>6 DEF ImportInv, KeysAreRows
<1>9. uses \in Nat /\ uses' \in Nat /\ uses < uses'
  BY <1>5 DEF ImportInv
<1>10. ASSUME NEW d \in Conversations, d # c PROVE \E n \in Nat : HistoryIs(d, n)'
  <2>1. PICK n \in Nat : HistoryIs(d, n)
    BY <1>1 DEF ImportInv, ItemsBehind
  <2>2. \A s \in Nat : HistoryRow(d, s) # HistoryRow(c, m)
    BY <1>10, Keys
  <2>3. \A s \in Nat : /\ HistoryRow(d, s) \in DOMAIN stored' <=> s < n
                       /\ s < n => stored'[HistoryRow(d, s)] = stored[HistoryRow(d, s)]
    BY <1>6, <2>1, <2>2 DEF HistoryIs
  <2>4. Since(d, n)'
    BY <1>9, <2>1, <2>3 DEF HistoryIs, Since
  <2>5. \A k \in DOMAIN Source(d) : stored'[HistoryRow(d, k - 1)] = Source(d)[k]
    <3>1. \A k \in DOMAIN Source(d) : k - 1 \in Nat /\ k - 1 < n
      BY <2>1, SourceIs DEF HistoryIs
    <3> QED BY <2>1, <2>3, <3>1 DEF HistoryIs
  <2>6. HistoryIs(d, n)'
    BY <2>1, <2>3, <2>4, <2>5 DEF HistoryIs
  <2> QED BY <2>6
<1>11. HistoryIs(c, m + 1)'
  <2>0. Len(Source(c)) \in Nat /\ Len(Source(c)) <= m
    BY <1>2, SourceIs DEF HistoryIs
  <2>1. \A s \in Nat : HistoryRow(c, s) = HistoryRow(c, m) => s = m
    BY Keys
  <2>2. \A s \in Nat : s < m => stored'[HistoryRow(c, s)] = stored[HistoryRow(c, s)]
    <3> SUFFICES ASSUME NEW s \in Nat, s < m PROVE stored'[HistoryRow(c, s)] = stored[HistoryRow(c, s)]
      OBVIOUS
    <3>1. HistoryRow(c, s) \in DOMAIN stored /\ s # m
      BY <1>2 DEF HistoryIs
    <3> QED BY <1>6, <2>1, <3>1
  <2>3. \A s \in Nat : HistoryRow(c, s) \in DOMAIN stored' <=> s < m + 1
    <3> SUFFICES ASSUME NEW s \in Nat PROVE HistoryRow(c, s) \in DOMAIN stored' <=> s < m + 1
      OBVIOUS
    <3>1. HistoryRow(c, s) \in DOMAIN stored' <=> HistoryRow(c, s) \in DOMAIN stored \/ s = m
      BY <1>6, <2>1
    <3>2. HistoryRow(c, s) \in DOMAIN stored <=> s < m
      BY <1>2 DEF HistoryIs
    <3>3. s < m \/ s = m <=> s < m + 1
      OBVIOUS
    <3> QED BY <3>1, <3>2, <3>3
  <2>4. \A k \in DOMAIN Source(c) : stored'[HistoryRow(c, k - 1)] = Source(c)[k]
    <3>1. \A k \in DOMAIN Source(c) : k - 1 \in Nat /\ k - 1 < m
      BY <2>0, SourceIs
    <3> QED BY <1>2, <2>2, <3>1 DEF HistoryIs
  <2>5. Since(c, m + 1)'
    <3> SUFFICES ASSUME NEW s \in Nat, Len(Source(c)) <= s, s < m + 1
                 PROVE  /\ stored'[HistoryRow(c, s)][1] = "chat"
                        /\ stored'[HistoryRow(c, s)][2] \in Nat /\ stored'[HistoryRow(c, s)][2] < uses'
                        /\ \A t \in Nat : s < t /\ t < m + 1 =>
                             stored'[HistoryRow(c, s)][2] < stored'[HistoryRow(c, t)][2]
      BY DEF Since
    <3>0. <<"chat", uses>>[1] = "chat" /\ <<"chat", uses>>[2] = uses
      OBVIOUS
    <3>1. CASE s = m
      <4>1. \A t \in Nat : ~(s < t /\ t < m + 1)
        BY <3>1
      <4> QED BY <3>1, <4>1, <3>0, <1>6, <1>9
    <3>2. CASE s < m
      <4>1. /\ stored[HistoryRow(c, s)][1] = "chat"
            /\ stored[HistoryRow(c, s)][2] \in Nat /\ stored[HistoryRow(c, s)][2] < uses
            /\ \A t \in Nat : s < t /\ t < m =>
                 stored[HistoryRow(c, s)][2] < stored[HistoryRow(c, t)][2]
        BY <1>2, <3>2 DEF HistoryIs, Since
      <4>2. stored'[HistoryRow(c, s)] = stored[HistoryRow(c, s)]
        BY <2>2, <3>2
      <4>3. ASSUME NEW t \in Nat, s < t, t < m + 1
            PROVE  stored'[HistoryRow(c, s)][2] < stored'[HistoryRow(c, t)][2]
        <5>1. CASE t = m
          BY <1>6, <3>0, <4>1, <4>2, <5>1
        <5>2. CASE t < m
          BY <2>2, <4>1, <4>2, <4>3, <5>2
        <5>3. t = m \/ t < m
          BY <4>3
        <5> QED BY <5>1, <5>2, <5>3
      <4>4. stored'[HistoryRow(c, s)][2] < uses'
        BY <1>9, <4>1, <4>2
      <4> QED BY <4>1, <4>2, <4>3, <4>4
    <3>3. s = m \/ s < m
      OBVIOUS
    <3> QED BY <3>1, <3>2, <3>3
  <2>6. Len(Source(c)) <= m + 1
    BY <2>0
  <2> QED BY <2>3, <2>4, <2>5, <2>6 DEF HistoryIs
<1>12. ItemsBehind'
  <2>1. m + 1 \in Nat
    OBVIOUS
  <2> QED BY <1>10, <1>11, <2>1 DEF ItemsBehind
<1>13. Uncommitted'
  BY <1>5 DEF Uncommitted, Written
<1> QED BY <1>6, <1>7, <1>8, <1>9, <1>12, <1>13 DEF StoredInv

-----------------------------------------------------------------------------

\* The initial state satisfies the invariant.
LEMMA ImportInitInv == ImportInit => ImportInv /\ ImportTypeOK
<1> SUFFICES ASSUME ImportInit PROVE ImportInv /\ ImportTypeOK
  OBVIOUS
<1>1. /\ stored = <<>> /\ uncommitted = <<>> /\ DOMAIN stored = {} /\ uses = 0
      /\ importStep = "idle" /\ marked = FALSE /\ imports = 0
  BY DEF ImportInit
<1>2. StoredInv
  BY <1>1, SourceRows
     DEF StoredInv, AllOrNone, KeysAreRows, NothingBefore, ItemsBehind
<1>3. Uncommitted
  BY <1>1 DEF Uncommitted, Written
<1>4. ImportTypeOK
  <2>1. {masterKey, marked} \subseteq BOOLEAN
    BY DEF ImportInit
  <2> QED BY <1>1, <2>1, LegacyAssumption DEF ImportInit, ImportTypeOK
<1> QED BY <1>1, <1>2, <1>3, <1>4 DEF ImportInv, StoredInv

\* A step of the import that leaves the committed rows alone.
LEMMA RowsLeft ==
  ASSUME ImportInv, UNCHANGED <<stored, uses, marked>>, Uncommitted' PROVE ImportInv'
BY StoredKept DEF ImportInv, StoredInv

\* A step that writes a table: its next one has written what it had and the table.
LEMMA PassKeeps ==
  ASSUME ImportInv, NEW to \in ImportSteps \ {"committed"}, importStep' = to,
         Written(to) = Written(importStep), UNCHANGED <<stored, uncommitted, uses, marked>>
  PROVE  ImportInv'
<1>1. Uncommitted'
  BY DEF ImportInv, Uncommitted, ImportSteps
<1> QED BY <1>1, RowsLeft

\* The keys that each table adds.
LEMMA TablesAdd ==
  /\ Written("workspace") = Written("integrations") \cup {Row("app_integrations", "legacy")}
  /\ Written("copying") = Written("workspace") /\ Written("actors") = Written("workspace")
  /\ Written("routes") = Written("actors") \cup {Row("app_actors", "legacy")}
  /\ Written("conversations") = Written("routes") \cup {Row("app_routes", "legacy")}
  /\ Written("history") =
       Written("conversations") \cup {Row("app_conversations", c) : c \in Conversations}
  /\ Written("messages") = Written("history") \cup HistoryKeys
  /\ Written("written") = Written("messages") \cup MessageKeys
BY SourceRows DEF Written, OtherKeys

\* Every step keeps the invariant: one case per action.
LEMMA ImportInvStep == ImportInv /\ [ImportNext]_legacyVars => ImportInv'
<1> SUFFICES ASSUME ImportInv, [ImportNext]_legacyVars PROVE ImportInv'
  OBVIOUS
<1>1. CASE UNCHANGED legacyVars
  <2>1. UNCHANGED <<stored, uncommitted, importStep, uses, marked>>
    BY <1>1 DEF legacyVars
  <2>2. Uncommitted'
    BY <2>1 DEF ImportInv, Uncommitted
  <2> QED BY <2>1, <2>2, RowsLeft
<1>2. ASSUME NEW force \in BOOLEAN, NEW key \in BOOLEAN, StartImport(force, key) PROVE ImportInv'
  <2>1. importStep' = "integrations" /\ uncommitted' = stored /\ UNCHANGED <<stored, marked, uses>>
    BY <1>2 DEF StartImport
  <2> QED BY <2>1, NothingWritten, RowsLeft
<1>3. CASE ImportIntegrations
  <2> DEFINE new == OneRow(Row("app_integrations", "legacy"), IF masterKey THEN "enabled" ELSE "disabled")
  <2>1. /\ importStep = "integrations" /\ importStep' = "workspace"
        /\ uncommitted' = Replace(uncommitted, new) /\ UNCHANGED <<stored, uses, marked>>
    BY <1>3 DEF ImportIntegrations, Passes, InTransaction
  <2>2. DOMAIN new = {Row("app_integrations", "legacy")} /\ \A key \in DOMAIN new : key[1] # "history"
    BY Keys DEF OneRow
  <2> HIDE DEF new
  <2>3. "workspace" \in ImportSteps \ {"committed"}
    BY DEF ImportSteps
  <2>4. Uncommitted'
    BY <2>1, <2>2, <2>3, TableWritten, TablesAdd
  <2> QED BY <2>1, <2>4, RowsLeft
<1>4. CASE CopyWorkspace \/ WorkspaceCopied \/ WorkspaceExists
  <2>1. PICK to \in {"copying", "actors"} :
          importStep \in {"workspace", "copying"} /\ importStep' = to
    BY <1>4 DEF CopyWorkspace, WorkspaceCopied, WorkspaceExists, Passes
  <2>2. UNCHANGED <<stored, uncommitted, uses, marked>>
    BY <1>4 DEF CopyWorkspace, WorkspaceCopied, WorkspaceExists, Passes
  <2>3. to \in ImportSteps \ {"committed"}
    BY DEF ImportSteps
  <2>4. Written(to) = Written(importStep)
    BY <2>1, TablesAdd
  <2> QED BY <2>1, <2>2, <2>3, <2>4, PassKeeps
<1>5. CASE ImportActors
  <2> DEFINE new == OneRow(Row("app_actors", "legacy"), "blocked")
  <2>1. /\ importStep = "actors" /\ importStep' = "routes"
        /\ uncommitted' = Replace(uncommitted, new) /\ UNCHANGED <<stored, uses, marked>>
    BY <1>5 DEF ImportActors, Passes, InTransaction
  <2>2. DOMAIN new = {Row("app_actors", "legacy")} /\ \A key \in DOMAIN new : key[1] # "history"
    BY Keys DEF OneRow
  <2> HIDE DEF new
  <2>3. "routes" \in ImportSteps \ {"committed"}
    BY DEF ImportSteps
  <2>4. Uncommitted'
    BY <2>1, <2>2, <2>3, TableWritten, TablesAdd
  <2> QED BY <2>1, <2>4, RowsLeft
<1>6. CASE ImportRoutes
  <2> DEFINE new == OneRow(Row("app_routes", "legacy"), "route")
  <2>1. /\ importStep = "routes" /\ importStep' = "conversations"
        /\ uncommitted' = Replace(uncommitted, new) /\ UNCHANGED <<stored, uses, marked>>
    BY <1>6 DEF ImportRoutes, Passes, InTransaction
  <2>2. DOMAIN new = {Row("app_routes", "legacy")} /\ \A key \in DOMAIN new : key[1] # "history"
    BY Keys DEF OneRow
  <2> HIDE DEF new
  <2>3. "conversations" \in ImportSteps \ {"committed"}
    BY DEF ImportSteps
  <2>4. Uncommitted'
    BY <2>1, <2>2, <2>3, TableWritten, TablesAdd
  <2> QED BY <2>1, <2>4, RowsLeft
<1>7. CASE ImportConversations
  <2> DEFINE new == [row \in {Row("app_conversations", c) : c \in Conversations} |-> "idle"]
  <2>1. /\ importStep = "conversations" /\ importStep' = "history"
        /\ uncommitted' = Replace(uncommitted, new) /\ UNCHANGED <<stored, uses, marked>>
    BY <1>7 DEF ImportConversations, Passes, InTransaction
  <2>2. /\ DOMAIN new = {Row("app_conversations", c) : c \in Conversations}
        /\ \A key \in DOMAIN new : key[1] # "history"
    BY Keys
  <2> HIDE DEF new
  <2>3. "history" \in ImportSteps \ {"committed"}
    BY DEF ImportSteps
  <2>4. Uncommitted'
    BY <2>1, <2>2, <2>3, TableWritten, TablesAdd
  <2> QED BY <2>1, <2>4, RowsLeft
<1>8. CASE ImportHistory
  <2>1. /\ importStep = "history" /\ importStep' = "messages"
        /\ uncommitted' = Ignore(uncommitted, HistoryRows(FromHistory))
        /\ UNCHANGED <<stored, uses, marked>>
    BY <1>8 DEF ImportHistory, Passes, InTransaction
  <2> DEFINE new == HistoryRows(FromHistory)
  <2>2. /\ DOMAIN new = HistoryKeys
        /\ \A c \in Conversations : \A k \in DOMAIN Source(c) :
             HistoryRow(c, k - 1) \in DOMAIN new => new[HistoryRow(c, k - 1)] = Source(c)[k]
    BY ItemRows DEF HistoryKeys
  <2>3. uncommitted' = Ignore(uncommitted, new)
    BY <2>1
  <2> HIDE DEF new
  <2>4. "messages" \in ImportSteps \ {"committed"}
    BY DEF ImportSteps
  <2>5. Uncommitted'
    BY <2>1, <2>2, <2>3, <2>4, ItemsWritten, TablesAdd
  <2> QED BY <2>1, <2>5, RowsLeft
<1>9. CASE ImportMessages
  <2>1. /\ importStep = "messages" /\ importStep' = "written"
        /\ uncommitted' = Ignore(uncommitted, HistoryRows(FromMessages))
        /\ UNCHANGED <<stored, uses, marked>>
    BY <1>9 DEF ImportMessages, Passes, InTransaction
  <2> DEFINE new == HistoryRows(FromMessages)
  <2>2. /\ DOMAIN new = MessageKeys
        /\ \A c \in Conversations : \A k \in DOMAIN Source(c) :
             HistoryRow(c, k - 1) \in DOMAIN new => new[HistoryRow(c, k - 1)] = Source(c)[k]
    BY ItemRows DEF MessageKeys
  <2>3. uncommitted' = Ignore(uncommitted, new)
    BY <2>1
  <2> HIDE DEF new
  <2>4. "written" \in ImportSteps \ {"committed"}
    BY DEF ImportSteps
  <2>5. Uncommitted'
    BY <2>1, <2>2, <2>3, <2>4, ItemsWritten, TablesAdd
  <2> QED BY <2>1, <2>5, RowsLeft
<1>10. CASE CommitImport
  <2>1. /\ importStep = "written" /\ importStep' = "committed" /\ stored' = uncommitted
        /\ UNCHANGED <<uncommitted, uses, marked>>
    BY <1>10 DEF CommitImport, Passes
  <2> QED BY <2>1, CommitKeeps DEF ImportInv, StoredInv
<1>11. CASE MarkImported
  <2>1. /\ importStep = "committed" /\ importStep' = "idle"
        /\ UNCHANGED <<stored, uncommitted, uses>>
    BY <1>11 DEF MarkImported
  <2>2. SourceKeys \subseteq DOMAIN stored /\ uncommitted = stored
    BY <2>1 DEF ImportInv, Uncommitted, Written
  <2>3. Uncommitted'
    BY <2>1, <2>2, NothingWritten
  <2> QED BY <2>1, <2>2, <2>3, StoredKept DEF ImportInv, StoredInv
<1>12. CASE ImportDies
  <2>1. importStep' = "idle" /\ uncommitted' = stored /\ UNCHANGED <<stored, marked, uses>>
    BY <1>12 DEF ImportDies
  <2> QED BY <2>1, NothingWritten, RowsLeft
<1>13. CASE CreateOwnActor
  <2>1. /\ importStep = "idle" /\ uses' = uses + 1 /\ uncommitted' = stored'
        /\ stored' = Replace(stored, OneRow(Row("app_actors", "own"), "enabled"))
        /\ UNCHANGED <<importStep, marked>>
    BY <1>13 DEF CreateOwnActor, Uses
  <2>2. Row("app_actors", "own")[1] # "history" /\ Row("app_actors", "own") \notin OtherKeys
    BY Keys DEF OtherKeys
  <2>3. Row("app_actors", "own") \notin HistoryKeys \cup MessageKeys
    BY <2>2, ItemRows, Keys
  <2>4. Row("app_actors", "own") \notin SourceKeys
    BY <2>2, <2>3, SourceRows
  <2> QED BY <2>1, <2>2, <2>4, RowWritten DEF ImportInv, StoredInv
<1>14. CASE ConfigureActor
  <2>1. /\ importStep = "idle" /\ uses' = uses + 1 /\ uncommitted' = stored'
        /\ stored' = Replace(stored, OneRow(Row("app_actors", "legacy"), "enabled"))
        /\ UNCHANGED <<importStep, marked>> /\ Row("app_actors", "legacy") \in DOMAIN stored
    BY <1>14 DEF ConfigureActor, Uses
  <2>2. Row("app_actors", "legacy")[1] # "history"
    BY Keys
  <2> QED BY <2>1, <2>2, RowWritten DEF ImportInv, StoredInv
<1>15. ASSUME NEW c \in Conversations, Chat(c) PROVE ImportInv'
  <2>1. UNCHANGED marked
    BY <1>15 DEF Chat, Uses
  <2> QED BY <2>1, <1>15, ChatKeeps DEF ImportInv, StoredInv
<1> QED BY <1>1, <1>2, <1>3, <1>4, <1>5, <1>6, <1>7, <1>8, <1>9, <1>10, <1>11, <1>12, <1>13,
           <1>14, <1>15 DEF ImportNext

\* What the invariant says of the database is what the property says.
LEMMA ItemsInOrder == ImportInv => ImportIsWhole
<1> SUFFICES ASSUME ImportInv PROVE ImportIsWhole
  OBVIOUS
<1>1. ASSUME NEW c \in Conversations, Seqs(c) # {}
      PROVE  LET items == Source(c) IN
             /\ \A k \in DOMAIN items :
                  k - 1 \in Seqs(c) /\ stored[HistoryRow(c, k - 1)] = items[k]
             /\ \A s \in Seqs(c) : s >= Len(items) => stored[HistoryRow(c, s)][1] = "chat"
             /\ \A s, t \in Seqs(c) : Len(items) <= s /\ s < t =>
                  stored[HistoryRow(c, s)][2] < stored[HistoryRow(c, t)][2]
  <2>1. \A s : s \in Seqs(c) <=> s \in Nat /\ HistoryRow(c, s) \in DOMAIN stored
    BY SeqsAre DEF ImportInv
  <2>2. SourceKeys \subseteq DOMAIN stored
    BY <1>1, <2>1 DEF ImportInv, NothingBefore, AllOrNone
  <2>3. PICK m \in Nat : HistoryIs(c, m)
    BY <2>2 DEF ImportInv, ItemsBehind
  <2>4. \A s : s \in Seqs(c) <=> s \in Nat /\ s < m
    BY <2>1, <2>3 DEF HistoryIs
  <2>5. Len(Source(c)) \in Nat /\ Len(Source(c)) <= m
        /\ \A k \in DOMAIN Source(c) : k - 1 \in Nat /\ k - 1 < Len(Source(c))
    BY <2>3, SourceIs DEF HistoryIs
  <2>6. \A k \in DOMAIN Source(c) : k - 1 \in Seqs(c) /\ stored[HistoryRow(c, k - 1)] = Source(c)[k]
    BY <2>3, <2>4, <2>5 DEF HistoryIs
  <2>7. \A s \in Seqs(c) : s >= Len(Source(c)) => stored[HistoryRow(c, s)][1] = "chat"
    BY <2>3, <2>4, <2>5 DEF HistoryIs, Since
  <2>8. \A s, t \in Seqs(c) : Len(Source(c)) <= s /\ s < t =>
          stored[HistoryRow(c, s)][2] < stored[HistoryRow(c, t)][2]
    BY <2>3, <2>4, <2>5 DEF HistoryIs, Since
  <2> QED BY <2>6, <2>7, <2>8
<1>2. AllOrNone /\ (marked => SourceKeys \subseteq DOMAIN stored)
  BY DEF ImportInv
<1> QED BY <1>1, <1>2 DEF ImportIsWhole, AllOrNone, Source

\* Every step keeps the types.
LEMMA ImportTypeStep == ImportTypeOK /\ [ImportNext]_legacyVars => ImportTypeOK'
<1> SUFFICES ASSUME ImportTypeOK, [ImportNext]_legacyVars PROVE ImportTypeOK'
  OBVIOUS
<1> USE LegacyAssumption
<1>1. CASE UNCHANGED legacyVars
  BY <1>1 DEF ImportTypeOK, legacyVars
<1>2. ASSUME NEW force \in BOOLEAN, NEW key \in BOOLEAN, StartImport(force, key) PROVE ImportTypeOK'
  <2>1. {masterKey, marked}' \subseteq BOOLEAN
    BY <1>2 DEF StartImport, ImportTypeOK
  <2> QED BY <1>2, <2>1 DEF StartImport, ImportTypeOK, ImportSteps
<1>3. CASE ImportIntegrations \/ ImportActors \/ ImportRoutes \/ ImportConversations
           \/ ImportHistory \/ ImportMessages \/ CommitImport
  BY <1>3 DEF ImportTypeOK, ImportSteps, Passes, ImportIntegrations, ImportActors, ImportRoutes,
       ImportConversations, ImportHistory, ImportMessages, CommitImport
<1>4. CASE CopyWorkspace \/ WorkspaceCopied \/ WorkspaceExists
  BY <1>4 DEF ImportTypeOK, ImportSteps, Passes, CopyWorkspace, WorkspaceCopied, WorkspaceExists
<1>5. CASE MarkImported \/ ImportDies
  BY <1>5 DEF ImportTypeOK, MarkImported, ImportDies
<1>6. CASE CreateOwnActor \/ ConfigureActor \/ \E c \in Conversations : Chat(c)
  BY <1>6 DEF ImportTypeOK, CreateOwnActor, ConfigureActor, Chat, Uses
<1> QED BY <1>1, <1>2, <1>3, <1>4, <1>5, <1>6 DEF ImportNext

\* The invariant holds in every state: what the database has of the source, and the open
\* transaction beside it.
THEOREM ImportInvariant == ImportSpec => []ImportInv
BY ImportInitInv, ImportInvStep, PTL DEF ImportSpec

\* Type correctness.
THEOREM ImportTypes == ImportSpec => []ImportTypeOK
BY ImportInitInv, ImportTypeStep, PTL DEF ImportSpec

\* For any conversations with any entries, however often the import is run and wherever it
\* dies, and whatever the daemon writes in between: the rows of the source are there all or
\* not at all, and every history is its items in their order and then what was said since
\* (db/import_legacy.py).
THEOREM ImportIsWholeAlways == ImportSpec => []ImportIsWhole
BY ImportInvariant, ItemsInOrder, PTL

-----------------------------------------------------------------------------
(* Retention                                                               *)

\* What is known of one record of the index: its types, and that its window covers what is owed.
RetentionData == [retain : 0..Never, expires : 0..Never, touched : 0..MaxTime, created : 0..MaxTime]
Covers(window, until) ==
  window.retain >= until /\ (window.expires >= until \/ window.expires = Never)

\* A kept record has a window that lasts as long as its result is owed.
WindowsCover == \A t \in Kept : place[t] = "kept" => Covers(metadata[t], owed[t])

RetentionInv == RetentionTypeOK /\ WindowsCover /\ KeptAsOwed

-----------------------------------------------------------------------------

\* The bounds of a window.
LEMMA RetentionTimes ==
  /\ Never \in Nat /\ MaxTime \in Nat /\ MaxTime < Never
  /\ \A d \in {ManualTtl, PendingRetention, DeliveredRetention} :
       d \in Nat /\ \A now \in 0..MaxTime : now + d \in 0..Never
  /\ 0 \in 0..Never /\ 0..MaxTime \subseteq 0..Never
  /\ NoData \in RetentionData
<1>1. /\ ManualTtl \in Nat /\ PendingRetention \in Nat /\ DeliveredRetention \in Nat
      /\ MaxTime \in Nat
  BY RetentionAssumption
<1> QED BY <1>1 DEF Never, NoData, RetentionData

\* The window of a record that ends or is refreshed covers what is owed from then on.
LEMMA WindowCovers ==
  ASSUME RetentionTypeOK, NEW t \in Kept, NEW to \in Deliveries, NEW begun \in 0..MaxTime
  PROVE  /\ Metadata(RetentionOf(t, to), begun) \in RetentionData
         /\ RetentionOf(t, to).retain \in 0..Never
         /\ Covers(Metadata(RetentionOf(t, to), begun), RetentionOf(t, to).retain)
<1>1. clock \in 0..MaxTime
  BY DEF RetentionTypeOK
<1>2. CASE delivery[t] = "manual"
  <2>1. RetentionOf(t, to) = [retain |-> clock + ManualTtl, expires |-> clock + ManualTtl]
    BY <1>2 DEF RetentionOf
  <2>2. clock + ManualTtl \in 0..Never
    BY <1>1, RetentionTimes
  <2> QED BY <1>1, <2>1, <2>2 DEF Metadata, RetentionData, Covers
<1>3. CASE delivery[t] # "manual" /\ to \in Undecided
  <2>1. RetentionOf(t, to) =
          [retain |-> clock + PendingRetention, expires |-> clock + PendingRetention]
    BY <1>3 DEF RetentionOf
  <2>2. clock + PendingRetention \in 0..Never
    BY <1>1, RetentionTimes
  <2> QED BY <1>1, <2>1, <2>2 DEF Metadata, RetentionData, Covers
<1>4. CASE delivery[t] # "manual" /\ to \notin Undecided
  <2>1. RetentionOf(t, to) = [retain |-> clock + DeliveredRetention, expires |-> Never]
    BY <1>4 DEF RetentionOf
  <2>2. clock + DeliveredRetention \in 0..Never
    BY <1>1, RetentionTimes
  <2>3. Never \in 0..Never
    BY RetentionTimes
  <2> QED BY <1>1, <2>1, <2>2, <2>3 DEF Metadata, RetentionData, Covers
<1> QED BY <1>2, <1>3, <1>4

\* What an access may leave: the windows of records in the index, each with what is owed to it.
Windows(data, due) ==
  /\ DOMAIN data \subseteq Kept
  /\ \A t \in DOMAIN data : data[t] \in RetentionData /\ Covers(data[t], due[t])

\* Whoever is evicted has outlived what is owed to it.
LEMMA EvictedIsOver ==
  ASSUME clock \in 0..MaxTime, NEW data, NEW due \in [Kept -> 0..Never], Windows(data, due)
  PROVE  /\ Evicted(data) \subseteq DOMAIN data
         /\ \A t \in Evicted(data) : clock >= due[t]
<1>1. Evicted(data) \subseteq DOMAIN data
  BY DEF Evicted, Expired, OverBudget, Unprotected
<1>2. ASSUME NEW t \in Evicted(data) PROVE clock >= due[t]
  <2>1. t \in Kept /\ data[t] \in RetentionData /\ Covers(data[t], due[t]) /\ due[t] \in 0..Never
    BY <1>1 DEF Windows
  <2>2. data[t].retain \in 0..Never /\ data[t].expires \in 0..Never
    BY <2>1 DEF RetentionData
  <2>3. CASE clock >= data[t].expires
    BY <2>1, <2>2, <2>3, RetentionTimes DEF Covers
  <2>4. CASE clock >= data[t].retain
    BY <2>1, <2>2, <2>4, RetentionTimes DEF Covers
  <2>5. clock >= data[t].expires \/ clock >= data[t].retain
    BY DEF Evicted, Expired, OverBudget, Unprotected
  <2> QED BY <2>3, <2>4, <2>5
<1> QED BY <1>1, <1>2

\* The access at the head of every operation evicts only what is over.
LEMMA AccessedCovers ==
  ASSUME RetentionInv
  PROVE  /\ Windows(Accessed, owed)
         /\ DOMAIN Accessed \subseteq InIndex
         /\ \A t \in InIndex \ DOMAIN Accessed : clock >= owed[t]
         /\ \A t \in DOMAIN Accessed : Accessed[t] = metadata[t]
<1> DEFINE all == [t \in InIndex |-> metadata[t]]
<1>1. clock \in 0..MaxTime /\ owed \in [Kept -> 0..Never] /\ metadata \in [Kept -> RetentionData]
  BY DEF RetentionInv, RetentionTypeOK, RetentionData
<1>2. InIndex \subseteq Kept /\ DOMAIN all = InIndex
  BY DEF InIndex
<1>3. Windows(all, owed)
  BY <1>1, <1>2 DEF Windows, RetentionInv, WindowsCover, InIndex
<1>4. Evicted(all) \subseteq InIndex /\ \A t \in Evicted(all) : clock >= owed[t]
  BY <1>1, <1>2, <1>3, EvictedIsOver
<1>5. Accessed = [t \in InIndex \ Evicted(all) |-> metadata[t]]
  BY DEF Accessed
<1>6. \A t \in InIndex : metadata[t] \in RetentionData /\ Covers(metadata[t], owed[t])
  BY <1>1, <1>2 DEF RetentionInv, WindowsCover, InIndex
<1> HIDE DEF all
<1> QED BY <1>2, <1>4, <1>5, <1>6 DEF Windows

\* An operation that leaves data in the index, with what is owed from then on.
LEMMA IndexKeeps ==
  ASSUME RetentionInv, NEW data, IndexBecomes(data), Windows(data, owed'),
         owed' \in [Kept -> 0..Never], UNCHANGED clock,
         \A t \in Kept \ DOMAIN data : owed'[t] = owed[t],
         \A t \in InIndex \ DOMAIN data : clock >= owed[t]
  PROVE  /\ place' \in [Kept -> {"none", "live", "kept", "gone"}]
         /\ metadata' \in [Kept -> RetentionData]
         /\ WindowsCover' /\ KeptAsOwed'
<1> DEFINE left == DOMAIN data \ Evicted(data)
<1>0. /\ clock \in 0..MaxTime /\ place \in [Kept -> {"none", "live", "kept", "gone"}]
      /\ owed \in [Kept -> 0..Never]
  BY DEF RetentionInv, RetentionTypeOK
<1>1. /\ place' = [t \in Kept |-> IF t \in left THEN "kept"
                                  ELSE IF t \in InIndex \cup DOMAIN data THEN "gone" ELSE place[t]]
      /\ metadata' = [t \in Kept |-> IF t \in left THEN data[t] ELSE NoData]
  BY DEF IndexBecomes
<1>2. /\ Evicted(data) \subseteq DOMAIN data
      /\ \A t \in Evicted(data) : clock >= owed'[t]
  BY <1>0, EvictedIsOver
<1>3. DOMAIN data \subseteq Kept /\ \A t \in left : data[t] \in RetentionData /\ Covers(data[t], owed'[t])
  BY DEF Windows
<1> HIDE DEF left
<1>4. place' \in [Kept -> {"none", "live", "kept", "gone"}]
  BY <1>0, <1>1
<1>5. metadata' \in [Kept -> RetentionData]
  BY <1>1, <1>3, RetentionTimes
<1>6. WindowsCover'
  <2> SUFFICES ASSUME NEW t \in Kept, place'[t] = "kept" PROVE Covers(metadata'[t], owed'[t])
    BY DEF WindowsCover
  <2>1. t \in left
    BY <1>1 DEF InIndex
  <2> QED BY <2>1, <1>1, <1>3
<1>7. KeptAsOwed'
  <2> SUFFICES ASSUME NEW t \in Kept, place'[t] = "gone" PROVE clock >= owed'[t]
    BY DEF KeptAsOwed
  <2>1. t \notin left
    BY <1>1
  <2>2. CASE t \in DOMAIN data
    BY <1>2, <2>1, <2>2 DEF left
  <2>3. CASE t \notin DOMAIN data /\ t \in InIndex
    BY <2>3
  <2>4. CASE t \notin DOMAIN data /\ t \notin InIndex
    <3>1. place[t] = "gone"
      BY <1>1, <2>1, <2>4
    <3> QED BY <3>1, <2>4 DEF RetentionInv, KeptAsOwed
  <2> QED BY <2>2, <2>3, <2>4
<1> QED BY <1>4, <1>5, <1>6, <1>7

\* An access that changes nothing else.
LEMMA AccessKeeps ==
  ASSUME RetentionInv, IndexBecomes(Accessed), UNCHANGED <<clock, owed>>
  PROVE  /\ place' \in [Kept -> {"none", "live", "kept", "gone"}]
         /\ metadata' \in [Kept -> RetentionData] /\ owed' \in [Kept -> 0..Never]
         /\ WindowsCover' /\ KeptAsOwed'
<1>1. owed \in [Kept -> 0..Never]
  BY DEF RetentionInv, RetentionTypeOK
<1> QED BY <1>1, AccessedCovers, IndexKeeps

\* A record that gets a new window, in the index already or not.
LEMMA WindowKeeps ==
  ASSUME RetentionInv, NEW t \in Kept, NEW to \in Deliveries, NEW begun \in 0..MaxTime,
         IndexBecomes(With(Accessed, t, Metadata(RetentionOf(t, to), begun))),
         owed' = [owed EXCEPT ![t] = RetentionOf(t, to).retain], UNCHANGED clock
  PROVE  /\ place' \in [Kept -> {"none", "live", "kept", "gone"}]
         /\ metadata' \in [Kept -> RetentionData] /\ owed' \in [Kept -> 0..Never]
         /\ WindowsCover' /\ KeptAsOwed'
<1> DEFINE new == Metadata(RetentionOf(t, to), begun)
           due == RetentionOf(t, to).retain
           data == With(Accessed, t, new)
<1>0. RetentionTypeOK /\ owed \in [Kept -> 0..Never]
  BY DEF RetentionInv, RetentionTypeOK
<1>1. new \in RetentionData /\ due \in 0..Never /\ Covers(new, due)
  BY <1>0, WindowCovers
<1>2. owed' \in [Kept -> 0..Never] /\ owed'[t] = due
      /\ \A s \in Kept : s # t => owed'[s] = owed[s]
  BY <1>0, <1>1
<1>3. /\ DOMAIN data = DOMAIN Accessed \cup {t} /\ data[t] = new
      /\ \A s \in DOMAIN Accessed : s # t => data[s] = Accessed[s]
  BY DEF With
<1>4. IndexBecomes(data)
  OBVIOUS
<1> HIDE DEF new, due, data
<1>5. Windows(data, owed')
  BY <1>1, <1>2, <1>3, AccessedCovers DEF Windows
<1>6. \A s \in Kept \ DOMAIN data : owed'[s] = owed[s]
  BY <1>2, <1>3
<1>7. \A s \in InIndex \ DOMAIN data : clock >= owed[s]
  BY <1>3, AccessedCovers
<1> QED BY <1>2, <1>4, <1>5, <1>6, <1>7, IndexKeeps

\* refresh_terminal_retention.
LEMMA RefreshKeeps ==
  ASSUME RetentionInv, NEW t \in Kept, NEW to \in Deliveries, Refresh(t, to), UNCHANGED clock
  PROVE  /\ place' \in [Kept -> {"none", "live", "kept", "gone"}]
         /\ metadata' \in [Kept -> RetentionData] /\ owed' \in [Kept -> 0..Never]
         /\ WindowsCover' /\ KeptAsOwed'
<1>1. metadata[t].created \in 0..MaxTime
  BY DEF RetentionInv, RetentionTypeOK
<1>2. CASE t \in DOMAIN Accessed /\ delivery[t] # "manual"
  <2>1. /\ IndexBecomes(With(Accessed, t, Metadata(RetentionOf(t, to), metadata[t].created)))
        /\ owed' = [owed EXCEPT ![t] = RetentionOf(t, to).retain]
    BY <1>2 DEF Refresh
  <2> QED BY <1>1, <2>1, WindowKeeps
<1>3. CASE ~(t \in DOMAIN Accessed /\ delivery[t] # "manual")
  <2>1. IndexBecomes(Accessed) /\ UNCHANGED owed
    BY <1>3 DEF Refresh
  <2> QED BY <2>1, AccessKeeps
<1> QED BY <1>2, <1>3

-----------------------------------------------------------------------------

\* The initial state satisfies the invariant.
LEMMA RetentionInitInv == RetentionInit => RetentionInv
<1> SUFFICES ASSUME RetentionInit PROVE RetentionInv
  OBVIOUS
<1>1. RetentionTypeOK
  BY RetentionTimes DEF RetentionInit, RetentionTypeOK, Deliveries, RetentionData
<1> QED BY <1>1 DEF RetentionInit, RetentionInv, WindowsCover, KeptAsOwed

\* The variables that no window depends on keep their types, one disjunct at a time.
LEMMA DecisionTypes ==
  ASSUME RetentionInv, [RetentionNext]_retentionVars
  PROVE  /\ clock' \in 0..MaxTime /\ waiting' \subseteq Kept
         /\ delivery' \in [Kept -> {"none", "manual", "conversation"}]
         /\ decision' \in [Kept -> Deliveries]
<1>0. /\ clock \in 0..MaxTime /\ waiting \subseteq Kept /\ MaxTime \in Nat
      /\ delivery \in [Kept -> {"none", "manual", "conversation"}]
      /\ decision \in [Kept -> Deliveries]
  BY RetentionAssumption DEF RetentionInv, RetentionTypeOK
<1>1. CASE UNCHANGED retentionVars
  BY <1>0, <1>1 DEF retentionVars
<1>2. CASE Tick
  BY <1>0, <1>2 DEF Tick
<1>3. CASE ListRecords
  BY <1>0, <1>3 DEF ListRecords
<1>4. ASSUME NEW t \in Kept, NEW kind \in {"manual", "conversation"}, NEW to \in Deliveries,
             RecordPut(t, kind, to)
      PROVE  /\ clock' \in 0..MaxTime /\ waiting' \subseteq Kept
             /\ delivery' \in [Kept -> {"none", "manual", "conversation"}]
             /\ decision' \in [Kept -> Deliveries]
  BY <1>0, <1>4 DEF RecordPut
<1>5. ASSUME NEW t \in Kept, NEW to \in Deliveries,
             RecordEnds(t, to) \/ CoordinatorSettles(t, to) \/ DrainQueued(t, to)
      PROVE  /\ clock' \in 0..MaxTime /\ waiting' \subseteq Kept
             /\ delivery' \in [Kept -> {"none", "manual", "conversation"}]
             /\ decision' \in [Kept -> Deliveries]
  BY <1>0, <1>5 DEF RecordEnds, CoordinatorSettles, DrainQueued
<1>6. ASSUME NEW t \in Kept, NEW deliver \in BOOLEAN,
             ReleaseHeld(t, deliver) \/ CoordinatorQueues(t) \/ ReadRecord(t)
      PROVE  /\ clock' \in 0..MaxTime /\ waiting' \subseteq Kept
             /\ delivery' \in [Kept -> {"none", "manual", "conversation"}]
             /\ decision' \in [Kept -> Deliveries]
  BY <1>0, <1>6 DEF ReleaseHeld, CoordinatorQueues, ReadRecord, Deliveries
<1>7. {"pending", "held", "delivered", "skipped"} \subseteq Deliveries
  BY DEF Deliveries
<1> QED BY <1>1, <1>2, <1>3, <1>4, <1>5, <1>6, <1>7 DEF RetentionNext

\* Every step keeps the windows of what is owed: one case per action.
LEMMA WindowsStep ==
  ASSUME RetentionInv, [RetentionNext]_retentionVars
  PROVE  /\ place' \in [Kept -> {"none", "live", "kept", "gone"}]
         /\ metadata' \in [Kept -> RetentionData] /\ owed' \in [Kept -> 0..Never]
         /\ WindowsCover' /\ KeptAsOwed'
<1> DEFINE Goal == /\ place' \in [Kept -> {"none", "live", "kept", "gone"}]
                   /\ metadata' \in [Kept -> RetentionData] /\ owed' \in [Kept -> 0..Never]
                   /\ WindowsCover' /\ KeptAsOwed'
<1>0. /\ place \in [Kept -> {"none", "live", "kept", "gone"}]
      /\ metadata \in [Kept -> RetentionData] /\ owed \in [Kept -> 0..Never]
      /\ WindowsCover /\ KeptAsOwed /\ clock \in 0..MaxTime
  BY DEF RetentionInv, RetentionTypeOK, RetentionData
<1>1. ASSUME UNCHANGED <<place, metadata, owed>>, clock' \in 0..MaxTime, clock' >= clock
      PROVE  Goal
  <2>1. WindowsCover'
    BY <1>0, <1>1 DEF WindowsCover
  <2>2. KeptAsOwed'
    BY <1>0, <1>1, RetentionTimes DEF KeptAsOwed
  <2> QED BY <1>0, <1>1, <2>1, <2>2
<1>2. CASE UNCHANGED retentionVars
  <2>1. UNCHANGED <<place, metadata, owed, clock>>
    BY <1>2 DEF retentionVars
  <2> QED BY <1>0, <1>1, <2>1
<1>3. CASE Tick
  BY <1>0, <1>1, <1>3, DecisionTypes DEF Tick
<1>4. CASE ListRecords
  BY <1>4, AccessKeeps DEF ListRecords
<1>5. ASSUME NEW t \in Kept, NEW kind, NEW to, RecordPut(t, kind, to) PROVE Goal
  <2>1. place' = [place EXCEPT ![t] = "live"] /\ UNCHANGED <<metadata, owed, clock>>
    BY <1>5 DEF RecordPut
  <2>2. WindowsCover' /\ KeptAsOwed'
    BY <1>0, <2>1 DEF WindowsCover, KeptAsOwed
  <2> QED BY <1>0, <2>1, <2>2
<1>6. ASSUME NEW t \in Kept, NEW to \in Deliveries, RecordEnds(t, to) PROVE Goal
  <2>1. /\ IndexBecomes(With(Accessed, t, Metadata(RetentionOf(t, to), clock)))
        /\ owed' = [owed EXCEPT ![t] = RetentionOf(t, to).retain] /\ UNCHANGED clock
    BY <1>6 DEF RecordEnds
  <2> QED BY <1>0, <2>1, WindowKeeps
<1>7. ASSUME NEW t \in Kept, NEW deliver \in BOOLEAN, ReleaseHeld(t, deliver) PROVE Goal
  <2>1. UNCHANGED clock /\ (UNCHANGED <<place, metadata, owed>> \/ Refresh(t, "skipped"))
    BY <1>7 DEF ReleaseHeld
  <2>2. "skipped" \in Deliveries
    BY DEF Deliveries
  <2>3. CASE UNCHANGED <<place, metadata, owed>>
    BY <1>0, <1>1, <2>1, <2>3
  <2>4. CASE Refresh(t, "skipped")
    BY <2>1, <2>2, <2>4, RefreshKeeps
  <2> QED BY <2>1, <2>3, <2>4
<1>8. ASSUME NEW t \in Kept, CoordinatorQueues(t) PROVE Goal
  <2>1. UNCHANGED <<place, metadata, owed, clock>>
    BY <1>8 DEF CoordinatorQueues
  <2> QED BY <1>0, <1>1, <2>1
<1>9. ASSUME NEW t \in Kept, NEW to \in Deliveries, CoordinatorSettles(t, to) PROVE Goal
  BY <1>9, RefreshKeeps DEF CoordinatorSettles
<1>10. ASSUME NEW t \in Kept, NEW to \in Deliveries, DrainQueued(t, to) PROVE Goal
  <2>1. UNCHANGED clock /\ (Refresh(t, to) \/ (IndexBecomes(Accessed) /\ UNCHANGED owed))
    BY <1>10 DEF DrainQueued
  <2> QED BY <2>1, RefreshKeeps, AccessKeeps
<1>11. ASSUME NEW t \in Kept, ReadRecord(t) PROVE Goal
  <2>1. CASE t \in DOMAIN Accessed
    <3> DEFINE data == [Accessed EXCEPT ![t].touched = clock]
    <3>1. IndexBecomes(data) /\ UNCHANGED <<clock, owed>>
      BY <1>11, <2>1 DEF ReadRecord
    <3>2. Windows(Accessed, owed) /\ Accessed[t] \in RetentionData
      BY <2>1, AccessedCovers DEF Windows
    <3>3. /\ DOMAIN data = DOMAIN Accessed
          /\ \A s \in DOMAIN data : s # t => data[s] = Accessed[s]
          /\ data[t] = [Accessed[t] EXCEPT !.touched = clock]
      BY <2>1 DEF Accessed
    <3>4. /\ data[t] \in RetentionData /\ data[t].retain = Accessed[t].retain
          /\ data[t].expires = Accessed[t].expires
      BY <1>0, <3>2, <3>3 DEF RetentionData
    <3> HIDE DEF data
    <3>5. Windows(data, owed)
      BY <3>2, <3>3, <3>4 DEF Windows, Covers
    <3>6. Windows(data, owed')
      BY <3>1, <3>5
    <3> QED BY <1>0, <3>1, <3>3, <3>6, AccessedCovers, IndexKeeps
  <2>2. CASE t \notin DOMAIN Accessed
    BY <1>11, <2>2, AccessKeeps DEF ReadRecord
  <2> QED BY <2>1, <2>2
<1>12. {"delivered", "skipped"} \subseteq Deliveries
  BY DEF Deliveries
<1>13. Goal
  BY <1>2, <1>3, <1>4, <1>5, <1>6, <1>7, <1>8, <1>9, <1>10, <1>11, <1>12 DEF RetentionNext
<1> QED BY <1>13

\* Every step keeps the invariant.
LEMMA RetentionInvStep == RetentionInv /\ [RetentionNext]_retentionVars => RetentionInv'
<1> SUFFICES ASSUME RetentionInv, [RetentionNext]_retentionVars PROVE RetentionInv'
  OBVIOUS
<1>1. RetentionTypeOK'
  BY DecisionTypes, WindowsStep DEF RetentionTypeOK, RetentionData
<1> QED BY <1>1, WindowsStep DEF RetentionInv

-----------------------------------------------------------------------------

\* No records, no bytes.
LEMMA NoBytes == Bytes({}) = 0
BY DEF Bytes, MapThenSumSet, MapThenFoldSet

\* Among records there is one that none is older than: the eviction begins with it.
LEMMA OldestRecord ==
  ASSUME NEW data, NEW C, C \subseteq Kept, C # {},
         \A t \in C : data[t].touched \in Nat /\ data[t].created \in Nat
  PROVE  \E t \in C : \A s \in C : ~Older(data, s, t)
<1>0. Kept \subseteq Nat
  BY RetentionAssumption
<1> DEFINE Touched == {data[t].touched : t \in C}
<1>1. PICK m \in Touched : \A n \in Touched : m <= n
  BY LeastNat
<1> DEFINE First == {t \in C : data[t].touched = m}
           Created == {data[t].created : t \in First}
<1>2. First # {} /\ \A s \in C : m <= data[s].touched
  BY <1>1
<1>3. PICK c \in Created : \A n \in Created : c <= n
  BY <1>2, LeastNat
<1> DEFINE Both == {t \in First : data[t].created = c}
<1>4. Both # {} /\ \A s \in First : c <= data[s].created
  BY <1>3
<1>5. PICK t \in Both : \A s \in Both : t <= s
  BY <1>0, <1>4, LeastNat
<1>6. ASSUME NEW s \in C PROVE ~Older(data, s, t)
  <2>1. m \in Nat /\ c \in Nat /\ s \in Nat /\ t \in Nat
    BY <1>0, <1>1, <1>3, <1>5
  <2>2. data[s].touched \in Nat /\ data[s].created \in Nat
    OBVIOUS
  <2>3. m <= data[s].touched /\ data[t].touched = m /\ data[t].created = c
    BY <1>2, <1>5
  <2>4. data[s].touched = m => c <= data[s].created
    BY <1>4
  <2>5. data[s].touched = m /\ data[s].created = c => t <= s
    BY <1>5
  <2> HIDE DEF Touched, First, Created, Both
  <2> QED BY <2>1, <2>2, <2>3, <2>4, <2>5 DEF Older
<1> QED BY <1>5, <1>6

\* An index that an access leaves as it is fits the budget.
LEMMA LeftFits == RetentionInv => BudgetHolds
<1> SUFFICES ASSUME RetentionInv, [t \in InIndex |-> metadata[t]] = Accessed
             PROVE  Fits({t \in InIndex : clock >= metadata[t].retain})
  BY DEF BudgetHolds
<1> DEFINE all == [t \in InIndex |-> metadata[t]]
           C == {t \in InIndex : clock >= metadata[t].retain}
<1>1. InIndex \subseteq Kept /\ metadata \in [Kept -> RetentionData] /\ MaxSize \in Nat
  BY RetentionAssumption DEF InIndex, RetentionInv, RetentionTypeOK, RetentionData
<1>2. Evicted(all) \cap InIndex = {}
  <2>1. DOMAIN Accessed = InIndex \ Evicted(all)
    BY DEF Accessed
  <2>2. DOMAIN all = InIndex /\ DOMAIN all = DOMAIN Accessed
    OBVIOUS
  <2> QED BY <2>1, <2>2
<1>3. DOMAIN all = InIndex /\ \A t \in InIndex : all[t] = metadata[t]
  OBVIOUS
<1>4. C = Unprotected(all)
  BY <1>2, <1>3 DEF Unprotected, Evicted, Expired
<1>5. CASE C = {}
  <2>1. Fits({})
    BY <1>1, NoBytes DEF Fits
  <2> QED BY <1>5, <2>1
<1>6. CASE C # {}
  <2>1. \A t \in C : all[t].touched \in Nat /\ all[t].created \in Nat
    BY <1>1, <1>3, RetentionTimes DEF RetentionData
  <2>2. C \subseteq Kept /\ C \subseteq InIndex
    BY <1>1
  <2> HIDE DEF all, C
  <2>3. PICK t \in C : \A s \in C : ~Older(all, s, t)
    BY <1>6, <2>1, <2>2, OldestRecord
  <2>4. {s \in C : ~Older(all, s, t)} = C
    BY <2>3
  <2>5. t \notin OverBudget(all)
    BY <1>2, <2>2, <2>3 DEF Evicted
  <2>6. Fits(C)
    BY <1>4, <2>4, <2>5 DEF OverBudget
  <2> QED BY <2>6 DEF C
<1> QED BY <1>5, <1>6

\* The invariant holds in every state: the window of a kept record covers what is owed.
THEOREM RetentionInvariant == RetentionSpec => []RetentionInv
BY RetentionInitInv, RetentionInvStep, PTL DEF RetentionSpec

\* Type correctness.
THEOREM RetentionTypes == RetentionSpec => []RetentionTypeOK
BY RetentionInvariant, PTL DEF RetentionInv

\* For any records, sizes, budget and windows: a record is there as long as the last window
\* it was given says, whatever else ends, is read or is delivered, and what an access leaves
\* outside its window fits the budget (runtime/expiring_index.py).
THEOREM ResultsAreKeptAlways == RetentionSpec => []ResultsAreKept
<1>1. RetentionInv => ResultsAreKept
  BY LeftFits DEF ResultsAreKept, RetentionInv
<1> QED BY <1>1, RetentionInvariant, PTL

-----------------------------------------------------------------------------
(* Kv                                                                      *)

\* The inductive invariant.
KvInv == KvTypeOK /\ NoEditLost

\* The file of a key is one of the files.
LEMMA FileOfKey == \A k \in KvKeys : FileOf(k) \in Files
  BY DEF Files

\* Every initial state satisfies the types and the property.
LEMMA KvInitInv == KvInit => KvInv
  BY DEF KvInit, KvInv, KvTypeOK, NoEditLost, Readings, NothingRead

\* What a page has read, and its own edit.
LEMMA ReadTypes ==
  ASSUME KvTypeOK, NEW p \in Pages, HasRead(p)
  PROVE  /\ reading[p].key \in KvKeys /\ reading[p].value \subseteq Pages
         /\ Edited(p) \subseteq Pages /\ p \in Edited(p) /\ reading[p].value \subseteq Edited(p)
  BY DEF KvTypeOK, HasRead, Readings, Edited

\* Every step preserves the types and the property.
LEMMA KvStep == KvInv /\ [KvNext]_kvVars => KvInv'
<1>. SUFFICES ASSUME KvInv, [KvNext]_kvVars PROVE KvInv'
  OBVIOUS
<1>t. KvTypeOK /\ NoEditLost
  BY DEF KvInv
<1>f. \A p \in Pages : Forgets(p) => reading' \in [Pages -> Readings]
  BY <1>t DEF Forgets, KvTypeOK, Readings
<1>1. ASSUME NEW p \in Pages, NEW k \in KvKeys, GetDocument(p, k) PROVE KvInv'
  <2>1. [key |-> k, found |-> FileOf(k) \in present, value |-> documents[FileOf(k)]] \in Readings
    <3>1. documents[FileOf(k)] \subseteq Pages /\ (FileOf(k) \in present) \in BOOLEAN
      BY FileOfKey, <1>t DEF KvTypeOK
    <3>. QED BY <3>1 DEF Readings
  <2>2. reading' \in [Pages -> Readings]
    BY <2>1, <1>1, <1>t DEF GetDocument, KvTypeOK
  <2>. QED BY <2>2, <1>1, <1>t DEF GetDocument, KvInv, KvTypeOK, NoEditLost
<1>2. ASSUME NEW p \in Pages, PutIfMatch(p) PROVE KvInv'
  <2>. DEFINE k == reading[p].key
              f == FileOf(k)
  <2>1. /\ k \in KvKeys /\ f \in Files /\ Edited(p) \subseteq Pages /\ p \in Edited(p)
        /\ documents[f] \subseteq Edited(p)
    BY <1>2, <1>t, ReadTypes, FileOfKey DEF PutIfMatch, Matches
  <2>2. /\ present' = present \cup {f} /\ documents' = [documents EXCEPT ![f] = Edited(p)]
        /\ folders' = folders \cup Ancestors(k)
        /\ \E answer \in {acknowledged[f] \cup {p}, acknowledged[f] \cap (acknowledged[f] \cup {p})} :
             acknowledged' = [acknowledged EXCEPT ![f] = answer]
        /\ reading' \in [Pages -> Readings]
    BY <1>2, <1>f DEF PutIfMatch, WritesDocument, Answers
  <2>3. acknowledged[f] \subseteq documents[f]
    BY <2>1, <1>t DEF NoEditLost
  <2>. HIDE DEF f, k
  <2>4. KvTypeOK'
    BY <2>1, <2>2, <1>t DEF KvTypeOK
  <2>5. NoEditLost'
    BY <2>1, <2>2, <2>3, <1>t DEF KvTypeOK, NoEditLost
  <2>. QED BY <2>4, <2>5 DEF KvInv
<1>3. ASSUME NEW p \in Pages, PutAnyway(p) PROVE KvInv'
  <2>. DEFINE k == reading[p].key
              f == FileOf(k)
  <2>1. /\ k \in KvKeys /\ f \in Files /\ Edited(p) \subseteq Pages
    BY <1>3, <1>t, ReadTypes, FileOfKey DEF PutAnyway
  <2>2. /\ present' = present \cup {f} /\ documents' = [documents EXCEPT ![f] = Edited(p)]
        /\ folders' = folders \cup Ancestors(k)
        /\ \E answer \in {Edited(p), acknowledged[f] \cap Edited(p)} :
             acknowledged' = [acknowledged EXCEPT ![f] = answer]
        /\ reading' \in [Pages -> Readings]
    BY <1>3, <1>f DEF PutAnyway, WritesDocument, Answers
  <2>. HIDE DEF f, k
  <2>4. KvTypeOK'
    BY <2>1, <2>2, <1>t DEF KvTypeOK
  <2>5. NoEditLost'
    BY <2>1, <2>2, <1>t DEF KvTypeOK, NoEditLost
  <2>. QED BY <2>4, <2>5 DEF KvInv
<1>4. ASSUME NEW p \in Pages, PutRefused(p) PROVE KvInv'
  BY <1>4, <1>f, <1>t DEF PutRefused, KvInv, KvTypeOK, NoEditLost
<1>5. ASSUME NEW p \in Pages, PutIsCut(p) PROVE KvInv'
  <2>1. reading[p].key \in KvKeys
    BY <1>5, <1>t, ReadTypes DEF PutIsCut
  <2>. QED BY <2>1, <1>5, <1>f, <1>t DEF PutIsCut, KvInv, KvTypeOK, NoEditLost
<1>6. ASSUME NEW k \in KvKeys, DeleteDocument(k) PROVE KvInv'
  <2>. DEFINE f == FileOf(k)
  <2>1. /\ present' = present \ {f} /\ documents' = [documents EXCEPT ![f] = {}]
        /\ acknowledged' = [acknowledged EXCEPT ![f] = {}] /\ UNCHANGED <<folders, reading>>
    BY <1>6 DEF DeleteDocument
  <2>. HIDE DEF f
  <2>. QED BY <2>1, <1>t DEF KvInv, KvTypeOK, NoEditLost
<1>7. CASE UNCHANGED kvVars
  BY <1>7, <1>t DEF kvVars, KvInv, KvTypeOK, NoEditLost
<1>. QED BY <1>1, <1>2, <1>3, <1>4, <1>5, <1>6, <1>7 DEF KvNext

\* No edit put and acknowledged is lost, for every set of pages and of keys, keys that
\* share a file included.
THEOREM NoEditLostAlways == KvSpec => []NoEditLost
<1>1. KvInv => NoEditLost
  BY DEF KvInv
<1>. QED BY <1>1, KvInitInv, KvStep, PTL DEF KvSpec
=============================================================================
