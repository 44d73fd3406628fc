------------------------------ MODULE AppendLog ------------------------------
(***************************************************************************)
(* What chat/history.py promises of the messages of a conversation: a log  *)
(* that only grows at its end, a row at a time, each row numbered with its *)
(* place (HistoryStore.extend, and HistoryStore.load that orders by seq).  *)
(***************************************************************************)
EXTENDS Naturals, FiniteSets

CONSTANT Authors  \* calls of extend, one row each

VARIABLE rows

Row(a) == [by |-> a, n |-> Cardinality(rows)]

LogInit == rows = {}

AppendRow(a) ==
  /\ \A x \in rows : x.by # a
  /\ rows' = rows \cup {Row(a)}

LogNext == \E a \in Authors : AppendRow(a)

LogSpec == LogInit /\ [][LogNext]_rows
=============================================================================
