--------------------------- MODULE MCTaskDelivery ---------------------------
(***************************************************************************)
(* TaskDelivery with two shell tasks and one delegate.                     *)
(***************************************************************************)
EXTENDS TaskDelivery

CONSTANTS s1, s2, a1

MCTasks  == {s1, s2, a1}
MCAgents == {a1}
=============================================================================
