----------------------------- MODULE MCTaskTree -----------------------------
(***************************************************************************)
(* TaskTree on two subagents and one plain task: a chain of three, two     *)
(* siblings under a root, separate roots, and cascades through an agent.   *)
(***************************************************************************)
EXTENDS TaskTree

CONSTANTS a1, a2, s1

MCTasks  == {a1, a2, s1}
MCAgents == {a1, a2}
=============================================================================
