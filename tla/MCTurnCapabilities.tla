------------------------- MODULE MCTurnCapabilities -------------------------
(***************************************************************************)
(* TurnCapabilities with a fixer call (limit 1) and three web searches     *)
(* that contend for two slots, over two turns.                             *)
(***************************************************************************)
EXTENDS TurnCapabilities

CONSTANTS f1, w1, w2, w3, fixer, search

MCCalls  == {f1, w1, w2, w3}
MCFixers == {f1}
MCCaps   == {fixer, search}
MCCapOf  == [c \in MCCalls |-> IF c \in MCFixers THEN fixer ELSE search]
MCLimit  == [p \in MCCaps |-> IF p = fixer THEN 1 ELSE 2]
=============================================================================
