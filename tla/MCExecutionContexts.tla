------------------------ MODULE MCExecutionContexts -------------------------
(***************************************************************************)
(* Workers mp and mq, mp with the higher clearance; ma is a trusted root, mb *)
(* an untrusted one, and x is sent in the course of a behaviour.            *)
(***************************************************************************)
EXTENDS ExecutionContexts, TLC

CONSTANTS ma, mb, mp, mq

MCLabel     == [m \in Seeded |-> IF m = ma THEN 2 ELSE 0]
MCClearance == [w \in Principals |-> IF w = mp THEN 2 ELSE 1]

\* Context ids are random and interchangeable.
AnyContext == Permutations(Contexts)
=============================================================================
