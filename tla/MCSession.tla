------------------------------- MODULE MCSession ------------------------------
(***************************************************************************)
(* Instances of Session for TLC.                                           *)
(***************************************************************************)
EXTENDS Session

CONSTANTS j1, j2, j3, p, q

MCTabs  == {j1, j2, j3}
TwoTabs == {j1, j2}

MCPids  == {p, q}
OnePid  == {p}

\* All tabs on one JVM.
SamePid == [j \in Tabs |-> p]

\* Two tabs on one JVM and one on another.
MixedPids == [j \in Tabs |-> IF j = j3 THEN q ELSE p]
=============================================================================
