-------------------------------- MODULE MCFranky -------------------------------
(***************************************************************************)
(* An instance of Franky for TLC.                                          *)
(***************************************************************************)
EXTENDS Franky, TLC

CONSTANTS root, panel, tab

\* The tool window's lifetime and a tab's, as toolWindow.kt nests them.
MCParent == (panel :> root) @@ (tab :> panel)
AnyOrder == Permutations(Actions)

\* Recursion, a shared caller, a trace that ends where another goes on, and a
\* sample without frames.
MCSamples ==
  {[frames |-> f, callCount |-> c] :
     f \in {<<>>, <<1>>, <<2, 2>>, <<2, 1>>, <<1, 2>>, <<3, 2, 1>>}, c \in {1, 2}}

\* Two overloaded methods and another, and two JVMs that give the same ids to
\* different methods.
MCNameOf == [m \in {"run(I)", "run(J)", "stop()"} |-> IF m = "stop()" THEN "stop" ELSE "run"]
MCMethodOf == [v |-> [a |-> "run(I)", b |-> "stop()"], w |-> [a |-> "stop()", b |-> "run(J)"]]
MCProjects == {{"run(I)", "run(J)"}, {"run(J)", "stop()"}, {"run(I)", "stop()"}}
===============================================================================
