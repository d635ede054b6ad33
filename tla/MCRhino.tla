------------------------------- MODULE MCRhino -------------------------------
(* Small instances of the kernel core: an idle task and two or three others. *)
EXTENDS RhinoInductive, TLC

CONSTANTS idle, a, b, c, m1, m2

\* One task per priority.
BootChain == (0 :> <<a>> @@ 1 :> <<b>> @@ 2 :> <<c>> @@ 3 :> <<idle>>)

\* Two tasks, of different priorities.
BootPair == (0 :> <<a>> @@ 1 :> <<b>> @@ 2 :> <<idle>>)

\* Two tasks of one priority.
BootEqual == (0 :> <<>> @@ 1 :> <<a, b>> @@ 2 :> <<idle>>)

Forever == {FOREVER}
One == {1}
OneOrTwo == {1, 2}
ForeverOrOne == {FOREVER, 1}
=============================================================================
