------------------------------- MODULE MCJira -------------------------------
(***************************************************************************)
(* Three issues for TLC.                                                   *)
(***************************************************************************)
EXTENDS JiraSync

\* The first is at one site, the second at none any more, the third at another.
HomeOf == [k \in Keys |-> CASE k = 1 -> "one" [] k = 2 -> "nowhere" [] k = 3 -> "two"]
=============================================================================
