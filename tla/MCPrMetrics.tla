----------------------------- MODULE MCPrMetrics -----------------------------
(***************************************************************************)
(* Instance of PrMetrics for TLC: p refers to the issue q and to two Jira  *)
(* issues, each in a sprint of its own; a label means bug or, in another   *)
(* map, story.                                                             *)
(***************************************************************************)
EXTENDS PrMetrics, TLC

MCAuthor    == [p \in Prs |-> "ann"]
MCMergedOn  == [p \in Prs |-> 1]
MCIssueRefs == [p \in Prs |-> IF p = "p" /\ "q" \in Prs THEN <<"q">> ELSE <<>>]
MCJiraKeys  == [p \in Prs |-> IF p = "p" THEN <<"k", "j">> ELSE <<>>]

First  == [type |-> "story", slice |-> "s1", points |-> 1]
Second == [type |-> "story", slice |-> "s2", points |-> 2]
MCSays == [k \in JiraIssues |-> IF k = "k" THEN {First} ELSE {Second}]

\* An issue that may move from one sprint to the other.
MCMoves == [k \in JiraIssues |-> {First, Second}]

Meaning(cls) == [c \in Classes |-> IF c = cls THEN Labels ELSE {}]
MCLabelMaps  == <<Meaning("bug"), Meaning("story")>>
=============================================================================
