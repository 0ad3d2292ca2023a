---------------------------- MODULE MCRunInputs ----------------------------
EXTENDS RunInputs

MCPlan == <<"config", "policy", "evals", "ticket", ".gitignore">>

MCNoPlan == <<>>

\* What `seaf init` writes, and a second policy somebody keeps beside it.
MCTemplate == [name \in {"config", "policy", "evals", "ticket", ".gitignore", "other"} |->
                 CASE name = "config" -> "policy" [] name = "policy" -> "p1"
                   [] name = "evals" -> "e1" [] name = "ticket" -> "t1"
                   [] name = ".gitignore" -> "state" [] name = "other" -> "p2"]

MCChanges == {<<"evals", "link">>, <<"evals", "e1">>}

MCContent == [file \in {"e1", "link", Broken} |->
                CASE file = "e1" -> "v1" [] file = "link" -> "v2" [] OTHER -> None]

\* The second policy holds a secret: a start with it is refused.
MCArguments ==
  {[config |-> FALSE, policy |-> None, worktree |-> "main"],
   [config |-> FALSE, policy |-> "other", worktree |-> "main"],
   [config |-> TRUE, policy |-> None, worktree |-> "linked"]}
============================================================================
