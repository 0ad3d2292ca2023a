------------------------------ MODULE MCRoleChain ------------------------------
(***************************************************************************)
(* Constants of the model-checking runs of RoleChain: four provider steps, *)
(* six files, five patches, limits of a few bytes.                         *)
(***************************************************************************)
EXTENDS RoleChain, TLC

A == <<"src", "a.rs">>
B == <<"src", "b.rs">>
C == <<"docs", "c.md">>
D == <<"docs", "d.md">>
Secret == <<"secrets", "token.txt">>
Gone == <<"gone.rs">>

MCSteps == <<"spec_creation", "spec_review", "development", "output_review">>

\* a.rs is cut at the file limit, b.rs has characters too wide for what is left.
MCTree ==
  (A :> [is |-> "text", size |-> 5, width |-> 2]) @@
  (B :> [is |-> "text", size |-> 8, width |-> 4]) @@
  (C :> [is |-> "text", size |-> 2, width |-> 1]) @@
  (D :> [is |-> "text", size |-> 3, width |-> 1]) @@
  (Secret :> [is |-> "text", size |-> 1, width |-> 1]) @@
  (Gone :> [is |-> "missing", size |-> 0, width |-> 1])

MCOrder == <<C, D, Gone, Secret, A, B>>
MCRelevant == <<A, Gone, <<".", "src", "a.rs">>, B>>
MCLimits == [file |-> 4, total |-> 7]

Pattern(form, at) == [form |-> form, at |-> at]

MCForbidden == <<Pattern("tree", <<"secrets">>), Pattern("file", {"key.pem"})>>

MCPolicy ==
  [forbidden |-> <<Pattern("tree", <<"secrets">>)>>,
   review |-> <<Pattern("category", "ci_changes"), Pattern("exact", <<"docs", "c.md">>)>>]

Git(p, q) == [is |-> "git", paths |-> <<p, q>>]
Old(p) == [is |-> "old", path |-> p]
New(p) == [is |-> "new", path |-> p]
Text == [is |-> "text"]

InA(p) == <<"a">> \o p
InB(p) == <<"b">> \o p

\* moved takes a file out of secrets/, by its headers only.
MCDiffs ==
  [good   |-> <<Git(InA(A), InB(A)), Old(InA(A)), New(InB(A)), Text>>,
   stale  |-> <<Git(InA(B), InB(B)), Old(InA(B)), New(InB(B)), Text>>,
   asks   |-> <<Old(DevNull), New(InB(C)), Text>>,
   moved  |-> <<Old(InA(<<"lib", "secrets", "x">>)), New(InB(C)), Text>>,
   broken |-> <<Git(InA(A), InB(A)), Git(InA(A), <<"..", "x">>), [is |-> "binary"]>>]

MCFits == {"good", "asks", "moved"}

\* What a provider may say: an object with the fields of its role, a text that is
\* no JSON, a result with a credential in it, one for another role, and so on.
Saying(role, says) ==
  [ok |-> TRUE, fits |-> TRUE, clean |-> TRUE, form |-> "object", shaped |-> TRUE,
   role |-> role, says |-> says, text |-> "one", ask |-> NoAsk, patch |-> NoPatch,
   stray |-> FALSE]

Says(role, says) == {Saying(role, says)}
Asks(role, paths) ==
  {[Saying(role, "needs_context") EXCEPT !.ask = [paths |-> paths, reason |-> "sound"]]}
Proposes(p) == [Saying("developer", "patch_proposed") EXCEPT !.patch = p]

MCAnswers ==
  [spec_creation |-> Says("spec_writer", "passed")
                     \cup {[Saying("spec_writer", "passed") EXCEPT !.text = "two"]}
                     \cup Asks("spec_writer", <<C>>)
                     \cup {[Saying("spec_writer", "passed") EXCEPT !.clean = FALSE]},
   spec_review   |-> Says("spec_reviewer", "approve_spec")
                     \cup Says("spec_reviewer", "request_changes")
                     \cup Says("spec_reviewer", "approve_for_tests"),
   development   |-> {Proposes(p) : p \in DOMAIN MCDiffs}
                     \cup Asks("developer", <<C>>) \cup Asks("developer", <<D, A>>)
                     \cup Asks("developer", <<Secret>>) \cup Asks("developer", <<C, A, D>>)
                     \cup {[Proposes("good") EXCEPT !.stray = TRUE]},
   output_review |-> Says("output_reviewer", "approve_for_tests")
                     \cup Says("output_reviewer", "approve_spec")
                     \cup {[Saying("output_reviewer", "reject") EXCEPT !.form = "text"],
                           [Saying("output_reviewer", "reject") EXCEPT !.ok = FALSE]}]

==============================================================================
