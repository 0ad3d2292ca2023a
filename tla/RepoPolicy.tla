------------------------------ MODULE RepoPolicy ------------------------------
(***************************************************************************)
(* Repository paths and the path patterns of policies, tickets and context *)
(* excludes (policy.rs).  A path is the sequence of its components, as     *)
(* written: "/" first for an absolute one, ".." and "." where they stand.  *)
(* A normal path has none of these.                                        *)
(***************************************************************************)
EXTENDS Integers, Sequences, SequencesExt

Unsafe == {"/", "..", "\\"}

\* <<>> stands for a path that normalize_repo_path refuses.
NormalPath(path) ==
  IF ToSet(path) \cap Unsafe # {} THEN <<>> ELSE SelectSeq(path, LAMBDA c : c # ".")

ContainsComponents(path, at) ==
  \E k \in 0 .. Len(path) - Len(at) : IsPrefix(at, SubSeq(path, k + 1, Len(path)))

(***************************************************************************)
(* A pattern is "at/**" (tree), a file name pattern ("*.ext", "name*": by  *)
(* the names it covers), an exact path, blank, or of a form not supported, *)
(* which matches everything, as a pattern that is not a safe path does.    *)
(***************************************************************************)
Matches(path, pattern) ==
  CASE pattern.form = "blank"  -> FALSE
    [] pattern.form = "file"   -> Last(path) \in pattern.at
    [] pattern.form = "tree"   -> \/ NormalPath(pattern.at) = <<>>
                                  \/ ContainsComponents(path, NormalPath(pattern.at))
    [] pattern.form = "exact"  -> NormalPath(pattern.at) \in {<<>>, path}
    [] pattern.form = "other"  -> TRUE

MatchesAny(path, patterns) == \E k \in DOMAIN patterns : Matches(path, patterns[k])

==============================================================================
