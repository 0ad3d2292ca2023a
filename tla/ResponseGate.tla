------------------------------ MODULE ResponseGate ------------------------------
(***************************************************************************)
(* What a provider's answer is turned into before anything acts on it.     *)
(* The result is bounded and screened, then read by the role that was      *)
(* asked (model_runner.rs, role_response.rs, provider_exchange.rs).  The   *)
(* patch of a Developer is parsed for the paths it names, the paths are    *)
(* held against the policy, and the decision is published next to the      *)
(* exact patch (patch.rs, policy_gate.rs, development_evidence.rs).        *)
(*                                                                         *)
(* A result is [ok, fits, clean, form, shaped, role, says, text, ask,      *)
(* patch, stray]: the provider gave a response and no error; it fits the   *)
(* byte limit of an audit; the redactor finds no credential in it; it is   *)
(* no JSON ("text"), JSON or an "object", with the fields of its role; the *)
(* role it names, its status or decision, its summary, the context it asks *)
(* for, the name of its patch, and whether a diff stands in another field. *)
(*                                                                         *)
(* A diff is a sequence of lines: [is |-> "git", paths |-> <<p, q>>],      *)
(* [is |-> "old" or "new", path |-> p], [is |-> "binary"] and              *)
(* [is |-> "text"], a hunk.  Quoting is the lexer's business: a header is  *)
(* what its tokens are, and <<>> is a header without a path.               *)
(***************************************************************************)
EXTENDS RepoPolicy, FiniteSets

CONSTANTS
  AskCap       \* paths in one context request (8)

NoAsk == [paths |-> <<>>, reason |-> "none"]
NoPatch == "none"

-----------------------------------------------------------------------------
(* The answer.                                                             *)

\* Content, metadata and the message of a failure are screened, and the whole audit.
Prohibited(result) == ~result.clean

\* A result too large or with a credential in it becomes a fixed provider failure.
BoundedAudit(result) ==
  IF ~result.fits \/ Prohibited(result) THEN [result EXCEPT !.ok = FALSE] ELSE result

Agents == {"researcher", "analyzer", "spec_writer"}
Reviewers == {"spec_reviewer", "output_reviewer"}

Sayings(role) ==
  IF role \in Agents THEN {"passed", "blocked", "needs_context"}
  ELSE IF role \in Reviewers
       THEN {"approve_spec", "approve_for_tests", "request_changes", "reject"}
       ELSE {"patch_proposed", "blocked", "needs_context"}

LooksLikeDiff(diff) ==
  LET kinds == {diff[k].is : k \in DOMAIN diff}
  IN  "git" \in kinds \/ {"old", "new", "text"} \subseteq kinds

\* The paths of a request are normal as they stand, and none is there twice.
AskedNormally(path) == path # <<>> /\ NormalPath(path) = path

AskIsValid(ask) ==
  /\ Len(ask.paths) \in 1 .. AskCap
  /\ \A p \in ToSet(ask.paths) : AskedNormally(p)
  /\ Cardinality(ToSet(ask.paths)) = Len(ask.paths)
  /\ ask.reason = "sound"

\* A context request stands with needs_context and nowhere else.
ContextRequestFits(result) ==
  IF result.says = "needs_context" THEN result.ask # NoAsk /\ AskIsValid(result.ask)
                                   ELSE result.ask = NoAsk

\* Fields a role does not have are refused; a diff stands in the patch field only.
PatchFits(diffs, role, result) ==
  IF role # "developer" THEN result.patch = NoPatch
  ELSE /\ ~result.stray
       /\ result.says = "patch_proposed" =>
            result.patch # NoPatch /\ LooksLikeDiff(diffs[result.patch])

ParsesAs(diffs, role, result) ==
  /\ result.form = "object" /\ result.shaped
  /\ result.role = role /\ result.says \in Sayings(role)
  /\ ContextRequestFits(result) /\ PatchFits(diffs, role, result)

\* Each reviewer has an approval of its own; the other one's parses and is invalid.
ApprovesOther(role, says) ==
  \/ says = "approve_spec" /\ role # "spec_reviewer"
  \/ says = "approve_for_tests" /\ role # "output_reviewer"

\* Only an answer that is no JSON at all may be repaired.
Outcome(diffs, role, audit) ==
  IF ~audit.ok THEN "provider_failure"
  ELSE IF audit.form = "text" THEN "invalid_json"
  ELSE IF ~ParsesAs(diffs, role, audit) \/ ApprovesOther(role, audit.says)
       THEN "invalid_response" ELSE audit.says

What(audit) ==
  CASE audit.says = "passed"         -> {audit.text}
    [] audit.says = "needs_context"  -> ToSet(audit.ask.paths)
    [] audit.says = "patch_proposed" -> {audit.patch}
    [] OTHER                         -> {}

Spoken == {"passed", "blocked", "needs_context", "patch_proposed", "approve_spec",
           "approve_for_tests", "request_changes", "reject"}

Meant(outcome, audit) ==
  [is |-> outcome, what |-> IF outcome \in Spoken THEN What(audit) ELSE {}]

\* What the role that was asked makes of a result.
ReadAnswer(diffs, role, result) ==
  Meant(Outcome(diffs, role, BoundedAudit(result)), result)

-----------------------------------------------------------------------------
(* The patch.                                                              *)

DevNull == <<"/", "dev", "null">>

\* The prefixes "a/" and "b/" are the diff's own.
StripPrefix(path) ==
  IF Len(path) > 1 /\ path[1] \in {"a", "b"} THEN Tail(path) ELSE path

PatchPath(path) == NormalPath(StripPrefix(path))

NoFile == [open |-> FALSE, paths |-> {}]

Fail(state, code) == [state EXCEPT !.error = code]

FinishFile(state) ==
  IF ~state.file.open THEN state
  ELSE IF state.file.paths = {} THEN Fail(state, "invalid_patch")
  ELSE [state EXCEPT !.paths = @ \cup state.file.paths, !.files = @ + 1, !.file = NoFile]

\* A git header comes after the end of the file before it and names exactly two paths.
GitHeader(done, line) ==
  IF done.error # "" THEN done
  ELSE IF Len(line.paths) # 2 THEN Fail(done, "invalid_patch")
  ELSE IF \E k \in {1, 2} : line.paths[k] = DevNull \/ PatchPath(line.paths[k]) = <<>>
       THEN Fail(done, "invalid_patch_path")
  ELSE [done EXCEPT !.file = [open |-> TRUE,
                              paths |-> {PatchPath(line.paths[1]), PatchPath(line.paths[2])}]]

\* "--- " and "+++ " count wherever they stand, and open a file when none is.
FileHeader(state, line) ==
  LET opened == [state EXCEPT !.file.open = TRUE]
  IN  IF line.path = <<>> THEN Fail(state, "invalid_patch")
      ELSE IF line.path = DevNull THEN opened
      ELSE IF PatchPath(line.path) = <<>> THEN Fail(state, "invalid_patch_path")
      ELSE [opened EXCEPT !.file.paths = @ \cup {PatchPath(line.path)}]

\* Defective variant: the path a file is moved or removed from is not named.
ParseNewOnly(state, line) ==
  IF state.error # "" THEN state
  ELSE CASE line.is = "git"     -> GitHeader(FinishFile(state), line)
         [] line.is = "new"     -> FileHeader(state, line)
         [] line.is = "binary"  -> [state EXCEPT !.binary = TRUE]
         [] OTHER               -> state

ParseLine(state, line) ==
  IF state.error # "" THEN state
  ELSE CASE line.is = "git"           -> GitHeader(FinishFile(state), line)
         [] line.is \in {"old", "new"} -> FileHeader(state, line)
         [] line.is = "binary"        -> [state EXCEPT !.binary = TRUE]
         [] line.is = "text"          -> state

\* The files have to name a path each, and there has to be one.
Finished(state) == IF state.error = "" THEN FinishFile(state) ELSE state

WithFiles(end) == IF end.error = "" /\ end.files = 0 THEN Fail(end, "invalid_patch") ELSE end

Parsed(end) ==
  [error |-> end.error, paths |-> {p \in end.paths : end.error = ""},
   binary |-> end.error = "" /\ end.binary]

ParseUnifiedDiff(diff) ==
  Parsed(WithFiles(Finished(
    FoldLeft(ParseLine,
             [error |-> "", file |-> NoFile, files |-> 0, paths |-> {}, binary |-> FALSE],
             diff))))

-----------------------------------------------------------------------------
(* Sensitive categories: what a path has to look like, and the key in the  *)
(* policy that asks for a human.  Names are in lower case; ".key" and so on *)
(* stand for the file names that end so.                                   *)

Manifests == {"cargo.toml", "cargo.lock", "package.json", "package-lock.json",
              "pnpm-lock.yaml", "yarn.lock", "bun.lockb", "requirements.txt", "pyproject.toml",
              "poetry.lock", "pipfile", "pipfile.lock", "go.mod", "go.sum", "gemfile",
              "gemfile.lock"}

Keys == {"release-key.pem", "release-key.key", ".pem", ".key", ".p12"}

\* By component: equal to one of these, the last two lists by what it contains.
Components ==
  [database_migrations        |-> {"migration", "migrations"},
   ci_changes                 |-> {".circleci", "ci"},
   eval_changes               |-> {"eval", "evals", "evaluation", "evaluations"},
   policy_changes             |-> {"policy", "policies", ".seaf"},
   updater_changes            |-> {"update", "updater", "updates"},
   signing_changes            |-> {"signing"},
   privacy_sensitive_code     |-> {"privacy", "pii", "telemetry", "personal"},
   auth_code                  |-> {"auth", "login"},
   payment_code               |-> {"billing", "payment", "payments", "stripe"},
   dependency_changes         |-> {},
   network_permission_changes |-> {}]

\* By file name, by leading components and by what the whole path contains.
FileNames ==
  [dependency_changes |-> Manifests,
   ci_changes         |-> {".gitlab-ci.yml", "azure-pipelines.yml"},
   policy_changes     |-> {".policy.json"},
   signing_changes    |-> Keys]

CategoryKeys == DOMAIN Components

InCategory(key, path) ==
  \/ Components[key] \cap ToSet(path) # {}
  \/ key \in DOMAIN FileNames /\ Last(path) \in FileNames[key]
  \/ key = "ci_changes" /\ Len(path) > 2 /\ IsPrefix(<<".github", "workflows">>, path)
  \/ key = "policy_changes" /\ path = <<"docs", "security", "forbidden-shortcuts.md">>
  \/ key = "network_permission_changes" /\ {"network", "permission"} \subseteq ToSet(path)

-----------------------------------------------------------------------------
(* The policy: forbidden is a sequence of patterns, review one of patterns *)
(* and category keys ([form |-> "category", at |-> key]).                  *)

ReviewPatterns(policy) == SelectSeq(policy.review, LAMBDA p : p.form # "category")

RequiresCategory(policy, key) ==
  \E k \in DOMAIN policy.review : policy.review[k] = [form |-> "category", at |-> key]

PathReasons(policy, path) ==
  {code \in {"forbidden_path"} : MatchesAny(path, policy.forbidden)}
  \cup {code \in {"policy_requires_human_review"} : MatchesAny(path, ReviewPatterns(policy))}
  \cup {key \in CategoryKeys : InCategory(key, path) /\ RequiresCategory(policy, key)}

Rejections == {"binary_patch", "forbidden_path", "invalid_patch", "invalid_patch_path",
               "git_apply_check_failed"}

\* One reason to reject is enough; every other reason asks for a human.
KindOf(reasons) ==
  IF reasons \cap Rejections # {} THEN "rejected"
  ELSE IF reasons # {} THEN "review" ELSE "allowed"

\* Reasons from the patch and the policy alone.
StaticReasons(policy, parsed) ==
  IF parsed.error # "" THEN {parsed.error}
  ELSE UNION {PathReasons(policy, p) : p \in parsed.paths}
       \cup {code \in {"binary_patch"} : parsed.binary}

\* git apply --check is run when apply is asked for and nothing else speaks
\* against the patch, and never otherwise.
WithCheck(reasons, apply, fits) ==
  reasons \cup {code \in {"git_apply_check_failed"} :
                  apply /\ KindOf(reasons) = "allowed" /\ ~fits}

Decision(diff, paths, reasons, apply) ==
  [patch |-> diff, paths |-> paths, kind |-> KindOf(reasons), reasons |-> reasons,
   apply |-> apply]

GateParsed(policy, diff, parsed, apply, fits) ==
  Decision(diff, parsed.paths, WithCheck(StaticReasons(policy, parsed), apply, fits), apply)

GatePatch(policy, diff, apply, fits) ==
  GateParsed(policy, diff, ParseUnifiedDiff(diff), apply, fits)

\* DevelopmentEvidence::validate_parsed_patch_alignment
Aligned(parsed, decision) ==
  /\ decision.paths = parsed.paths
  /\ IF parsed.error # ""
     THEN decision.kind = "rejected" /\ parsed.error \in decision.reasons
     ELSE /\ parsed.binary => decision.kind = "rejected"
          /\ ("binary_patch" \in decision.reasons) = parsed.binary

EvidenceAligned(patch, decision) ==
  decision.patch = patch /\ Aligned(ParseUnifiedDiff(patch), decision)

==============================================================================
