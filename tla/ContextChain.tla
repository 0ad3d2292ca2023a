----------------------------- MODULE ContextChain -----------------------------
(***************************************************************************)
(* The repository text a provider sees (context.rs, context_expansion.rs): *)
(* the bundle of a run's first request is packed from the ticket's files   *)
(* within two byte limits; a role may then ask for more files, and every   *)
(* round publishes one expansion artifact that links to the one before it. *)
(*                                                                         *)
(* The content of a file is its size in bytes and the width of its         *)
(* characters: a prefix never splits one.  A file is [is, size, width], is *)
(* "text", "binary", "directory", "missing", "outside" (it resolves out of *)
(* the repository) or "credential" (the redactor finds one in it).         *)
(***************************************************************************)
EXTENDS RepoPolicy, FiniteSets

CONSTANTS
  Limits,      \* [file, total], bytes
  Forbidden    \* patterns: default excludes, the ticket's and the policy's

MinOf(a, b) == IF a < b THEN a ELSE b

\* utf8_prefix_len
PrefixLen(file, limit) == LET n == MinOf(file.size, limit) IN n - (n % file.width)

Bytes(files) == FoldLeft(LAMBDA sum, f : sum + f.bytes, 0, files)

Paths(files) == {files[k].path : k \in DOMAIN files}

-----------------------------------------------------------------------------
(* The initial bundle.                                                     *)

\* validate_live_context_paths refuses the whole request.
LiveRefused(tree, relevant) ==
  \E k \in DOMAIN relevant :
    LET path == NormalPath(relevant[k])
    IN  path = <<>> \/ MatchesAny(path, Forbidden) \/ tree[path].is = "outside"

\* A path seen before, missing, not a file, not text or holding a credential is left out.
PackOne(tree, packed, path) ==
  LET file == tree[path]
      left == Limits.total - Bytes(packed.files)
      cut == PrefixLen(file, MinOf(Limits.file, left))
  IN  IF packed.stop \/ path \in Paths(packed.files) \/ file.is # "text" THEN packed
      ELSE IF left = 0 \/ (cut = 0 /\ file.size > 0) THEN [files |-> packed.files, stop |-> TRUE]
      ELSE [files |-> Append(packed.files, [path |-> path, bytes |-> cut]),
            stop |-> cut >= left]

PackContext(tree, relevant) ==
  FoldLeft(LAMBDA packed, path : PackOne(tree, packed, NormalPath(path)),
           [files |-> <<>>, stop |-> FALSE], relevant).files

-----------------------------------------------------------------------------
(* Expansions.  An expansion is [of, round, previous, asked, excluded,     *)
(* prior, total, files]: of names the step, its attempt and the initial    *)
(* request (path, bundle and candidate) it belongs to, previous is the     *)
(* expansion of the round before, NoExpansion in the first.                *)

NoExpansion == [round |-> 0]

\* What an expansion of this round, step and attempt has to be linked to.
Linked(chain, of) ==
  \A k \in DOMAIN chain :
    /\ chain[k].round = k /\ chain[k].of = of
    /\ chain[k].previous = IF k = 1 THEN NoExpansion ELSE chain[k - 1]

LoadedBefore(of, chain, k) ==
  Paths(of.bundle) \cup UNION {Paths(chain[j].files) : j \in 1 .. k - 1}

TotalBefore(of, chain, k) == IF k = 1 THEN Bytes(of.bundle) ELSE chain[k - 1].total

\* validate_artifact_structure
StructureHolds(x) ==
  /\ x.files # <<>> /\ (x.round = 1) = (x.previous = NoExpansion)
  /\ Cardinality(Paths(x.files)) = Len(x.files)
  /\ \A k \in DOMAIN x.files : x.files[k].bytes \in 1 .. Limits.file
  /\ x.total = x.prior + Bytes(x.files) /\ x.total <= Limits.total
  /\ x.asked = x.excluded \cup Paths(x.files)

\* load_prior_chain: links, identity, totals, exclusions, no file twice.
ChainHolds(chain, of) ==
  /\ Linked(chain, of)
  /\ \A k \in DOMAIN chain :
       /\ StructureHolds(chain[k])
       /\ chain[k].prior = TotalBefore(of, chain, k)
       /\ chain[k].excluded = chain[k].asked \cap LoadedBefore(of, chain, k)
       /\ Paths(chain[k].files) \cap LoadedBefore(of, chain, k) = {}
       /\ \A p \in chain[k].asked : ~MatchesAny(p, Forbidden)

\* Requested paths are normalised; two that become one are refused.
AskUnsafe(asked) == \E p \in asked : NormalPath(p) = <<>>

AskTwice(asked) == Cardinality({NormalPath(p) : p \in asked}) < Cardinality(asked)

AskForbidden(asked) == \E p \in asked : MatchesAny(NormalPath(p), Forbidden)

\* A new file is cut to its limit and to what the files read before it leave.
ReadNew(tree, room, new, files, p) ==
  IF p \notin new THEN files
  ELSE Append(files, [path |-> p,
                      bytes |-> PrefixLen(tree[p], MinOf(Limits.file, room - Bytes(files)))])

\* Files are read in the order of their paths; order gives it.
NewFiles(tree, order, of, chain, asked) ==
  LET new == asked \ LoadedBefore(of, chain, Len(chain) + 1)
      room == Limits.total - TotalBefore(of, chain, Len(chain) + 1)
  IN  FoldLeft(LAMBDA files, p : ReadNew(tree, room, new, files, p), <<>>, order)

Readable(tree, p) == tree[p].is = "text" /\ tree[p].size > 0

NewExpansion(of, chain, asked, files) ==
  [of |-> of, round |-> Len(chain) + 1,
   previous |-> IF chain = <<>> THEN NoExpansion ELSE Last(chain),
   asked |-> asked, excluded |-> asked \ Paths(files),
   prior |-> TotalBefore(of, chain, Len(chain) + 1),
   total |-> TotalBefore(of, chain, Len(chain) + 1) + Bytes(files), files |-> files]

\* "denied" when the request is not granted, "invalid" when the evidence does not
\* hold together.
Verdict(tree, x) ==
  IF \/ x.files = <<>>
     \/ \E k \in DOMAIN x.files : ~Readable(tree, x.files[k].path) \/ x.files[k].bytes = 0
  THEN "denied" ELSE IF StructureHolds(x) THEN "" ELSE "invalid"

Expanded(tree, x) == [refused |-> Verdict(tree, x), expansion |-> x]

Refused(why) == [refused |-> why]

\* create_context_expansion up to publication.
Expand(tree, order, of, chain, requested) ==
  IF AskUnsafe(requested) THEN Refused("denied")
  ELSE IF AskTwice(requested) THEN Refused("invalid")
  ELSE IF AskForbidden(requested) THEN Refused("denied")
  ELSE IF ~ChainHolds(chain, of) THEN Refused("invalid")
  ELSE Expanded(tree, NewExpansion(of, chain, {NormalPath(p) : p \in requested},
                        NewFiles(tree, order, of, chain, {NormalPath(p) : p \in requested})))

\* The files a request of this chain adds to the bundle.
ChainFiles(chain) == FoldLeft(LAMBDA files, x : files \o x.files, <<>>, chain)

==============================================================================
