----------------------------- MODULE RunStorage -----------------------------
(***************************************************************************)
(* The byte and entry budget of one run directory: how evidence is         *)
(* published create-only under the run mutation lock, what every           *)
(* publication is measured against, and the storage commitments that keep  *)
(* room for the outcome of a provider call or of an evaluation command      *)
(* before it is made.                                                      *)
(*                                                                         *)
(* A publication is one action, since the lock is held from its projection *)
(* to its last system call; a death inside it leaves the temporary file    *)
(* alone, or both names of the one inode.  Nothing but temporaries of      *)
(* run.json is ever reclaimed.                                             *)
(***************************************************************************)
EXTENDS Integers, FiniteSets, FiniteSetsExt

CONSTANTS
  Checks,       \* evaluation checks are 1 .. Checks
  Notes,        \* files outside every commitment: prompts, policy evidence, log.md
  ByteCap,      \* RUN_TREE_BYTE_CAP
  EntryCap,     \* RUN_TREE_ENTRY_CAP
  ResponseCap,  \* PROVIDER_RESPONSE_BYTE_CAP
  RecordCap,    \* PROVIDER_RECORD_BYTE_CAP
  LogCap,       \* LOG_BYTE_CAP, the normalised limit of each output stream
  ArtifactCap,  \* DEFAULT_ARTIFACT_BYTE_CAP, also of run.json
  Fillers,      \* bound: what else is in the tree, bytes and entries
  Growth,       \* what one ledger reference adds to run.json
  MaxFaults     \* bound: deaths

ASSUME StorageAssumption ==
  /\ {Checks, ByteCap, EntryCap, Growth, MaxFaults} \subseteq Nat
  /\ {ResponseCap, RecordCap, LogCap, ArtifactCap} \subseteq Nat \ {0}
  /\ IsFiniteSet(Notes)
  /\ Fillers \subseteq [bytes : 0 .. ByteCap - 1, entries : 0 .. EntryCap - 1]

VARIABLES
  filler,    \* bytes and entries of everything else in the tree
  size,      \* name -> size of the file, 0 while there is none
  doubled,   \* names whose temporary is still linked to the same inode
  orphans,   \* temporaries of dead writers
  head,      \* what run.json says
  source,    \* the kind of the staged recovery source
  caller,    \* the external effect in progress; no lock is held
  faults     \* history: deaths so far

storageVars == <<filler, size, doubled, orphans, head, source, caller, faults>>

-----------------------------------------------------------------------------
(* Names and their caps.                                                   *)

File(kind) == <<kind, 0>>
Run == File("run")
Request == File("request")
RequestRecord == File("request record")
Reply == File("response")
ReplyRecord == File("response record")
Intent == File("intent")
Testing == File("testing")
Report == File("report")
RecoverySource == File("source")
Decision == File("decision")
Logs == {"stdout", "stderr"} \X (1 .. Checks)

Exchange == {Request, RequestRecord, Reply, ReplyRecord}
Evaluation == Logs \cup {Intent, Testing, Report}
Recovery == {RecoverySource, Decision}
Names == {Run} \cup Exchange \cup Evaluation \cup Recovery \cup {<<"note", n>> : n \in Notes}

Limit(n) ==
  CASE n = Reply -> ResponseCap
    [] n \in {RequestRecord, ReplyRecord} -> RecordCap
    [] n \in Logs -> LogCap
    [] OTHER -> ArtifactCap

\* Defective variant: the size of an artifact is not looked at.
SizeUnchecked(n, s) == TRUE

SizeAllowed(n, s) == s <= Limit(n)

\* Bound: the sizes that are offered, one of them above the cap.
Sizes(n) == {1, Limit(n), Limit(n) + 1}

There(n) == size[n] > 0

-----------------------------------------------------------------------------
(* Usage: a file with two names counts once in bytes and twice in entries. *)

\* Acquiring the lock removes the temporaries of run.json.
Swept == {o \in orphans : o.name # Run}

UsedBytes ==
  filler.bytes + SumFunction(size)
               + SumFunction([o \in Swept |-> o.size])

UsedEntries ==
  filler.entries + Cardinality({n \in Names : There(n)}) + Cardinality(doubled)
                 + Cardinality(Swept)

Fits(bytes, entries) == bytes <= ByteCap /\ entries <= EntryCap

-----------------------------------------------------------------------------
(* Commitments: what the outcome that is owed may still need.              *)

NoCommitment == [bytes |-> 0, entries |-> 0, slots |-> {}]

Owed(slots, residual, replacement) ==
  [bytes |-> SumFunction([n \in slots |-> Limit(n)]) + residual + replacement,
   entries |-> Cardinality(slots) + 1, slots |-> slots]

Missing(S) == {n \in S : ~There(n)}

\* A run of size s whose last record is a request.
RequestTail(s) == Owed(Missing({Reply, ReplyRecord}), 0, s + Growth)

\* A request record that run.json does not name yet.
StagedRequest ==
  LET adopted == size[Run] + Growth
      after == adopted + RequestTail(adopted).bytes - size[Run]
  IN  [bytes |-> IF adopted >= after THEN adopted ELSE after, entries |-> 3, slots |-> {}]

ProviderCommitment ==
  CASE head = "request" -> RequestTail(size[Run])
    [] head = "quiet" /\ There(RequestRecord) -> StagedRequest
    [] OTHER -> NoCommitment

\* Logs that no Testing evidence has authenticated keep the unused part of their limit.
Residual ==
  IF There(Testing) THEN 0
  ELSE SumFunction([n \in {m \in Logs : There(m)} |-> LogCap - size[n]])

PrefixTail ==
  Owed(Missing(Logs \cup {Testing, Report} \cup Recovery), Residual, ArtifactCap)

\* Only the decision authenticates the report an adoption creates.
ReportState ==
  CASE source # "create" -> "not applicable"
    [] source = "create" /\ ~There(Report) -> "missing"
    [] source = "create" /\ There(Report) /\ There(Decision) -> "verified"
    [] OTHER -> "unauthenticated"

\* What a staged adoption or invalidation still needs.
TransitionTail ==
  Owed(Missing({Decision}) \cup {n \in {Report} : ReportState = "missing"},
       IF ReportState = "unauthenticated" THEN ArtifactCap - size[Report] ELSE 0,
       ArtifactCap)

EvaluationCommitment ==
  CASE head \in {"approved", "final"} /\ There(RecoverySource) -> TransitionTail
    [] head = "approved" /\ There(Intent) /\ ~There(RecoverySource) -> PrefixTail
    [] OTHER -> NoCommitment

\* The two are never active together.
Commitment ==
  IF ProviderCommitment # NoCommitment THEN ProviderCommitment ELSE EvaluationCommitment

\* Files whose size the derivation reads through validate_single_link_file.
Measured ==
  {n \in Recovery : head \in {"approved", "final"}} \cup
  (IF head # "approved" \/ ~There(Intent) THEN {}
   ELSE IF There(RecoverySource) THEN {n \in {Report} : source = "create"}
   ELSE {n \in Logs : ~There(Testing)})

\* A raw request has no record to adopt it, a measured file has a second name: no
\* commitment can be derived.
Broken ==
  \/ head = "quiet" /\ There(Request) /\ ~There(RequestRecord)
  \/ Measured \cap doubled # {}

Active == Commitment # NoCommitment

CommitmentFits == Fits(UsedBytes + Commitment.bytes, UsedEntries + Commitment.entries)

-----------------------------------------------------------------------------
(* Projections.                                                            *)

Without(c, n) == [c EXCEPT !.bytes = @ - Limit(n), !.entries = @ - 1, !.slots = @ \ {n}]

\* Defective variant: the second name of a publication is not counted.
OneNameFits(s, after) ==
  /\ Fits(UsedBytes + s, UsedEntries + 1)
  /\ Fits(UsedBytes + s + after.bytes, UsedEntries + 1 + after.entries)

CreateFits(s, after) ==
  /\ Fits(UsedBytes + s, UsedEntries + 2)
  /\ Fits(UsedBytes + s + after.bytes, UsedEntries + 1 + after.entries)

ReplaceFits(s, after) ==
  /\ Fits(UsedBytes + s, UsedEntries + 1)
  /\ Fits(UsedBytes - size[Run] + s + after.bytes, UsedEntries + after.entries)

\* Request, record and run.json are projected together.
RequestFits(q, r, s) ==
  LET after == RequestTail(s) IN
  /\ Fits(UsedBytes + q + r + s, UsedEntries + 3)
  /\ Fits(UsedBytes - size[Run] + q + r + s + after.bytes, UsedEntries + 2 + after.entries)

\* Defective variant: a writer that owns no slot may use what is reserved.
MayCreateAnywhere(n, s) ==
  ~Broken /\ ~There(n) /\ SizeAllowed(n, s) /\ CreateFits(s, NoCommitment)

MayCreate(n, s) ==
  ~Broken /\ ~There(n) /\ SizeAllowed(n, s) /\ CreateFits(s, Commitment)

\* The owner of a slot; a log keeps the rest of its limit reserved.
MayConsume(n, s) ==
  /\ ~Broken /\ Active /\ n \in Commitment.slots /\ SizeAllowed(n, s)
  /\ LET rest == Without(Commitment, n) IN
     CreateFits(s, IF n \in Logs THEN [rest EXCEPT !.bytes = @ + LogCap - s] ELSE rest)

\* A publication that activates the commitment it is projected with.
MayActivate(n, s, commitment) ==
  ~There(n) /\ SizeAllowed(n, s) /\ CreateFits(s, commitment)

\* An ordinary replacement is projected with the commitment of the new bytes.
MayReplace(s, after) == ~Broken /\ SizeAllowed(Run, s) /\ ReplaceFits(s, after)

\* Naming the response record takes the transient slot of the commitment.
BindFits(s) ==
  LET owed == RequestTail(size[Run]) IN
  owed.slots = {} /\ ReplaceFits(s, NoCommitment)

\* validate_active_storage_commitment, before the effect is caused.
MayCause == ~Broken /\ Active /\ CommitmentFits

-----------------------------------------------------------------------------
(* Publication.                                                            *)

NoCaller == [what |-> "nothing", at |-> 0]
Cuts == {"done", "linked", "temporary"}

Temporary(n, s) == [name |-> n, size |-> s, at |-> faults]

Died(cut) ==
  IF cut = "done" THEN UNCHANGED <<faults, caller>>
  ELSE faults < MaxFaults /\ faults' = faults + 1 /\ caller' = NoCaller

\* Temporary file, hard link, unlink.
CreateFile(n, s, cut) ==
  /\ size' = IF cut = "temporary" THEN size ELSE [size EXCEPT ![n] = s]
  /\ doubled' = IF cut = "linked" THEN doubled \cup {n} ELSE doubled
  /\ orphans' = Swept \cup (IF cut = "temporary" THEN {Temporary(n, s)} ELSE {})

\* Temporary file, rename; a cut before the rename leaves run.json as it was.
Replace(s, next, cut) ==
  /\ size' = IF cut = "done" THEN [size EXCEPT ![Run] = s] ELSE size
  /\ head' = IF cut = "done" THEN next ELSE head
  /\ orphans' = Swept \cup (IF cut = "done" THEN {} ELSE {Temporary(Run, s)})

StorageInit ==
  /\ filler \in Fillers
  /\ size = [n \in Names |-> IF n = Run THEN 1 ELSE 0]
  /\ doubled = {} /\ orphans = {} /\ faults = 0
  /\ head \in {"quiet", "approved"}
  /\ source = "none"
  /\ caller = NoCaller

Note(n, s, cut) ==
  /\ MayCreate(<<"note", n>>, s)
  /\ CreateFile(<<"note", n>>, s, cut) /\ Died(cut)
  /\ UNCHANGED <<filler, head, source>>

\* An ordinary transition; the new run.json is what the commitment is derived from.
Touch(s, cut) ==
  /\ head \in {"quiet", "request"} /\ s # size[Run]
  /\ head = "request" => s + Growth <= ArtifactCap
  /\ MayReplace(s, IF head = "request" THEN RequestTail(s) ELSE Commitment)
  /\ cut # "linked"
  /\ Replace(s, head, cut) /\ Died(cut)
  /\ UNCHANGED <<filler, doubled, source>>

-----------------------------------------------------------------------------
(* One provider exchange.                                                  *)

\* A cut after the record is "linked"; one after the request is "temporary".
Ask(q, r, cut) ==
  LET s == size[Run] + Growth IN
  /\ head = "quiet" /\ ~There(Request) /\ ~There(RequestRecord)
  /\ SizeAllowed(Request, q) /\ SizeAllowed(RequestRecord, r) /\ s + Growth <= ArtifactCap
  /\ RequestFits(q, r, s)
  /\ size' = [size EXCEPT ![Request] = q,
                          ![RequestRecord] = IF cut = "temporary" THEN 0 ELSE r,
                          ![Run] = IF cut = "done" THEN s ELSE @]
  /\ head' = IF cut = "done" THEN "request" ELSE head
  /\ orphans' = Swept /\ Died(cut)
  /\ UNCHANGED <<filler, doubled, source>>

\* Reconciliation names a staged request record.
AdoptRequest(cut) ==
  LET s == size[Run] + Growth IN
  /\ head = "quiet" /\ There(RequestRecord) /\ s + Growth <= ArtifactCap
  /\ MayReplace(s, RequestTail(s))
  /\ cut # "linked"
  /\ Replace(s, "request", cut) /\ Died(cut)
  /\ UNCHANGED <<filler, doubled, source>>

\* Defective variant: the reservation is taken for granted.
MayCallBlindly == head = "request" /\ ~There(Reply) /\ ~There(ReplyRecord)

MayCall == head = "request" /\ ~There(Reply) /\ ~There(ReplyRecord) /\ MayCause

CallProvider ==
  /\ caller = NoCaller /\ MayCall
  /\ caller' = [what |-> "provider", at |-> faults]
  /\ orphans' = Swept
  /\ UNCHANGED <<filler, size, doubled, head, source, faults>>

Answer(s, cut) ==
  /\ caller.what = "provider" /\ MayConsume(Reply, s)
  /\ CreateFile(Reply, s, cut)
  /\ IF cut = "done" THEN caller' = NoCaller /\ UNCHANGED faults ELSE Died(cut)
  /\ UNCHANGED <<filler, head, source>>

RecordAnswer(s, cut) ==
  /\ head = "request" /\ There(Reply) /\ MayConsume(ReplyRecord, s)
  /\ CreateFile(ReplyRecord, s, cut) /\ Died(cut)
  /\ UNCHANGED <<filler, head, source>>

BindAnswer(cut) ==
  LET s == size[Run] + Growth IN
  /\ head = "request" /\ There(ReplyRecord) /\ s <= ArtifactCap /\ cut # "linked"
  /\ BindFits(s)
  /\ Replace(s, "answered", cut) /\ Died(cut)
  /\ UNCHANGED <<filler, doubled, source>>

-----------------------------------------------------------------------------
(* One evaluation attempt.                                                 *)

\* The commitment of the fresh prefix is activated by the intent itself.
PublishIntent(s, cut) ==
  /\ head = "approved" /\ ~There(RecoverySource) /\ MayActivate(Intent, s, PrefixTail)
  /\ CreateFile(Intent, s, cut) /\ Died(cut)
  /\ UNCHANGED <<filler, head, source>>

\* validate_pre_spawn_evaluation_prefix: the logs of the earlier checks, and no others.
PrefixOf(k) ==
  /\ ~There(Testing) /\ ~There(Report) /\ ~There(RecoverySource)
  /\ {n \in Logs : There(n)} = {"stdout", "stderr"} \X (1 .. k - 1)

Spawn(k) ==
  /\ caller = NoCaller \/ caller.what = "evaluation"
  /\ head = "approved" /\ There(Intent) /\ PrefixOf(k) /\ MayCause
  /\ caller' = [what |-> "evaluation", at |-> faults]
  /\ orphans' = Swept
  /\ UNCHANGED <<filler, size, doubled, head, source, faults>>

NextLog(n) ==
  \/ n[1] = "stdout" /\ PrefixOf(n[2])
  \/ n[1] = "stderr" /\ {m \in Logs : There(m)} =
                          {"stdout", "stderr"} \X (1 .. n[2] - 1) \cup {<<"stdout", n[2]>>}

PublishLog(n, s, cut) ==
  /\ caller.what = "evaluation" /\ NextLog(n) /\ MayConsume(n, s)
  /\ CreateFile(n, s, cut) /\ Died(cut)
  /\ UNCHANGED <<filler, head, source>>

PublishTesting(s, cut) ==
  /\ caller.what = "evaluation" /\ Missing(Logs) = {} /\ MayConsume(Testing, s)
  /\ CreateFile(Testing, s, cut) /\ Died(cut)
  /\ UNCHANGED <<filler, head, source>>

PublishReport(s, cut) ==
  /\ caller.what = "evaluation" /\ There(Testing) /\ MayConsume(Report, s)
  /\ CreateFile(Report, s, cut) /\ Died(cut)
  /\ UNCHANGED <<filler, head, source>>

\* The final run has no commitment of its own.
Finish(s, cut) ==
  /\ caller.what = "evaluation" /\ head = "approved" /\ There(Report)
  /\ ~There(RecoverySource)
  /\ MayReplace(s, NoCommitment) /\ cut # "linked"
  /\ Replace(s, "final", cut)
  /\ IF cut = "done" THEN caller' = NoCaller /\ UNCHANGED faults ELSE Died(cut)
  /\ UNCHANGED <<filler, doubled, source>>

-----------------------------------------------------------------------------
(* Adoption and invalidation of the attempt.                               *)

\* The source of a recovery takes its slot, or activates a commitment of its own
\* when the run is final.
MayStage(s) ==
  /\ ~Broken
  /\ IF Active THEN MayConsume(RecoverySource, s)
     ELSE MayActivate(RecoverySource, s, Owed({Decision}, 0, ArtifactCap))

\* Complete logs and Testing evidence are adopted, a missing report is recreated;
\* an incomplete prefix and a final run are invalidated.
Kinds ==
  CASE head = "final" -> {"invalidate"}
    [] head # "final" /\ There(Testing) -> {IF There(Report) THEN "verify" ELSE "create"}
    [] OTHER -> {"invalidate"}

Stage(kind, s, cut) ==
  /\ head = "final" \/ (head = "approved" /\ There(Intent))
  /\ caller = NoCaller
  /\ ~There(RecoverySource) /\ kind \in Kinds /\ MayStage(s)
  /\ CreateFile(RecoverySource, s, cut) /\ Died(cut)
  /\ source' = IF cut = "temporary" THEN source ELSE kind
  /\ UNCHANGED <<filler, head>>

Decide(s, cut) ==
  /\ There(RecoverySource) /\ MayConsume(Decision, s)
  /\ CreateFile(Decision, s, cut) /\ Died(cut)
  /\ UNCHANGED <<filler, head, source>>

RecreateReport(s, cut) ==
  /\ source = "create" /\ There(Decision) /\ MayConsume(Report, s)
  /\ CreateFile(Report, s, cut) /\ Died(cut)
  /\ UNCHANGED <<filler, head, source>>

Conclude(s, cut) ==
  /\ head \in {"approved", "final"} /\ There(Decision)
  /\ source = "create" => There(Report)
  /\ MayReplace(s, NoCommitment) /\ cut # "linked"
  /\ Replace(s, IF source = "invalidate" THEN "invalidated" ELSE "adopted", cut) /\ Died(cut)
  /\ UNCHANGED <<filler, doubled, source>>

\* The command that caused the effect dies, or gives up on a refusal.
Abandon ==
  /\ caller # NoCaller /\ faults < MaxFaults
  /\ caller' = NoCaller /\ faults' = faults + 1
  /\ UNCHANGED <<filler, size, doubled, orphans, head, source>>

-----------------------------------------------------------------------------
ProviderStep(cut) ==
  \/ \E q \in Sizes(Request), r \in Sizes(RequestRecord) : Ask(q, r, cut)
  \/ AdoptRequest(cut) \/ BindAnswer(cut)
  \/ \E s \in Sizes(Reply) : Answer(s, cut)
  \/ \E s \in Sizes(ReplyRecord) : RecordAnswer(s, cut)

EvaluationStep(cut) ==
  \/ \E n \in Logs : \E s \in Sizes(n) : PublishLog(n, s, cut)
  \/ \E s \in Sizes(Intent) :
       \/ PublishIntent(s, cut) \/ PublishTesting(s, cut) \/ PublishReport(s, cut)
       \/ Finish(s, cut)

RecoveryStep(cut) ==
  \E s \in Sizes(Decision) :
    \/ \E kind \in {"create", "verify", "invalidate"} : Stage(kind, s, cut)
    \/ Decide(s, cut) \/ RecreateReport(s, cut) \/ Conclude(s, cut)

StorageNext ==
  \/ \E cut \in Cuts :
       \/ \E n \in Notes : \E s \in Sizes(<<"note", n>>) : Note(n, s, cut)
       \/ \E s \in 1 .. ArtifactCap : Touch(s, cut)
       \/ ProviderStep(cut) \/ EvaluationStep(cut) \/ RecoveryStep(cut)
  \/ CallProvider
  \/ \E k \in 1 .. Checks : Spawn(k)
  \/ Abandon

StorageSpec == StorageInit /\ [][StorageNext]_storageVars

-----------------------------------------------------------------------------
(* Properties.                                                             *)

StorageTypeOK ==
  /\ filler \in Fillers
  /\ size \in [Names -> Nat] /\ \A n \in Names : size[n] <= Limit(n)
  /\ doubled \subseteq {n \in Names : There(n)}
  /\ orphans \subseteq [name : Names, size : Nat \ {0}, at : 0 .. MaxFaults]
  /\ head \in {"quiet", "request", "answered", "approved", "final", "adopted", "invalidated"}
  /\ source \in {"none", "create", "verify", "invalidate"}
  /\ caller \in [what : {"nothing", "provider", "evaluation"}, at : 0 .. MaxFaults]
  /\ faults \in 0 .. MaxFaults

\* The tree a dead writer leaves in the middle of a publication is within the caps
\* too, temporaries included: the scan of the next command does not refuse it.
TreeIsScannable ==
  LET left == {o \in orphans : o.name = Run} IN
  /\ UsedBytes + SumFunction([o \in left |-> o.size]) <= ByteCap
  /\ UsedEntries + Cardinality(left) <= EntryCap

\* Whatever anybody publishes, the room a commitment reserves stays free until its
\* owner uses it, as long as no writer has died in the run.
ReservationHolds ==
  faults = 0 /\ Active => CommitmentFits

\* docs/production-use-implementation-plan.md: "Every external provider call and
\* evaluation command either has sufficient durable capacity reserved for its
\* authoritative result or is refused before the side effect".  Deaths before the
\* effect are allowed for; what they left is part of the usage.
EffectIsRecordable ==
  caller # NoCaller /\ caller.at = faults =>
    \A n \in Commitment.slots \cap ({Reply} \cup {m \in Logs : NextLog(m)}) :
      MayConsume(n, Limit(n))

\* Reserved room stays free, and so every effect can be recorded.
ReservedRoomStays == ReservationHolds /\ EffectIsRecordable

-----------------------------------------------------------------------------
(* The inductive invariant.                                                *)

\* Whoever waits for an effect caused it after the last death, and nothing of its
\* outcome is there; a decision has its source.
CallerWaits ==
  /\ caller # NoCaller => caller.what # "nothing" /\ caller.at = faults
  /\ caller.what = "provider" =>
       head = "request" /\ ~There(Reply) /\ ~There(ReplyRecord)
  /\ caller.what = "evaluation" =>
       head = "approved" /\ There(Intent) /\ ~There(RecoverySource)
  /\ There(Decision) => There(RecoverySource)

\* What only a death leaves behind.
NothingIsLeft ==
  /\ orphans = {} /\ doubled = {}
  /\ head = "quiet" => ~There(Request) /\ ~There(RequestRecord)

\* The commitment can be derived, and what it reserves is free.
RoomIsKept == ~Broken /\ (Active => CommitmentFits)

StorageInv ==
  /\ StorageTypeOK /\ IsFiniteSet(orphans) /\ There(Run)
  /\ TreeIsScannable
  /\ CallerWaits
  /\ faults = 0 => NothingIsLeft
  /\ faults = 0 \/ caller # NoCaller => RoomIsKept

=============================================================================
