---------------------------- MODULE ProjectInit ----------------------------
(***************************************************************************)
(* `seaf init`: the files a project starts from are created, none of them  *)
(* over an existing one, and taken back when one cannot be created.  There *)
(* is no lock; create_new and a second look at the tree stand for it.      *)
(***************************************************************************)
EXTENDS Naturals, Sequences, FiniteSets, SequencesExt

CONSTANTS
  Inits,      \* init commands, each run at most once
  Plan,       \* names of the files, in the order they are created
  Inside,     \* names of the files below .seaf
  Template,   \* name -> content; other files of the repository -> None
  None,       \* no such file
  Broken,     \* a file whose content does not parse
  MaxFaults   \* bound: writes that fail, commands that die

\* Something of the plan goes into .seaf, and only `seaf init` puts it there.
ASSUME PlanAssumption ==
  /\ Plan \in Seq(DOMAIN Template) /\ IsInjective(Plan) /\ Inside \subseteq ToSet(Plan)
  /\ Plan # <<>> => Inside # {}
  /\ Broken # None /\ \A n \in ToSet(Plan) : Template[n] # None

VARIABLES
  files,   \* name -> content
  folder,  \* .seaf exists
  phase,   \* init -> where it is
  missing, \* init -> it has to create .seaf
  mine,    \* init -> it created .seaf
  made,    \* init -> names of the files it created
  died,    \* history: an init was killed
  faults

setup == <<folder, phase, missing, mine, made, died>>

\* Nothing of the plan is there.
Clear == \A n \in ToSet(Plan) : files[n] = None

At(i, from, to) == phase[i] = from /\ phase' = [phase EXCEPT ![i] = to]

\* The first look also lists the directories to create.
Preflight(i) ==
  /\ At(i, "new", "folder") /\ Clear
  /\ missing' = [missing EXCEPT ![i] = ~folder]
  /\ UNCHANGED <<files, folder, mine, made, died, faults>>

CreateFolder(i) ==
  /\ missing[i] => ~folder
  /\ At(i, "folder", "recheck")
  /\ folder' = (folder \/ missing[i])
  /\ mine' = [mine EXCEPT ![i] = missing[i]]
  /\ UNCHANGED <<files, missing, made, died, faults>>

Recheck(i) ==
  /\ At(i, "recheck", "create") /\ Clear
  /\ UNCHANGED <<files, folder, missing, mine, made, died, faults>>

Target(i) == Plan[Len(made[i]) + 1]

\* Defective variant: the file is opened with create instead of create_new.
OpensAny(n) == n \in Inside => folder

\* create_new, in a directory that is still there.
Opens(n) == files[n] = None /\ (n \in Inside => folder)

CreateFile(i) ==
  /\ Len(made[i]) < Len(Plan) /\ Opens(Target(i))
  /\ At(i, "create", "write")
  /\ files' = [files EXCEPT ![Target(i)] = Broken]
  /\ made' = [made EXCEPT ![i] = Append(@, Target(i))]
  /\ UNCHANGED <<folder, missing, mine, died, faults>>

WriteFile(i) ==
  /\ At(i, "write", IF Len(made[i]) = Len(Plan) THEN "over" ELSE "create")
  /\ files' = [files EXCEPT ![Last(made[i])] = Template[Last(made[i])]]
  /\ UNCHANGED <<folder, missing, mine, made, died, faults>>

\* Something is in the way, or a write fails.
Fails(i) ==
  /\ \/ phase[i] = "folder" /\ missing[i] /\ folder /\ UNCHANGED faults
     \/ phase[i] = "recheck" /\ ~Clear /\ UNCHANGED faults
     \/ phase[i] = "create" /\ ~Opens(Target(i)) /\ UNCHANGED faults
     \/ phase[i] \in {"create", "write"} /\ faults < MaxFaults /\ faults' = faults + 1
  /\ phase' = [phase EXCEPT ![i] = "rollback"]
  /\ UNCHANGED <<files, folder, missing, mine, made, died>>

\* Files go by name, in reverse order, then .seaf if it is empty.
RemoveFile(i) ==
  /\ phase[i] = "rollback" /\ made[i] # <<>>
  /\ files' = [files EXCEPT ![Last(made[i])] = None]
  /\ made' = [made EXCEPT ![i] = Front(@)]
  /\ UNCHANGED <<folder, phase, missing, mine, died, faults>>

RemoveFolder(i) ==
  /\ At(i, "rollback", "over") /\ made[i] = <<>>
  /\ folder' = (folder /\ (mine[i] => \E n \in Inside : files[n] # None))
  /\ UNCHANGED <<files, missing, mine, made, died, faults>>

InitDies(i) ==
  /\ phase[i] \notin {"new", "over"} /\ faults < MaxFaults
  /\ phase' = [phase EXCEPT ![i] = "over"]
  /\ died' = TRUE /\ faults' = faults + 1
  /\ UNCHANGED <<files, folder, missing, mine, made>>

Setup(i) ==
  \/ Preflight(i) \/ CreateFolder(i) \/ Recheck(i) \/ CreateFile(i) \/ WriteFile(i)
  \/ Fails(i) \/ RemoveFile(i) \/ RemoveFolder(i) \/ InitDies(i)

SetupInit ==
  /\ files = [n \in DOMAIN Template |-> IF n \in ToSet(Plan) THEN None ELSE Template[n]]
  /\ folder = FALSE
  /\ phase = [i \in Inits |-> "new"]
  /\ missing = [i \in Inits |-> FALSE] /\ mine = [i \in Inits |-> FALSE]
  /\ made = [i \in Inits |-> <<>>]
  /\ died = FALSE /\ faults = 0

-----------------------------------------------------------------------------
(* What holds at every step, of files that nobody else touches, as long as *)
(* no init is killed: the files there are belong to one init, which made   *)
(* the first of the plan, and so cannot be in the way of its own rollback. *)

Phases == {"new", "folder", "recheck", "create", "write", "rollback", "over"}

SetupTypes ==
  /\ DOMAIN files = DOMAIN Template /\ folder \in BOOLEAN /\ died \in BOOLEAN
  /\ phase \in [Inits -> Phases]
  /\ missing \in [Inits -> BOOLEAN] /\ mine \in [Inits -> BOOLEAN]
  /\ made \in [Inits -> Seq(DOMAIN Template)]

\* In the order of the plan, and whole unless it is being written or removed.
MadeInOrder(i) ==
  /\ Len(made[i]) <= Len(Plan)
  /\ \A k \in 1 .. Len(made[i]) :
       /\ made[i][k] = Plan[k] /\ files[Plan[k]] # None
       /\ phase[i] \in {"create", "over"} \/ (phase[i] = "write" /\ k < Len(made[i])) =>
            files[Plan[k]] = Template[Plan[k]]
  /\ phase[i] \in {"new", "folder", "recheck"} => made[i] = <<>>
  /\ phase[i] = "write" => made[i] # <<>>
  /\ phase[i] = "over" /\ made[i] # <<>> => Len(made[i]) = Len(Plan)

OneMaker == \A i, j \in Inits : made[i] # <<>> /\ made[j] # <<>> => i = j

FilesAreMade ==
  \A k \in 1 .. Len(Plan) : files[Plan[k]] # None => \E i \in Inits : k <= Len(made[i])

InsideIsKept == (\E n \in Inside : files[n] # None) => folder

Undisturbed == OneMaker /\ FilesAreMade /\ InsideIsKept /\ \A i \in Inits : MadeInOrder(i)

\* An empty .seaf may stay behind: the init that made it gives it up when
\* another one has put something into it.
Whole == Clear \/ (folder /\ \A n \in ToSet(Plan) : files[n] = Template[n])

=============================================================================
