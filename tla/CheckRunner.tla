----------------------------- MODULE CheckRunner -----------------------------
(***************************************************************************)
(* The evaluation commands of one attempt as processes: all checks are     *)
(* planned before any runs; each is admitted, compared with its plan,      *)
(* spawned in a process group of its own, polled against its deadline,     *)
(* killed with its group, and its output drained for a bounded time.       *)
(*                                                                         *)
(* A process of a check may fork, edit executables and candidate files,    *)
(* and leave its group.  One that left (a stray) is out of the reach of    *)
(* the group kill; it may hold the output pipes but is assumed to edit     *)
(* nothing.  SIGKILL of a group is taken to stop its members at once.      *)
(***************************************************************************)
EXTENDS Integers, FiniteSets, Sequences, SequencesExt

CONSTANTS
  Configs,     \* bound: eval configurations, [required, allow, ticket]
  Places,      \* program -> the paths where it is looked for, in order
  Relative,    \* programs named by a relative path of several components
  World,       \* path -> what the file system holds there at first
  Inside,      \* paths at or below the execution root
  MaxTimeout,  \* MAX_EVAL_TIMEOUT_MS, and the cap of the output limit
  MaxEdits,    \* bound: edits by the processes of the checks
  MaxFaults    \* bound: system calls that fail

\* The commands of all configurations.
Commands == UNION {ToSet(c.required) : c \in Configs}

ASSUME EngineAssumption == \A c \in Configs : c.required \in Seq(Commands)

VARIABLES
  config,     \* the eval snapshot and the ticket's allowlist
  file,       \* path -> [kind, id]; id stands for device, inode and digest
  candidate,  \* the candidate is as verified, but for ignored files
  standing,   \* run.json, source worktree and snapshots are as approved
  pc,         \* where execute_approved_evaluation is
  check,      \* the check it is at
  plan,       \* EvalPlan
  procs,      \* live processes, [of, role]
  exit,       \* check -> exit status of its leader
  due,        \* the deadline of the current check has passed
  timedOut,   \* timed_out of the current check
  results,    \* EvalCheck records so far, their status
  ran,        \* history: what every check was spawned on
  edits, faults

vars == <<config, file, candidate, standing, pc, check, plan, procs, exit, due, timedOut,
          results, ran, edits, faults>>

Checks == DOMAIN config.required
Ended == {"refused", "aborted", "passed", "failed"}

-----------------------------------------------------------------------------
(* Planning.                                                               *)

\* The word "meta" stands for every character of a shell that is refused.
Parses(command) == command # <<>> /\ "meta" \notin ToSet(command)

\* Entries are parsed in order, and one that does not parse ends the search.
Allows(list, argv) ==
  \E j \in DOMAIN list :
    /\ \A k \in 1 .. j : Parses(list[k])
    /\ IsPrefix(list[j], argv)

CwdAllowed(c) == c.cwd \in Inside /\ file[c.cwd].kind = "directory"

EnvAllowed(c) == c.env \cap {"PATH", "invalid name", "NUL"} = {}

Executable(p) == file[p].kind \in {"binary", "script", "no interpreter", "text"}

\* A script needs an interpreter that is there, a text file needs a shebang.
Spawnable(p) == file[p].kind \in {"binary", "script"}

\* The first place that holds an executable decides.
Found(program) ==
  SelectSeq(Places[program], LAMBDA p : Executable(p) /\ (program \in Relative => p \in Inside))

LimitsAllowed(c) == c.timeout \in 1 .. MaxTimeout /\ c.output \in 1 .. MaxTimeout

Identity(p) == [path |-> p, is |-> file[p]]

Plannable(c) ==
  /\ Parses(c.command)
  /\ Allows(config.allow, c.command) /\ Allows(config.ticket, c.command)
  /\ CwdAllowed(c) /\ EnvAllowed(c)
  /\ Found(Head(c.command)) # <<>> /\ Spawnable(Head(Found(Head(c.command))))
  /\ LimitsAllowed(c)

\* Something is required, and no secret of a check is longer than one may be.  The caps on
\* the number of the secrets and on their sum over all checks are left out.
ConfigValid == config.required # <<>> /\ \A c \in ToSet(config.required) : "long secret" \notin c.env

PlanOf(c) == [cwd |-> Identity(c.cwd), executable |-> Identity(Head(Found(Head(c.command))))]

Plan ==
  /\ pc = "plan"
  /\ IF ConfigValid /\ \A k \in Checks : Plannable(config.required[k])
     THEN plan' = [k \in Checks |-> PlanOf(config.required[k])] /\ pc' = "admit"
     ELSE plan' = plan /\ pc' = "refused"
  /\ UNCHANGED <<config, file, candidate, standing, check, procs, exit, due, timedOut, results,
                 ran, edits, faults>>

-----------------------------------------------------------------------------
(* One check.                                                              *)

\* An error that is not a rejection of authority becomes a failed check.
Recorded(status) ==
  /\ results' = Append(results, status)
  /\ check' = check + 1
  /\ pc' = IF check = Len(plan) THEN "finish" ELSE "admit"

\* The validation before every spawn, under the run lock.
Admit ==
  /\ pc = "admit"
  /\ pc' = IF candidate /\ standing THEN "compare" ELSE "aborted"
  /\ UNCHANGED <<config, file, candidate, standing, check, plan, procs, exit, due, timedOut,
                 results, ran, edits, faults>>

Compare ==
  /\ pc = "compare"
  /\ IF \A id \in {plan[check].cwd, plan[check].executable} : Identity(id.path) = id
     THEN pc' = "spawn" /\ UNCHANGED <<check, results>>
     ELSE Recorded("Failed")
  /\ UNCHANGED <<config, file, candidate, standing, plan, procs, exit, due, timedOut, ran, edits,
                 faults>>

Spawn ==
  /\ pc = "spawn"
  /\ procs' = procs \cup {[of |-> check, role |-> "leader"]}
  /\ ran' = Append(ran, [executable |-> Identity(plan[check].executable.path), verified |-> candidate])
  /\ due' = FALSE /\ timedOut' = FALSE
  /\ pc' = "poll"
  /\ UNCHANGED <<config, file, candidate, standing, check, plan, exit, results, edits, faults>>

\* An executable that is gone by now, or a system call that fails.  The processes of the
\* check, if there are any, are left to themselves.
Break ==
  /\ pc \in {"spawn", "poll", "late", "wait", "reap", "drain"}
  /\ pc = "late" => due
  /\ faults < MaxFaults
  /\ faults' = faults + 1
  /\ Recorded("Failed")
  /\ ran' = IF pc = "spawn" THEN Append(ran, [executable |-> plan[check].executable, verified |-> candidate])
            ELSE ran
  /\ UNCHANGED <<config, file, candidate, standing, plan, procs, exit, due, timedOut, edits>>

TryWait ==
  /\ pc = "poll"
  /\ pc' = IF exit[check] # "none" THEN "wait" ELSE "late"
  /\ UNCHANGED <<config, file, candidate, standing, check, plan, procs, exit, due, timedOut,
                 results, ran, edits, faults>>

\* The process group of the check; a stray has left it.
Group(k) == {p \in procs : p.of = k /\ p.role # "stray"}

\* Defective variant: only the process that was spawned is killed.
TerminateLeader ==
  /\ procs' = procs \ {[of |-> check, role |-> "leader"]}
  /\ exit' = IF exit[check] = "none" THEN [exit EXCEPT ![check] = "signal"] ELSE exit

TerminateChild ==
  /\ procs' = procs \ Group(check)
  /\ exit' = IF exit[check] = "none" THEN [exit EXCEPT ![check] = "signal"] ELSE exit

\* The leader may have exited since it was polled: the check has timed out all the same.
AtDeadline ==
  /\ pc = "late"
  /\ IF due THEN TerminateChild /\ timedOut' = TRUE /\ pc' = "wait"
     ELSE pc' = "poll" /\ UNCHANGED <<procs, exit, timedOut>>
  /\ UNCHANGED <<config, file, candidate, standing, check, plan, due, results, ran, edits, faults>>

Wait ==
  /\ pc = "wait" /\ exit[check] # "none"
  /\ pc' = IF timedOut THEN "drain" ELSE "reap"
  /\ UNCHANGED <<config, file, candidate, standing, check, plan, procs, exit, due, timedOut,
                 results, ran, edits, faults>>

\* What the leader left behind in its group goes with it.
Reap ==
  /\ pc = "reap"
  /\ TerminateChild
  /\ pc' = "drain"
  /\ UNCHANGED <<config, file, candidate, standing, check, plan, due, timedOut, results, ran,
                 edits, faults>>

\* Defective variant: the output is read to its end.
DrainEndsWithPipe == \A p \in procs : p.of # check

\* The readers are given a grace period; whatever they hold by then is the output.
DrainEnds == TRUE

Drain ==
  /\ pc = "drain" /\ DrainEnds
  /\ Recorded(IF ~timedOut /\ exit[check] = "ok" THEN "Passed" ELSE "Failed")
  /\ UNCHANGED <<config, file, candidate, standing, plan, procs, exit, due, timedOut, ran, edits,
                 faults>>

\* Authority is checked again before the verdict is built and published.
Finish ==
  /\ pc = "finish"
  /\ pc' = IF ~(candidate /\ standing) THEN "aborted"
           ELSE IF ToSet(results) \subseteq {"Passed"} THEN "passed" ELSE "failed"
  /\ UNCHANGED <<config, file, candidate, standing, check, plan, procs, exit, due, timedOut,
                 results, ran, edits, faults>>

Engine ==
  \/ Plan \/ Admit \/ Compare \/ Spawn \/ TryWait \/ AtDeadline \/ Wait \/ Reap \/ Drain
  \/ Finish

-----------------------------------------------------------------------------
(* Around it: the processes of the checks, time, other commands.           *)

Expire ==
  /\ pc \in {"poll", "late"} /\ ~due
  /\ due' = TRUE
  /\ UNCHANGED <<config, file, candidate, standing, pc, check, plan, procs, exit, timedOut,
                 results, ran, edits, faults>>

Exit(p) ==
  /\ procs' = procs \ {p}
  /\ IF p.role = "leader" THEN \E code \in {"ok", "code"} : exit' = [exit EXCEPT ![p.of] = code]
     ELSE exit' = exit
  /\ UNCHANGED <<config, file, candidate, standing, pc, check, plan, due, timedOut, results, ran,
                 edits, faults>>

Fork(p, role) ==
  /\ p.role = "leader"
  /\ procs' = procs \cup {[p EXCEPT !.role = role]}
  /\ procs' # procs
  /\ UNCHANGED <<config, file, candidate, standing, pc, check, plan, exit, due, timedOut, results,
                 ran, edits, faults>>

Edit(p) ==
  /\ p.role # "stray" /\ edits < MaxEdits
  /\ edits' = edits + 1
  /\ \/ candidate' = ~candidate /\ file' = file
     \/ /\ \E q \in Inside : file' = [file EXCEPT ![q].id = @ + 1]
        /\ candidate' = candidate
  /\ UNCHANGED <<config, standing, pc, check, plan, procs, exit, due, timedOut, results, ran,
                 faults>>

\* Another command publishes run.json, or somebody works in the source worktree.
Interfere ==
  /\ standing /\ pc \notin Ended
  /\ standing' = FALSE
  /\ UNCHANGED <<config, file, candidate, pc, check, plan, procs, exit, due, timedOut, results,
                 ran, edits, faults>>

Process(p) == Exit(p) \/ (\E role \in {"member", "stray"} : Fork(p, role)) \/ Edit(p)

Init ==
  /\ config \in Configs
  /\ file = World
  /\ candidate = TRUE /\ standing = TRUE
  /\ pc = "plan" /\ check = 1 /\ plan = <<>>
  /\ procs = {} /\ exit = [k \in DOMAIN config.required |-> "none"]
  /\ due = FALSE /\ timedOut = FALSE
  /\ results = <<>> /\ ran = <<>>
  /\ edits = 0 /\ faults = 0

Next == Engine \/ Break \/ Expire \/ Interfere \/ (pc \notin Ended /\ \E p \in procs : Process(p))

\* The command goes on and time passes; nothing is assumed of the processes of a check.
Fairness == WF_vars(Engine \/ Break) /\ WF_vars(Expire)

Spec == Init /\ [][Next]_vars /\ Fairness

-----------------------------------------------------------------------------
(* Properties.                                                             *)

Running == {"poll", "late", "wait", "reap", "drain"}

TypeOK ==
  /\ config \in Configs
  /\ pc \in Running \cup Ended \cup {"plan", "admit", "compare", "spawn", "finish"}
  /\ check \in Nat \ {0}
  /\ procs \subseteq [of : Checks, role : {"leader", "member", "stray"}]
  /\ exit \in [Checks -> {"none", "ok", "code", "signal"}]
  /\ results \in Seq({"Passed", "Failed"})
  /\ ran \in Seq(ToSet(ran))

\* Check k ran as it was planned, on what was verified.
RanAsPlanned(k) == ran[k] = [executable |-> plan[k].executable, verified |-> TRUE]

\* A passed evaluation is worth its name: every check was spawned from the executable
\* that was planned, on the candidate that was verified, and exited by itself with
\* success; nothing that any check started in its group is still running.
PassIsEarned ==
  pc = "passed" =>
    /\ Len(results) = Len(plan) /\ Len(ran) = Len(plan)
    /\ \A k \in Checks : RanAsPlanned(k) /\ exit[k] = "ok" /\ Group(k) = {}

\* Every evaluation comes to an end, whatever its processes do: one that never exits is
\* killed at its deadline, one that keeps the output open is not waited for.
EvaluationEnds == <>(pc \in Ended)

(* The inductive invariant.                                                *)

\* There is a result for every check that is over.
Counted ==
  /\ Len(results) = check - 1
  /\ pc \in {"plan", "refused"} => check = 1
  /\ pc \notin {"plan", "refused"} => Len(plan) = Len(config.required)
  /\ pc \in Running \cup {"admit", "compare", "spawn"} => check <= Len(plan)
  /\ pc \in {"finish", "passed", "failed"} => check = Len(plan) + 1
  /\ pc = "passed" => ToSet(results) \subseteq {"Passed"}

\* As long as every check has passed, nothing but strays outlives its check, so that
\* what is compared before a spawn still holds at the spawn.
EarnedSoFar ==
  /\ Len(ran) = IF pc \in Running THEN check ELSE check - 1
  /\ \A k \in 1 .. Len(ran) : RanAsPlanned(k)
  /\ \A k \in 1 .. check - 1 : exit[k] = "ok"
  /\ \A p \in procs : p.role = "stray" \/ (p.of = check /\ pc \in Running)
  /\ pc \in {"compare", "spawn"} => candidate
  /\ pc = "spawn" => Identity(plan[check].executable.path) = plan[check].executable
  /\ pc = "drain" /\ ~timedOut => Group(check) = {}

IInv == TypeOK /\ Counted /\ (ToSet(results) \subseteq {"Passed"} => EarnedSoFar)

=============================================================================
