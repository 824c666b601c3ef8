----------------------------- MODULE RapidChecks -----------------------------
(***************************************************************************)
(* scripts/rapid_hardening_checks.py: one or more developers run the gate,  *)
(* each run launching one child process per stage and judging it by its     *)
(* exit code, by what it printed and, for the stages with a report, by the  *)
(* artifact it left.  With --refresh-evidence the artifacts are the tracked *)
(* files under evidence/, which every run on the checkout shares; otherwise *)
(* they are private to the run.  A child may be slow (the runner kills it   *)
(* after its timeout); a runner may be interrupted (its child dies with it) *)
(* or killed (its child lives on and still writes).                         *)
(*                                                                         *)
(* MaxEdits bounds the changes of the stages' inputs, MaxDeaths the runners *)
(* that die.  `said` and `disturbed` are history and decide nothing.        *)
(***************************************************************************)
EXTENDS Integers, Sequences

CONSTANTS
    Runner,     \* the runs that may be under way on one checkout
    Stage,      \* the stages' names
    StageList,  \* ... in the order main() has them
    Reports,    \* the stages judged by add_json_stage
    Evidence,   \* per stage: the stages whose evidence/ file its child reads
    MaxEdits, MaxDeaths

N == Len(StageList)

ASSUME RapidAssumption ==
    /\ StageList \in Seq(Stage)
    /\ N \in Nat \ {0}
    /\ \A m, n \in 1..N : StageList[m] = StageList[n] => m = n
    /\ Reports \subseteq Stage
    /\ Evidence \in [Stage -> SUBSET Reports]
    /\ MaxEdits \in Nat /\ MaxDeaths \in Nat

(* Every report a stage reads back is that of an earlier stage of the list  *)
(* (main() runs the tests after the stages with a report, :162-227).        *)
ASSUME OrderAssumption ==
    \A n \in 1..N : \A t \in Evidence[StageList[n]] :
        \E m \in 1..(n - 1) : StageList[m] = t

(***************************************************************************)
(* What a stage's program can make of its input: succeed, succeed with a    *)
(* result the runner does not accept (a manifest that promotes, an analyzer *)
(* that ended in tool-error, a test run without its summary), report a      *)
(* failure, or fail before it has anything to report (each of them can: a   *)
(* command or file missing, an exception no except clause names).           *)
(***************************************************************************)
Outcome == {"pass", "weak", "fail", "crash"}

File == {"absent", "empty", "pass", "weak", "fail"}   \* an artifact's content

VARIABLES
    input,      \* per stage: the outcome its input now leads to
    edits, deaths,
    evidence,   \* per report stage: its file under evidence/
    (* per run *)
    pc,         \* "idle", "launch", "wait", "save"
    refresh,    \* args.refresh_evidence
    stages,     \* the list `stages`, of which only the status is kept
    temp,       \* per report stage: its file in the run's temporary directory
    child,      \* the child process, or NoChild
    orphan,     \* a child that outlived its runner, or NoChild
    exit,       \* the exit code, -1 while there is none
    summary,    \* the file named by --output
    (* history, per run *)
    said,       \* the outcomes of the stages judged so far
    disturbed   \* another process wrote to evidence/ since the run began

setting == <<input, edits, deaths>>
run == <<pc, refresh, stages, exit, summary, said>>
vars == <<setting, evidence, run, temp, child, orphan, disturbed>>

(* A child: its stage, how far it is, what it makes of its input, and where *)
(* its --output goes ("lost": to the directory of a run that is gone).      *)
Phase == {"none", "run", "open", "write", "exited"}

Writes_Always(c) == c.stage \in Reports
Writes(c) == c.stage \in Reports /\ c.outcome # "crash"

Child == {c \in [stage : Stage \cup {"none"}, phase : Phase, outcome : Outcome,
                 target : {"evidence", "temp", "lost"}] :
            /\ c.phase # "none" => c.stage \in Stage
            /\ c.phase \in {"open", "write"} => Writes(c)}

NoReports == [s \in Reports |-> "absent"]

NoChild == [stage |-> "none", phase |-> "none", outcome |-> "crash", target |-> "lost"]

TypeOK ==
    /\ input \in [Stage -> Outcome]
    /\ edits \in 0..MaxEdits /\ deaths \in 0..MaxDeaths
    /\ evidence \in [Reports -> File]
    /\ pc \in [Runner -> {"idle", "launch", "wait", "save"}]
    /\ refresh \in [Runner -> BOOLEAN]
    /\ stages \in [Runner -> Seq({"passed", "failed"})]
    /\ said \in [Runner -> Seq(Outcome)]
    /\ temp \in [Runner -> [Reports -> File]]
    /\ child \in [Runner -> Child] /\ orphan \in [Runner -> Child]
    /\ exit \in [Runner -> {-1, 0, 1}]
    /\ summary \in [Runner -> {"absent", "empty", "passed", "failed"}]
    /\ disturbed \in [Runner -> BOOLEAN]

Init ==
    /\ input = [s \in Stage |-> "pass"] /\ edits = 0 /\ deaths = 0
    /\ evidence \in [Reports -> {"absent", "fail", "pass"}]   \* as the last commit left it
    /\ pc = [r \in Runner |-> "idle"]
    /\ refresh = [r \in Runner |-> FALSE]
    /\ stages = [r \in Runner |-> <<>>] /\ said = [r \in Runner |-> <<>>]
    /\ temp = [r \in Runner |-> NoReports]
    /\ child = [r \in Runner |-> NoChild] /\ orphan = [r \in Runner |-> NoChild]
    /\ exit = [r \in Runner |-> -1]
    /\ summary = [r \in Runner |-> "absent"]
    /\ disturbed = [r \in Runner |-> FALSE]

-----------------------------------------------------------------------------
(* The checkout: a stage's input (fixture, code, tool) changes.             *)
EditInput ==
    /\ edits < MaxEdits /\ edits' = edits + 1
    /\ \E s \in Stage : \E o \in Outcome \ {input[s]} :
        input' = [input EXCEPT ![s] = o]
    /\ UNCHANGED <<deaths, evidence, run, temp, child, orphan, disturbed>>

-----------------------------------------------------------------------------
(* Children, owned and orphaned alike.  A child reads its input and the     *)
(* evidence it needs, and if it has a report writes it with write_text:     *)
(* the file is truncated first and filled later.                            *)
Finds(s) ==
    IF input[s] = "pass" /\ \E t \in Evidence[s] : evidence[t] # "pass"
    THEN "fail" ELSE input[s]

(* What process c of runner r leaves in the files when it sets its output   *)
(* to x.                                                                    *)
Put(r, c, x) ==
    /\ evidence' = IF c.target = "evidence"
                   THEN [evidence EXCEPT ![c.stage] = x] ELSE evidence
    /\ temp' = IF c.target = "temp" THEN [temp EXCEPT ![r][c.stage] = x] ELSE temp

Advance(c) ==
    CASE c.phase = "run" ->
            LET d == [c EXCEPT !.outcome = Finds(c.stage)]
            IN  [d EXCEPT !.phase = IF Writes(d) THEN "open" ELSE "exited"]
      [] c.phase = "open" -> [c EXCEPT !.phase = "write"]
      [] c.phase = "write" -> [c EXCEPT !.phase = "exited"]

Writing(r, c) ==
    CASE c.phase = "run" -> UNCHANGED <<evidence, temp>>
      [] c.phase = "open" -> Put(r, c, "empty")
      [] c.phase = "write" -> Put(r, c, c.outcome)

(* Every other run sees evidence/ change under it; so does a run whose      *)
(* predecessor left an orphan.                                              *)
Disturb(who) ==
    disturbed' = [q \in Runner |->
        disturbed[q] \/ (q \in who /\ evidence' # evidence)]

ChildStep(r) ==
    /\ child[r].phase \in {"run", "open", "write"}
    /\ child' = [child EXCEPT ![r] = Advance(@)]
    /\ Writing(r, child[r])
    /\ Disturb(Runner \ {r})
    /\ UNCHANGED <<setting, run, orphan>>

OrphanStep(r) ==
    /\ orphan[r].phase \in {"run", "open", "write"}
    /\ LET c == Advance(orphan[r])
       IN  orphan' = [orphan EXCEPT ![r] = IF c.phase = "exited" THEN NoChild ELSE c]
    /\ Writing(r, orphan[r])
    /\ Disturb(Runner)
    /\ UNCHANGED <<setting, run, child>>

-----------------------------------------------------------------------------
(* The runner.                                                              *)
Current_Reversed(r) == StageList[N - Len(stages[r])]
Current(r) == StageList[Len(stages[r]) + 1]

Start(r) ==
    /\ pc[r] = "idle"
    /\ pc' = [pc EXCEPT ![r] = "launch"]
    /\ \E mode \in BOOLEAN : refresh' = [refresh EXCEPT ![r] = mode]
    /\ stages' = [stages EXCEPT ![r] = <<>>] /\ said' = [said EXCEPT ![r] = <<>>]
    /\ temp' = [temp EXCEPT ![r] = NoReports]
    /\ exit' = [exit EXCEPT ![r] = -1]
    /\ disturbed' = [disturbed EXCEPT ![r] = FALSE]
    /\ UNCHANGED <<setting, evidence, child, orphan, summary>>

(* report_path(): where the stage's --output goes.                          *)
Target(r) == IF refresh[r] THEN "evidence" ELSE "temp"

Launch(r) ==
    /\ pc[r] = "launch" /\ Len(stages[r]) < N
    /\ pc' = [pc EXCEPT ![r] = "wait"]
    /\ child' = [child EXCEPT ![r] =
         [stage |-> Current(r), phase |-> "run", outcome |-> "crash", target |-> Target(r)]]
    /\ UNCHANGED <<setting, evidence, refresh, stages, exit, summary, said, temp,
                   orphan, disturbed>>

(* The verdict on the current stage, whose child reported `outcome`; the    *)
(* loop over the stages goes on whatever it is.                             *)
Record_ChildLives(r, verdict, outcome) ==
    /\ stages' = [stages EXCEPT ![r] = Append(@, verdict)]
    /\ said' = [said EXCEPT ![r] = Append(@, outcome)]
    /\ pc' = [pc EXCEPT ![r] = "launch"]
    /\ UNCHANGED <<setting, evidence, refresh, exit, summary, temp, child, orphan,
                   disturbed>>

Record(r, verdict, outcome) ==
    /\ stages' = [stages EXCEPT ![r] = Append(@, verdict)]
    /\ said' = [said EXCEPT ![r] = Append(@, outcome)]
    /\ pc' = [pc EXCEPT ![r] = "launch"]
    /\ child' = [child EXCEPT ![r] = NoChild]
    /\ UNCHANGED <<setting, evidence, refresh, exit, summary, temp, orphan, disturbed>>

(* No executable, or OSError from subprocess.run.                           *)
LaunchFails(r) ==
    /\ pc[r] = "launch" /\ Len(stages[r]) < N
    /\ Record(r, "failed", "crash")

(* subprocess.TimeoutExpired: the child was killed wherever it was.         *)
Expired_Never(r) == FALSE
Expired(r) == child[r].phase # "exited"

Timeout(r) ==
    /\ pc[r] = "wait" /\ Expired(r)
    /\ Record(r, "failed", "crash")

(* add_json_stage compares what the child printed with the artifact as it   *)
(* is now, then looks at its contents; the other stages are judged by the   *)
(* exit code and the printed summary.                                       *)
Artifact(r) == IF refresh[r] THEN evidence ELSE temp[r]

Accepted_FromDisk(r, c) ==
    /\ c.outcome \in {"pass", "weak"}
    /\ IF c.stage \in Reports THEN Artifact(r)[c.stage] = "pass" ELSE c.outcome = "pass"

Accepted(r, c) ==
    /\ c.outcome \in {"pass", "weak"}      \* exit code 0
    /\ c.stage \in Reports => Artifact(r)[c.stage] = c.outcome
    /\ c.outcome = "pass"

Judge_Printed(r) ==
    /\ pc[r] = "wait" /\ child[r].phase \in {"open", "write", "exited"}
    /\ Record(r, IF Accepted(r, child[r]) THEN "passed" ELSE "failed", child[r].outcome)

Judge(r) ==
    /\ pc[r] = "wait" /\ child[r].phase = "exited"
    /\ Record(r, IF Accepted(r, child[r]) THEN "passed" ELSE "failed", child[r].outcome)

(* The temporary directory is gone; write_text truncates the --output *)
(* file, fills it, and the exit code follows.                               *)
Save(r) ==
    /\ pc[r] = "launch" /\ Len(stages[r]) = N
    /\ pc' = [pc EXCEPT ![r] = "save"]
    /\ temp' = [temp EXCEPT ![r] = NoReports]
    /\ summary' = [summary EXCEPT ![r] = "empty"]
    /\ UNCHANGED <<setting, evidence, refresh, stages, exit, said, child, orphan,
                   disturbed>>

AllPassed_Last(r) == stages[r][N] = "passed"
AllPassed(r) == \A n \in 1..Len(stages[r]) : stages[r][n] = "passed"

Finish(r) ==
    /\ pc[r] = "save"
    /\ pc' = [pc EXCEPT ![r] = "idle"]
    /\ summary' = [summary EXCEPT ![r] = IF AllPassed(r) THEN "passed" ELSE "failed"]
    /\ exit' = [exit EXCEPT ![r] = IF AllPassed(r) THEN 0 ELSE 1]
    /\ UNCHANGED <<setting, evidence, refresh, stages, said, temp, child, orphan,
                   disturbed>>

(* The runner dies.  An interrupt makes subprocess.run kill the child; a    *)
(* SIGKILL of the runner leaves it running, towards the evidence file or a  *)
(* directory nobody will read.                                              *)
Die(r) ==
    /\ pc[r] # "idle" /\ deaths < MaxDeaths /\ deaths' = deaths + 1
    /\ pc' = [pc EXCEPT ![r] = "idle"]
    /\ child' = [child EXCEPT ![r] = NoChild]
    /\ temp' = [temp EXCEPT ![r] = NoReports]
    /\ UNCHANGED <<input, edits, evidence, refresh, stages, exit, summary, said,
                   disturbed>>

Interrupt(r) == Die(r) /\ UNCHANGED orphan

Kill(r) ==
    /\ Die(r)
    /\ child[r].phase \notin {"none", "exited"} /\ orphan[r] = NoChild
    /\ orphan' = [orphan EXCEPT ![r] =
         [child[r] EXCEPT !.target = IF refresh[r] THEN @ ELSE "lost"]]

-----------------------------------------------------------------------------
Runs(r) == Launch(r) \/ LaunchFails(r) \/ Timeout(r) \/ Judge(r) \/ Save(r) \/ Finish(r)

Next == EditInput \/ \E r \in Runner :
            \/ Start(r) \/ Runs(r) \/ Interrupt(r) \/ Kill(r)
            \/ ChildStep(r) \/ OrphanStep(r)

Spec == Init /\ [][Next]_vars

(* A runner that lives is scheduled, and its timer fires; a child may hang. *)
FairSpec == Spec /\ \A r \in Runner : WF_vars(Runs(r))

-----------------------------------------------------------------------------
Contract == INSTANCE GateContract
    WITH Run <- Runner, judged <- stages, alive <- [r \in Runner |-> pc[r] # "idle"]

(* Every run keeps the contract of the gate: all stages judged, in order,   *)
(* no stage's failure skips another, and the exit code is the conjunction   *)
(* (main, rapid_hardening_checks.py:130-259).                               *)
KeepsContract == Contract!Spec

(* Exit code 0 is earned by the run's own children: each stage of the list  *)
(* ran to its end in this run and itself reported an acceptable result,     *)
(* whatever other runs and orphans wrote to the files it was compared with  *)
(* (add_json_stage, :76-109).                                               *)
HonestPass ==
    \A r \in Runner : exit[r] = 0 => said[r] = [n \in 1..N |-> "pass"]

(* What a refresh leaves under evidence/ is what its own stages said: while *)
(* nobody else writes there, each report holds the result its stage ended   *)
(* with in this run, through the stages that follow it, after the run ended *)
(* in 0 or 1, and after it was interrupted or killed (:76-109, :162-220).   *)
(* Only a stage that did not live to its report may leave another.          *)
EvidenceIsWhatTheRunSaid ==
    \A r \in Runner : refresh[r] /\ ~disturbed[r] =>
        \A n \in 1..Len(stages[r]) :
            StageList[n] \in Reports /\ said[r][n] # "crash"
                => evidence[StageList[n]] = said[r][n]

(* Nobody changes a report under evidence/ but a refresh that is waiting    *)
(* for that very stage, or the child of a refresh that was killed in it:    *)
(* neither a default run nor what it leaves behind, no child of a stage     *)
(* that was judged or timed out, and a dead refresh not more than one file  *)
(* (:45-57, :164-167).                                                      *)
OnlyRefreshWrites ==
    [][\A s \in Reports : evidence'[s] # evidence[s] =>
        \E r \in Runner :
            \/ pc[r] = "wait" /\ refresh[r] /\ Current(r) = s
            \/ orphan[r].stage = s /\ orphan[r].target = "evidence"]_vars

(* Stale evidence does not make a refresh fail: when every program is fine  *)
(* and none timed out, an undisturbed refresh passes, because each report   *)
(* is rewritten before the stage that reads it back runs (the unit tests    *)
(* compare evidence/rolling-intake-replay.json with a new replay).          *)
RefreshRepairs ==
    \A r \in Runner :
        exit[r] = 1 /\ refresh[r] /\ ~disturbed[r] /\ edits = 0 =>
            \E n \in 1..N : said[r][n] = "crash"

(* A run ends, whatever its children, other runs and orphans do: a child    *)
(* that hangs is cut off by the timeout of its stage (:45-57).              *)
EveryRunEnds == \A r \in Runner : pc[r] # "idle" ~> pc[r] = "idle"
=============================================================================
