---------------------------- MODULE AnalyzerLane ----------------------------
(***************************************************************************)
(* scripts/run_openssl_gcc_analyzer.py, run by an operator who passes the   *)
(* triage of the findings, or by scripts/rapid_hardening_checks.py, which   *)
(* passes none, kills it after 180 seconds and counts its result among the  *)
(* stages.  The archive is a local file that is looked at three times: it   *)
(* exists, it has the pinned digest, it is unpacked.  It may be replaced or *)
(* removed in between, and gcc may fail or hang.                            *)
(*                                                                         *)
(* MaxEdits bounds the replacements of the archive, MaxDeaths the runs that *)
(* are killed, MaxFindings the warnings of one pass.  A report's `truth` is *)
(* history: it is not written and decides nothing.                          *)
(***************************************************************************)
EXTENDS Integers

CONSTANTS
    Archive, Absent,       \* contents of the archive's path, or there is none
    Pinned,                \* the one with EXPECTED_ARCHIVE_SHA256
    Sound,                 \* those safe_extract() unpacks
    Source, PinnedSource,  \* contents of keccak1600.c
    SourceOf,              \* per archive: the one it holds
    Field,                 \* TRIAGE_FIELDS
    MaxEdits, MaxDeaths, MaxFindings

ASSUME AnalyzerAssumption ==
    /\ Absent \notin Archive /\ Pinned \in Sound /\ Sound \subseteq Archive
    /\ PinnedSource \in Source /\ SourceOf \in [Archive -> Source]
    /\ Field # {}
    /\ MaxEdits \in Nat /\ MaxDeaths \in Nat /\ MaxFindings \in Nat

VARIABLES
    archive, edits, deaths,
    file,     \* the report in evidence/ and one elsewhere
    caller,   \* who runs the analyzer: "gate" or "operator"
    target,   \* which of the files it writes
    options,  \* the triage given on the command line
    pc,
    unpacked, \* the archive in the temporary directory
    report,   \* the dict `report`
    core,     \* the gate's other stages, together
    exit,     \* the gate's exit code, -1 while there is none
    ended     \* history: where the last run's process was when it was judged

run == <<caller, target, options, unpacked, core, ended>>
vars == <<archive, edits, deaths, file, pc, report, exit, run>>

(* A triage option: left out or empty; white space or a word that says it   *)
(* is still to be done; a decision.                                         *)
Word == {"none", "pending", "decided"}

NoTruth == [made |-> Absent, warned |-> 0, touched |-> FALSE]
Truth == [made : Archive \cup {Absent},  \* compiled to the end
          warned : Nat,                  \* warnings of the compiler
          touched : BOOLEAN]             \* replaced after it was hashed

Report == [state : {"absent", "empty", "begun", "not-run", "tool-error", "clean", "findings"},
           archive : Archive \cup {Absent}, source : Source \cup {"none"},
           records : Nat, triage : [Field -> Word],
           summary : {"not-run", "tool-error", "no-findings", "per-finding"},
           truth : Truth]

Blank(state) == [state |-> state, archive |-> Absent, source |-> "none",
                 records |-> 0, triage |-> [f \in Field |-> "none"],
                 summary |-> "not-run", truth |-> NoTruth]

Steps == {"look", "hash", "extract", "source", "version", "compile", "cleanup",
          "open", "write"}
Phase == Steps \cup {"idle", "exited", "died"}

TypeOK ==
    /\ archive \in Archive \cup {Absent}
    /\ edits \in 0..MaxEdits /\ deaths \in 0..MaxDeaths
    /\ file \in [{"evidence", "elsewhere"} -> Report]
    /\ caller \in {"gate", "operator"} /\ target \in {"evidence", "elsewhere"}
    /\ options \in [Field -> Word]
    /\ pc \in Phase
    /\ unpacked \in Archive \cup {Absent}
    /\ pc \in {"source", "version", "compile"} => unpacked \in Sound
    /\ report \in Report
    /\ core \in {"passed", "failed"}
    /\ exit \in {-1, 0, 1} /\ ended \in Phase

Init ==
    /\ archive \in Archive \cup {Absent} /\ edits = 0 /\ deaths = 0
    /\ file = [t \in {"evidence", "elsewhere"} |-> Blank("absent")]
    /\ caller = "operator" /\ target = "elsewhere"
    /\ options = [f \in Field |-> "none"]
    /\ pc = "idle" /\ unpacked = Absent /\ report = Blank("begun")
    /\ core = "passed" /\ exit = -1 /\ ended = "idle"

-----------------------------------------------------------------------------
(* Someone downloads another archive, or removes it.                        *)
Replace ==
    /\ edits < MaxEdits /\ edits' = edits + 1
    /\ archive' \in (Archive \cup {Absent}) \ {archive}
    /\ report' = [report EXCEPT !.truth.touched = @ \/ pc = "extract"]
    /\ UNCHANGED <<deaths, file, pc, exit, run>>

-----------------------------------------------------------------------------
(* The analyzer's process.                                                  *)
Start(who, where, given) ==
    /\ pc = "idle"
    /\ caller' = who /\ target' = where /\ options' = given
    /\ pc' = "look" /\ report' = Blank("begun") /\ unpacked' = Absent
    /\ file' = [file EXCEPT !["elsewhere"] = Blank("absent")]  \* a new name
    /\ core' = "passed" /\ exit' = -1 /\ ended' = "idle"
    /\ UNCHANGED <<archive, edits, deaths>>

(* With these arguments rapid_hardening_checks.py starts it.                *)
GateStart ==
    \E where \in {"evidence", "elsewhere"} : Start("gate", where, [f \in Field |-> "none"])

OperatorStart ==
    \E where \in {"evidence", "elsewhere"}, given \in [Field -> Word] :
        Start("operator", where, given)

Go(where, x) ==
    /\ pc' = where /\ report' = x
    /\ UNCHANGED <<archive, edits, deaths, file, exit, run>>

(* The except clause of run(): the state, and nothing else, is overwritten. *)
Failed == [report EXCEPT !.state = "tool-error"]
ToolError == [report EXCEPT !.state = "tool-error", !.summary = "tool-error"]

Look ==
    /\ pc = "look"
    /\ IF archive = Absent THEN Go("open", [report EXCEPT !.state = "not-run"])
       ELSE Go("hash", report)

Identified(x) == x = Pinned

(* Outside the try: a file that is gone ends the process in a traceback.    *)
HashArchive ==
    /\ pc = "hash"
    /\ IF archive = Absent THEN Go("died", report)
       ELSE IF Identified(archive) THEN Go("extract", [report EXCEPT !.archive = archive])
       ELSE Go("open", [ToolError EXCEPT !.archive = archive])

Unpacks_Any(x) == x \in Archive
Unpacks(x) == x \in Sound

(* safe_extract() opens the path again; the disk may be full.  EOFError and *)
(* zlib.error of a damaged gzip stream are not among the exceptions caught. *)
Extract ==
    /\ pc = "extract"
    /\ \/ Go("open", Failed)
       \/ archive \notin Sound \cup {Absent} /\ Go("died", report)
       \/ /\ Unpacks(archive)
          /\ pc' = "source" /\ unpacked' = archive
          /\ UNCHANGED <<archive, edits, deaths, file, exit, report, caller, target,
                         options, core, ended>>

SourceFits_Unchecked(x) == x \in Source
SourceFits(x) == x = PinnedSource

HashSource ==
    /\ pc = "source"
    /\ LET x == [report EXCEPT !.source = SourceOf[unpacked]] IN
        \/ SourceFits(SourceOf[unpacked]) /\ Go("version", x)
        \/ Go("open", [x EXCEPT !.state = "tool-error"])  \* or no header was written

(* gcc --version.                                                           *)
Version ==
    /\ pc = "version"
    /\ \/ Go("compile", report)
       \/ Go("cleanup", ToolError)  \* not 0
       \/ Go("open", Failed)        \* not found

(* build_finding_records(): the words of every record.                      *)
Triage_AsGiven == [f \in Field |-> IF options[f] = "none" THEN "decided" ELSE options[f]]
Triage == [f \in Field |-> IF options[f] = "none" THEN "pending" ELSE options[f]]

Concluded(code, warned) ==
    IF code # 0 THEN "tool-error" ELSE IF warned > 0 THEN "findings" ELSE "clean"

(* A record for every warning, whatever the exit code.                      *)
Compile ==
    /\ pc = "compile"
    /\ \/ \E code \in {0, 1}, warned \in 0..MaxFindings :
            Go("cleanup",
               [report EXCEPT
                 !.state = Concluded(code, warned),
                 !.records = warned, !.triage = Triage,
                 !.summary = IF code # 0 THEN "tool-error"
                             ELSE IF warned > 0 THEN "per-finding" ELSE "no-findings",
                 !.truth.made = IF code = 0 THEN unpacked ELSE Absent,
                 !.truth.warned = warned])
       \/ Go("open", Failed)        \* not found

(* subprocess.run(timeout=10), then (timeout=120): TimeoutExpired is among  *)
(* the exceptions run() catches.                                            *)
Expired_Version == pc = "version"
Expired == pc \in {"version", "compile"}
Timeout == Expired /\ Go("open", Failed)

(* The temporary directory is removed on the way out, inside the try.       *)
CleanUp ==
    /\ pc = "cleanup"
    /\ Go("open", report) \/ Go("open", Failed)

(* main() prints the report, then write_text() empties the file and fills it.*)
Put(x) == file' = [file EXCEPT ![target] = x]

Open ==
    /\ pc = "open" /\ pc' = "write" /\ Put(Blank("empty"))
    /\ UNCHANGED <<archive, edits, deaths, report, exit, run>>

Write ==
    /\ pc = "write" /\ pc' = "exited" /\ Put(report)
    /\ UNCHANGED <<archive, edits, deaths, report, exit, run>>

(* OSError of mkdir or write_text: a traceback; the old report stays, or an *)
(* empty file.                                                              *)
WriteFails == pc \in {"open", "write"} /\ Go("died", report)

-----------------------------------------------------------------------------
(* Whoever waits for it.  add_json_stage(): exit code 0, what was printed   *)
(* is what is on disk, and it is a completed analysis; the gate's exit code *)
(* counts it like any other stage.                                          *)
Completed == {"clean", "findings"}

Accepted_AnyState == pc = "exited" /\ file[target] = report
Accepted == pc = "exited" /\ file[target] = report /\ report.state \in Completed

End(passed) ==
    /\ pc' = "idle" /\ ended' = pc
    /\ IF caller = "operator" THEN UNCHANGED <<core, exit>>
       ELSE /\ core' \in {"passed", "failed"}
            /\ exit' = IF core' = "passed" /\ passed THEN 0 ELSE 1
    /\ UNCHANGED <<archive, edits, deaths, file, report, caller, target, options, unpacked>>

Judge == pc \in {"exited", "died"} /\ End(Accepted)

GateTimeout == caller = "gate" /\ pc \in Steps /\ End(FALSE)

(* The analyzer is killed together with its caller.                         *)
Kill ==
    /\ pc # "idle" /\ pc' = "idle"
    /\ deaths < MaxDeaths /\ deaths' = deaths + 1
    /\ UNCHANGED <<archive, edits, file, report, exit, run>>

-----------------------------------------------------------------------------
Own ==
    \/ Look \/ HashArchive \/ Extract \/ HashSource \/ Timeout \/ CleanUp
    \/ Open \/ Write \/ WriteFails

Gcc == Version \/ Compile

Next ==
    \/ Replace \/ GateStart \/ OperatorStart \/ Own \/ Gcc
    \/ Judge \/ GateTimeout \/ Kill

Spec == Init /\ [][Next]_vars

(* Python's own steps and its timers; gcc may hang.                         *)
FairSpec == Spec /\ WF_vars(Own) /\ WF_vars(Judge)

-----------------------------------------------------------------------------
(* The policy that scripts/advisory_lane_fixture.py demonstrates: build and *)
(* tests block, the diagnostics do not.                                     *)
CoreFailed(build, tests) == build = "failed" \/ tests = "failed"
PolicyExit(build, tests) == IF CoreFailed(build, tests) THEN 1 ELSE 0

(* A report is earned, wherever it lies and whatever became of the archive  *)
(* since: a completed one is about the pinned archive and the pinned source *)
(* file, gcc ended with 0 on that file, and on the pinned archive's headers *)
(* unless the archive was replaced after it was hashed; no summary claims   *)
(* an analysis that did not end; and every warning has a record, also in a  *)
(* report of tool-error (run, :128-251).                                    *)
Earned(x) ==
    LET t == x.truth IN
    /\ x.state \in Completed \/ x.summary \in {"no-findings", "per-finding"} =>
        /\ x.archive = Pinned /\ x.source = PinnedSource
        /\ t.made \in Archive /\ SourceOf[t.made] = PinnedSource
        /\ t.made = Pinned \/ t.touched
    /\ x.state = "clean" \/ x.summary = "no-findings" => t.warned = 0
    /\ x.records = t.warned

EvidenceIsEarned == \A t \in DOMAIN file : Earned(file[t])

(* Findings close only with a decision: records without a triage error      *)
(* (triage_record_errors, :31-41) come from a run whose caller decided      *)
(* every field, so never from the gate.                                     *)
TriageErrors(x) == {f \in Field : x.triage[f] # "decided"}

ClosedWasDecided ==
    pc = "exited" /\ file[target].records > 0 /\ TriageErrors(file[target]) = {} =>
        caller = "operator" /\ \A f \in Field : options[f] = "decided"

(* The gate follows the lane: it passes only if gcc ended with 0 on the     *)
(* pinned source in this very run and the file has a record of every        *)
(* warning; findings alone never fail it; core failures always do           *)
(* (rapid_hardening_checks.py:213-219 and :245-259).                        *)
GateFollowsLane ==
    caller = "gate" /\ pc = "idle" /\ exit # -1 =>
        /\ exit = 0 =>
            /\ PolicyExit("passed", core) = 0
            /\ report.truth.made \in Archive /\ SourceOf[report.truth.made] = PinnedSource
            /\ file[target].records = report.truth.warned
        /\ exit = 1 =>
            \/ PolicyExit("passed", core) = 1
            \/ ended # "exited"
            \/ report.truth.made = Absent
            \/ report.state = "tool-error"   \* the directory was not removed

(* Every run ends, also when gcc hangs (:195-205).                          *)
EveryAnalysisEnds == pc # "idle" ~> pc = "idle"

(* "Analyzer findings/errors are recorded and never fail the primary        *)
(* build/test gate" (run_openssl_gcc_analyzer.py:7-8): when either has been *)
(* reported the gate's exit code is the policy's.                           *)
ErrorsNeverBlock ==
    caller = "gate" /\ pc = "idle" /\ exit # -1 /\ ended = "exited"
        /\ report.state \in {"findings", "tool-error"}
    => exit = PolicyExit("passed", core)
=============================================================================
