# TLA+ models of the build-hardening checklist's tooling

The repository holds a hardening checklist for Yocto builds, a traceability
sidecar (`traceability/`, one YAML record per file), evidence, and the Python
programs that decide whether all of that may be believed. This directory models
those programs: what a *pass* of each means, while the tree they read is being
edited, while several of them run at once, when a child hangs or its parent is
killed, when a checkout moves between two commands, and when threads run late.

Every definition is translated from the code; `PROJECT.json` ("map") names the
lines each one stands for. Code outside the repository (BitBake,
npm, gpg, gcc, Git, Python's `socketserver`, SHA-256) is modelled only as far as the
code here relies on it, and is marked external there.

Run a check with `tlc -config lint_races.cfg MCTraceabilityLint` and so on (the
table under *Runs* pairs configurations with modules), a proof with
`tlapm RapidChecksProofs.tla`.

## 1. The system

| component | state it keeps | operations | talks to |
|---|---|---|---|
| `scripts/lint_traceability.py`, traceability linter | records loaded, levels and finding ids seen, errors, warnings, exit code; the tree is its input | list directories, open a document, load a record, validate it against the files it names, link phase, completeness with owners' decisions, report | reads the tree a maintainer edits; is a stage of the gate |
| `scripts/rapid_hardening_checks.py`, rapid gate | list of judged stages, child process, temporary directory, `evidence/` files, `--output` summary | launch a stage, time it out, judge it by exit code, output and artifact, go on, save | child processes; other runs of itself through `evidence/` |
| `scripts/rolling_manifest.py`, manifest validator and exact-SHA replay | manifest read, files hashed, errors, report | validate, replay in a scratch Git repository | reads manifest and configuration files; stage of the gate |
| `scripts/cve_disposition_fixture.py` | nothing between runs | compare the fixture's manifest digest, check its records | reads the manifest the validator judged; later stage of the same gate |
| `scripts/baseline_network_fixture.py`, network fixture | a request list bound to a class attribute, two servers, their threads | set up a case, download, count, shut down, validate, twice | BitBake's fetcher over a loopback connection |
| `scripts/run_openssl_gcc_analyzer.py`, `advisory_lane_fixture.py` | a report: state, triage records, triage summary; a temporary directory | look for the archive, hash it, unpack it, hash the source file, ask gcc's version, compile with `-fanalyzer`, triage, write | gcc; an operator, or the gate, whose stage it is |
| `scripts/reference_baseline.py` | revision and hashes found so far, a verdict per profile, the report | record the checkout, check two upstream checkouts, expand two profiles, write | Git, a shell that runs BitBake; its report may be a tracked file of the checkout it is about |
| `scripts/fetcher_fixture_matrix.py`, `worker_cache_fixture_matrix.py` | modules imported, namespace, environment, npm projects, what was seen | import, label, observe case by case, print | BitBake and OE-Core checkouts, npm, ar, gpg, a child of its own |
| `scripts/runtime_containment_fixture.py` | nothing between runs | check a unit and run `systemd-analyze` on it | stage of the gate |
| `.github/workflows/traceability.yml` | the runner's checkout | gate, then baseline and network fixture | all of the above |

What makes each of them correct, and what is hard about it:

* **Linter.** Its exit code must be a judgement on the tree, although it reads one
  file after the other and nothing locks them. `--strict-completeness` passing
  must mean the chain from requirements to verification is there, or that an owner
  decided otherwise; an owner's decision, or a retired record, must not silence
  anything but what it names. Uniqueness sets have different lifetimes (levels per
  document, finding ids over all of them). A record that cannot be loaded must not
  vanish quietly.
* **Gate.** Exit 0 must be earned by the run's own children, although the artifacts
  it compares are shared with other runs and with children that outlived a killed
  runner. No failed stage may skip another. It must end although children hang.
  What a refresh leaves in evidence must be what it found, and stale evidence must
  not make it fail.
* **Manifest validator.** A digest must identify the candidate's inputs through
  three nested levels; no repository may be bound to two revisions; promotion must
  be earned; and the verdict must hold for files read one by one.
* **Network fixture.** The count of requests decides. It is read before the server
  is shut down, in a list handlers find through a class attribute the next case
  rebinds. A late thread must neither hide a connection nor invent one, and the
  shutdown handshake must not be missed.
* **Analyzer lane.** A report may claim an analysis only if gcc ended on the pinned
  source, although the archive is opened three times and one `except` clause serves
  six failures. Every warning needs a record, a finding closes only by an
  operator's decision, and the gate must not be failed by findings.
* **Reference baseline.** A report is about the commit it names, although
  cleanliness is tested first, inputs are hashed next and BitBake reads the
  profiles minutes later; it must not overwrite evidence nobody committed.
* **Fixture matrices.** An observation must be of the revision, the process and the
  npm install it is reported for. One helper moves the whole process to another
  network namespace, and one preparation leaves behind what the observation looks
  for.

`PROJECT.json` ("hazards") has the full list, each at its line, with the properties
that would catch it going wrong.

## 2. The modules

| module | models | role |
|---|---|---|
| `TraceabilityModel` | records, the five documents, each rule of the linter | pure operators, shared by the next two |
| `LintGate` | what the linter promises: the tree judged as a whole, at one moment | abstract specification |
| `TraceabilityLint` | the linter as it runs, and a maintainer | detailed specification |
| `GateContract` | what a gate run promises: stages judged in order, exit = conjunction | abstract specification |
| `RapidChecks` | runners, children, orphans, `evidence/`, temporary directories | detailed specification |
| `ManifestGate` | a sound manifest, judged as a whole, whose report can be written | abstract specification |
| `RollingManifest` | `validate`, the CVE fixture's digest comparison, a maintainer who refreezes | detailed, two processes |
| `NetworkFixture` | main thread and fetcher, two server threads, handler threads | detailed specification |
| `BaselineClaim` | what a baseline report claims: made from the commit it names | abstract specification |
| `ReferenceBaseline` | one run of the generator, the checkout it is part of, two upstream checkouts, a maintainer | detailed specification |
| `AnalyzerLane` | the analyzer, the archive, the two files it writes, operator or gate | detailed specification |
| `FixtureMatrices` | both matrix scripts, the checkouts they import | detailed specification |
| `MC...` | small instances | for TLC |
| `...Proofs` | theorems, one module per component (the linter's refinement in `LintGateProofs`) | for TLAPS |

### TraceabilityLint

One action per point at which the code touches the tree: `Start` (launch and
directory listing), `OpenDir` (`.doorstop.yml` and the glob of one document),
`ReadItem` (`load_yaml`), `ValidateItem` (the rest of the loop body, with the files
it opens), `Conclude` (both error gates, completeness, `report`). `Raise` is an
exception nobody catches, a file that is not UTF-8 or a root that goes between
`is_dir` and `iterdir`: exit 1 and a traceback in place of the report. A maintainer's
`EditItem`, `EditConfig` and `EditContent` may come between any two of them. Inside
`ValidateItem` several files are read; an edit between these reads is not modelled
apart, only before or after all of them.

A record keeps the fields that rules over *several* records or files look at.
What is wrong with one field alone (missing keys, enums, dates, syntax of a
reference, a link or a decision listed twice) is `wellFormed = FALSE`. The three document-specific fields that decide
completeness share the name `status`. References are a file with an optional line
range, and a decision cites a file with its digest; SHA-256 is taken to be
injective, so the digest of a content is the content. The order of a glob is left
open (`\E u \in queue`): the verdict must not depend on it, and `ImplementsGate`
shows that it does not.

`dirty` (the tree changed since the run began) and `held` (what each file held
meanwhile) are history: they are written and never read by an action.

### RapidChecks

A runner goes through `launch`, `wait`, `launch`, ..., `save`, `idle`. Its child
computes its result from its input and the evidence it reads (`run`), and if it
has a report truncates the file (`open`) and fills it (`write`), as
`Path.write_text` does. `Timeout` kills the child wherever it is. `Interrupt` is
Ctrl-C: `subprocess.run` kills the child on its way out. `Kill` is SIGKILL of the
runner, whose child lives on as an `orphan` and still writes: to `evidence/` in a
refreshing run, to a directory nobody reads otherwise. `Judge` is the whole of
`add_json_stage`, or of the checks on exit code and printed summary for stages
without a report.

Outcomes of a stage's program are `pass`, `weak` (exit 0 with a result the gate
rejects: a manifest that promotes, `tool-error`, a missing summary), `fail` and
`crash` (ended before it had a report, which any program can: a missing command, an
exception no `except` names). The protocol of a child is one for all programs with
a report: it finds its result, truncates its `--output`, fills it and exits. What
differs between their `main`s is what they compute. The temporary directory is
emptied in `Save`, somewhat before the code removes it and after the last use of it.

`said` (what the run's own children reported) and `disturbed` (another process
wrote to `evidence/` since the run began) are history.

### RollingManifest

`Read` is `json.loads` and everything the document decides by itself, `Look` is
`is_file()`, `Hash` is `file_digest`, `Report` the end of `main`: `Write` if the
place named by `--output` can be written (`writable`, which `EditOutput` changes),
an exit of 1 without a report if not. A file may go between `Look` and `Hash` (the
`OSError` ends the process in the same way).
`EditManifest` may leave an edited manifest unsealed, seal it with a fresh manifest
digest only, or freeze it from the inside out, so all the half-done states of a
maintainer occur. `ReadDisposition` and `CompareDigest` are the CVE fixture,
which the gate runs after the validation whatever that came to, and which compares
two *recorded* digests without recomputing either; a fixture that cannot be read,
or that breaks a rule of its own, fails there.

A digest is the value it was taken of; nested digests are nested values. Layers,
recipe metadata and Git sources are all "something bound to a revision of a named
repository" and share the sequence `bindings`. `accepted` (every candidate that
ever passed, with what was hashed), `hashed`, `held` and `dirty` are history.

### NetworkFixture

Case 1 runs with the network, case 2 under `BB_NO_NETWORK`. `Setup` rebinds the
class attribute (`current`) and starts the server thread; the fetcher connects up
to `Tries` times; handlers append to the list bound *now* (`Log`) and then answer;
`Count`, `Shutdown` and `Close` end a case, `Validate` is `validate_case`. Whether
the bytes fetched were the expected ones is part of how a download ends (`Ends`);
that `profile_data` and the constructor of the fetcher succeed is assumed: a case
that fails there has opened no connection and passes nothing.

Of the fetcher it is assumed only that it is one of four kinds, fixed at the start:
it honours the variable or not, and waits for the answer to an attempt (`patient`)
or may give up on it. Of `socketserver`: `serve_forever` clears `__is_shut_down`
when it begins, and when it sees the request to stop clears that request and then
sets the event; `shutdown` sets the request and waits; daemon handler threads are
not waited for.

### ReferenceBaseline

The run follows `main`: `GetRevision`, `CheckStatus`, `HashInput` for each input,
`CheckRevision` and `CheckComponent` for each upstream checkout, `AppendProfile` and
`Expand` for each profile, `Save`, `Fill`. Every exception ends in `Refuse`: exit 1
and no report, also when the timer of `subprocess.run` fires (`Timeout`), which
nobody catches, and when the report cannot be written (`WriteFails`). The checkout is a history of commits, a tree and a tracked report;
`Edit`, `MakeCommit` and `Restore` change it between any two steps, and `Move` changes
an upstream checkout. `--output` may name the tracked report or a file elsewhere.

BitBake's expansion is `Yields`, a function of the content appended to `local.conf`;
that `parse_environment` reads the output of `bitbake -e` faithfully is assumed. The
path of `bitbake` is compared in the shell before the profile is appended, in the
model at `Expand`; both ways the run ends without a report.
A variable the profile leaves unset takes the caller's value if it is inherited;
`Inherited` is what `sanitized_environment` leaves of that, which is nothing. If the
upstream checkouts are not the pinned ones, or the `bitbake` found is not the one
given, expansion may yield anything; the shell's comparison of the two is `Returns`.
`given`, `disturbed` and `moved` are history.

`BaselineClaim` knows nothing of these steps. Its `Certify` writes the report of
`HEAD` if nobody interfered, and anything otherwise.

### AnalyzerLane

One action per command or file access of `run`: `Look`, `HashArchive`, `Extract`,
`HashSource`, `Version`, `Compile`, `CleanUp`, then `Open` and `Write` for the file.
`Failed` is the `except` clause, which overwrites the state and nothing else, and
`ToolError` the branches that also set the triage summary. `HashArchive` is outside
the `try`: an archive that disappeared between the first look and this one ends the
process in a traceback (`died`), and so do a damaged gzip stream in `Extract`, whose
`EOFError` or `zlib.error` the `except` does not name, and `WriteFails`. `Replace` puts another archive in place, or none, at
any time. The four archives of the instance are the pinned one, one with the same
`keccak1600.c` and other headers, one with another `keccak1600.c`, and one that does
not unpack.

The same process is started by an operator (`OperatorStart`, any triage options) or
by the gate (`GateStart`, none). The gate reads the file back and judges
(`Accepted`), may time out, and has other stages, whose result is `core`.
`report.truth` (what was compiled, how many warnings there were, whether the archive
was touched after it was hashed) is history: it is not in the real report.
`PolicyExit` is the policy of `advisory_lane_fixture.py`.

### FixtureMatrices

The two scripts share the variables and have a list of cases each (`FetcherList`,
`WorkerList`). `Import`, `Label`, `Package`, `FetchCase`, the four npm actions
(`Bootstrap`, `Approve`, `Clear`, `Install`), `NetworkProbe`, `EnvironmentProbe`,
`GpgProbe` and `PrintReport` are the steps; a case of several commands has its place
in `sub`. `Lose` is an exception the script does not catch, from a failing import to a
version query that prints nothing before the report: all it saw is lost.
Which of `ar`, `npm` and `gpg` the host has, and whether its npm asks for approval of
install scripts, is chosen at the start. `Move` and `Modify` change the checkouts.

An observation records which BitBake (and OE-Core) was seen, in whose network
namespace and with which environment, not what was seen there. An npm project is
its `node_modules`, the approval, the return codes so far and who made the marker.
Whether npm runs a script is npm's own rule: the gated one is that of npm 12.0.2 as
`evidence/fetcher-fixtures-2026-09-14.md:91` records it, the other that of an npm
without approvals.

## 3. Runs

| run | instance | states | shows |
|---|---|---|---|
| `lint_races` | one full chain and room for a second risk; 2 edits anywhere | 203 thousand | which trees pass: strict passes are traced, decisions and retirement silence only themselves, nothing is skipped, applied decisions were held during the run; the linter implements `LintGate` |
| `rapid_alone` | 1 runner, 3 stages, 1 edit, 1 death | 734 thousand | what a refresh leaves under `evidence/`, that it repairs stale evidence, that the orphan of a killed run earns no pass for the next, that every run ends |
| `rapid_shared` | 2 runners, 2 stages, 1 edit (symmetric runners) | 1.03 million | two runs on one checkout, refreshing or not: a pass is never earned by the other run's reports |
| `rapid_orphans` | 2 runners, 2 stages, 1 death (symmetric runners) | 2.1 million | two runs, one of which may be killed and leave a child that writes during the other: the contract, and who may change a report under `evidence/` |
| `network_fixture` | 2 attempts per case | 4 thousand | verdict, no false alarm, own counts, termination, for all four kinds of fetcher |
| `manifest_races` | 2 files, 2 repositories, 2 bindings, 2 edits anywhere | 154 thousand | the validator implements `ManifestGate`, digests identify inputs, CVE dispositions are about the candidate |
| `baseline` | 2 profiles that are also the inputs, a third file, 2 upstream checkouts; 2 edits, 1 death | 1.19 million | the run implements `BaselineClaim`, a pass is about what BitBake was given, uncommitted reports are kept, every run ends |
| `analyzer` | 4 archives, 2 triage fields; 1 replacement, 1 death, 1 warning | 760 thousand | reports are earned, decided findings were decided by an operator, the gate follows the lane, every run ends |
| `matrices` | 2 revisions; 2 changes of a checkout; every set of host tools | 552 thousand | reports are attributed to the right code and namespace, npm observations to the right install, every run ends |
| `lint_message` | 1 edit | violation | see *Findings* |
| `manifest_nonobject` | 1 edit | violation | see *Findings* |
| `analyzer_blocks` | as `analyzer` | violation | see *Findings* |

### Why the bounds are enough

* **Linter.** Each rule of the linter can be broken by one edit of
  `MCVariants`, and each way of answering a warning (a child, a status, a decision)
  can be added by a second. Rules over two records (level, finding id) need the
  second risk and one edit of it; the interplay of a retired record with a
  decision above it needs two. A race needs one edit during a run and its undoing.
* **Gate.** The list has one stage of each kind: a report that is read back, a
  report that is not, and a stage without a report that reads one back. Two runners
  give every overlap of writing and comparing. Edits and deaths together are
  in `rapid_alone`, where the killed runner's orphan is the second writer, and one at a
  time for two runners: an edit makes results differ (`rapid_shared`), a death leaves
  the third writer (`rapid_orphans`; no edit is needed to tell who writes). A second
  edit would only repeat what a second choice of the first can do.
* **Manifest.** Two files are needed for a set that never existed together, two
  repositories for a wrong binding, three entries for a repeated one, two edits for
  an edit followed by a partial refreeze or for an edit in each of two runs.
* **Network.** Two attempts give the late handler of an attempt that was given up,
  and a request left in the backlog when the server closes. The proofs cover any
  number.

* **Baseline.** Two profiles, one of them edited after it was hashed or after the
  other was expanded; two edits give an edit undone or committed during the run,
  and an edit of both checkouts. A second run after a killed or finished one meets
  the report it left behind. Of the six variables two are kept: one that both
  profiles set and one that the reference leaves unset.
* **Analyzer.** The archive is opened three times with one replacement between any
  two; a second could only undo the first, and the proofs cover it. One warning
  tells findings from none.
* **Matrices.** Both checkouts can be changed, or one of them twice, at any place of
  the list; a second change of the same checkout shows two cases of one process
  that would see different code if it did not hold its modules.

`edits`, `deaths`, `tried` and the number of warnings are the only counters;
`MaxEdits`, `MaxDeaths`, `Tries` and `MaxFindings` bound them in the guards. The
proofs need no value of any of them.

`network_fixture.cfg` turns off deadlock checking because the fixture is a program
that ends. All other systems are checked for deadlock; a runner or maintainer can
always start again.

### Fairness

* `RapidChecks!FairSpec`: a living runner takes its steps, and the timer of
  `subprocess.run` is one of them. Children have **no** fairness: they may hang,
  which is what the timeout is for.
* `NetworkFixture!FairSpec`: the main thread, each server thread and each handler
  are scheduled, as the operating system does. `GiveUp` has none: an impatient
  fetcher may, but need not, give up.

* `ReferenceBaseline!FairSpec`: Git answers, and the timer of each profile fires. The
  shell and the BitBake it runs (`AppendProfile`, `Expand`) have no fairness.
* `AnalyzerLane!FairSpec`: Python's own steps, its timers among them, and the
  caller that waits. gcc (`Version`, `Compile`) has none.
* `FixtureMatrices!FairSpec`: commands *without* a timer (git, ar, the version
  queries, gpg's listing) are assumed to answer, and timers fire. npm's installs
  and the network child have no fairness. That `npm --version` has no timer
  (`fetcher_fixture_matrix.py:125`) is a hazard this assumption hides; it is listed.

`EveryRunEnds` (gate and baseline), `FixtureEnds`, `EveryAnalysisEnds` and
`EveryMatrixEnds` are checked under these; no safety property uses fairness. The
linter's loops are finite and wait for nobody, so no run asks whether it ends;
`LintGateProofs` has the bound on its steps.

## 4. Findings

* **`lint_message`**. Every record below the root document without a link is
  refused, active or not (`lint_traceability.py:615`), with the message "active
  child record must have a parent link"; `docs/traceability-process.md:25` also
  speaks of active risks. An inactive, unlinked entry point fails the lint.
* **`manifest_nonobject`**. For JSON that is no object, `validate_manifest` returns
  an error list, but `main` first calls `document.get`, which raises
  `AttributeError`: the user gets a traceback instead of the report.
* **`analyzer_blocks`**. The analyzer's docstring says that findings and errors
  "never fail the primary build/test gate" (`run_openssl_gcc_analyzer.py:6-8`), and
  the gate's option calls the pass non-blocking (`rapid_hardening_checks.py:117`).
  The gate marks the stage failed in every state but `clean` and `findings`
  (`:219`) and exits 1 for any failed stage (`:245`, `:259`): an analyzer that could
  not run blocks it. Findings alone do not, which `GateFollowsLane` shows.

Not violations, but seen in the models and worth knowing: a document directory that
disappears *after* the linter's listing is passed over silently; a manifest can
pass on files that never existed together; with a fetcher that gives up on an
attempt, a handler of case 1 can append to the list of case 2; a matrix report names
a revision that was read after the import, of a checkout whose cleanliness nobody
tests. In each the promise is stated for the undisturbed (or patient) case, and the
hazard's note says so. A program that fails before it has a report
(`rolling_manifest.py` on unreadable JSON or a failing `git`, any program that
times out) leaves the report of an earlier run under `evidence/`, next to a refresh
that failed; no document claims that it is removed, and `EvidenceIsWhatTheRunSaid`
leaves out exactly these stages. A failure in the analyzer's setup leaves the triage summary
at `not-run` beside the state `tool-error`; a failure to remove its temporary
directory turns a concluded analysis into a `tool-error` that keeps its records.

## 5. Proofs

All theorems hold for every value of the constants that satisfies the module's
`ASSUME`, with no bound on edits, deaths, runs, stages or attempts other than the
constants themselves. Each proof module starts from the type invariant, because
the provers need to know the shape of every function before anything else.

* **`TraceabilityLintProofs`** (`DataAssumption`, `LintAssumption`). `TypeCorrect`.
  `ExitIsEarned` is the inductive invariant: while a run goes on there is no exit
  code, and 0 was only returned with no link error and, under the option, no
  warning over the *loaded* records. `StrictPassIsTraced` is not inductive, it
  speaks of the exit code alone; it follows from `ExitInv` by the lemma that no
  warnings and no link errors give a traced chain, level by level: every active
  record with no active child has a decision. `OneDecisionOneWarning` needs only
  types: adding a decision changes neither children nor statuses, so the open
  checks stay the same.
* **`LintGateProofs`** (the same assumptions). `WalkInvariant` has five parts.
  `Listing`: the states the root and the document directories can be in. `Booked`:
  which records the loop has taken, in whose turn, and that `levels` and `findings`
  are theirs. `Walked`: while nobody edits and there is no error, what was loaded is what is on disk up to the
  present place, free of errors and of clashes between any two records. `Agreed`:
  a tree sound as a whole gives no error, which is the other direction and does not
  follow from `Walked`. `AllLoaded` is what remains at the end. `NoneSkipped` and
  `LinterImplementsGate` follow. `HeldInvariant` (what a file holds now is in `held`;
  every decision of a record done with cites something held) gives
  `DecisionsWereHeld`. `RetiringIsLocal` compares two record maps; of the
  invariant it needs only that no link error was found. `ExitIsTheTreesVerdict` says
  what the refinement is worth: `LintGate` itself implies that the exit code stays the
  tree's verdict until the next edit (`GateIsTruthful`), so the linter has it too.
  With `NoneSkipped`, `StrictPass` moves from the records that were loaded to the tree
  on disk: `StrictPassIsOfTheTree`.
* **`RapidChecksProofs`** (`RapidAssumption`; for the last theorem `OrderAssumption`). `RunInvariant`: per run, one verdict
  and one report per judged stage, a `passed` verdict only where the run's own
  child reported `pass`, and exit 0 only for a full list of passes. Nothing in it
  mentions `evidence/`, which is why other runs and orphans cannot disturb it:
  `PassIsHonest` follows. The comparison with the artifact may wrongly fail a
  run that is raced; it cannot wrongly pass one, since the child's own output has
  to be acceptable too. `GateImplementsContract`
  maps `Begin`, `JudgeNext`, `End` and `Die` of `GateContract` to the runner's
  steps; everything else stutters. `RefreshInv` is about `evidence/`: a runner that
  waits has a child for its current stage and target, nobody else has a child, and
  an undisturbed refresh keeps, for every stage that lived to its report, what that
  stage said; a stage occurs once in the list, so no later one overwrites it.
  `RefreshLeavesItsOwn` follows; with `RunInvariant` it gives
  `RefreshLeavesGoodEvidence`, that a refresh which passed leaves passing reports.
  `EvidenceIsLeftAlone` is the fact that every writer is such a child or an orphan.
  `StaleEvidenceIsRepaired` needs to know how far a refresh has come: `RepairInv` says
  that an undisturbed one on unedited inputs in which no stage crashed has passed every
  stage so far, and that its present child, once it looked at what it reads, is bound to
  pass and has its own report in place when it exits. The child reads good reports because
  `RefreshInv` keeps those of the stages passed and `OrderAssumption` makes them
  earlier stages: `main` runs the tests, which read a report, after the stages
  that write one (`:162-227`). Without that order the theorem is false.
* **`NetworkFixtureProofs`** (`TriesAssumption`). `FixtureInvariant` is the
  conjunction of nine parts. The heart is `OneAttempt`, `Settled` and `Logged`: a
  patient fetcher makes one attempt per case and has its answer before the case
  goes on; a handler answers only after it logged; so the list bound is still the
  case's own when it logs, and no handler is left when the list is rebound. A count
  of 0 in case 2 (`Offline`) then means no connection. `VerdictIsEarned`,
  `NeverAccused` and `OwnRequests` follow. `TypeCorrect` needs one more part, `Lists`,
  that no request is in both lists, and the cardinality of sets of attempts, for its
  bound on the counts.
* **`RollingManifestProofs`** (`RollingAssumption`). `ValidationInvariant` has four
  parts beside the types. `Work`: a validation under way has found every error of
  its document, and each file it is done with matched while it was held, or left an
  error. `Passed` and `Kept`: what that gives when it ends; `Kept` says that an
  accepted candidate is what its digest says, which makes `DigestIsIdentity` a
  matter of equality. `Undisturbed`: without an edit, the errors are exactly those
  of the document as it is on disk and of the files looked at so far. With the lemma
  that a document has no errors exactly when the declarative
  `wellFormed /\ OneRevision /\ Promotion /\ Frozen` holds,
  `ValidatorImplementsGate` follows, and from it, as for the linter,
  `ExitIsTheManifestsVerdict`.
  `DispositionMatches` adds what the CVE fixture knows: `StillThere`, that a document
  which passed is the one on disk while nobody edits, frozen over the files on disk,
  and `Agreed`, that the claim it accepted is that document's digest.
* **`ReferenceBaselineProofs`** (`BaselineAssumption`). `PassIsOfTheGiven` needs
  `Pending` (a profile not yet expanded is blocked) and `Pinned` (components checked
  so far are pinned while nobody moves them); it holds for disturbed checkouts.
  For the refinement the invariant also has `AtCommit` (undisturbed, the tree is
  that of the revision read) and `Recorded` (hashes, and what BitBake was given, are
  those of the tree). `EvidenceIsKept` and `BaselineImplementsClaim` follow; of the
  claim's actions `Open` is `Save`, `Certify` is `Fill`, and `Stop` every other end.
  Only `Certify` ends a run in 0, which gives `PassIsOfTheCommit`.
* **`AnalyzerLaneProofs`** (`AnalyzerAssumption`). `LaneInv`: the report in hand is
  `Earned` at every moment, not only when written (`KnowsReport`); where an archive
  was identified, only a later replacement makes what is unpacked another one
  (`KnowsArchive`); and what the gate concluded stays true of the last run
  (`Judged`). `ReportsAreEarned` and `GateIsEarned` follow. `DecidedByOperator` has
  its own invariant, `Worded`, on the words of triage records.
* **`FixtureMatricesProofs`** (`MatrixAssumption`). The lists are fixed, so the proofs
  first say what stands where. `LifecycleIsReported` rests on `Unmarked` (before a
  mode's own install there is no marker, and an approval is recorded as it was
  given) and `Prepared` (what the bootstrap and its removal leave). For
  `ReportsAreAttributed`, `InProgress` says case by case that exactly the cases behind
  the present place have been seen, through the modules held, and, in checkouts
  that were clean and left alone, of the code the label names.

Progress. That a run ends is a liveness property, and TLC checks it; `ENABLED`, and
with it weak fairness, is out of the prover's reach. What the properties rest on
is not, and is proved for every value of the constants. Each of six proof modules
defines `StepsLeft`, a bound on the own steps still before a run, and `CanGoOn` (in
the fixture `SomebodyCan`), the disjunction of the guards of the actions that
`FairSpec` is fair to, or of the linter's steps, written as a state predicate.

| module | a run never sticks | at most | every step counts |
|---|---|---|---|
| `LintGateProofs` | `NoRunIsStuck` | 2 per record, and 6 | `EveryStepCounts` |
| `RapidChecksProofs` | `NoRunIsStuck` | `2 N + 2` | `EveryStepCounts` |
| `ReferenceBaselineProofs` | `NoRunIsStuck` | 1 per input, 2 per component and profile, and 4 | `EveryStepCounts` |
| `AnalyzerLaneProofs` | `NoAnalysisIsStuck` | 10 | `EveryStepCounts` |
| `FixtureMatricesProofs` | `NoMatrixIsStuck` | 56 | `EveryStepCounts` |
| `NetworkFixtureProofs` | `NoThreadIsMissed` | `12 Tries + 19` | `EveryStepCounts` |

The first theorem says that a run under way satisfies `CanGoOn`, the second that
each of its own steps, its children's where the model has them as its own, makes
`StepsLeft` smaller, and that nothing but a new start makes it larger: no edit, no
death and no other run. What is left to
TLC is the rule that a fair action which stays enabled is taken. That `CanGoOn` is
what enables those actions is read off their guards (TLC, which evaluates `ENABLED`, finds
that it does in every state of the runs' instances). In the fixture there is
more than one thread: `NoThreadIsMissed` shows that before the verdict some thread
can always move, with the main thread in `shutdown` and the serving thread in its
loop among the cases, and never by a fetcher giving up, to which nobody is fair;
its count covers the steps of all threads together, so none can go round for
ever (a fetcher that retries has `Tries` attempts).

Only model-checked: the five liveness properties themselves. Every safety
invariant, action property and refinement of the passing runs is a theorem. The
properties of the runs that expect a violation are refuted by TLC.

## 6. Not modelled

* Wording of messages, JSON layout, field syntax: folded into `wellFormed`.
* The field rules of `cve_disposition_fixture.py` and
  `runtime_containment_fixture.py`: each is a check of one field of one record or unit,
  without state or order. The digest the CVE fixture shares with the manifest is in
  `RollingManifest`, and the `main` of both, as children of the gate, in `RapidChecks`.
* The Git commands of the exact-SHA replay: they work in a private temporary directory
  and pass, fail or hang, which is what the gate's model of a stage has. What Git
  does is external.
* What BitBake, npm, gpg, gcc and `systemd-analyze` find out: the models have which
  outcomes are possible and to which input they are attributed.
* `.github/workflows/traceability.yml`: a list of commands, each on a checkout of its
  own; a cancelled job is the death of a run, which gate, analyzer and baseline
  have. No two of its jobs share state.
* Processes started by a stage's child (the unit tests' own children): they write to
  temporary directories only. A timeout kills the direct child only, and what it
  started may go on there.
* Records, evidence and documents are data; the models take any.

## 7. Order of the work, and what is left

The modules were written in the order of what a wrong pass would cost: linter, gate,
manifest validator with the CVE digest link, network fixture; then the baseline, the
analyzer lane and the matrices. For each: the detailed specification, its runs,
then an abstract specification where there is something to refine to, then the
type invariant, the safety invariants and the refinement as theorems, and what keeps
its runs from sticking.

Left, and worth doing if the code grows there:

1. Edits between the file reads of one record in the linter, which are now before or
   after all of them.
2. One checkout shared by gate and baseline in one module. `ReferenceBaseline` has a
   refreshing gate as one of its editors, so the interaction is covered there; a
   composition would pay off once the two run concurrently.
