-------------------------- MODULE TraceabilityLint --------------------------
(***************************************************************************)
(* scripts/lint_traceability.py as it runs: it lists the directories, walks *)
(* the documents from requirements to verification, and in each loads one   *)
(* record at a time and validates it against the files it names; only then  *)
(* come the link phase and the completeness warnings, over what was loaded. *)
(* Nothing locks the tree, so a maintainer's edit (or a checkout) may fall  *)
(* between any two of these reads.                                          *)
(*                                                                         *)
(* `edits` counts the changes to the tree; MaxEdits bounds it.  `dirty` and *)
(* `held` are history: they record what happened and decide nothing.        *)
(***************************************************************************)
EXTENDS TraceabilityModel

CONSTANTS
    Variants,   \* per UID: what an edit may leave in its file
    Variants0,  \* per UID: what its file holds at first
    Content0,   \* per file: what it holds at first
    MaxEdits,   \* bound on the changes to the tree
    NoUid       \* no record is being validated

ASSUME LintAssumption ==
    /\ Variants \in [Uid -> SUBSET (Item \cup {NoFile, NotYaml})]
    /\ Variants0 \in [Uid -> Item \cup {NoFile, NotYaml}]
    /\ Content0 \in [File -> Content \cup {NoFile}]
    /\ MaxEdits \in Nat
    /\ NoUid \notin Uid
    /\ "root" \notin Dirs

VARIABLES
    (* the tree *)
    items, config, content, edits,
    (* the linter's process *)
    running,   \* main() is executing
    strict,    \* args.strict_completeness
    at,        \* rank of the next document of the loop; 6 after the last
    queue,     \* UIDs of the current document's glob still to be loaded
    reading,   \* the record loaded and not yet validated
    records,   \* records[dirname][uid]
    levels,    \* keys of seen_levels
    findings,  \* keys of finding_ids
    errors,    \* the errors list: <<where, which complaint>>
    warnings,  \* the warnings list: <<UID, check>>
    closed,    \* the CLOSURE lines printed: <<UID, check>>
    exit,      \* the process' exit code, -1 while it has none
    (* history *)
    dirty,     \* the tree changed since the run began
    held       \* per file: the contents it has had since the run began

tree == <<items, config, content, edits>>
scan == <<at, queue, reading, records, levels, findings, errors>>
result == <<warnings, closed, exit>>
vars == <<tree, running, strict, scan, result, dirty, held>>

ConfigState == {"ok", "wrong", "unreadable", "missing"}
RootState == {"ok", "extra", "missing"}
ErrorKinds == {"schema", "level", "finding", "reference", "closure", "yaml",
               "link", "parentless", "config", "missing", "extra"}

TypeOK ==
    /\ items \in [Uid -> Item \cup {NoFile, NotYaml}]
    /\ config \in [Dirs \cup {"root"} -> ConfigState \cup RootState]
    /\ content \in [File -> Content \cup {NoFile}]
    /\ edits \in 0..MaxEdits
    /\ running \in BOOLEAN /\ strict \in BOOLEAN /\ dirty \in BOOLEAN
    /\ at \in 1..6
    /\ queue \subseteq Uid
    /\ reading \in Loaded(records) \cup {NoUid}
    /\ records \in [Uid -> Item \cup {NoFile}]
    /\ levels \subseteq Level
    /\ findings \subseteq Finding
    /\ errors \subseteq (Uid \cup Dirs \cup {"root"}) \X ErrorKinds
    /\ warnings \subseteq Uid \X Checks
    /\ closed \subseteq Uid \X Checks
    /\ exit \in {-1, 0, 1, 2}
    /\ held \in [File -> SUBSET (Content \cup {NoFile})]

Init ==
    /\ items = Variants0 /\ content = Content0
    /\ config = [d \in Dirs \cup {"root"} |-> "ok"]
    /\ edits = 0
    /\ running = FALSE /\ strict = FALSE
    /\ at = 6 /\ queue = {} /\ reading = NoUid
    /\ records = [u \in Uid |-> NoFile]
    /\ levels = {} /\ findings = {} /\ errors = {}
    /\ warnings = {} /\ closed = {} /\ exit = -1
    /\ dirty = FALSE /\ held = [f \in File |-> {}]

-----------------------------------------------------------------------------
(* The maintainer.                                                          *)
Touch ==
    /\ edits < MaxEdits
    /\ edits' = edits + 1
    /\ dirty' = TRUE
    /\ UNCHANGED <<running, strict, scan, result>>

EditItem ==
    /\ Touch
    /\ \E u \in Uid : \E i \in Variants[u] \ {items[u]} :
        items' = [items EXCEPT ![u] = i]
    /\ UNCHANGED <<config, content, held>>

EditConfig ==
    /\ Touch
    /\ \/ \E d \in Dirs : \E s \in ConfigState \ {config[d]} :
            config' = [config EXCEPT ![d] = s]
       \/ \E s \in RootState \ {config["root"]} :
            config' = [config EXCEPT !["root"] = s]
    /\ UNCHANGED <<items, content, held>>

EditContent ==
    /\ Touch
    /\ \E f \in File : \E c \in (Content \cup {NoFile}) \ {content[f]} :
        /\ content' = [content EXCEPT ![f] = c]
        /\ held' = [held EXCEPT ![f] = IF running THEN @ \cup {c} ELSE @]
    /\ UNCHANGED <<items, config>>

-----------------------------------------------------------------------------
(* The linter.                                                              *)
DirThere(d) == config["root"] # "missing" /\ config[d] # "missing"

(* Launch, and the directory listing main() starts with.  Without the root  *)
(* it reports at once: the loop over the documents is skipped.              *)
Start ==
    /\ ~running
    /\ running' = TRUE /\ strict' \in BOOLEAN
    /\ at' = IF config["root"] = "missing" THEN 6 ELSE 1
    /\ queue' = {} /\ reading' = NoUid
    /\ records' = [u \in Uid |-> NoFile]
    /\ levels' = {} /\ findings' = {}
    /\ errors' = IF config["root"] = "missing" THEN {<<"root", "missing">>}
                 ELSE {<<d, "missing">> : d \in {d \in Dirs : ~DirThere(d)}} \cup
                      {<<r, "extra">> : r \in {r \in {"root"} : config[r] = "extra"}}
    /\ warnings' = {} /\ closed' = {} /\ exit' = -1
    /\ dirty' = FALSE /\ held' = [f \in File |-> {content[f]}]
    /\ UNCHANGED tree

(* The loop's next document: its .doorstop.yml, then the glob of its items. *)
(* A directory that is gone is passed over without a complaint here, and an *)
(* unreadable configuration skips the document's records.  seen_levels      *)
(* starts empty for each document, finding_ids is shared by all of them.    *)
LevelsAtOpen_Shared == levels
LevelsAtOpen == {}

OpenDir ==
    /\ running /\ queue = {} /\ reading = NoUid
    /\ \E d \in Dirs :
        /\ Rank[d] = at
        /\ queue' = IF DirThere(d) /\ config[d] # "unreadable"
                    THEN {u \in Uid : DirOf[u] = d /\ items[u] # NoFile} ELSE {}
        /\ errors' = IF DirThere(d) /\ config[d] # "ok"
                     THEN errors \cup {<<d, "config">>} ELSE errors
    /\ at' = at + 1
    /\ levels' = LevelsAtOpen
    /\ UNCHANGED <<tree, running, strict, reading, records, findings, result,
                   dirty, held>>

(* load_yaml of one record; it may have gone or broken since the glob.  The *)
(* loop goes on to the next record either way.                              *)
Unloadable(u) == items[u] \in {NoFile, NotYaml} \/ ~DirThere(DirOf[u])

LoadErrors_Silent(u) == {}
LoadErrors(u) == IF Unloadable(u) THEN {<<u, "yaml">>} ELSE {}

ReadItem ==
    /\ running /\ reading = NoUid
    /\ \E u \in queue :
        /\ queue' = queue \ {u}
        /\ errors' = errors \cup LoadErrors(u)
        /\ IF Unloadable(u) THEN UNCHANGED <<reading, records>>
           ELSE reading' = u /\ records' = [records EXCEPT ![u] = items[u]]
    /\ UNCHANGED <<tree, running, strict, at, levels, findings, result, dirty,
                   held>>

FindingOf_Always(i) == {i.finding}   \* a record without the field gets the key None
FindingOf(i) == {i.finding} \cap Finding

(* The rest of the loop body: the record's own fields, and the files its    *)
(* references and decisions name, as they are at this moment.               *)
ValidateItem ==
    /\ running /\ reading # NoUid
    /\ LET i == records[reading] IN
        /\ errors' = errors \cup ItemErrors(reading, i, content, levels, findings)
        /\ levels' = levels \cup {i.level}
        /\ findings' = findings \cup FindingOf(i)
    /\ reading' = NoUid
    /\ UNCHANGED <<tree, running, strict, at, queue, records, result, dirty, held>>

(* What load_yaml does not catch (a file that is not UTF-8), and the root   *)
(* that goes between is_dir and iterdir, end in a traceback: exit code 1    *)
(* and no report.                                                           *)
Raise ==
    /\ running /\ reading = NoUid
    /\ \/ \E u \in queue : items[u] = NotYaml /\ DirThere(DirOf[u])
       \/ queue = {} /\ \E d \in Dirs :
            Rank[d] = at /\ DirThere(d) /\ config[d] = "unreadable"
       \/ at = 1 /\ config["root"] = "missing"
    /\ running' = FALSE /\ exit' = 1
    /\ UNCHANGED <<tree, strict, scan, warnings, closed, dirty, held>>

(* The two error gates, the completeness warnings and report().             *)
Conclude ==
    /\ running /\ queue = {} /\ reading = NoUid /\ at = 6
    /\ errors' = IF errors # {} THEN errors ELSE LinkErrors(records)
    /\ closed' = IF errors' # {} THEN {} ELSE Closed(records)
    /\ warnings' = IF errors' # {} THEN {} ELSE Warnings(records)
    /\ exit' = IF errors' # {} THEN 1
               ELSE IF strict /\ warnings' # {} THEN 2 ELSE 0
    /\ running' = FALSE
    /\ UNCHANGED <<tree, strict, at, queue, reading, records, levels, findings,
                   dirty, held>>

-----------------------------------------------------------------------------
Maintain == EditItem \/ EditConfig \/ EditContent
Lint == OpenDir \/ ReadItem \/ ValidateItem \/ Raise \/ Conclude

Next == Maintain \/ Start \/ Lint

Spec == Init /\ [][Next]_vars

(* The checklist's normal use: nobody edits the tree while the linter runs. *)
QuietNext == (~running /\ Maintain) \/ Start \/ Lint

QuietSpec == Init /\ [][QuietNext]_vars

-----------------------------------------------------------------------------
Gate == INSTANCE LintGate WITH judging <- running

(* The walk over the tree implements the promise of the gate: the verdict   *)
(* of a run that nothing disturbed is the verdict on the tree as a whole,   *)
(* whatever was read first and whichever of two clashing records was seen   *)
(* first (main, lint_traceability.py:451-697).                              *)
ImplementsGate == Gate!Spec

(* `--strict-completeness` ending in 0 means the chain is really there: for *)
(* every active requirement loaded, going down from it through active       *)
(* records only, either each of the four levels below has a record or an    *)
(* owner closed the missing child above the gap; and everything met on the  *)
(* way is settled or its check was closed by an owner (:634-671).           *)
Step(recs, S) ==
    {k \in Uid : recs[k] # NoFile /\ recs[k].active /\ recs[k].links \cap S # {}}

Below(recs, u) ==
    LET ep == Step(recs, {u})
        risk == Step(recs, ep)
        ctrl == Step(recs, risk)
        ver == Step(recs, ctrl)
    IN  [entrypoints |-> ep, risks |-> risk, controls |-> ctrl,
         verification |-> ver, requirements |-> {u}]

HasDecision(recs, u, c) == \E d \in recs[u].closures : d.check = c

Traced(recs, u) ==
    LET below == Below(recs, u)
    IN  /\ \/ below["verification"] # {}
           \/ \E dir \in Dirs : \E v \in below[dir] :
                HasDecision(recs, v, "missing-child")
        /\ \A v \in below["entrypoints"] :
              \/ /\ recs[v].status = "covered"
                 /\ recs[v].disposition \notin {"gap", "hypothesis", "unverified"}
              \/ HasDecision(recs, v, "entrypoint-coverage")
        /\ \A v \in below["risks"] :
              \/ recs[v].status \in StrongEvidence
              \/ HasDecision(recs, v, "risk-evidence")
        /\ \A v \in below["verification"] :
              recs[v].status = "passed" \/ HasDecision(recs, v, "verification-result")

StrictPassIsTraced ==
    exit = 0 /\ strict =>
        \A u \in ActiveIn(records) : RankOf(u) = 1 => Traced(records, u)

(* An owner's decision hides the one warning it names and no other, on any  *)
(* record: adding a decision for check c to a loaded record u removes       *)
(* exactly <<u, c>> from the warnings (completeness(), :621-632;            *)
(* docs/traceability-process.md:85).                                        *)
WithDecision(recs, u, d) == [recs EXCEPT ![u].closures = @ \cup {d}]

ClosureSuppressesOnlyItself ==
    exit \in {0, 2} =>
        \A u \in Loaded(records), c \in Checks :
            \A d \in {[check |-> c, file |-> f, digest |-> x] :
                        f \in File, x \in Content} :
                Warnings(WithDecision(records, u, d)) = Warnings(records) \ {<<u, c>>}

(* Retiring a record silences nobody else: with `active` set to FALSE only  *)
(* its own warnings go, and each active parent whose last active child it   *)
(* was gains its missing-child warning, unless an owner closed that (:634). *)
Retired(recs, u) == [recs EXCEPT ![u].active = FALSE]

Bereft(recs, u) ==
    {p \in recs[u].links :
        /\ recs[p].active /\ ~HasDecision(recs, p, "missing-child")
        /\ Step(recs, {p}) \subseteq {u}}

RetiringHidesOnlyItself ==
    exit \in {0, 2} =>
        \A u \in Loaded(records) :
            Warnings(Retired(records, u)) =
                (Warnings(records) \ ({u} \X Checks)) \cup
                    {<<p, "missing-child">> : p \in Bereft(records, u)}

(* Every decision a run applied was, at some moment of that run, the        *)
(* decision of a file with exactly the recorded digest, even when the file  *)
(* was edited while the run went on (validate_closures, :432-444).          *)
AppliedDecisionsWereHeld ==
    exit \in {0, 2} =>
        \A p \in closed : \E d \in records[p[1]].closures :
            d.check = p[2] /\ d.digest \in held[d.file]

(* After a run nothing disturbed ended in 0 or 2, the records its warnings  *)
(* are about are the records on disk, all of them: none was skipped and     *)
(* none was read in an older form.                                          *)
NothingSkipped ==
    exit \in {0, 2} /\ ~dirty => records = items

(* report() says "active child record must have a parent link"              *)
(* (lint_traceability.py:616): read as the rule it states, no inactive      *)
(* record is ever refused for having none.                                  *)
OnlyActiveNeedAParent ==
    \A u \in Uid : <<u, "parentless">> \in errors => records[u].active
=============================================================================
