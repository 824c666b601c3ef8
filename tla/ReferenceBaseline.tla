-------------------------- MODULE ReferenceBaseline --------------------------
(***************************************************************************)
(* scripts/reference_baseline.py: a run records the revision and the        *)
(* cleanliness of the checkout it is part of, hashes its inputs, checks the *)
(* two upstream checkouts, and then lets BitBake expand the profiles one    *)
(* after the other, minutes later.  The report goes where --output says,    *)
(* which may be a tracked file of the same checkout.  Meanwhile a           *)
(* maintainer, or a gate that refreshes evidence/, may change the checkout, *)
(* and the upstream checkouts may be moved.                                 *)
(*                                                                         *)
(* MaxEdits bounds the changes, MaxDeaths the runs that are killed.         *)
(* `given`, `disturbed` and `moved` are history and decide nothing.         *)
(***************************************************************************)
EXTENDS Integers, Sequences

CONSTANTS
    Path,           \* the checkout's files
    InputList,      \* PROVENANCE_INPUTS, then the generator itself
    ProfileList,    \* the profiles, each named by its file
    ComponentList,  \* the upstream checkouts
    Version,        \* contents of a file
    Gone,           \* ... or there is none
    Drafts,         \* per file: the contents it may be given
    Variable,       \* REPORT_VARIABLES
    Value, Unset,   \* what a variable may be
    Foreign,        \* the value the caller's environment has for some
    Yields,         \* per content: the variables after expansion
    Expected,       \* EXPECTED_VARIABLES
    MaxEdits, MaxDeaths

Input == {InputList[n] : n \in 1..Len(InputList)}
Profile == {ProfileList[n] : n \in 1..Len(ProfileList)}
Component == {ComponentList[n] : n \in 1..Len(ComponentList)}
Distinct(list) ==
    \A m, n \in 1..Len(list) : list[m] = list[n] => m = n

ASSUME BaselineAssumption ==
    /\ InputList \in Seq(Path) /\ InputList # <<>> /\ Distinct(InputList)
    /\ ProfileList \in Seq(Input) /\ ProfileList # <<>> /\ Distinct(ProfileList)
    /\ ComponentList \in Seq(Component) /\ ComponentList # <<>> /\ Distinct(ComponentList)
    /\ Gone \notin Version /\ Drafts \in [Path -> SUBSET (Version \cup {Gone})]
    /\ Unset \notin Value /\ Foreign \in Value
    /\ Yields \in [Version -> [Variable -> Value \cup {Unset}]]
    /\ Expected \in [Profile -> [Variable -> Value \cup {Unset}]]
    /\ MaxEdits \in Nat /\ MaxDeaths \in Nat

VARIABLES
    tree, report, commits,  \* the checkout: files, tracked report, commits made
    component,   \* per upstream checkout: "pinned" and clean, "moved", "dirty"
    outside,     \* the report outside the checkout
    edits, deaths,
    pc, at,      \* the run: where it is, and in which of the lists
    out,         \* where --output is: "inside" the checkout or "outside"
    ambient,     \* variables the caller's environment sets and passes through
    revision, hashes, verdict,  \* what it has found out so far
    appended,    \* what was appended to local.conf for the present profile
    exit,        \* the exit code, -1 while there is none
    (* history *)
    given,       \* per profile: the content BitBake was given
    disturbed,   \* the checkout was changed since the run began
    moved        \* an upstream checkout was

checkout == <<tree, report, commits>>
found == <<revision, hashes, verdict, appended, given>>
vars == <<checkout, component, outside, edits, deaths, pc, at, out, ambient,
          found, exit, disturbed, moved>>

Content == Version \cup {Gone}
Verdict == {"passed", "blocked"}
Report == [kind : {"absent", "empty", "whole"}, revision : Nat,
           hashes : [Input -> Content], verdict : [Profile -> Verdict]]
Commit == [tree : [Path -> Content], report : Report]

NoHashes == [i \in Input |-> Gone]
NoneGiven == [p \in Profile |-> Gone]
NoVerdict == [p \in Profile |-> "blocked"]
Blank(kind) == [kind |-> kind, revision |-> 0, hashes |-> NoHashes,
                verdict |-> NoVerdict]

TypeOK ==
    /\ tree \in [Path -> Content] /\ report \in Report
    /\ commits \in Seq(Commit) /\ Len(commits) > 0
    /\ component \in [Component -> {"pinned", "moved", "dirty"}]
    /\ outside \in Report
    /\ edits \in 0..MaxEdits /\ deaths \in 0..MaxDeaths
    /\ pc \in {"idle", "revision", "status", "inputs", "component",
               "changes", "append", "expand", "save", "fill"}
    /\ at \in Nat
    /\ pc = "inputs" => at \in 1..Len(InputList)
    /\ pc \in {"component", "changes"} => at \in 1..Len(ComponentList)
    /\ pc \in {"append", "expand"} => at \in 1..Len(ProfileList)
    /\ out \in {"inside", "outside"}
    /\ ambient \subseteq Variable
    /\ revision \in Nat /\ hashes \in [Input -> Content]
    /\ verdict \in [Profile -> Verdict]
    /\ appended \in Content /\ given \in [Profile -> Content]
    /\ pc = "expand" => appended \in Version
    /\ exit \in {-1, 0, 1}
    /\ disturbed \in BOOLEAN /\ moved \in BOOLEAN

Init ==
    /\ tree \in [Path -> Version] /\ \A p \in Path : tree[p] \in Drafts[p]
    /\ report = Blank("absent")
    /\ commits = <<[tree |-> tree, report |-> report]>>
    /\ component = [c \in Component |-> "pinned"]
    /\ outside = Blank("absent")
    /\ edits = 0 /\ deaths = 0
    /\ pc = "idle" /\ at = 0 /\ out \in {"inside", "outside"} /\ ambient = {}
    /\ revision = 0 /\ hashes = NoHashes /\ verdict = NoVerdict
    /\ appended = Gone /\ given = NoneGiven
    /\ exit = -1 /\ disturbed = FALSE /\ moved = FALSE

-----------------------------------------------------------------------------
(* The checkouts, in the hands of others.                                   *)
HEAD == commits[Len(commits)]

Running == pc # "idle"

Disturb ==
    /\ edits < MaxEdits /\ edits' = edits + 1
    /\ disturbed' = (disturbed \/ Running)
    /\ UNCHANGED <<component, outside, deaths, pc, at, out, ambient, found, exit, moved>>

Edit ==
    /\ \E p \in Path : \E v \in Drafts[p] \ {tree[p]} : tree' = [tree EXCEPT ![p] = v]
    /\ UNCHANGED <<report, commits>>
    /\ Disturb

MakeCommit ==
    /\ <<tree, report>> # <<HEAD.tree, HEAD.report>>
    /\ commits' = Append(commits, [tree |-> tree, report |-> report])
    /\ UNCHANGED <<tree, report>>
    /\ Disturb

Restore ==
    /\ <<tree, report>> # <<HEAD.tree, HEAD.report>>
    /\ tree' = HEAD.tree /\ report' = HEAD.report
    /\ UNCHANGED commits
    /\ Disturb

Move ==
    /\ edits < MaxEdits /\ edits' = edits + 1
    /\ \E c \in Component : \E x \in {"pinned", "moved", "dirty"} \ {component[c]} :
        component' = [component EXCEPT ![c] = x]
    /\ moved' = (moved \/ Running)
    /\ UNCHANGED <<checkout, outside, deaths, pc, at, out, ambient, found, exit, disturbed>>

-----------------------------------------------------------------------------
(* The run.  Every exception of main() ends in Refuse: a traceback, exit    *)
(* code 1, and no report.                                                   *)
Goto(where, n) == pc' = where /\ at' = n

Refuse == Goto("idle", 0) /\ exit' = 1

Others == <<checkout, component, outside, edits, deaths, out, ambient, disturbed, moved>>

Start ==
    /\ ~Running /\ Goto("revision", 0)
    /\ ambient' \in {{}, Variable}
    /\ revision' = 0 /\ hashes' = NoHashes /\ verdict' = NoVerdict
    /\ appended' = Gone /\ given' = NoneGiven
    /\ exit' = -1 /\ disturbed' = FALSE /\ moved' = FALSE
    /\ UNCHANGED <<checkout, component, outside, edits, deaths, out>>

(* git rev-parse HEAD, then git status --untracked-files=all.               *)
GetRevision ==
    /\ pc = "revision" /\ Goto("status", 0)
    /\ revision' = Len(commits)
    /\ UNCHANGED <<Others, hashes, verdict, appended, given, exit>>

Clean_Tracked == tree = HEAD.tree /\ (report = HEAD.report \/ HEAD.report.kind = "absent")
Clean == tree = HEAD.tree /\ report = HEAD.report

CheckStatus ==
    /\ pc = "status"
    /\ IF Clean THEN Goto("inputs", 1) /\ UNCHANGED exit ELSE Refuse
    /\ UNCHANGED <<Others, found>>

HashInput ==
    /\ pc = "inputs"
    /\ LET i == InputList[at] IN
        IF tree[i] = Gone THEN Refuse /\ UNCHANGED hashes
        ELSE /\ hashes' = [hashes EXCEPT ![i] = tree[i]]
             /\ IF at < Len(InputList) THEN Goto("inputs", at + 1)
                ELSE Goto("component", 1)
             /\ UNCHANGED exit
    /\ UNCHANGED <<Others, revision, verdict, appended, given>>

(* source_revision(): the pinned revision, then a clean checkout.           *)
CheckRevision ==
    /\ pc = "component"
    /\ IF component[ComponentList[at]] = "moved" THEN Refuse
       ELSE Goto("changes", at) /\ UNCHANGED exit
    /\ UNCHANGED <<Others, found>>

Accepts(c) == component[c] # "dirty"

CheckComponent ==
    /\ pc = "changes"
    /\ IF ~Accepts(ComponentList[at]) THEN Refuse
       ELSE /\ IF at < Len(ComponentList) THEN Goto("component", at + 1)
               ELSE Goto("append", 1)
            /\ UNCHANGED exit
    /\ UNCHANGED <<Others, found>>

NextProfile_PastEnd ==
    IF at <= Len(ProfileList) THEN Goto("append", at + 1) ELSE Goto("save", 0)
NextProfile ==
    IF at < Len(ProfileList) THEN Goto("append", at + 1) ELSE Goto("save", 0)

(* run_profile(): the shell appends the profile as it is now to the fresh   *)
(* local.conf; without the file it ends with an error.                      *)
AppendProfile ==
    /\ pc = "append"
    /\ LET p == ProfileList[at] IN
        /\ appended' = tree[p]
        /\ given' = [given EXCEPT ![p] = tree[p]]
        /\ IF tree[p] = Gone THEN NextProfile ELSE Goto("expand", at)
    /\ UNCHANGED <<Others, revision, hashes, verdict, exit>>

(* What BitBake inherits, and what it then makes of the configuration.      *)
(* `bitbake -e` and the parsing of its output are taken to be faithful.     *)
Inherited_All == ambient
Inherited == ambient \ Variable   \* sanitized_environment()

Effective(content) ==
    [v \in Variable |->
        IF Yields[content][v] = Unset /\ v \in Inherited THEN Foreign
        ELSE Yields[content][v]]

Mismatches(p, values) == {v \in Variable : values[v] # Expected[p][v]}

(* The shell ends with 0: the bitbake on the path is the given one, and the *)
(* host lets it parse.  The shell compares the bitbake before it appends    *)
(* the profile; either way the profile is blocked.                          *)
Returns_AnyBitbake(ours, works) == works
Returns(ours, works) == ours /\ works

(* An upstream that is not the pinned one, or another bitbake, may expand   *)
(* the profile to anything.                                                 *)
Expand ==
    /\ pc = "expand"
    /\ \E ours, works, luck \in BOOLEAN :
        LET p == ProfileList[at]
            pinned == ours /\ \A c \in Component : component[c] = "pinned"
            fits == IF pinned THEN Mismatches(p, Effective(appended)) = {} ELSE luck
        IN  verdict' = [verdict EXCEPT ![p] =
                IF Returns(ours, works) /\ fits THEN "passed" ELSE "blocked"]
    /\ NextProfile
    /\ UNCHANGED <<Others, revision, hashes, appended, given, exit>>

(* subprocess.run(timeout=300) raises, and nobody catches it.               *)
Expires_Never == FALSE
Expires == pc \in {"append", "expand"}

Timeout ==
    /\ Expires /\ Refuse
    /\ UNCHANGED <<Others, found>>

(* write_text() empties the file, then fills it.                            *)
Put(x) ==
    /\ report' = IF out = "inside" THEN x ELSE report
    /\ outside' = IF out = "outside" THEN x ELSE outside
    /\ UNCHANGED <<tree, commits, component, edits, deaths, out, ambient, found,
                   disturbed, moved>>

Save ==
    /\ pc = "save" /\ Goto("fill", 0)
    /\ Put(Blank("empty"))
    /\ UNCHANGED exit

Fill ==
    /\ pc = "fill" /\ Goto("idle", 0)
    /\ Put([kind |-> "whole", revision |-> revision, hashes |-> hashes,
            verdict |-> verdict])
    /\ exit' = IF \A p \in Profile : verdict[p] = "passed" THEN 0 ELSE 1

(* OSError of mkdir or write_text, before the file was emptied or after.    *)
WriteFails ==
    /\ pc \in {"save", "fill"} /\ Refuse
    /\ UNCHANGED <<Others, found>>

(* Interrupted, or cancelled by the workflow's own time limit.              *)
Die ==
    /\ Running /\ Goto("idle", 0)
    /\ deaths < MaxDeaths /\ deaths' = deaths + 1
    /\ UNCHANGED <<checkout, component, outside, edits, out, ambient, found, exit,
                   disturbed, moved>>

-----------------------------------------------------------------------------
Child == AppendProfile \/ Expand

Steps ==
    \/ GetRevision \/ CheckStatus \/ HashInput \/ CheckRevision \/ CheckComponent
    \/ Timeout \/ Save \/ Fill \/ WriteFails

Next == Edit \/ MakeCommit \/ Restore \/ Move \/ Start \/ Steps \/ Child \/ Die

Spec == Init /\ [][Next]_vars

(* git's answers come, and the timer of each profile fires; the shell and   *)
(* the BitBake it runs may hang.                                            *)
FairSpec == Spec /\ WF_vars(Steps)

-----------------------------------------------------------------------------
Claim == INSTANCE BaselineClaim WITH
    components <- component, running <- Running, disturbed <- disturbed \/ moved,
    Meets <- [p \in Profile |-> {v \in Version : Yields[v] = Expected[p]}]

(* A report is about the commit it names: a run nobody disturbed writes one *)
(* only in a clean checkout with pinned components, with the commit's own   *)
(* hashes, and passes a profile only if the committed file gives the        *)
(* expected variables, whatever the caller's environment holds and whichever*)
(* bitbake comes first on the path (main, reference_baseline.py:245-293).   *)
ImplementsClaim == Claim!Spec

(* A pass is about what BitBake was given, also when the profile was edited *)
(* after it was hashed: with the upstream checkouts left alone, the content *)
(* appended for a passed profile gives the expected variables (:181-252).   *)
PassedWasGiven ==
    ~moved => \A p \in Profile :
        verdict[p] = "passed" =>
            given[p] \in Version /\ Yields[given[p]] = Expected[p]

(* A report in the checkout is evidence until it is committed: a run that   *)
(* nobody disturbed never writes over one that is not (the cleanliness test *)
(* of analysis_provenance, :122-140, counts untracked files).               *)
KeepsUncommittedReports ==
    [][~disturbed /\ pc = "save" /\ report' # report
         => report = HEAD.report]_vars

(* A run ends, even if BitBake hangs on a profile (:230).                   *)
EveryRunEnds == Running ~> ~Running
=============================================================================
