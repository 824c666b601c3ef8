---------------------------- MODULE BaselineClaim ----------------------------
(***************************************************************************)
(* What a report of the reference baseline claims to whoever reads it: it   *)
(* was made from the commit it names.  A run that nobody disturbed looks at *)
(* one checkout and leaves either no report, or the report of the commit    *)
(* checked out, with a pass only for a profile whose committed file gives   *)
(* the expected variables.  Of a run that somebody disturbed nothing is     *)
(* claimed but that its exit code is that of the report it wrote.           *)
(***************************************************************************)
EXTENDS Integers, Sequences

CONSTANTS
    Input,   \* the files whose content the report records
    Profile, \* ... those of them that are expanded
    Meets    \* Meets[p]: the contents of p that give the expected variables

VARIABLES
    tree, report, commits,  \* the checkout: files, tracked report, history
    outside,                \* a report written outside the checkout
    components,             \* the upstream checkouts: name -> state
    running, disturbed, exit

vars == <<tree, report, commits, outside, components, running, disturbed, exit>>

HEAD == commits[Len(commits)]

Certifiable ==
    /\ tree = HEAD.tree
    /\ report = HEAD.report \/ report.kind = "empty"  \* emptied to be written
    /\ \A c \in DOMAIN components : components[c] = "pinned"

(* The report of the commit checked out with the given verdicts.            *)
ReportOf(verdict) ==
    [kind |-> "whole", revision |-> Len(commits),
     hashes |-> [i \in Input |-> HEAD.tree[i]], verdict |-> verdict]

Honest(verdict) ==
    \A p \in Profile : verdict[p] = "passed" => HEAD.tree[p] \in Meets[p]

Init ==
    /\ commits = <<[tree |-> tree, report |-> report]>>
    /\ running = FALSE /\ disturbed = FALSE /\ exit = -1

(* Anyone may do anything to the checkouts; what is committed stays.        *)
Maintain ==
    /\ disturbed' = (disturbed \/ running)
    /\ commits' = commits \/ commits' = Append(commits, [tree |-> tree, report |-> report])
    /\ UNCHANGED <<outside, running, exit>>

Begin ==
    /\ ~running /\ running' = TRUE
    /\ disturbed' = FALSE /\ exit' = -1
    /\ UNCHANGED <<tree, report, commits, outside, components>>

(* A file that will hold the report is emptied, or is given the report.     *)
Write(x) ==
    \/ report' = x /\ UNCHANGED outside
    \/ outside' = x /\ UNCHANGED report

Open ==
    /\ running
    /\ ~disturbed => Certifiable
    /\ \E x \in {report', outside'} : x.kind = "empty" /\ Write(x)
    /\ UNCHANGED <<tree, commits, components, running, disturbed, exit>>

Certify ==
    /\ running /\ running' = FALSE
    /\ \E x \in {report', outside'} :
        /\ x.kind = "whole" /\ Write(x)
        /\ ~disturbed => Certifiable /\ Honest(x.verdict) /\ x = ReportOf(x.verdict)
        /\ exit' = IF \A p \in Profile : x.verdict[p] = "passed" THEN 0 ELSE 1
    /\ UNCHANGED <<tree, commits, components, disturbed>>

(* Refused, timed out, killed or unable to write: no exit code 0 and no     *)
(* whole report.                                                            *)
Stop ==
    /\ running /\ running' = FALSE
    /\ exit' \in {-1, 1}
    /\ UNCHANGED <<tree, report, commits, outside, components, disturbed>>

Next == Maintain \/ Begin \/ Open \/ Certify \/ Stop

Spec == Init /\ [][Next]_vars
=============================================================================
