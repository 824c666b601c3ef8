------------------------- MODULE TraceabilityModel -------------------------
(***************************************************************************)
(* The data of the traceability sidecar (traceability/<document>/<UID>.yml) *)
(* and the rules scripts/lint_traceability.py judges it by, as operators on *)
(* a function from UIDs to the records that were loaded.  Nothing here has  *)
(* state: TraceabilityLint reads the tree record by record and applies the  *)
(* rules to what it read; LintGate applies them to the tree itself.         *)
(*                                                                         *)
(* What a rule only says about one field of one record (required keys, enum *)
(* membership, date syntax, a link or a decision listed twice, ...) is      *)
(* folded into the record's `wellFormed`; links and decisions are sets.     *)
(***************************************************************************)
EXTENDS Integers, FiniteSets

CONSTANTS
    Uid,        \* the UIDs in play, as file stems ("REQ001")
    DirOf,      \* the document directory each of them lives in
    File,       \* repository-local files a record may refer to
    Content,    \* what such a file may hold
    Lines,      \* how many lines each content has
    Level,      \* values of the `level` field
    Finding,    \* values of the `finding_id` field of a risk
    NoFinding,  \* a record without that field
    NoFile,     \* there is no such file
    NotYaml     \* a file load_yaml rejects

(***************************************************************************)
(* The five documents and their chain: a document's parent is the one whose *)
(* rank is one lower.                                                       *)
(***************************************************************************)
Rank == [requirements |-> 1, entrypoints |-> 2, risks |-> 3, controls |-> 4,
         verification |-> 5]

Dirs == {"requirements", "entrypoints", "risks", "controls", "verification"}

RankOf(u) == Rank[DirOf[u]]

(* COMPLETENESS_CHECKS: the warnings an owner may close in each document.   *)
StateCheck == [entrypoints |-> "entrypoint-coverage", risks |-> "risk-evidence",
               verification |-> "verification-result"]

Applicable == [d \in Dirs |->
    (IF d = "verification" THEN {} ELSE {"missing-child"}) \cup
    (IF d \in DOMAIN StateCheck THEN {StateCheck[d]} ELSE {})]

Checks == {"missing-child", "entrypoint-coverage", "risk-evidence",
           "verification-result"}

(***************************************************************************)
(* Records.  `status` is the one field of the document that completeness    *)
(* looks at: an entry point's status, a risk's evidence_class, a            *)
(* verification record's verification_status.  A decision carries the       *)
(* digest of the file it cites; SHA-256 is taken to be injective, so the    *)
(* digest of a content is the content.                                      *)
(***************************************************************************)
Status == {"covered", "partial",
           "fixture-confirmed", "end-to-end", "product-verified",
           "deployment-verified", "source-confirmed", "hypothesis",
           "passed", "planned", "blocked", "n/a"}

Disposition == {"trust-contract", "finding", "control", "gap", "hypothesis",
                "unverified", "n/a"}

StrongEvidence == {"fixture-confirmed", "end-to-end", "product-verified",
                   "deployment-verified"}

Ref == [file : File, ranged : BOOLEAN, from : Nat, to : Nat]

Decision == [check : Checks, file : File, digest : Content]

Item == [wellFormed : BOOLEAN, level : Level, finding : Finding \cup {NoFinding},
         active : BOOLEAN, links : SUBSET Uid, status : Status,
         disposition : Disposition, refs : SUBSET Ref,
         closures : SUBSET Decision]

Loaded(recs) == {u \in Uid : recs[u] # NoFile}

ASSUME DataAssumption ==
    /\ IsFiniteSet(Uid)
    /\ DirOf \in [Uid -> Dirs]
    /\ Lines \in [Content -> Nat]
    /\ NoFile \notin Content
    /\ NoFile \notin Item
    /\ NotYaml \notin Item
    /\ NoFile # NotYaml
    /\ NoFinding \notin Finding

-----------------------------------------------------------------------------
(* What validate_local_reference accepts while the files hold `disk`.       *)
RefHolds(r, disk) ==
    /\ disk[r.file] # NoFile
    /\ r.ranged => /\ 1 <= r.from /\ r.from <= r.to
                   /\ r.to <= Lines[disk[r.file]]

(* What validate_closures accepts: an applicable check, at most one decision *)
(* for it, and a decision file that still has the digest the owner recorded. *)
DecisionHolds_NoDigest(u, d, disk) ==
    d.check \in Applicable[DirOf[u]] /\ disk[d.file] # NoFile

DecisionHolds(u, d, disk) ==
    /\ d.check \in Applicable[DirOf[u]]
    /\ disk[d.file] = d.digest

(* Of two decisions on one check the second is an error; two that are equal *)
(* are one member here and leave the record not well formed.                *)
OneDecisionPerCheck(i) ==
    \A d, e \in i.closures : d.check = e.check => d = e

(* The complaints about record `i` of UID u that its own file and the files  *)
(* it names decide, given the levels its document and the finding_ids all    *)
(* documents have used before it.                                            *)
Wrong(u, i, disk, levels, findings) ==
    [schema    |-> ~i.wellFormed,
     level     |-> i.level \in levels,
     finding   |-> i.finding \in findings,
     reference |-> \E r \in i.refs : ~RefHolds(r, disk),
     closure   |-> \/ \E d \in i.closures : ~DecisionHolds(u, d, disk)
                   \/ ~OneDecisionPerCheck(i)]

ItemErrors(u, i, disk, levels, findings) ==
    LET wrong == Wrong(u, i, disk, levels, findings)
    IN  {<<u, m>> : m \in {m \in DOMAIN wrong : wrong[m]}}

(* Link phase: every link must name a loaded record of the parent document; *)
(* requirements have none and every other record has one.                    *)
LinkErrors(recs) ==
    {<<u, "link">> : u \in
        {u \in Loaded(recs) : \E t \in recs[u].links :
            recs[t] = NoFile \/ RankOf(t) # RankOf(u) - 1}} \cup
    {<<u, "parentless">> :
        u \in {u \in Loaded(recs) : RankOf(u) > 1 /\ recs[u].links = {}}}

-----------------------------------------------------------------------------
(* Completeness.  Only an active record opens checks, and only an active    *)
(* child answers "missing-child".                                           *)
ActiveIn(recs) == {u \in Loaded(recs) : recs[u].active}

KidsOf_Inactive(recs, u) ==
    {k \in Loaded(recs) : RankOf(k) = RankOf(u) + 1 /\ u \in recs[k].links}

KidsOf(recs, u) ==
    {k \in ActiveIn(recs) : RankOf(k) = RankOf(u) + 1 /\ u \in recs[k].links}

Settled(u, i) ==
    /\ DirOf[u] = "entrypoints" =>
         /\ i.status = "covered"
         /\ i.disposition \notin {"gap", "hypothesis", "unverified"}
    /\ DirOf[u] = "risks" => i.status \in StrongEvidence
    /\ DirOf[u] = "verification" => i.status = "passed"

OpenChecks(recs) ==
    {<<u, "missing-child">> : u \in
        {u \in ActiveIn(recs) : RankOf(u) < 5 /\ KidsOf(recs, u) = {}}} \cup
    {<<u, StateCheck[DirOf[u]]>> : u \in
        {u \in ActiveIn(recs) : ~Settled(u, recs[u])}}

(* completeness(): a decision answers the named check of its own record.    *)
Decided_AnyRecord(recs, u, c) ==
    \E v \in Loaded(recs) : \E d \in recs[v].closures : d.check = c

Decided(recs, u, c) == \E d \in recs[u].closures : d.check = c

Closed(recs) == {p \in OpenChecks(recs) : Decided(recs, p[1], p[2])}

Warnings(recs) == {p \in OpenChecks(recs) : ~Decided(recs, p[1], p[2])}
=============================================================================
