----------------------- MODULE TraceabilityLintProofs -----------------------
(***************************************************************************)
(* Proofs about the linter, for any sidecar, any edits and any number of    *)
(* them.                                                                    *)
(***************************************************************************)
EXTENDS TraceabilityLint, TLAPS

Recs == [Uid -> Item \cup {NoFile}]

-----------------------------------------------------------------------------
(* Every complaint about a record names that record and a known complaint   *)
(* (the loop body, lint_traceability.py:526-584).                           *)
LEMMA ItemErrorsType ==
    ASSUME NEW u \in Uid, NEW i, NEW disk, NEW L, NEW F
    PROVE  ItemErrors(u, i, disk, L, F) \subseteq Uid \X ErrorKinds
<1> DEFINE wrong == Wrong(u, i, disk, L, F)
<1>1. DOMAIN wrong = {"schema", "level", "finding", "reference", "closure"}
  BY DEF Wrong
<1>2. DOMAIN wrong \subseteq ErrorKinds
  BY <1>1 DEF ErrorKinds
<1> QED BY <1>2 DEF ItemErrors

(* The link phase complains about loaded records only (:590-616).           *)
LEMMA LinkErrorsType ==
    ASSUME NEW recs
    PROVE  LinkErrors(recs) \subseteq Uid \X ErrorKinds
<1> SUFFICES ASSUME NEW e \in LinkErrors(recs) PROVE e \in Uid \X ErrorKinds
  OBVIOUS
<1>1. PICK u \in Loaded(recs) : e = <<u, "link">> \/ e = <<u, "parentless">>
  BY DEF LinkErrors
<1> QED BY <1>1 DEF Loaded, ErrorKinds

(* A warning, closed or not, names a record and one of the four checks.     *)
LEMMA OpenChecksType ==
    ASSUME NEW recs
    PROVE  OpenChecks(recs) \subseteq Uid \X Checks
<1>1. ASSUME NEW u \in Uid, ~Settled(u, recs[u])
      PROVE  StateCheck[DirOf[u]] \in Checks
  <2>1. DirOf[u] \in {"entrypoints", "risks", "verification"}
    BY <1>1, DataAssumption DEF Settled, Dirs
  <2> QED BY <2>1 DEF StateCheck, Checks
<1> QED BY <1>1 DEF OpenChecks, ActiveIn, Loaded, Checks

-----------------------------------------------------------------------------
(* Every state of the linter and of the tree is well typed, whatever edits  *)
(* fall between the linter's reads.                                         *)
THEOREM TypeCorrect == Spec => []TypeOK
<1> USE DataAssumption, LintAssumption
<1>1. Init => TypeOK
  <2> SUFFICES ASSUME Init PROVE TypeOK
    OBVIOUS
  <2>1. config \in [Dirs \cup {"root"} -> ConfigState \cup RootState]
    BY DEF Init, ConfigState
  <2>2. /\ items \in [Uid -> Item \cup {NoFile, NotYaml}]
        /\ content \in [File -> Content \cup {NoFile}]
    BY DEF Init, LintAssumption
  <2>3. edits \in 0..MaxEdits
    BY DEF Init, LintAssumption
  <2>4. /\ records \in [Uid -> Item \cup {NoFile}]
        /\ held \in [File -> SUBSET (Content \cup {NoFile})]
    BY DEF Init
  <2>5. running \in BOOLEAN /\ strict \in BOOLEAN /\ dirty \in BOOLEAN
    BY DEF Init
  <2>7. at \in 1..6 /\ queue \subseteq Uid /\ reading = NoUid /\ exit = -1
    BY DEF Init
  <2>6. levels = {} /\ findings = {} /\ errors = {} /\ warnings = {} /\ closed = {}
    BY DEF Init
  <2> QED BY <2>1, <2>2, <2>3, <2>4, <2>5, <2>6, <2>7 DEF TypeOK
<1>2. TypeOK /\ [Next]_vars => TypeOK'
  <2> SUFFICES ASSUME TypeOK, [Next]_vars PROVE TypeOK'
    OBVIOUS
  <2> USE DEF TypeOK
  <2>0. ASSUME records' = records, reading' = reading
        PROVE  reading' \in Loaded(records)' \cup {NoUid}
    BY <2>0 DEF Loaded
  <2>1. CASE EditItem
    BY <2>0, <2>1 DEF LintAssumption, EditItem, Touch, scan, result
  <2>2. CASE EditConfig
    BY <2>0, <2>2 DEF LintAssumption, EditConfig, Touch, scan, result
  <2>3. CASE EditContent
    BY <2>0, <2>3 DEF LintAssumption, EditContent, Touch, scan, result
  <2>4. CASE Start
    <3>1. errors' \subseteq (Uid \cup Dirs \cup {"root"}) \X ErrorKinds
      <4> SUFFICES ASSUME NEW e \in errors'
                   PROVE  e \in (Uid \cup Dirs \cup {"root"}) \X ErrorKinds
        OBVIOUS
      <4>1. PICK d \in Dirs \cup {"root"} : e = <<d, "missing">> \/ e = <<d, "extra">>
        BY <2>4 DEF Start
      <4> QED BY <4>1 DEF ErrorKinds
    <3>2. /\ at' \in 1..6
          /\ records' \in [Uid -> Item \cup {NoFile}]
          /\ held' \in [File -> SUBSET (Content \cup {NoFile})]
      BY <2>4 DEF Start
    <3> QED BY <2>4, <3>1, <3>2 DEF Start, tree
  <2>5. CASE OpenDir
    <3> PICK d \in Dirs :
          /\ Rank[d] = at
          /\ queue' = IF DirThere(d) /\ config[d] # "unreadable"
                      THEN {u \in Uid : DirOf[u] = d /\ items[u] # NoFile} ELSE {}
          /\ errors' = IF DirThere(d) /\ config[d] # "ok"
                       THEN errors \cup {<<d, "config">>} ELSE errors
      BY <2>5 DEF OpenDir
    <3>1. Rank[d] \in 1..5
      BY DEF Rank, Dirs
    <3>2. at' \in 1..6
      BY <2>5, <3>1 DEF OpenDir
    <3>3. errors' \subseteq (Uid \cup Dirs \cup {"root"}) \X ErrorKinds
      BY DEF ErrorKinds
    <3>4. queue' \subseteq Uid
      OBVIOUS
    <3> QED BY <2>0, <2>5, <3>2, <3>3, <3>4 DEF OpenDir, LevelsAtOpen, tree, result
  <2>6. CASE ReadItem
    <3> PICK u \in queue :
          /\ queue' = queue \ {u}
          /\ errors' = errors \cup LoadErrors(u)
          /\ IF Unloadable(u) THEN UNCHANGED <<reading, records>>
             ELSE reading' = u /\ records' = [records EXCEPT ![u] = items[u]]
      BY <2>6 DEF ReadItem
    <3>1. errors' \subseteq (Uid \cup Dirs \cup {"root"}) \X ErrorKinds
      BY DEF LoadErrors, ErrorKinds
    <3>2. records' \in [Uid -> Item \cup {NoFile}]
      BY DEF Unloadable
    <3>3. reading' \in Loaded(records)' \cup {NoUid}
      <4>1. reading = NoUid
        BY <2>6 DEF ReadItem
      <4>2. CASE Unloadable(u)
        BY <4>1, <4>2
      <4>3. CASE ~Unloadable(u)
        <5>1. u \in Uid /\ items[u] # NoFile /\ records' = [records EXCEPT ![u] = items[u]]
          BY <4>3 DEF Unloadable
        <5> QED BY <5>1, <4>3 DEF Loaded
      <4> QED BY <4>2, <4>3
    <3> QED BY <2>6, <3>1, <3>2, <3>3 DEF ReadItem, tree, result
  <2>7. CASE ValidateItem
    <3> DEFINE i == records[reading]
    <3>1. reading \in Uid /\ i \in Item
      BY <2>7 DEF ValidateItem, Loaded
    <3>2. errors' \subseteq (Uid \cup Dirs \cup {"root"}) \X ErrorKinds
      <4>1. ItemErrors(reading, i, content, levels, findings) \subseteq Uid \X ErrorKinds
        BY <3>1, ItemErrorsType
      <4> QED BY <4>1, <2>7 DEF ValidateItem
    <3>3. levels' \subseteq Level /\ findings' \subseteq Finding
      BY <2>7, <3>1 DEF ValidateItem, FindingOf, Item
    <3> QED BY <2>7, <3>2, <3>3 DEF ValidateItem, tree, result
  <2>8. CASE Conclude
    <3>1. errors' \subseteq (Uid \cup Dirs \cup {"root"}) \X ErrorKinds
      <4>1. LinkErrors(records) \subseteq Uid \X ErrorKinds
        BY LinkErrorsType
      <4> QED BY <4>1, <2>8 DEF Conclude
    <3>2. warnings' \subseteq Uid \X Checks /\ closed' \subseteq Uid \X Checks
      <4>1. OpenChecks(records) \subseteq Uid \X Checks
        BY OpenChecksType
      <4> QED BY <4>1, <2>8 DEF Conclude, Closed, Warnings
    <3>3. exit' \in {-1, 0, 1, 2}
      BY <2>8 DEF Conclude
    <3> QED BY <2>0, <2>8, <3>1, <3>2, <3>3 DEF Conclude, tree
  <2>9. CASE UNCHANGED vars
    BY <2>0, <2>9 DEF vars, tree, scan, result
  <2>10. CASE Raise
    BY <2>0, <2>10 DEF Raise, tree, scan
  <2> QED BY <2>1, <2>2, <2>3, <2>4, <2>5, <2>6, <2>7, <2>8, <2>9, <2>10
          DEF Next, Maintain, Lint
<1> QED BY <1>1, <1>2, PTL DEF Spec

-----------------------------------------------------------------------------
(* A document is known by its rank.                                         *)
LEMMA RankDir ==
    ASSUME NEW u \in Uid
    PROVE  /\ RankOf(u) \in 1..5
           /\ RankOf(u) = 2 => DirOf[u] = "entrypoints"
           /\ RankOf(u) = 3 => DirOf[u] = "risks"
           /\ RankOf(u) = 5 => DirOf[u] = "verification"
<1>1. DirOf[u] \in Dirs
  BY DataAssumption
<1> QED BY <1>1 DEF RankOf, Rank, Dirs

(* With no warning left, an active record above the last document has an    *)
(* active child or an owner's decision on the missing one (:634-652).       *)
LEMMA ChildOrDecision ==
    ASSUME NEW recs, Warnings(recs) = {},
           NEW v \in ActiveIn(recs), RankOf(v) < 5
    PROVE  KidsOf(recs, v) # {} \/ HasDecision(recs, v, "missing-child")
<1> SUFFICES ASSUME KidsOf(recs, v) = {} PROVE HasDecision(recs, v, "missing-child")
  OBVIOUS
<1> DEFINE p == <<v, "missing-child">>
<1>1. p \in OpenChecks(recs)
  BY DEF OpenChecks
<1>2. Decided(recs, p[1], p[2])
  BY <1>1 DEF Warnings
<1> QED BY <1>2 DEF Decided, HasDecision

(* ... and an active record is settled or its check was decided (:654-671). *)
LEMMA SettledOrDecision ==
    ASSUME NEW recs, Warnings(recs) = {}, NEW v \in ActiveIn(recs)
    PROVE  Settled(v, recs[v]) \/ HasDecision(recs, v, StateCheck[DirOf[v]])
<1> SUFFICES ASSUME ~Settled(v, recs[v])
             PROVE  HasDecision(recs, v, StateCheck[DirOf[v]])
  OBVIOUS
<1> DEFINE p == <<v, StateCheck[DirOf[v]]>>
<1>1. p \in OpenChecks(recs)
  BY DEF OpenChecks
<1>2. Decided(recs, p[1], p[2])
  BY <1>1 DEF Warnings
<1> QED BY <1>2 DEF Decided, HasDecision

(* Once the link phase found nothing, one step down from active records of  *)
(* one document reaches all their active children, all of them in the next  *)
(* document (:590-616, :634-652).                                           *)
LEMMA StepDown ==
    ASSUME NEW recs, LinkErrors(recs) = {}, NEW S \in SUBSET ActiveIn(recs),
           NEW n \in 1..5, \A v \in S : RankOf(v) = n
    PROVE  /\ Step(recs, S) \in SUBSET ActiveIn(recs)
           /\ \A k \in Step(recs, S) : RankOf(k) = n + 1
           /\ \A v \in S : KidsOf(recs, v) # {} => Step(recs, S) # {}
<1>1. Step(recs, S) \in SUBSET ActiveIn(recs)
  BY DEF Step, ActiveIn, Loaded
<1>2. ASSUME NEW k \in Step(recs, S) PROVE RankOf(k) = n + 1
  <2>1. PICK v \in S : v \in recs[k].links
    BY DEF Step
  <2>2. k \in Loaded(recs)
    BY DEF Step, Loaded
  <2>3. <<k, "link">> \notin LinkErrors(recs)
    OBVIOUS
  <2>4. RankOf(v) = RankOf(k) - 1
    BY <2>1, <2>2, <2>3 DEF LinkErrors
  <2>5. RankOf(k) \in 1..5
    BY <2>2, RankDir DEF Loaded
  <2> QED BY <2>1, <2>4, <2>5
<1>3. ASSUME NEW v \in S, KidsOf(recs, v) # {} PROVE Step(recs, S) # {}
  BY <1>3 DEF KidsOf, Step, ActiveIn, Loaded
<1> QED BY <1>1, <1>2, <1>3

LEMMA QuietIsTraced ==
    ASSUME NEW recs, Warnings(recs) = {}, LinkErrors(recs) = {},
           NEW u \in ActiveIn(recs), RankOf(u) = 1
    PROVE  Traced(recs, u)
<1> DEFINE ep == Step(recs, {u})
           risk == Step(recs, ep)
           ctrl == Step(recs, risk)
           ver == Step(recs, ctrl)
           below == Below(recs, u)
<1>0. /\ below["requirements"] = {u} /\ below["entrypoints"] = ep
      /\ below["risks"] = risk /\ below["controls"] = ctrl
      /\ below["verification"] = ver
  BY DEF Below
<1>1. /\ ep \in SUBSET ActiveIn(recs) /\ \A v \in ep : RankOf(v) = 2
      /\ KidsOf(recs, u) # {} => ep # {}
  BY StepDown
<1>2. /\ risk \in SUBSET ActiveIn(recs) /\ \A v \in risk : RankOf(v) = 3
      /\ \A v \in ep : KidsOf(recs, v) # {} => risk # {}
  <2> HIDE DEF ep
  <2> QED BY <1>1, StepDown
<1>3. /\ ctrl \in SUBSET ActiveIn(recs) /\ \A v \in ctrl : RankOf(v) = 4
      /\ \A v \in risk : KidsOf(recs, v) # {} => ctrl # {}
  <2> HIDE DEF risk
  <2> QED BY <1>2, StepDown
<1>4. /\ ver \in SUBSET ActiveIn(recs) /\ \A v \in ver : RankOf(v) = 5
      /\ \A v \in ctrl : KidsOf(recs, v) # {} => ver # {}
  <2> HIDE DEF ctrl
  <2> QED BY <1>3, StepDown
<1> HIDE DEF ep, risk, ctrl, ver
<1>5. \/ ver # {}
      \/ \E dir \in Dirs : \E v \in below[dir] : HasDecision(recs, v, "missing-child")
  <2> SUFFICES ASSUME \A dir \in Dirs : \A v \in below[dir] :
                        ~HasDecision(recs, v, "missing-child")
               PROVE  ver # {}
    OBVIOUS
  <2>0. \A v \in {u} \cup ep \cup risk \cup ctrl : ~HasDecision(recs, v, "missing-child")
    BY <1>0 DEF Dirs
  <2>1. ep # {}
    BY <2>0, <1>1, ChildOrDecision
  <2>2. risk # {}
    BY <2>0, <2>1, <1>1, <1>2, ChildOrDecision
  <2>3. ctrl # {}
    BY <2>0, <2>2, <1>2, <1>3, ChildOrDecision
  <2> QED BY <2>0, <2>3, <1>3, <1>4, ChildOrDecision
<1>6. ASSUME NEW v \in ep
      PROVE  \/ /\ recs[v].status = "covered"
                /\ recs[v].disposition \notin {"gap", "hypothesis", "unverified"}
             \/ HasDecision(recs, v, "entrypoint-coverage")
  <2>1. v \in ActiveIn(recs) /\ v \in Uid /\ RankOf(v) = 2
    BY <1>1 DEF ActiveIn, Loaded
  <2>2. DirOf[v] = "entrypoints"
    BY <2>1, RankDir
  <2>3. StateCheck["entrypoints"] = "entrypoint-coverage"
    BY DEF StateCheck
  <2> QED BY <2>1, <2>2, <2>3, SettledOrDecision DEF Settled
<1>7. ASSUME NEW v \in risk
      PROVE  recs[v].status \in StrongEvidence \/ HasDecision(recs, v, "risk-evidence")
  <2>1. v \in ActiveIn(recs) /\ v \in Uid /\ RankOf(v) = 3
    BY <1>2 DEF ActiveIn, Loaded
  <2>2. DirOf[v] = "risks"
    BY <2>1, RankDir
  <2>3. StateCheck["risks"] = "risk-evidence"
    BY DEF StateCheck
  <2> QED BY <2>1, <2>2, <2>3, SettledOrDecision DEF Settled
<1>8. ASSUME NEW v \in ver
      PROVE  recs[v].status = "passed" \/ HasDecision(recs, v, "verification-result")
  <2>1. v \in ActiveIn(recs) /\ v \in Uid /\ RankOf(v) = 5
    BY <1>4 DEF ActiveIn, Loaded
  <2>2. DirOf[v] = "verification"
    BY <2>1, RankDir
  <2>3. StateCheck["verification"] = "verification-result"
    BY DEF StateCheck
  <2> QED BY <2>1, <2>2, <2>3, SettledOrDecision DEF Settled
<1> QED BY <1>0, <1>5, <1>6, <1>7, <1>8 DEF Traced

-----------------------------------------------------------------------------
(* The inductive invariant: an exit code is there only once the walk is     *)
(* over, and 0 under --strict-completeness means that neither the link      *)
(* phase nor completeness had anything to say about the loaded records,     *)
(* which nothing touches until the next launch.                             *)
ExitInv ==
    /\ running => exit = -1
    /\ exit = 0 => LinkErrors(records) = {}
    /\ exit = 0 /\ strict => Warnings(records) = {}

THEOREM ExitIsEarned == Spec => []ExitInv
<1>1. Init => ExitInv
  BY DEF Init, ExitInv
<1>2. ExitInv /\ [Next]_vars => ExitInv'
  <2> SUFFICES ASSUME ExitInv, [Next]_vars PROVE ExitInv'
    OBVIOUS
  <2>0. ASSUME records' = records
        PROVE  LinkErrors(records)' = LinkErrors(records) /\ Warnings(records)' = Warnings(records)
    BY <2>0
  <2>1. CASE Maintain
    BY <2>0, <2>1 DEF ExitInv, Maintain, EditItem, EditConfig, EditContent, Touch, scan, result
  <2>2. CASE Start
    BY <2>2 DEF ExitInv, Start
  <2>3. CASE OpenDir \/ ReadItem \/ ValidateItem
    BY <2>3 DEF ExitInv, OpenDir, ReadItem, ValidateItem, result
  <2>4. CASE Conclude
    <3>1. records' = records /\ strict' = strict /\ running' = FALSE
      BY <2>4 DEF Conclude
    <3>2. ASSUME exit' = 0 PROVE LinkErrors(records) = {}
      BY <3>2, <2>4 DEF Conclude
    <3>3. ASSUME exit' = 0, strict PROVE Warnings(records) = {}
      BY <3>3, <2>4 DEF Conclude
    <3> QED BY <2>0, <3>1, <3>2, <3>3 DEF ExitInv
  <2>5. CASE UNCHANGED vars
    BY <2>0, <2>5 DEF ExitInv, vars, result, scan
  <2>6. CASE Raise
    BY <2>6 DEF ExitInv, Raise
  <2> QED BY <2>1, <2>2, <2>3, <2>4, <2>5, <2>6 DEF Next, Lint
<1> QED BY <1>1, <1>2, PTL DEF Spec

(* A strict pass is a traced sidecar, for any records, edits and races:     *)
(* every active requirement that was loaded leads down to verification      *)
(* records or to an owner's decision, and all of it is settled or decided.  *)
THEOREM StrictPass == Spec => []StrictPassIsTraced
<1>1. ExitInv => StrictPassIsTraced
  BY QuietIsTraced DEF ExitInv, StrictPassIsTraced
<1> QED BY <1>1, ExitIsEarned, PTL

-----------------------------------------------------------------------------
(* A decision changes nothing the checks look at: with it added, the same   *)
(* checks are open, on the same records.                                    *)
LEMMA DecisionOpensNothing ==
    ASSUME NEW recs \in Recs, NEW u \in Loaded(recs), NEW d \in Decision
    PROVE  OpenChecks(WithDecision(recs, u, d)) = OpenChecks(recs)
<1> DEFINE R == WithDecision(recs, u, d)
<1>1. u \in Uid /\ recs[u] \in Item
  BY DEF Loaded, Recs
<1>2. R[u] = [recs[u] EXCEPT !.closures = @ \cup {d}]
  BY <1>1 DEF WithDecision, Recs
<1>3. R[u] \in Item
  BY <1>1, <1>2 DEF Item
<1>4. /\ R[u].active = recs[u].active /\ R[u].links = recs[u].links
      /\ R[u].status = recs[u].status /\ R[u].disposition = recs[u].disposition
  BY <1>1, <1>2 DEF Item
<1>5. \A v \in Uid : v # u => R[v] = recs[v]
  BY <1>1 DEF WithDecision, Recs
<1>6. Loaded(R) = Loaded(recs)
  BY <1>1, <1>3, <1>5, DataAssumption DEF Loaded, DataAssumption
<1> HIDE DEF R
<1>7. ActiveIn(R) = ActiveIn(recs)
  BY <1>4, <1>5, <1>6 DEF ActiveIn, Loaded
<1>8. ASSUME NEW v \in Uid PROVE KidsOf(R, v) = KidsOf(recs, v)
  <2>1. \A k \in ActiveIn(recs) : R[k].links = recs[k].links
    BY <1>4, <1>5 DEF ActiveIn, Loaded
  <2> QED BY <1>7, <2>1 DEF KidsOf
<1>9. ASSUME NEW v \in Uid PROVE Settled(v, R[v]) <=> Settled(v, recs[v])
  BY <1>4, <1>5 DEF Settled
<1>10. /\ {v \in ActiveIn(R) : RankOf(v) < 5 /\ KidsOf(R, v) = {}} =
           {v \in ActiveIn(recs) : RankOf(v) < 5 /\ KidsOf(recs, v) = {}}
       /\ {v \in ActiveIn(R) : ~Settled(v, R[v])} =
           {v \in ActiveIn(recs) : ~Settled(v, recs[v])}
  BY <1>7, <1>8, <1>9 DEF ActiveIn, Loaded
<1>11. OpenChecks(R) = OpenChecks(recs)
  BY <1>10 DEF OpenChecks
<1> QED BY <1>11 DEF R

LEMMA DecisionIsLocal ==
    ASSUME NEW recs \in Recs, NEW u \in Loaded(recs), NEW d \in Decision
    PROVE  Warnings(WithDecision(recs, u, d)) = Warnings(recs) \ {<<u, d.check>>}
<1> DEFINE R == WithDecision(recs, u, d)
<1>1. u \in Uid /\ recs[u] \in Item
  BY DEF Loaded, Recs
<1>2. R[u].closures = recs[u].closures \cup {d}
  BY <1>1 DEF WithDecision, Recs, Item
<1>3. \A v \in Uid : v # u => R[v] = recs[v]
  BY <1>1 DEF WithDecision, Recs
<1>4. OpenChecks(R) = OpenChecks(recs)
  BY DecisionOpensNothing
<1> HIDE DEF R
<1>5. ASSUME NEW v \in Uid, NEW c
      PROVE  Decided(R, v, c) <=> Decided(recs, v, c) \/ <<v, c>> = <<u, d.check>>
  BY <1>2, <1>3 DEF Decided
<1>6. ASSUME NEW p \in OpenChecks(recs)
      PROVE  ~Decided(R, p[1], p[2]) <=> ~Decided(recs, p[1], p[2]) /\ p # <<u, d.check>>
  <2>1. p \in Uid \X Checks
    BY OpenChecksType
  <2>2. p[1] \in Uid /\ p = <<p[1], p[2]>>
    BY <2>1
  <2> QED BY <2>2, <1>5
<1>7. Warnings(R) = Warnings(recs) \ {<<u, d.check>>}
  BY <1>4, <1>6 DEF Warnings
<1> QED BY <1>7 DEF R

(* Whatever the sidecar holds, one owner's decision removes one warning.    *)
THEOREM OneDecisionOneWarning == Spec => []ClosureSuppressesOnlyItself
<1>1. TypeOK => ClosureSuppressesOnlyItself
  <2> SUFFICES ASSUME TypeOK, NEW u \in Loaded(records), NEW c \in Checks,
                      NEW f \in File, NEW x \in Content
               PROVE  Warnings(WithDecision(records, u, [check |-> c, file |-> f, digest |-> x]))
                        = Warnings(records) \ {<<u, c>>}
    BY DEF ClosureSuppressesOnlyItself
  <2> DEFINE d == [check |-> c, file |-> f, digest |-> x]
  <2>1. d \in Decision /\ d.check = c
    BY DEF Decision
  <2>2. records \in Recs
    BY DEF TypeOK, Recs
  <2> HIDE DEF d
  <2>3. Warnings(WithDecision(records, u, d)) = Warnings(records) \ {<<u, c>>}
    BY <2>1, <2>2, DecisionIsLocal
  <2> QED BY <2>3 DEF d
<1> QED BY <1>1, TypeCorrect, PTL
=============================================================================
