------------------------- MODULE MCTraceabilityLint -------------------------
(* One chain of the sidecar, REQ001 <- EP001 <- RISK001 <- CTRL001 <- VER001, *)
(* as tests/test_lint_traceability.py builds it, with room for a second risk. *)
EXTENDS TraceabilityLint, TLC

CONSTANTS f1, f2, v1, v2

MCUid == {"REQ001", "EP001", "RISK001", "RISK002", "CTRL001", "VER001"}

MCDirOf == [u \in MCUid |->
    CASE u = "REQ001" -> "requirements" [] u = "EP001" -> "entrypoints"
      [] u \in {"RISK001", "RISK002"} -> "risks"
      [] u = "CTRL001" -> "controls" [] u = "VER001" -> "verification"]

(* v1 has two lines, v2 one: a reference to line 2 breaks when v2 arrives.  *)
MCLines == v1 :> 2 @@ v2 :> 1

Record(level, links) ==
    [wellFormed |-> TRUE, level |-> level, finding |-> NoFinding, active |-> TRUE,
     links |-> links, status |-> "n/a", disposition |-> "n/a", refs |-> {},
     closures |-> {}]

Lines12 == {[file |-> f1, ranged |-> TRUE, from |-> 1, to |-> 2]}
Whole(f) == {[file |-> f, ranged |-> FALSE, from |-> 0, to |-> 0]}
Closing(c, f, x) == {[check |-> c, file |-> f, digest |-> x]}

Req == [Record("1.1", {}) EXCEPT !.refs = Whole(f2)]
Ep == [Record("1.1", {"REQ001"}) EXCEPT !.status = "covered",
           !.disposition = "control", !.refs = Lines12]
Risk == [Record("1.1", {"EP001"}) EXCEPT !.status = "fixture-confirmed",
             !.finding = "F-001"]
Ctrl == Record("1.1", {"RISK001"})
Ver == [Record("1.1", {"CTRL001"}) EXCEPT !.status = "passed"]

MCVariants0 == [u \in MCUid |->
    CASE u = "REQ001" -> Req [] u = "EP001" -> Ep [] u = "RISK001" -> Risk
      [] u = "RISK002" -> NoFile [] u = "CTRL001" -> Ctrl [] u = "VER001" -> Ver]

(* What edits may leave: each rule of the linter can be broken and repaired. *)
MCVariants == [u \in MCUid |->
    {MCVariants0[u], NoFile} \cup
    CASE u = "REQ001" ->
            {[Req EXCEPT !.links = {"EP001"}],
             [Req EXCEPT !.closures = Closing("missing-child", f2, v1)]}
      [] u = "EP001" ->
            {[Ep EXCEPT !.status = "partial"], [Ep EXCEPT !.disposition = "gap"],
             [Ep EXCEPT !.active = FALSE], [Ep EXCEPT !.wellFormed = FALSE],
             [Ep EXCEPT !.closures = Closing("missing-child", f2, v1)],
             [Ep EXCEPT !.links = {}, !.active = FALSE],
             [Ep EXCEPT !.disposition = "gap",
                        !.closures = Closing("entrypoint-coverage", f2, v1)]}
      [] u = "RISK001" ->
            {[Risk EXCEPT !.status = "hypothesis"], [Risk EXCEPT !.links = {"REQ001"}],
             [Risk EXCEPT !.active = FALSE],
             [Risk EXCEPT !.status = "hypothesis",
                          !.closures = Closing("risk-evidence", f2, v1)]}
      [] u = "RISK002" ->
            {Risk, [Risk EXCEPT !.finding = "F-002"],
             [Risk EXCEPT !.level = "1.2"],
             [Risk EXCEPT !.level = "1.2", !.finding = "F-002"]}
      [] u = "CTRL001" ->
            {[Ctrl EXCEPT !.links = {"RISK001", "RISK002"}],
             [Ctrl EXCEPT !.active = FALSE],
             [Ctrl EXCEPT !.closures = Closing("missing-child", f2, v1) \cup
                                       Closing("missing-child", f1, v1)]}
      [] u = "VER001" ->
            {NotYaml, [Ver EXCEPT !.status = "planned"], [Ver EXCEPT !.active = FALSE],
             [Ver EXCEPT !.closures = Closing("missing-child", f2, v1)],
             [Ver EXCEPT !.status = "planned",
                         !.closures = Closing("verification-result", f2, v1)]}]

MCContent0 == [f \in {f1, f2} |-> v1]
=============================================================================
