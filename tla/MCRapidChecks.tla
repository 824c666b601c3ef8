---------------------------- MODULE MCRapidChecks ----------------------------
(* Stages of the gate: two with a report, and the unit tests, which read    *)
(* one of the tracked reports back.                                         *)
EXTENDS RapidChecks, FiniteSets

CONSTANTS r1, r2

Symmetry == {[r \in {r1, r2} |-> r], [r \in {r1, r2} |-> IF r = r1 THEN r2 ELSE r1]}

MCReports == {"local-exact-sha-replay", "cve-disposition-fixture"}
              \cap Stage

MCEvidence == [s \in Stage |->
    IF s = "unit-tests" THEN {"local-exact-sha-replay"} ELSE {}]

LongList == <<"local-exact-sha-replay", "cve-disposition-fixture", "unit-tests">>

ShortList == <<"local-exact-sha-replay", "unit-tests">>
=============================================================================
