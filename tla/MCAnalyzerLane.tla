--------------------------- MODULE MCAnalyzerLane ---------------------------
(* The pinned archive; one with the same keccak1600.c and other headers; one *)
(* with another keccak1600.c; one that cannot be unpacked safely.  Two of    *)
(* the four triage fields.                                                   *)
EXTENDS AnalyzerLane

MCSourceOf == [a \in Archive |-> IF a = "patched" THEN "other" ELSE "keccak1600"]
=============================================================================
