------------------------- MODULE MCReferenceBaseline -------------------------
(* The two profiles and a tracked file that only cleanliness is about; two  *)
(* of the six variables, one with an expected value in each profile and one *)
(* the reference leaves unset.                                              *)
EXTENDS ReferenceBaseline

MCPath == {"reference", "mitigation", "evidence"}
MCInputs == <<"reference", "mitigation">>
MCProfiles == <<"reference", "mitigation">>
MCComponents == <<"bitbake", "openembedded-core">>

MCVariable == {"MACHINE", "BB_NO_NETWORK"}

(* open: sets the machine only; offline: also takes the network away; bare: *)
(* the machine is missing.                                                  *)
MCVersion == {"open", "offline", "bare"}

MCDrafts == [p \in MCPath |->
    CASE p = "reference" -> {"open", "bare"}
      [] p = "mitigation" -> {"offline", "open", "gone"}
      [] p = "evidence" -> {"open", "bare"}]

Vars(machine, network) ==
    [v \in MCVariable |-> IF v = "MACHINE" THEN machine ELSE network]

MCYields == [c \in MCVersion |->
    CASE c = "open" -> Vars("qemux86-64", "unset")
      [] c = "offline" -> Vars("qemux86-64", "1")
      [] c = "bare" -> Vars("unset", "1")]

MCExpected == [p \in {"reference", "mitigation"} |->
    IF p = "reference" THEN Vars("qemux86-64", "unset") ELSE Vars("qemux86-64", "1")]
=============================================================================
