---------------------------- MODULE ManifestGate ----------------------------
(***************************************************************************)
(* The data of a rolling intake manifest and what its gate promises: a      *)
(* manifest that passes is consistent in itself, with its digests and with  *)
(* the configuration files it names, all at one moment.  RollingManifest    *)
(* shows how scripts/rolling_manifest.py gets there.  A verdict that cannot *)
(* be written to --output is no pass.                                       *)
(*                                                                         *)
(* SHA-256 over canonical JSON is taken to be injective, so the digest of a *)
(* value is the value.  Rules about one field alone (texts that must not be *)
(* empty, SHAs that must be full) are folded into `wellFormed`.             *)
(***************************************************************************)
EXTENDS Integers, Sequences

CONSTANTS
    File,       \* configuration files of the repository
    Content,    \* what they may hold
    Name,       \* repository names
    Revision,   \* full commit SHAs
    Machine,    \* values of configuration.machine
    Host,       \* values of toolchain.host
    Identity,   \* identities of candidates
    NoFile,     \* there is no such file
    NotJson,    \* a manifest that cannot be read or parsed
    NotObject   \* a manifest that is JSON but no object

Gates == {"parse", "build", "tests", "security"}

(* A thing bound to a revision of a repository: a layer, or a recipe's      *)
(* metadata or Git source.                                                  *)
Bound == [repository : Name, revision : Revision]

Candidate == [status : {"not-promoted", "promoted", "unknown", "unhashable"},
              evidence : BOOLEAN,       \* it has promotion_evidence
              passed : SUBSET Gates]    \* ... with these gates passed and identified

Outcome == [status : {"absent", "accepted", "rejected", "not-run", "unknown"},
            gate_result : {"passed", "failed", "incomplete", "unhashable"},
            retained : BOOLEAN,         \* previous_candidate.retained_unchanged
            previous : Identity, previous_sha256 : Identity]

ConfigPayload == [files : [File -> Content], machine : Machine]
Config == [files : [File -> Content], machine : Machine, identity : ConfigPayload]

Toolchain == [host : Host, identity : [host : Host]]

Body == [wellFormed : BOOLEAN, candidate : Candidate, outcome : Outcome,
         repositories : Seq(Bound), bindings : Seq(Bound),
         configuration : Config, toolchain : Toolchain]

Manifest == [wellFormed : BOOLEAN, candidate : Candidate, outcome : Outcome,
             repositories : Seq(Bound), bindings : Seq(Bound),
             configuration : Config, toolchain : Toolchain, manifest_sha256 : Body]

(* {k: v for k, v in record.items() if k != key}                            *)
Without(r, key) == [k \in DOMAIN r \ {key} |-> r[k]]

-----------------------------------------------------------------------------
VARIABLES
    manifest,    \* the manifest file
    disk,        \* the configuration files
    writable,    \* there is no --output, or it can be written
    validating,  \* a validation is under way
    exit,        \* the exit code of the last one, -1 while it has none
    dirty        \* one of the first three changed since it began

vars == <<manifest, disk, writable, validating, exit, dirty>>

(* The repositories name one revision each, and everything bound to a       *)
(* repository is bound to that revision.                                    *)
OneRevision(m) ==
    LET used == {m.repositories[i] : i \in DOMAIN m.repositories}
    IN  /\ used # {}
        /\ \A i, j \in DOMAIN m.repositories :
              m.repositories[i].repository = m.repositories[j].repository => i = j
        /\ {m.bindings[i] : i \in DOMAIN m.bindings} \subseteq used

(* Promotion is earned, and an intake that did not get there says so.       *)
Promotion(m) ==
    CASE m.candidate.status = "promoted" ->
           /\ m.candidate.evidence /\ m.candidate.passed = Gates
           /\ m.outcome.status \in {"absent", "accepted"}
      [] m.candidate.status = "not-promoted" ->
           /\ ~m.candidate.evidence
           /\ m.outcome.status \in {"absent", "rejected", "not-run"}
           /\ m.outcome.status = "rejected" =>
                /\ m.outcome.gate_result \in {"failed", "incomplete"}
                /\ m.outcome.retained
                /\ m.outcome.previous = m.outcome.previous_sha256
      [] OTHER -> FALSE

Frozen(m) ==
    /\ m.configuration.identity = Without(m.configuration, "identity")
    /\ m.toolchain.identity = Without(m.toolchain, "identity")
    /\ m.manifest_sha256 = Without(m, "manifest_sha256")

Sound(m) ==
    /\ m \notin {NotJson, NotObject}
    /\ m.wellFormed /\ OneRevision(m) /\ Promotion(m) /\ Frozen(m)
    /\ disk = m.configuration.files

-----------------------------------------------------------------------------
Init == /\ validating = FALSE /\ exit = -1 /\ dirty = FALSE

Edit == /\ dirty' = TRUE
        /\ UNCHANGED <<validating, exit>>

Begin == /\ ~validating
         /\ validating' = TRUE /\ exit' = -1 /\ dirty' = FALSE
         /\ UNCHANGED <<manifest, disk, writable>>

Judge == /\ validating
         /\ validating' = FALSE
         /\ exit' \in IF dirty THEN {0, 1}
                     ELSE {IF Sound(manifest) /\ writable THEN 0 ELSE 1}
         /\ UNCHANGED <<manifest, disk, writable, dirty>>

Next == Edit \/ Begin \/ Judge

Spec == Init /\ [][Next]_vars
=============================================================================
