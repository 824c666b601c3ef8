--------------------------- MODULE RollingManifest ---------------------------
(***************************************************************************)
(* scripts/rolling_manifest.py validate as it runs, and the CVE disposition *)
(* fixture that names the manifest it is about.  The validator reads the    *)
(* manifest once, looks at the configuration files it names one after the   *)
(* other, and judges; nothing keeps a maintainer from editing them, or from *)
(* freezing the manifest again, in between.  scripts/cve_disposition_       *)
(* fixture.py, a later stage of the same gate, reads the manifest again.    *)
(*                                                                         *)
(* MaxEdits bounds the maintainer's edits.  `dirty`, `hashed`, `held` and   *)
(* `accepted` are history and decide nothing.                               *)
(***************************************************************************)
EXTENDS Integers, Sequences

CONSTANTS File, Content, Name, Revision, Machine, Host, Identity,
          NoFile, NotJson, NotObject

CONSTANTS
    Revisions(_),  \* the manifests one hand edit makes of a manifest
    Manifest0, Disk0, MaxEdits

VARIABLES
    manifest, disk,  \* fixtures/rolling-intake/..., baseline/reference/...
    disposition,     \* candidate_manifest_sha256 of the CVE fixture
    writable,        \* there is no --output, or it can be written
    edits,
    (* the validator *)
    pc,        \* "idle", "read", "files", "opened"
    document,  \* what it read
    left,      \* configuration files it has not come to
    opened,    \* the one whose is_file() it has just seen
    errors,
    exit,      \* -1 while there is none
    report,    \* what its --output says: nothing, or a status
    (* the CVE fixture validator *)
    cvePc, claimed, cveExit,
    (* history *)
    dirty,     \* an edit since the validation began
    hashed,    \* per file: the content hashed in this validation
    held,      \* per file: the contents it had since the validation began
    accepted   \* what passed: [seal, files, machine, bindings]

G == INSTANCE ManifestGate WITH validating <- pc # "idle"

ASSUME RollingAssumption ==
    /\ NoFile \notin Content
    /\ NotJson # NotObject
    /\ NotJson \notin G!Manifest /\ NotObject \notin G!Manifest
    /\ Manifest0 \in G!Manifest
    /\ Disk0 \in [File -> Content]
    /\ MaxEdits \in Nat

inputs == <<manifest, disk, disposition, writable, edits>>
validation == <<pc, document, left, opened, errors, exit, report>>
cve == <<cvePc, claimed, cveExit>>
history == <<dirty, hashed, held, accepted>>
vars == <<inputs, validation, cve, history>>

ErrorKinds == {"object", "fields", "candidate", "outcome", "repositories", "binding",
               "files", "configuration", "toolchain", "manifest"}

Accepted == [seal : G!Body, files : [File -> Content], machine : Machine,
             bindings : Seq(G!Bound)]

TypeOK ==
    /\ manifest \in G!Manifest \cup {NotJson, NotObject}
    /\ disk \in [File -> Content \cup {NoFile}]
    /\ disposition \in G!Body
    /\ writable \in BOOLEAN
    /\ edits \in 0..MaxEdits
    /\ pc \in {"idle", "read", "files", "opened"}
    /\ document \in G!Manifest \cup {NotJson, NotObject}
    /\ left \subseteq File
    /\ opened \subseteq File
    /\ errors \subseteq ErrorKinds
    /\ exit \in {-1, 0, 1}
    /\ report \in {"none", "passed", "failed"}
    /\ cvePc \in {"idle", "compare"}
    /\ claimed \in G!Body
    /\ cveExit \in {-1, 0, 1}
    /\ dirty \in BOOLEAN
    /\ hashed \in [File -> Content \cup {NoFile}]
    /\ held \in [File -> SUBSET (Content \cup {NoFile})]
    /\ accepted \subseteq Accepted

Init ==
    /\ manifest = Manifest0 /\ disk = Disk0 /\ edits = 0
    /\ disposition = Manifest0.manifest_sha256 /\ writable = TRUE
    /\ pc = "idle" /\ document = NotJson /\ left = {} /\ opened = {} /\ errors = {}
    /\ exit = -1 /\ report = "none"
    /\ cvePc = "idle" /\ claimed = disposition /\ cveExit = -1
    /\ dirty = FALSE /\ hashed = [f \in File |-> NoFile]
    /\ held = [f \in File |-> {}] /\ accepted = {}

-----------------------------------------------------------------------------
(* The maintainer.  After a hand edit the manifest may be left as it is,    *)
(* given a new manifest digest only, or frozen from the inside out.         *)
Sealed(m) == [m EXCEPT !.manifest_sha256 = G!Without(m, "manifest_sha256")]

Refrozen(m) ==
    Sealed([m EXCEPT
        !.configuration.identity = G!Without(m.configuration, "identity"),
        !.toolchain.identity = G!Without(m.toolchain, "identity")])

Touch ==
    /\ edits < MaxEdits /\ edits' = edits + 1
    /\ dirty' = TRUE
    /\ UNCHANGED <<validation, cve, hashed, accepted>>

EditManifest ==
    /\ Touch
    /\ manifest' \in {NotJson, NotObject} \cup
         (IF manifest \in {NotJson, NotObject} THEN {Manifest0}
          ELSE UNION {{m, Sealed(m), Refrozen(m)} :
                       m \in Revisions(manifest) \cap G!Manifest})
    /\ UNCHANGED <<disk, disposition, writable, held>>

EditFile ==
    /\ Touch
    /\ \E f \in File : \E c \in (Content \cup {NoFile}) \ {disk[f]} :
        /\ disk' = [disk EXCEPT ![f] = c]
        /\ held' = [held EXCEPT ![f] = IF pc = "idle" THEN @ ELSE @ \cup {c}]
    /\ UNCHANGED <<manifest, disposition, writable>>

(* The CVE dispositions are reviewed again for the manifest as it is.       *)
EditDisposition ==
    /\ Touch
    /\ manifest \notin {NotJson, NotObject}
    /\ disposition' = manifest.manifest_sha256
    /\ UNCHANGED <<manifest, disk, writable, held>>

(* The disk fills up, a directory takes the name of --output, or loses its  *)
(* write permission; or that is put right.                                  *)
EditOutput ==
    /\ Touch
    /\ writable' = ~writable
    /\ UNCHANGED <<manifest, disk, disposition, held>>

-----------------------------------------------------------------------------
(* validate_manifest: everything the document decides by itself.            *)
CandidateErrors(c) ==
    IF \/ c.status = "unknown"
       \/ c.status = "promoted" /\ ~(c.evidence /\ c.passed = G!Gates)
       \/ c.status # "promoted" /\ c.evidence
    THEN {"candidate"} ELSE {}

OutcomeErrors(m) ==
    LET o == m.outcome
        wrong == CASE o.status = "absent" -> FALSE
                   [] o.status = "accepted" -> m.candidate.status # "promoted"
                   [] o.status = "not-run" -> m.candidate.status = "promoted"
                   [] o.status = "rejected" ->
                        \/ m.candidate.status # "not-promoted"
                        \/ o.gate_result \notin {"failed", "incomplete"}
                        \/ ~o.retained
                        \/ o.previous # o.previous_sha256
                   [] o.status = "unknown" -> TRUE
    IN  IF wrong THEN {"outcome"} ELSE {}

(* The repository a name stands for is the first one that has it; a later   *)
(* one is an error and does not replace it.                                 *)
Firsts(s) == {i \in DOMAIN s : \A j \in 1..(i - 1) : s[j].repository # s[i].repository}

ByName(s, n) == {s[i].revision : i \in {i \in Firsts(s) : s[i].repository = n}}

Unbound_NoRevision(s, b) == ByName(s, b.repository) = {}
Unbound(s, b) == ByName(s, b.repository) # {b.revision}

Repeated_Never(s) == FALSE
Repeated(s) == Firsts(s) # DOMAIN s

RepositoryErrors(m) ==
    (IF m.repositories = <<>> \/ Repeated(m.repositories)
     THEN {"repositories"} ELSE {}) \cup
    (IF \E i \in DOMAIN m.bindings : Unbound(m.repositories, m.bindings[i])
     THEN {"binding"} ELSE {})

Covered_Unchecked(m) == m.manifest_sha256
Covered(m) == G!Without(m, "manifest_sha256")

DigestErrors(m) ==
    (IF m.configuration.identity # G!Without(m.configuration, "identity")
     THEN {"configuration"} ELSE {}) \cup
    (IF m.toolchain.identity # G!Without(m.toolchain, "identity")
     THEN {"toolchain"} ELSE {}) \cup
    (IF m.manifest_sha256 # Covered(m) THEN {"manifest"} ELSE {})

DocumentErrors(m) ==
    (IF m.wellFormed THEN {} ELSE {"fields"}) \cup CandidateErrors(m.candidate) \cup
    OutcomeErrors(m) \cup RepositoryErrors(m) \cup DigestErrors(m)

(* A JSON list where a status is expected: `in {...}` raises TypeError.     *)
Unhashable(m) ==
    \/ m.candidate.status = "unhashable"
    \/ m.outcome.status = "rejected" /\ m.outcome.gate_result = "unhashable"

-----------------------------------------------------------------------------
(* The validator's process.                                                 *)
Start ==
    /\ pc = "idle" /\ cvePc = "idle"
    /\ pc' = "read" /\ cveExit' = -1
    /\ document' = NotJson /\ left' = {} /\ opened' = {} /\ errors' = {}
    /\ exit' = -1 /\ report' = "none"
    /\ dirty' = FALSE
    /\ hashed' = [f \in File |-> NoFile] /\ held' = [f \in File |-> {disk[f]}]
    /\ UNCHANGED <<inputs, cvePc, claimed, accepted>>

(* The process ends without having written a report: main() caught OSError  *)
(* or JSONDecodeError, or died of an exception it does not catch.           *)
Fails ==
    /\ exit' = 1 /\ pc' = "idle"
    /\ UNCHANGED <<inputs, left, opened, errors, report, cve, history>>

(* json.loads and the part of validate_manifest before the files.  For a    *)
(* document that is no object it returns its error at once, and main() then *)
(* asks that document for its candidate.                                    *)
Read ==
    /\ pc = "read"
    /\ document' = manifest
    /\ IF manifest \in {NotJson, NotObject} THEN Fails
       ELSE IF Unhashable(manifest) THEN Fails
       ELSE /\ pc' = "files" /\ left' = File
            /\ errors' = DocumentErrors(manifest)
            /\ UNCHANGED <<inputs, opened, exit, report, cve, history>>

Missing_Skipped == {}
Missing == {"files"}

Look ==
    /\ pc = "files"
    /\ \E f \in left :
        /\ left' = left \ {f}
        /\ IF disk[f] = NoFile
           THEN errors' = errors \cup Missing /\ UNCHANGED <<pc, opened>>
           ELSE opened' = {f} /\ pc' = "opened" /\ UNCHANGED errors
    /\ UNCHANGED <<inputs, document, exit, report, cve, history>>

(* file_digest of the file is_file() has just seen: it may be gone by now.  *)
Matches_Recorded(f) == TRUE
Matches(f) == disk[f] = document.configuration.files[f]

Hash ==
    /\ pc = "opened"
    /\ \E f \in opened :
         IF disk[f] = NoFile THEN Fails /\ UNCHANGED document
         ELSE /\ hashed' = [hashed EXCEPT ![f] = disk[f]]
              /\ errors' = IF Matches(f) THEN errors ELSE errors \cup {"files"}
              /\ pc' = "files" /\ opened' = {}
              /\ UNCHANGED <<inputs, document, left, exit, report, cve, dirty, held,
                             accepted>>

(* The report, and the exit code.  An OSError of mkdir or write_text is one *)
(* of those main() catches.                                                 *)
Write ==
    /\ pc' = "idle"
    /\ exit' = IF errors = {} THEN 0 ELSE 1
    /\ report' = IF errors = {} THEN "passed" ELSE "failed"
    /\ accepted' = IF errors # {} THEN accepted
                   ELSE accepted \cup
                     {[seal |-> document.manifest_sha256, files |-> hashed,
                       machine |-> document.configuration.machine,
                       bindings |-> document.bindings]}
    /\ UNCHANGED <<inputs, document, left, opened, errors, cve, dirty, hashed, held>>

Report ==
    /\ pc = "files" /\ left = {}
    /\ \/ writable /\ Write
       \/ ~writable /\ Fails /\ UNCHANGED document

-----------------------------------------------------------------------------
(* cve_disposition_fixture.py: the fixture, then the manifest it names.  It *)
(* compares two recorded digests and looks no further into the manifest.    *)
(* The gate runs it after the validation, whatever that came to.  A fixture *)
(* that cannot be read, is no JSON or breaks a rule of its own fails.       *)
ReadDisposition ==
    /\ cvePc = "idle" /\ pc = "idle" /\ exit # -1
    /\ \/ cvePc' = "compare" /\ claimed' = disposition /\ cveExit' = -1
       \/ cveExit' = 1 /\ UNCHANGED <<cvePc, claimed>>
    /\ UNCHANGED <<inputs, validation, history>>

Claims_Any(m) == TRUE
Claims(m) == claimed = m.manifest_sha256

CompareDigest ==
    /\ cvePc = "compare"
    /\ cvePc' = "idle"
    /\ cveExit' = IF manifest \notin {NotJson, NotObject} /\ Claims(manifest) THEN 0 ELSE 1
    /\ UNCHANGED <<inputs, claimed, validation, history>>

-----------------------------------------------------------------------------
Maintain == EditManifest \/ EditFile \/ EditDisposition \/ EditOutput
Validator == Start \/ Read \/ Look \/ Hash \/ Report
Cve == ReadDisposition \/ CompareDigest

Next == Maintain \/ Validator \/ Cve

Spec == Init /\ [][Next]_vars

-----------------------------------------------------------------------------
(* Validating a manifest nobody touches meanwhile is judging it, its        *)
(* digests and the files it names as a whole, and writing the verdict down  *)
(* (validate_manifest, :33-235, main, :302-328).                            *)
ImplementsGate == G!Spec

(* The manifest digest identifies the candidate's inputs: two validations   *)
(* that ever passed with the same digest hashed the same configuration      *)
(* files and bound the same revisions, whatever was edited before, between  *)
(* and during them (operating model, section 1, steps 3 and 4).             *)
DigestIdentifiesInputs ==
    \A a, b \in accepted : a.seal = b.seal => a = b

(* In an accepted candidate no two things bound to one repository have      *)
(* different revisions of it (:113-184).                                    *)
OneRevisionEach ==
    \A a \in accepted : \A i, j \in DOMAIN a.bindings :
        a.bindings[i].repository = a.bindings[j].repository
            => a.bindings[i].revision = a.bindings[j].revision

(* A pass means every file held the recorded content at some moment of the  *)
(* validation, though perhaps not all at the same one (:186-208).           *)
PassedFilesWereHeld ==
    exit = 0 => \A f \in File : document.configuration.files[f] \in held[f]

(* When both stages of the gate passed and nothing was edited since the     *)
(* first began, the CVE dispositions are about the validated candidate and  *)
(* its files as they are (cve_disposition_fixture.validate, :28-38).        *)
DispositionIsAboutCandidate ==
    exit = 0 /\ cveExit = 0 /\ ~dirty =>
        claimed = G!Without(document, "manifest_sha256") /\ claimed.configuration.files = disk

(* validate_manifest answers "manifest must be a JSON object" to one that   *)
(* is not (:35-36), and main() puts a validation's errors in the report:    *)
(* a validation that got as far as a parsed document leaves one.            *)
ParsedIsReported ==
    exit = 1 /\ document = NotObject => report = "failed"
=============================================================================
