----------------------- MODULE RollingManifestProofs -----------------------
(***************************************************************************)
(* Proofs about the manifest validator: for any files, revisions and        *)
(* contents, any hand edits and any number of them.                         *)
(***************************************************************************)
EXTENDS RollingManifest, SequenceTheorems, TLAPS

-----------------------------------------------------------------------------
(* Digests: what a payload says is what the record says (payload = {k: v    *)
(* for k, v in document.items() if k != "manifest_sha256"}).                *)
LEMMA PayloadOfManifest ==
    ASSUME NEW m \in G!Manifest
    PROVE  /\ G!Without(m, "manifest_sha256").configuration = m.configuration
           /\ G!Without(m, "manifest_sha256").bindings = m.bindings
           /\ G!Without(m, "manifest_sha256") \in G!Body
<1> DEFINE w == G!Without(m, "manifest_sha256")
<1>1. DOMAIN m = {"wellFormed", "candidate", "outcome", "repositories", "bindings",
                  "configuration", "toolchain", "manifest_sha256"}
  BY DEF G!Manifest
<1>2. w = [k \in {"wellFormed", "candidate", "outcome", "repositories", "bindings",
                  "configuration", "toolchain"} |-> m[k]]
  BY <1>1 DEF G!Without
<1>3. w = [wellFormed |-> m.wellFormed, candidate |-> m.candidate,
           outcome |-> m.outcome, repositories |-> m.repositories,
           bindings |-> m.bindings, configuration |-> m.configuration,
           toolchain |-> m.toolchain]
  BY <1>2
<1>4. w \in G!Body
  BY <1>3 DEF G!Body, G!Manifest
<1> QED BY <1>3, <1>4

LEMMA SealedType ==
    ASSUME NEW m \in G!Manifest
    PROVE  Sealed(m) \in G!Manifest
<1> QED BY PayloadOfManifest DEF Sealed, G!Manifest

LEMMA RefrozenType ==
    ASSUME NEW m \in G!Manifest
    PROVE  Refrozen(m) \in G!Manifest
<1> DEFINE c == G!Without(m.configuration, "identity")
           t == G!Without(m.toolchain, "identity")
           n == [m EXCEPT !.configuration.identity = c, !.toolchain.identity = t]
<1>1. m.configuration \in G!Config /\ m.toolchain \in G!Toolchain
  BY DEF G!Manifest
<1>2. c = [files |-> m.configuration.files, machine |-> m.configuration.machine]
  BY <1>1 DEF G!Without, G!Config
<1>3. c \in G!ConfigPayload
  BY <1>1, <1>2 DEF G!Config, G!ConfigPayload
<1>4. t = [host |-> m.toolchain.host]
  BY <1>1 DEF G!Without, G!Toolchain
<1>5. t \in [host : Host]
  BY <1>1, <1>4 DEF G!Toolchain
<1> HIDE DEF c, t
<1>6. [m.configuration EXCEPT !.identity = c] \in G!Config
  BY <1>1, <1>3 DEF G!Config
<1>7. [m.toolchain EXCEPT !.identity = t] \in G!Toolchain
  BY <1>1, <1>5 DEF G!Toolchain
<1>8. n \in G!Manifest
  BY <1>6, <1>7 DEF G!Manifest
<1> QED BY <1>8, SealedType DEF Refrozen, c, t

-----------------------------------------------------------------------------
(* The rules, against what they are for.  Names resolve to one revision.    *)
LEMMA BindingRule ==
    ASSUME NEW m \in G!Manifest
    PROVE  RepositoryErrors(m) = {} <=> G!OneRevision(m)
<1> DEFINE s == m.repositories
           b == m.bindings
           Unique == \A i, j \in DOMAIN s : s[i].repository = s[j].repository => i = j
<1>1. s \in Seq(G!Bound) /\ b \in Seq(G!Bound)
  BY DEF G!Manifest
<1>2. DOMAIN s = 1..Len(s) /\ Len(s) \in Nat
  BY <1>1
<1>3. (\A i \in DOMAIN s : s[i] \in G!Bound) /\ (\A i \in DOMAIN b : b[i] \in G!Bound)
  BY <1>1
<1>4. ~Repeated(s) <=> Unique
  BY <1>2 DEF Repeated, Firsts
<1>5. s # <<>> <=> {s[i] : i \in DOMAIN s} # {}
  <2>1. s = <<>> <=> Len(s) = 0
    BY <1>1, EmptySeq
  <2>2. Len(s) = 0 => DOMAIN s = {}
    BY <1>2
  <2>3. Len(s) # 0 => 1 \in DOMAIN s
    BY <1>2
  <2> QED BY <2>1, <2>2, <2>3
<1>6. ASSUME Unique, NEW i \in DOMAIN b
      PROVE  ~Unbound(s, b[i]) <=> b[i] \in {s[j] : j \in DOMAIN s}
  <2>1. Firsts(s) = DOMAIN s
    BY <1>4, <1>6 DEF Repeated
  <2>2. ByName(s, b[i].repository) =
          {s[j].revision : j \in {j \in DOMAIN s : s[j].repository = b[i].repository}}
    BY <2>1 DEF ByName
  <2>3. ASSUME NEW j \in DOMAIN s, b[i] = s[j]
        PROVE  ~Unbound(s, b[i])
    BY <1>6, <2>2, <2>3 DEF Unbound
  <2>4. ASSUME ~Unbound(s, b[i])
        PROVE  \E j \in DOMAIN s : b[i] = s[j]
    <3>1. PICK j \in DOMAIN s :
            s[j].repository = b[i].repository /\ s[j].revision = b[i].revision
      BY <2>2, <2>4 DEF Unbound
    <3> QED BY <1>3, <3>1 DEF G!Bound
  <2> QED BY <2>3, <2>4
<1>7. RepositoryErrors(m) = {} <=>
        s # <<>> /\ ~Repeated(s) /\ \A i \in DOMAIN b : ~Unbound(s, b[i])
  BY DEF RepositoryErrors
<1> QED BY <1>4, <1>5, <1>6, <1>7 DEF G!OneRevision

LEMMA PromotionRule ==
    ASSUME NEW m \in G!Manifest, ~Unhashable(m)
    PROVE  CandidateErrors(m.candidate) \cup OutcomeErrors(m) = {} <=> G!Promotion(m)
<1>1. m.candidate \in G!Candidate /\ m.outcome \in G!Outcome
  BY DEF G!Manifest
<1>2. m.candidate.status \in {"not-promoted", "promoted", "unknown"}
  BY <1>1 DEF G!Candidate, Unhashable
<1>3. m.outcome.status \in {"absent", "accepted", "rejected", "not-run", "unknown"}
  BY <1>1 DEF G!Outcome
<1>4. CASE m.candidate.status = "promoted"
  BY <1>3, <1>4 DEF CandidateErrors, OutcomeErrors, G!Promotion
<1>5. CASE m.candidate.status = "not-promoted"
  BY <1>3, <1>5 DEF CandidateErrors, OutcomeErrors, G!Promotion
<1>6. CASE m.candidate.status = "unknown"
  BY <1>6 DEF CandidateErrors, G!Promotion
<1> QED BY <1>2, <1>4, <1>5, <1>6

LEMMA DocumentRule ==
    ASSUME NEW m \in G!Manifest, ~Unhashable(m)
    PROVE  DocumentErrors(m) = {} <=>
             m.wellFormed /\ G!OneRevision(m) /\ G!Promotion(m) /\ G!Frozen(m)
<1>1. DigestErrors(m) = {} <=> G!Frozen(m)
  BY DEF DigestErrors, Covered, G!Frozen
<1>2. DocumentErrors(m) = {} <=>
        /\ m.wellFormed
        /\ CandidateErrors(m.candidate) \cup OutcomeErrors(m) = {}
        /\ RepositoryErrors(m) = {} /\ DigestErrors(m) = {}
  BY DEF DocumentErrors
<1> QED BY <1>1, <1>2, BindingRule, PromotionRule

LEMMA DocumentErrorKinds ==
    ASSUME NEW m \in G!Manifest
    PROVE  DocumentErrors(m) \subseteq ErrorKinds \ {"files"}
<1>1. DigestErrors(m) \subseteq ErrorKinds \ {"files"}
  BY DEF DigestErrors, ErrorKinds
<1>2. CandidateErrors(m.candidate) \subseteq ErrorKinds \ {"files"}
  BY DEF CandidateErrors, ErrorKinds
<1>3. OutcomeErrors(m) \subseteq {"outcome"}
  BY DEF OutcomeErrors
<1>4. RepositoryErrors(m) \subseteq ErrorKinds \ {"files"}
  BY DEF RepositoryErrors, ErrorKinds
<1> QED BY <1>1, <1>2, <1>3, <1>4 DEF DocumentErrors, ErrorKinds

-----------------------------------------------------------------------------
(* The inductive invariant.  Work: a validation under way has found every   *)
(* error of its document, and the files it has done with either matched, at *)
(* a moment when they were held, or left an error.                          *)
Done(f) == f \notin left \cup opened

Work ==
    /\ pc # "idle" => exit = -1
    /\ pc \in {"read", "files"} => opened = {}
    /\ \A f, g \in opened : f = g
    /\ pc \in {"read", "files", "opened"} => \A f \in File : disk[f] \in held[f]
    /\ pc \in {"files", "opened"} =>
         /\ document \in G!Manifest
         /\ DocumentErrors(document) \subseteq errors
         /\ opened \cap left = {}
         /\ "files" \notin errors => \A f \in File : Done(f) =>
              hashed[f] = document.configuration.files[f] /\ hashed[f] \in held[f]

Passed ==
    exit = 0 => \A f \in File : document.configuration.files[f] \in held[f]

(* What was ever accepted is what its digest says, and is consistent.       *)
Kept ==
    \A r \in accepted :
        /\ r \in Accepted
        /\ r.files = r.seal.configuration.files
        /\ r.machine = r.seal.configuration.machine
        /\ r.bindings = r.seal.bindings
        /\ \A i, j \in DOMAIN r.bindings :
              r.bindings[i].repository = r.bindings[j].repository
                  => r.bindings[i].revision = r.bindings[j].revision

(* An undisturbed validation works on the tree as it is.                    *)
Undisturbed ==
    ~dirty /\ pc \in {"files", "opened"} =>
        /\ document = manifest /\ ~Unhashable(document)
        /\ \A f \in opened : disk[f] # NoFile
        /\ errors = DocumentErrors(document) \cup
             (IF \E f \in File : Done(f) /\ disk[f] # document.configuration.files[f]
              THEN {"files"} ELSE {})

IInv == TypeOK /\ Work /\ Passed /\ Kept /\ Undisturbed

-----------------------------------------------------------------------------
LEMMA InitInv == Init => IInv
<1> SUFFICES ASSUME Init PROVE IInv
  OBVIOUS
<1> USE RollingAssumption DEF RollingAssumption, Init
<1>1. Manifest0.manifest_sha256 \in G!Body
  BY DEF G!Manifest
<1>2. TypeOK
  <2>1. \A x, T : x \in T => [f \in File |-> x] \in [File -> T]
    OBVIOUS
  <2>2. NoFile \in Content \cup {NoFile} /\ {} \in SUBSET (Content \cup {NoFile})
    OBVIOUS
  <2>3. hashed \in [File -> Content \cup {NoFile}]
        /\ held \in [File -> SUBSET (Content \cup {NoFile})]
    BY <2>1, <2>2
  <2>4. disk \in [File -> Content \cup {NoFile}]
    OBVIOUS
  <2>5. 0 \in 0..MaxEdits /\ {} \subseteq File /\ {} \subseteq Accepted
        /\ {} \subseteq ErrorKinds
    OBVIOUS
  <2> HIDE DEF Accepted, ErrorKinds
  <2> QED BY <1>1, <2>3, <2>4, <2>5 DEF TypeOK
<1> QED BY <1>2 DEF IInv, Work, Passed, Kept, Undisturbed

(* Steps outside the validation leave it and what it accepted alone.        *)
LEMMA EditManifestInv == IInv /\ EditManifest => IInv'
<1> SUFFICES ASSUME IInv, EditManifest PROVE IInv'
  OBVIOUS
<1> USE DEF IInv, EditManifest, Touch, validation, cve
<1>1. manifest' \in G!Manifest \cup {NotJson, NotObject}
  <2>1. CASE manifest \in {NotJson, NotObject}
    BY <2>1, RollingAssumption DEF RollingAssumption
  <2>2. CASE manifest \notin {NotJson, NotObject}
    <3>1. PICK n \in {NotJson, NotObject} \cup
                UNION {{m, Sealed(m), Refrozen(m)} :
                         m \in Revisions(manifest) \cap G!Manifest} : manifest' = n
      BY <2>2
    <3> QED BY <3>1, SealedType, RefrozenType
  <2> QED BY <2>1, <2>2
<1>2. TypeOK'
  BY <1>1, RollingAssumption DEF TypeOK, RollingAssumption
<1> QED BY <1>2 DEF Work, Passed, Kept, Undisturbed, Done

LEMMA EditFileInv == IInv /\ EditFile => IInv'
<1> SUFFICES ASSUME IInv, EditFile PROVE IInv'
  OBVIOUS
<1> USE DEF IInv, Touch, validation, cve
<1>1. PICK f \in File, c \in Content \cup {NoFile} :
        /\ disk' = [disk EXCEPT ![f] = c]
        /\ held' = [held EXCEPT ![f] = IF pc = "idle" THEN @ ELSE @ \cup {c}]
  BY DEF EditFile
<1>2. Touch /\ UNCHANGED <<manifest, disposition, writable>>
  BY DEF EditFile
<1>3. held' \in [File -> SUBSET (Content \cup {NoFile})]
  BY <1>1 DEF TypeOK
<1>4. \A g \in File : held[g] \subseteq held'[g]
  BY <1>1 DEF TypeOK
<1>5. TypeOK'
  <2>1. disk' \in [File -> Content \cup {NoFile}]
    BY <1>1 DEF TypeOK
  <2>2. edits' \in 0..MaxEdits
    BY <1>2, RollingAssumption DEF TypeOK, RollingAssumption
  <2> QED BY <1>2, <1>3, <2>1, <2>2 DEF TypeOK
<1>6. Work'
  <2>1. pc # "idle" => \A g \in File : disk'[g] = disk[g] \/ disk'[g] \in held'[g]
    BY <1>1 DEF TypeOK
  <2> QED BY <1>2, <1>4, <2>1 DEF Work, Done, TypeOK
<1>7. Passed' /\ Kept' /\ Undisturbed'
  BY <1>2, <1>4 DEF Passed, Kept, Undisturbed
<1> QED BY <1>5, <1>6, <1>7

LEMMA EditDispositionInv == IInv /\ EditDisposition => IInv'
<1> SUFFICES ASSUME IInv, EditDisposition PROVE IInv'
  OBVIOUS
<1> USE DEF IInv, EditDisposition, Touch, validation, cve
<1>1. TypeOK'
  BY RollingAssumption DEF TypeOK, G!Manifest, RollingAssumption
<1> QED BY <1>1 DEF Work, Passed, Kept, Undisturbed, Done

LEMMA EditOutputInv == IInv /\ EditOutput => IInv'
<1> SUFFICES ASSUME IInv, EditOutput PROVE IInv'
  OBVIOUS
<1> USE DEF IInv, EditOutput, Touch, validation, cve
<1>1. TypeOK'
  BY RollingAssumption DEF TypeOK, RollingAssumption
<1> QED BY <1>1 DEF Work, Passed, Kept, Undisturbed, Done

LEMMA CveInv == IInv /\ Cve => IInv'
<1> SUFFICES ASSUME IInv, Cve PROVE IInv'
  OBVIOUS
<1> USE DEF IInv, Cve, ReadDisposition, CompareDigest, inputs, validation, history
<1>1. TypeOK'
  BY DEF TypeOK
<1> QED BY <1>1 DEF Work, Passed, Kept, Undisturbed, Done

-----------------------------------------------------------------------------
(* The validator.                                                           *)
LEMMA StartInv == IInv /\ Start => IInv'
<1> SUFFICES ASSUME IInv, Start PROVE IInv'
  OBVIOUS
<1> USE DEF IInv, Start, inputs
<1>1. hashed' \in [File -> Content \cup {NoFile}]
      /\ held' \in [File -> SUBSET (Content \cup {NoFile})]
  BY DEF TypeOK
<1>2. TypeOK'
  BY <1>1 DEF TypeOK
<1>3. Work'
  BY DEF Work
<1> QED BY <1>2, <1>3 DEF Passed, Kept, Undisturbed

LEMMA FailsInv ==
    ASSUME IInv, pc # "idle", Fails,
           document' \in G!Manifest \cup {NotJson, NotObject}
    PROVE  IInv'
<1> USE DEF IInv, Fails, inputs, cve, history
<1>1. TypeOK'
  BY DEF TypeOK
<1> QED BY <1>1 DEF Work, Passed, Kept, Undisturbed

LEMMA ReadInv == IInv /\ Read => IInv'
<1> SUFFICES ASSUME IInv, Read PROVE IInv'
  OBVIOUS
<1> USE DEF IInv, Read
<1>1. CASE Fails
  BY <1>1, FailsInv DEF TypeOK
<1>2. CASE ~Fails
  <2>1. /\ manifest \in G!Manifest /\ ~Unhashable(manifest) /\ document' = manifest
        /\ pc' = "files" /\ left' = File /\ errors' = DocumentErrors(manifest)
        /\ UNCHANGED <<inputs, opened, exit, report, cve, history>>
    BY <1>2 DEF TypeOK
  <2>2. DocumentErrors(manifest) \subseteq ErrorKinds
    BY <2>1, DocumentErrorKinds
  <2>3. TypeOK'
    BY <2>1, <2>2 DEF TypeOK, inputs, cve, history
  <2>4. Work' /\ Passed' /\ Kept'
    BY <2>1 DEF Work, Passed, Kept, Done, inputs, cve, history
  <2>5. Undisturbed'
    BY <2>1 DEF Work, Undisturbed, Done, inputs, history
  <2> QED BY <2>3, <2>4, <2>5
<1> QED BY <1>1, <1>2

LEMMA LookInv == IInv /\ Look => IInv'
<1> SUFFICES ASSUME IInv, Look PROVE IInv'
  OBVIOUS
<1> USE DEF IInv
<1>1. PICK f \in left :
        /\ left' = left \ {f}
        /\ IF disk[f] = NoFile
           THEN errors' = errors \cup {"files"} /\ UNCHANGED <<pc, opened>>
           ELSE opened' = {f} /\ pc' = "opened" /\ UNCHANGED errors
  BY DEF Look, Missing
<1>2. pc = "files" /\ UNCHANGED <<inputs, document, exit, report, cve, history>>
  BY DEF Look
<1>3. f \in File /\ document \in G!Manifest /\ opened = {}
  BY <1>2 DEF TypeOK, Work
<1>4. document.configuration.files[f] # NoFile
  BY <1>3, RollingAssumption DEF RollingAssumption, G!Manifest, G!Config
<1>5. TypeOK'
  BY <1>1, <1>2, <1>3 DEF TypeOK, ErrorKinds, inputs, cve, history
<1>6. Work'
  BY <1>1, <1>2, <1>3 DEF Work, Done, inputs, history
<1>7. Passed' /\ Kept'
  BY <1>2 DEF Passed, Kept, history
<1>8. Undisturbed'
  BY <1>1, <1>2, <1>3, <1>4 DEF Undisturbed, Done, inputs, history
<1> QED BY <1>5, <1>6, <1>7, <1>8

LEMMA HashInv == IInv /\ Hash => IInv'
<1> SUFFICES ASSUME IInv, Hash PROVE IInv'
  OBVIOUS
<1> USE DEF IInv
<1>1. CASE Fails /\ UNCHANGED document
  BY <1>1, FailsInv DEF Hash, TypeOK
<1>2. ASSUME NEW f \in opened, disk[f] # NoFile,
             hashed' = [hashed EXCEPT ![f] = disk[f]],
             errors' = IF Matches(f) THEN errors ELSE errors \cup {"files"},
             pc' = "files", opened' = {}, pc = "opened",
             UNCHANGED <<inputs, document, left, exit, report, cve, dirty, held,
                         accepted>>
      PROVE  IInv'
  <2>1. f \in File /\ document \in G!Manifest /\ f \notin left
    BY <1>2 DEF TypeOK, Work
  <2>2. TypeOK'
    BY <1>2, <2>1 DEF TypeOK, ErrorKinds, inputs, cve
  <2>3. \A g \in File : Done(g)' => g = f \/ Done(g)
    BY <1>2 DEF Done, Work
  <2>4. Work'
    BY <1>2, <2>1, <2>3 DEF Work, Matches, TypeOK, inputs
  <2>5. Passed' /\ Kept'
    BY <1>2 DEF Passed, Kept
  <2>6. Undisturbed'
    BY <1>2, <2>1, <2>3 DEF Undisturbed, Matches, Done, inputs
  <2> QED BY <2>2, <2>4, <2>5, <2>6
<1> QED BY <1>1, <1>2 DEF Hash

LEMMA ReportInv == IInv /\ Report => IInv'
<1> SUFFICES ASSUME IInv, Report PROVE IInv'
  OBVIOUS
<1>0. CASE Fails /\ UNCHANGED document
  BY <1>0, FailsInv DEF Report, IInv, TypeOK
<1>w. SUFFICES ASSUME Write PROVE IInv'
  BY <1>0 DEF Report
<1>f. pc = "files" /\ left = {}
  BY DEF Report
<1> USE <1>w, <1>f DEF IInv, Write, inputs, cve
<1>1. CASE errors # {}
  <2>1. TypeOK'
    BY <1>1 DEF TypeOK
  <2> QED BY <1>1, <2>1 DEF Work, Passed, Kept, Undisturbed
<1>2. CASE errors = {}
  <2> DEFINE d == document
             r == [seal |-> d.manifest_sha256, files |-> hashed,
                   machine |-> d.configuration.machine, bindings |-> d.bindings]
  <2>1. d \in G!Manifest /\ DocumentErrors(d) = {}
    BY <1>2 DEF Work
  <2>2. \A f \in File : hashed[f] = d.configuration.files[f] /\ hashed[f] \in held[f]
    BY <1>2 DEF Work, Done
  <2>3. d.configuration.files \in [File -> Content] /\ d.configuration.machine \in Machine
        /\ d.bindings \in Seq(G!Bound) /\ d.manifest_sha256 \in G!Body
    BY <2>1 DEF G!Manifest, G!Config
  <2>4. hashed = d.configuration.files
    BY <2>2, <2>3 DEF TypeOK
  <2>5. r \in Accepted
    BY <2>3, <2>4 DEF Accepted
  <2>6. d.manifest_sha256 = G!Without(d, "manifest_sha256")
    BY <2>1 DEF DocumentErrors, DigestErrors, Covered
  <2>7. r.files = r.seal.configuration.files /\ r.machine = r.seal.configuration.machine
        /\ r.bindings = r.seal.bindings
    BY <2>1, <2>4, <2>6, PayloadOfManifest
  <2>8. \A i \in DOMAIN d.bindings :
            ByName(d.repositories, d.bindings[i].repository) = {d.bindings[i].revision}
    BY <2>1 DEF DocumentErrors, RepositoryErrors, Unbound
  <2>9. \A i, j \in DOMAIN r.bindings :
            r.bindings[i].repository = r.bindings[j].repository
                => r.bindings[i].revision = r.bindings[j].revision
    <3>1. ASSUME NEW i \in DOMAIN d.bindings, NEW j \in DOMAIN d.bindings,
                 d.bindings[i].repository = d.bindings[j].repository
          PROVE  d.bindings[i].revision = d.bindings[j].revision
      <4>1. {d.bindings[i].revision} = {d.bindings[j].revision}
        BY <2>8, <3>1
      <4> QED BY <4>1
    <3> QED BY <3>1
  <2>10. accepted' = accepted \cup {r}
    BY <1>2
  <2> HIDE DEF r
  <2>11. TypeOK'
    BY <1>2, <2>5, <2>10 DEF TypeOK
  <2>12. Kept'
    BY <2>5, <2>7, <2>9, <2>10 DEF Kept
  <2>13. Passed'
    BY <2>2 DEF Passed
  <2> QED BY <2>11, <2>12, <2>13 DEF Work, Undisturbed
<1> QED BY <1>1, <1>2

LEMMA StutterInv == IInv /\ UNCHANGED vars => IInv'
<1> SUFFICES ASSUME IInv, UNCHANGED vars PROVE IInv'
  OBVIOUS
<1> USE DEF IInv, vars, inputs, validation, cve, history
<1>1. TypeOK'
  BY DEF TypeOK
<1> QED BY <1>1 DEF Work, Passed, Kept, Undisturbed, Done

(* The inductive invariant of validator and maintainer.                     *)
THEOREM ValidationInvariant == Spec => []IInv
<1>1. IInv /\ [Next]_vars => IInv'
  BY EditManifestInv, EditFileInv, EditDispositionInv, EditOutputInv, CveInv, StartInv, ReadInv,
     LookInv, HashInv, ReportInv, StutterInv DEF Next, Maintain, Validator
<1> QED BY <1>1, InitInv, PTL DEF Spec

(* Manifest, files, validators and history stay well typed; in particular   *)
(* no validation passes with a file it did not hash (Report).               *)
THEOREM TypeCorrect == Spec => []TypeOK
<1>1. IInv => TypeOK
  BY DEF IInv
<1> QED BY <1>1, ValidationInvariant, PTL

(* Two passes with one digest are passes of the same inputs (:229-234).     *)
THEOREM DigestIsIdentity == Spec => []DigestIdentifiesInputs
<1>1. IInv => DigestIdentifiesInputs
  <2> SUFFICES ASSUME IInv, NEW a \in accepted, NEW b \in accepted, a.seal = b.seal
               PROVE  a = b
    BY DEF DigestIdentifiesInputs
  <2>1. a.files = b.files /\ a.machine = b.machine /\ a.bindings = b.bindings
    BY DEF IInv, Kept
  <2>2. a \in Accepted /\ b \in Accepted
    BY DEF IInv, Kept
  <2> QED BY <2>1, <2>2 DEF Accepted
<1> QED BY <1>1, ValidationInvariant, PTL

(* No accepted candidate mixes two revisions of a repository (:113-184).    *)
THEOREM NoMixedRevisions == Spec => []OneRevisionEach
<1>1. IInv => OneRevisionEach
  BY DEF IInv, Kept, OneRevisionEach
<1> QED BY <1>1, ValidationInvariant, PTL

(* A pass saw every file with its recorded content (:186-208).              *)
THEOREM FilesWereSeen == Spec => []PassedFilesWereHeld
<1>1. IInv => PassedFilesWereHeld
  BY DEF IInv, Passed, PassedFilesWereHeld
<1> QED BY <1>1, ValidationInvariant, PTL

-----------------------------------------------------------------------------
(* The verdict on an undisturbed tree is the gate's.                        *)
LEMMA VerdictIsSound ==
    ASSUME IInv, ~dirty, pc = "files", left = {}
    PROVE  errors = {} <=> G!Sound(manifest)
<1> USE DEF IInv
<1>1. /\ document = manifest /\ ~Unhashable(manifest) /\ manifest \in G!Manifest
      /\ errors = DocumentErrors(manifest) \cup
            (IF \E f \in File : disk[f] # manifest.configuration.files[f]
             THEN {"files"} ELSE {})
  BY DEF Undisturbed, Work, Done
<1>2. (\A f \in File : disk[f] = manifest.configuration.files[f])
        <=> disk = manifest.configuration.files
  BY <1>1 DEF TypeOK, G!Manifest, G!Config
<1>3. manifest \notin {NotJson, NotObject}
  BY <1>1, RollingAssumption DEF RollingAssumption
<1> QED BY <1>1, <1>2, <1>3, DocumentRule DEF G!Sound

(* The validator implements ManifestGate: for a tree nobody touches, exit   *)
(* code 0 means a consistent, frozen candidate whose files are the recorded *)
(* ones, and 1 that it is not (main, :292-332).                             *)
THEOREM ValidatorImplementsGate == Spec => ImplementsGate
<1>1. Init => G!Init
  BY DEF Init, G!Init
<1>2. IInv /\ [Next]_vars => [G!Next]_(G!vars)
  <2> SUFFICES ASSUME IInv, [Next]_vars PROVE [G!Next]_(G!vars)
    OBVIOUS
  <2>1. CASE Maintain
    BY <2>1 DEF Maintain, EditManifest, EditFile, EditDisposition, EditOutput, Touch,
                validation, G!Next, G!Edit
  <2>2. CASE Start
    BY <2>2 DEF Start, inputs, G!Next, G!Begin
  <2>3. ASSUME Fails, pc # "idle", dirty \/ ~G!Sound(manifest) \/ ~writable
        PROVE  G!Judge
    BY <2>3 DEF Fails, inputs, history, G!Judge
  <2>4. CASE Read
    <3>1. CASE Fails
      <4>1. ~G!Sound(manifest)
        <5>1. CASE manifest \in {NotJson, NotObject}
          BY <5>1 DEF G!Sound
        <5>2. CASE Unhashable(manifest)
          BY <5>2 DEF Unhashable, G!Sound, G!Promotion
        <5> QED BY <2>4, <3>1, <5>1, <5>2 DEF Read, Fails
      <4> QED BY <2>3, <2>4, <3>1, <4>1 DEF Read, G!Next
    <3>2. CASE ~Fails
      BY <2>4, <3>2 DEF Read, inputs, history, G!vars
    <3> QED BY <3>1, <3>2
  <2>5. CASE Look
    BY <2>5 DEF Look, inputs, history, G!vars
  <2>6. CASE Hash
    <3>1. CASE Fails
      <4>1. dirty
        BY <2>6, <3>1 DEF IInv, Undisturbed, Hash, Fails
      <4> QED BY <2>3, <2>6, <3>1, <4>1 DEF Hash, G!Next
    <3>2. CASE ~Fails
      BY <2>6, <3>2 DEF Hash, inputs, G!vars
    <3> QED BY <3>1, <3>2
  <2>7. CASE Report
    <3>1. CASE ~writable
      BY <2>3, <2>7, <3>1 DEF Report, G!Next
    <3>2. CASE writable
      BY <2>7, <3>2, VerdictIsSound DEF Report, Write, inputs, G!Next, G!Judge
    <3> QED BY <3>1, <3>2
  <2>8. CASE Cve
    BY <2>8 DEF Cve, ReadDisposition, CompareDigest, inputs, validation, history, G!vars
  <2>9. CASE UNCHANGED vars
    BY <2>9 DEF vars, inputs, validation, history, G!vars
  <2> QED BY <2>1, <2>2, <2>4, <2>5, <2>6, <2>7, <2>8, <2>9 DEF Next, Validator
<1> QED BY <1>1, <1>2, ValidationInvariant, PTL DEF Spec, ImplementsGate, G!Spec

(* What the promise is worth: for as long as nobody edits the manifest, a   *)
(* file or the output, the exit code of the last validation is the verdict  *)
(* on them.                                                                 *)
JudgedAsOnDisk ==
    exit # -1 /\ ~dirty => exit = IF G!Sound(manifest) /\ writable THEN 0 ELSE 1

(* Whatever keeps the promise of the gate has it.                           *)
LEMMA GateIsTruthful == G!Spec => []JudgedAsOnDisk
<1>1. G!Init => JudgedAsOnDisk
  BY DEF G!Init, JudgedAsOnDisk
<1>2. JudgedAsOnDisk /\ [G!Next]_(G!vars) => JudgedAsOnDisk'
  <2> SUFFICES ASSUME JudgedAsOnDisk, [G!Next]_(G!vars) PROVE JudgedAsOnDisk'
    OBVIOUS
  <2>0. ASSUME UNCHANGED <<manifest, disk>>
        PROVE  G!Sound(manifest)' <=> G!Sound(manifest)
    BY <2>0 DEF G!Sound
  <2>1. CASE G!Edit
    BY <2>1 DEF G!Edit, JudgedAsOnDisk
  <2>2. CASE G!Begin
    BY <2>2 DEF G!Begin, JudgedAsOnDisk
  <2>3. CASE G!Judge
    <3>1. /\ UNCHANGED <<manifest, disk, writable, dirty>>
          /\ ~dirty => exit' = IF G!Sound(manifest) /\ writable THEN 0 ELSE 1
      BY <2>3 DEF G!Judge
    <3> QED BY <2>0, <3>1 DEF JudgedAsOnDisk
  <2>4. CASE UNCHANGED G!vars
    <3>1. UNCHANGED <<manifest, disk, writable, exit, dirty>>
      BY <2>4 DEF G!vars
    <3> QED BY <2>0, <3>1 DEF JudgedAsOnDisk
  <2> QED BY <2>1, <2>2, <2>3, <2>4 DEF G!Next
<1> QED BY <1>1, <1>2, PTL DEF G!Spec

(* ... so the validator has it: until the next edit, 0 says that the        *)
(* manifest is sound and that the files are the ones it names, and 1 that   *)
(* they are not or that the report cannot be written (main,                 *)
(* rolling_manifest.py:292-332).                                            *)
THEOREM ExitIsTheManifestsVerdict == Spec => []JudgedAsOnDisk
  BY ValidatorImplementsGate, GateIsTruthful, PTL DEF ImplementsGate

-----------------------------------------------------------------------------
(* The second stage.  What an undisturbed pass was about is still there,    *)
(* frozen; what the disposition check agreed with is the manifest's digest. *)
StillThere ==
    exit = 0 /\ ~dirty =>
        /\ document = manifest /\ document \in G!Manifest
        /\ document.manifest_sha256 = G!Without(document, "manifest_sha256")
        /\ document.configuration.files = disk

Agreed ==
    cveExit = 0 /\ ~dirty =>
        manifest \notin {NotJson, NotObject} /\ claimed = manifest.manifest_sha256

LEMMA StillThereNext == IInv /\ StillThere /\ [Next]_vars => StillThere'
<1> SUFFICES ASSUME IInv, StillThere, [Next]_vars, exit' = 0, ~dirty'
             PROVE  /\ document' = manifest' /\ document' \in G!Manifest
                    /\ document'.manifest_sha256 = G!Without(document', "manifest_sha256")
                    /\ document'.configuration.files = disk'
  BY DEF StillThere
<1>1. CASE UNCHANGED <<document, manifest, disk, exit, dirty>>
  BY <1>1 DEF StillThere
<1>2. CASE Report
  <2>1. /\ errors = {} /\ ~dirty /\ pc = "files" /\ left = {}
        /\ UNCHANGED <<document, manifest, disk>>
    BY <1>2 DEF Report, Write, Fails, inputs
  <2>2. /\ document = manifest /\ ~Unhashable(document) /\ document \in G!Manifest
        /\ DocumentErrors(document) = {} /\ G!Sound(manifest)
    BY <2>1, VerdictIsSound DEF IInv, Undisturbed, Work
  <2>3. DigestErrors(document) = {}
    BY <2>2 DEF DocumentErrors
  <2>4. document.configuration.files = disk
    BY <2>2 DEF G!Sound
  <2> QED BY <2>1, <2>2, <2>3, <2>4 DEF DigestErrors, Covered
<1>3. CASE Maintain
  BY <1>3 DEF Maintain, EditManifest, EditFile, EditDisposition, EditOutput, Touch
<1>4. CASE Start \/ Look \/ Hash \/ Read
  <2>1. exit' \in {-1, 1}
    BY <1>4 DEF IInv, Work, Start, Look, Hash, Read, Fails
  <2> QED BY <2>1
<1> QED BY <1>1, <1>2, <1>3, <1>4 DEF Next, Validator, Cve, ReadDisposition,
       CompareDigest, inputs, validation, history, vars

LEMMA AgreedNext == IInv /\ Agreed /\ [Next]_vars => Agreed'
<1> SUFFICES ASSUME IInv, Agreed, [Next]_vars, cveExit' = 0, ~dirty'
             PROVE  manifest' \notin {NotJson, NotObject} /\ claimed' = manifest'.manifest_sha256
  BY DEF Agreed
<1>1. CASE Maintain
  BY <1>1 DEF Maintain, EditManifest, EditFile, EditDisposition, EditOutput, Touch
<1>2. CASE Start \/ ReadDisposition
  BY <1>2 DEF Start, ReadDisposition
<1>3. CASE CompareDigest
  BY <1>3 DEF CompareDigest, Claims, inputs
<1>4. CASE UNCHANGED <<manifest, claimed, cveExit, dirty>>
  BY <1>4 DEF Agreed
<1>5. CASE Read \/ Look \/ Hash \/ Report
  BY <1>4, <1>5 DEF Read, Look, Hash, Report, Write, Fails, inputs, cve, history
<1> QED BY <1>1, <1>2, <1>3, <1>4, <1>5 DEF Next, Validator, Cve, vars, inputs, cve, history

(* When both stages passed and nothing was edited since, the dispositions   *)
(* are about the validated candidate (cve_disposition_fixture.py:28-38).    *)
THEOREM DispositionMatches == Spec => []DispositionIsAboutCandidate
<1>1. Init => StillThere /\ Agreed
  BY DEF Init, StillThere, Agreed
<1>2. IInv /\ StillThere /\ Agreed /\ [Next]_vars => (StillThere /\ Agreed)'
  BY StillThereNext, AgreedNext
<1>3. StillThere /\ Agreed => DispositionIsAboutCandidate
  <2> SUFFICES ASSUME StillThere, Agreed, exit = 0, cveExit = 0, ~dirty
               PROVE  /\ claimed = G!Without(document, "manifest_sha256")
                      /\ claimed.configuration.files = disk
    BY DEF DispositionIsAboutCandidate
  <2>1. /\ document = manifest /\ document \in G!Manifest
        /\ claimed = G!Without(document, "manifest_sha256")
        /\ document.configuration.files = disk
    BY DEF StillThere, Agreed
  <2> QED BY <2>1, PayloadOfManifest
<1> QED BY <1>1, <1>2, <1>3, ValidationInvariant, PTL DEF Spec
=============================================================================
