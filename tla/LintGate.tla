------------------------------ MODULE LintGate ------------------------------
(***************************************************************************)
(* What the traceability gate promises, whatever way it reads the tree: the *)
(* sidecar on disk is judged as a whole, at one moment, and the exit code   *)
(* is that judgement.  `dirty` says that the tree changed since the last    *)
(* run began; the promise is only made for a run nothing disturbed.         *)
(***************************************************************************)
EXTENDS TraceabilityModel

VARIABLES
    items,    \* per UID: what its file holds
    config,   \* per document directory and for the root: its state
    content,  \* per file: what it holds
    judging,  \* a run is under way
    strict,   \* ... with --strict-completeness
    exit,     \* its exit code, -1 while it has none
    dirty     \* the tree changed since the run began

world == <<items, config, content>>
vars == <<items, config, content, judging, strict, exit, dirty>>

-----------------------------------------------------------------------------
(* Nothing the linter calls an error is anywhere in the tree.               *)
Sound ==
    /\ \A d \in DOMAIN config : config[d] = "ok"
    /\ \A u \in Uid : items[u] # NotYaml
    /\ \A u \in Loaded(items) : ItemErrors(u, items[u], content, {}, {}) = {}
    /\ \A u, v \in Loaded(items) : u # v =>
         /\ DirOf[u] = DirOf[v] => items[u].level # items[v].level
         /\ items[u].finding = items[v].finding => items[u].finding = NoFinding
    /\ LinkErrors(items) = {}

Verdict == IF ~Sound THEN 1
           ELSE IF strict /\ Warnings(items) # {} THEN 2 ELSE 0

-----------------------------------------------------------------------------
Init == /\ judging = FALSE /\ strict = FALSE /\ exit = -1 /\ dirty = FALSE

Edit == /\ dirty' = TRUE
        /\ UNCHANGED <<judging, strict, exit>>

Begin == /\ ~judging
         /\ judging' = TRUE /\ strict' \in BOOLEAN /\ exit' = -1 /\ dirty' = FALSE
         /\ UNCHANGED world

Judge == /\ judging
         /\ judging' = FALSE
         /\ exit' \in IF dirty THEN {0, 1, 2} ELSE {Verdict}
         /\ UNCHANGED <<items, config, content, strict, dirty>>

Next == Edit \/ Begin \/ Judge

Spec == Init /\ [][Next]_vars
=============================================================================
