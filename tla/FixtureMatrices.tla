--------------------------- MODULE FixtureMatrices ---------------------------
(***************************************************************************)
(* scripts/fetcher_fixture_matrix.py and worker_cache_fixture_matrix.py:    *)
(* one process walks a list of cases against BitBake and OE-Core checkouts  *)
(* that it imports, and prints everything it saw under the revisions it     *)
(* read, or nothing.  The network probe runs in a child because BitBake's   *)
(* helper moves its process to another network namespace.  What BitBake,    *)
(* npm, gpg and ar do is external; they may fail, be missing or hang.       *)
(*                                                                         *)
(* MaxEdits bounds the changes of the checkouts.  `steady`, and by whom the *)
(* marker of the npm project was made, are history and decide nothing.      *)
(***************************************************************************)
EXTENDS Integers, Sequences

CONSTANTS Rev, Uncommitted, MaxEdits

ASSUME MatrixAssumption ==
    /\ Uncommitted \notin Rev /\ "none" \notin Rev \cup {Uncommitted}
    /\ MaxEdits \in Nat

Checkout == {"bitbake", "oe"}
Code == Rev \cup {Uncommitted}
None == "none"

Archives == {"tar", "zip", "deb", "ipk"}
Npmsw == {"normal", "traversal"}
Mode == {"default", "ignore", "explicit-allow", "approved"}

FetcherList == <<"import", "bitbake", "package", "tar", "zip", "deb", "ipk", "normal",
                 "traversal", "default", "ignore", "explicit-allow", "approved", "print">>
WorkerList == <<"bitbake", "oe", "network", "environment", "gpg", "print">>

Case == Archives \cup Npmsw \cup {"network", "environment", "gpg"}

VARIABLES
    head, code,  \* per checkout: HEAD, and what its files are
    edits,
    script, at,  \* the script that runs and its place in the list, 0: idle
    sub,         \* the place within a case of several commands
    tools,       \* the optional commands of the host
    gated,       \* npm runs install scripts only of approved packages
    label,       \* per checkout: the revision read
    loaded,      \* per checkout: what the process imported of it
    netns,       \* the network namespace of the process: the caller's or its own
    ambient,     \* FIXTURE_AMBIENT is set in os.environ
    project,     \* the npm project of the present mode
    seen,        \* per case: what was seen of which code and in which namespace
    lifecycle,   \* per mode: what was seen
    printed,     \* the report, or NoReport
    exit,        \* -1 while there is none, 1 for every failure
    steady       \* the checkouts were clean and left alone

upstream == <<head, code>>
process == <<loaded, netns, ambient>>
result == <<label, seen, lifecycle>>
vars == <<upstream, edits, script, at, sub, tools, gated, process, project, result,
          printed, exit, steady>>

Observation == [code : Code \cup {None}, oe : Code \cup {None},
                netns : {None, "caller", "own"}, ambient : BOOLEAN]
NotSeen == [code |-> None, oe |-> None, netns |-> None, ambient |-> FALSE]

(* node_modules, the approval, the return codes so far and the marker.      *)
Project == [modules : BOOLEAN, approved : BOOLEAN, bootstrap : {-1, 0, 1},
            approval : {-1, 0, 1}, install : {-1, 0, 1},
            marker : {None, "bootstrap", "install"}]
NoProject == [modules |-> FALSE, approved |-> FALSE, bootstrap |-> -1,
              approval |-> -1, install |-> -1, marker |-> None]

Unlabelled == [c \in Checkout |-> None]
NothingSeen == [k \in Case |-> NotSeen]
NoModes == [m \in Mode |-> NoProject]
NoReport == [label |-> Unlabelled, seen |-> NothingSeen, lifecycle |-> NoModes]

List == IF script = "fetcher" THEN FetcherList ELSE WorkerList
Running == at > 0
Now == List[at]

FirstOf(step) ==
    CASE step = "approved" -> "bootstrap" [] step = "gpg" -> "generate"
      [] step \in Mode \ {"approved"} -> "install" [] OTHER -> None

TypeOK ==
    /\ head \in [Checkout -> Rev] /\ code \in [Checkout -> Code]
    /\ edits \in 0..MaxEdits
    /\ script \in {"fetcher", "worker"} /\ at \in 0..Len(List)
    /\ sub \in {None, "bootstrap", "approve", "clear", "install",
                "generate", "list", "sign", "verify"}
    /\ tools \subseteq {"ar", "npm", "gpg"} /\ gated \in BOOLEAN
    /\ label \in [Checkout -> Rev \cup {None}]
    /\ loaded \in [Checkout -> Code \cup {None}]
    /\ netns \in {"caller", "own"} /\ ambient \in BOOLEAN
    /\ project \in Project
    /\ seen \in [Case -> Observation] /\ lifecycle \in [Mode -> Project]
    /\ printed \in [label : [Checkout -> Rev \cup {None}], seen : [Case -> Observation],
                    lifecycle : [Mode -> Project]]
    /\ exit \in {-1, 0, 1} /\ steady \in BOOLEAN

Init ==
    /\ head \in [Checkout -> Rev] /\ code = head
    /\ edits = 0 /\ script = "fetcher" /\ at = 0 /\ sub = None
    /\ tools \in SUBSET {"ar", "npm", "gpg"} /\ gated \in BOOLEAN
    /\ label = Unlabelled /\ loaded = Unlabelled /\ netns = "caller" /\ ambient = FALSE
    /\ project = NoProject /\ seen = NothingSeen /\ lifecycle = NoModes
    /\ printed = NoReport /\ exit = -1 /\ steady = TRUE

-----------------------------------------------------------------------------
(* The checkouts, in the hands of others.                                   *)
Disturb(c) ==
    /\ edits < MaxEdits /\ edits' = edits + 1
    /\ steady' = FALSE
    /\ UNCHANGED <<script, at, sub, tools, gated, process, project, result, printed, exit>>

Move ==
    \E c \in Checkout, r \in Rev :
        /\ r # head[c]
        /\ head' = [head EXCEPT ![c] = r] /\ code' = [code EXCEPT ![c] = r]
        /\ Disturb(c)

Modify ==
    \E c \in Checkout :
        /\ code[c] # Uncommitted
        /\ code' = [code EXCEPT ![c] = Uncommitted] /\ UNCHANGED head
        /\ Disturb(c)

-----------------------------------------------------------------------------
(* Both scripts.  An exception that a script does not catch loses all it    *)
(* has seen.                                                                *)
setting == <<upstream, edits, script, tools, gated, steady>>

Start(which) ==
    /\ ~Running /\ script' = which /\ at' = 1 /\ sub' = None
    /\ label' = Unlabelled /\ loaded' = Unlabelled /\ netns' = "caller"
    /\ ambient' = FALSE /\ project' = NoProject
    /\ seen' = NothingSeen /\ lifecycle' = NoModes
    /\ printed' = NoReport /\ exit' = -1
    /\ steady' = (code = head)
    /\ UNCHANGED <<upstream, edits, tools, gated>>

Proceed == at' = at + 1 /\ sub' = FirstOf(List[at + 1]) /\ UNCHANGED exit

Lose == at' = 0 /\ sub' = None /\ exit' = 1

Step(name) == Running /\ Now = name /\ UNCHANGED <<setting, printed>>

(* A checkout that is no BitBake ends the script: parser.error(), or an     *)
(* ImportError.                                                             *)
Import ==
    /\ Step("import")
    /\ \/ Proceed /\ loaded' = [loaded EXCEPT !["bitbake"] = code["bitbake"]]
       \/ Lose /\ UNCHANGED loaded
    /\ UNCHANGED <<netns, ambient, project, result>>

(* git rev-parse HEAD; nobody asks whether the checkout is clean.           *)
Labelled_AsFound(c) == code[c]
Labelled(c) == head[c]

Label ==
    \E c \in Checkout :
        /\ Step(c)
        /\ \/ Proceed /\ label' = [label EXCEPT ![c] = Labelled(c)]
           \/ Lose /\ UNCHANGED label
        /\ UNCHANGED <<process, project, seen, lifecycle>>

(* What the process itself sees, of the modules it holds.                   *)
Sight == [code |-> loaded["bitbake"], oe |-> None, netns |-> netns, ambient |-> ambient]

See(k, x) == seen' = [seen EXCEPT ![k] = x] /\ UNCHANGED <<label, lifecycle>>

(* The fetcher's cases.  An exception of BitBake is what is to be seen; one *)
(* of the fixture's own commands is not caught.                             *)
Package ==
    /\ Step("package") /\ (Proceed \/ Lose)
    /\ UNCHANGED <<process, project, result>>

Makes(k) == k \in {"deb", "ipk"} => "ar" \in tools

FetchCase ==
    \E k \in Archives \cup Npmsw :
        /\ Step(k)
        /\ \/ Makes(k) /\ Proceed /\ See(k, Sight)
           \/ Lose /\ UNCHANGED result
        /\ UNCHANGED <<process, project>>

(* npm install --offline, external: a dependency that is not installed is,  *)
(* and its script runs if the flags and npm's own rule let it; a failure    *)
(* may come before or after.                                                *)
Flag_BootstrapPlain(mode, which) ==
    CASE mode = "ignore" -> "--ignore-scripts"
      [] mode = "explicit-allow" -> "--ignore-scripts=false"
      [] OTHER -> None
Flag(mode, which) ==
    CASE which = "bootstrap" \/ mode = "ignore" -> "--ignore-scripts"
      [] mode = "explicit-allow" -> "--ignore-scripts=false"
      [] OTHER -> None

RunsScripts(mode, which) ==
    /\ Flag(mode, which) # "--ignore-scripts"
    /\ gated => project.approved

Installed(mode, which) ==
    [project EXCEPT
        !.modules = TRUE,
        !.marker = IF ~project.modules /\ RunsScripts(mode, which) THEN which ELSE @]

Outcomes(mode, which) ==
    [project : {Installed(mode, which)}, code : {0, 1}]
        \cup {[project |-> project, code |-> 1]}

Npm(which) ==
    /\ \E m \in Mode : Step(m)
    /\ sub = which
    /\ UNCHANGED <<process, label, seen>>

Bootstrap ==
    /\ Npm("bootstrap")
    /\ \/ /\ "npm" \in tools /\ sub' = "approve" /\ UNCHANGED <<at, exit>>
          /\ \E p \in Outcomes(Now, "bootstrap") :
                project' = [p.project EXCEPT !.bootstrap = p.code]
       \/ Lose /\ UNCHANGED project
    /\ UNCHANGED lifecycle

(* npm install-scripts approve, which only a gated npm has.                 *)
Approve ==
    /\ Npm("approve")
    /\ \/ /\ "npm" \in tools /\ sub' = "clear" /\ UNCHANGED <<at, exit>>
          /\ \/ gated /\ project.modules
                /\ project' = [project EXCEPT !.approved = TRUE, !.approval = 0]
             \/ project' = [project EXCEPT !.approval = 1]
       \/ Lose /\ UNCHANGED project
    /\ UNCHANGED lifecycle

(* shutil.rmtree() raises if the bootstrap left no node_modules.            *)
Clear ==
    /\ Npm("clear")
    /\ \/ project.modules /\ sub' = "install" /\ project' = [project EXCEPT !.modules = FALSE]
          /\ UNCHANGED <<at, exit>>
       \/ ~project.modules /\ Lose /\ UNCHANGED project
    /\ UNCHANGED lifecycle

Install ==
    /\ Npm("install")
    /\ \/ /\ "npm" \in tools /\ Proceed
          /\ \E p \in Outcomes(Now, "install") :
                lifecycle' = [lifecycle EXCEPT ![Now] = [p.project EXCEPT !.install = p.code]]
          /\ project' = NoProject   \* the next mode has a directory of its own
       \/ Lose /\ UNCHANGED <<project, lifecycle>>

-----------------------------------------------------------------------------
(* The worker's cases.  The child imports BitBake as it is now, and its own *)
(* namespace is what the helper changes, if the kernel lets it.             *)
Moves_InProcess(ns) == netns' = ns
Moves(ns) == UNCHANGED netns

NetworkProbe ==
    /\ Step("network")
    /\ \/ \E ns \in {"caller", "own"} :
            /\ See("network", [code |-> code["bitbake"], oe |-> None, netns |-> ns,
                               ambient |-> ambient])
            /\ Moves(ns) /\ Proceed
       \/ Lose /\ UNCHANGED <<result, netns>>
    /\ UNCHANGED <<loaded, ambient, project>>

(* The first import of bb in this process; runfetchcmd() may raise.         *)
EnvironmentProbe ==
    /\ Step("environment")
    /\ loaded' = [loaded EXCEPT !["bitbake"] = code["bitbake"]]
    /\ ambient' = TRUE
    /\ \/ Proceed /\ See("environment", [code |-> code["bitbake"], oe |-> None,
                                         netns |-> netns, ambient |-> TRUE])
       \/ Lose /\ UNCHANGED result
    /\ UNCHANGED <<netns, project>>

(* gpg: a key, its fingerprint, a signature, six verifications.             *)
GpgProbe ==
    /\ Step("gpg")
    /\ \/ "gpg" \notin tools /\ Proceed /\ UNCHANGED <<result, loaded>>
       \/ /\ "gpg" \in tools
          /\ loaded' = IF sub = "generate" THEN [loaded EXCEPT !["oe"] = code["oe"]]
                       ELSE loaded
          /\ \/ sub = "generate" /\ sub' = "list" /\ UNCHANGED <<at, exit, result>>
             \/ sub = "list" /\ sub' = "sign" /\ UNCHANGED <<at, exit, result>>
             \/ sub = "sign" /\ sub' = "verify" /\ UNCHANGED <<at, exit, result>>
             \/ sub = "verify" /\ Proceed /\ See("gpg", [Sight EXCEPT !.oe = loaded["oe"]])
             \/ Lose /\ UNCHANGED result
    /\ UNCHANGED <<netns, ambient, project>>

-----------------------------------------------------------------------------
(* tool_version() takes the first line of a version query's output: with    *)
(* none, an IndexError loses the fetcher's report at the very end.          *)
PrintReport ==
    /\ Running /\ Now = "print"
    /\ \/ /\ printed' = [label |-> label, seen |-> seen, lifecycle |-> lifecycle]
          /\ at' = 0 /\ sub' = None /\ exit' = 0
       \/ script = "fetcher" /\ Lose /\ UNCHANGED printed
    /\ UNCHANGED <<setting, process, project, result>>

(* subprocess.run(timeout=...): the npm commands, the network child, and    *)
(* gpg's key generation, signature and direct verifications.                *)
Signing == Now = "gpg" /\ "gpg" \in tools /\ sub \in {"generate", "sign", "verify"}

Timed_NoChild == (Now \in Mode /\ sub # "clear") \/ Signing
Timed ==
    \/ Now \in Mode /\ sub # "clear"
    \/ Now = "network"
    \/ Signing

Timeout ==
    /\ Running /\ Timed /\ Lose
    /\ UNCHANGED <<setting, process, project, result, printed>>

MayHang == Bootstrap \/ Approve \/ Install \/ NetworkProbe

Own ==
    \/ Import \/ Label \/ Package \/ FetchCase \/ Clear \/ EnvironmentProbe \/ GpgProbe
    \/ PrintReport \/ Timeout

Next == Move \/ Modify \/ (\E s \in {"fetcher", "worker"} : Start(s)) \/ Own \/ MayHang

Spec == Init /\ [][Next]_vars

(* Python, BitBake and the commands that have no timer (git, ar, the version*)
(* queries, gpg's listing) answer, and the timers fire; npm's installs and  *)
(* the network child may hang.                                              *)
FairSpec == Spec /\ WF_vars(Own)

-----------------------------------------------------------------------------
(* A report is of the revisions it names, if the checkouts were clean and   *)
(* left alone, and of one BitBake per process even if not; nothing but the  *)
(* network probe was seen in a namespace of its own; no case is missing     *)
(* (fetcher_fixture_matrix.py:353-404,                                      *)
(* worker_cache_fixture_matrix.py:55-76 and :248-263).                      *)
Expected ==
    IF script = "fetcher" THEN Archives \cup Npmsw
    ELSE {"network", "environment"} \cup (IF "gpg" \in tools THEN {"gpg"} ELSE {})

ReportIsAttributed ==
    exit = 0 =>
        /\ \A k \in Case :
            LET x == printed.seen[k] IN
            /\ (k \in Expected) <=> x.code # None
            /\ x.netns = "own" => k = "network"
            /\ steady => /\ x.code \in {None, printed.label["bitbake"]}
                         /\ x.oe \in {None, printed.label["oe"]}
        /\ \A k, l \in Expected \ {"network"} : printed.seen[k].code = printed.seen[l].code
        /\ \A m \in Mode : (script = "fetcher") <=> printed.lifecycle[m].install # -1

(* What is reported of npm's install scripts is what the mode's own install *)
(* did: a marker is never left over from the bootstrap that prepares an     *)
(* approval, never there when scripts were ignored, and if the approved     *)
(* package is installed it is there, because the install starts from        *)
(* nothing (run_npm_lifecycle_case, fetcher_fixture_matrix.py:269-321).     *)
LifecycleIsOfTheInstall ==
    exit = 0 => \A m \in Mode :
        LET p == printed.lifecycle[m] IN
        /\ p.marker \in {None, "install"}
        /\ p.marker # None => m # "ignore" /\ (gated => m = "approved" /\ p.approval = 0)
        /\ m = "approved" /\ p.approval = 0 /\ p.install = 0 => p.marker = "install"

(* A script ends, also when npm or the network child hangs                  *)
(* (fetcher_fixture_matrix.py:312, worker_cache_fixture_matrix.py:72).      *)
EveryMatrixEnds == Running ~> ~Running
=============================================================================
