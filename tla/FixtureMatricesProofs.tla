------------------------ MODULE FixtureMatricesProofs ------------------------
(* Theorems about the fixture matrices, for any revisions and any number of  *)
(* changes of the checkouts.                                                 *)
EXTENDS FixtureMatrices, TLAPS

(* The lists end with the step that prints, and have it nowhere else.       *)
LEMMA Lists ==
    /\ Len(FetcherList) = 14 /\ Len(WorkerList) = 6
    /\ FetcherList[14] = "print" /\ WorkerList[6] = "print"
  BY DEF FetcherList, WorkerList

LEMMA NotLast ==
    ASSUME at \in 0..Len(List), Running, Now # "print"
    PROVE  at + 1 \in 0..Len(List)
<1>1. CASE script = "fetcher"
  <2>1. List = FetcherList
    BY <1>1 DEF List
  <2>2. at # 14
    BY <2>1, Lists DEF Now
  <2> QED
    BY <2>1, <2>2, Lists
<1>2. CASE script # "fetcher"
  <2>1. List = WorkerList
    BY <1>2 DEF List
  <2>2. at # 6
    BY <2>1, Lists DEF Now
  <2> QED
    BY <2>1, <2>2, Lists
<1> QED
  BY <1>1, <1>2

LEMMA Firsts ==
    \A step : FirstOf(step) \in {None, "bootstrap", "generate", "install"}
  BY DEF FirstOf

Sub == {None, "bootstrap", "approve", "clear", "install", "generate", "list", "sign",
        "verify"}

(* Where a step leads: to the next place, to a later part of this one, or   *)
(* to the end.                                                              *)
LEMMA ProceedTyped ==
    ASSUME TypeOK, Running, Now # "print", Proceed, UNCHANGED script
    PROVE  at' \in 0..Len(List)' /\ sub' \in Sub /\ exit' \in {-1, 0, 1}
  BY NotLast, Firsts DEF Proceed, TypeOK, List, Sub, None

LEMMA LoseTyped ==
    ASSUME TypeOK, Lose, UNCHANGED script
    PROVE  at' \in 0..Len(List)' /\ sub' \in Sub /\ exit' \in {-1, 0, 1}
  BY Lists DEF Lose, List, Sub

LEMMA StayTyped ==
    ASSUME TypeOK, sub' \in Sub, UNCHANGED <<script, at, exit>>
    PROVE  at' \in 0..Len(List)' /\ sub' \in Sub /\ exit' \in {-1, 0, 1}
  BY DEF TypeOK, List

LEMMA BlankTyped ==
    /\ Unlabelled \in [Checkout -> Rev \cup {None}]
    /\ Unlabelled \in [Checkout -> Code \cup {None}]
    /\ NothingSeen \in [Case -> Observation] /\ NoProject \in Project
    /\ NoModes \in [Mode -> Project]
  BY DEF Unlabelled, NothingSeen, NotSeen, Observation, NoProject, Project, NoModes

LEMMA TypeInit == Init => TypeOK
<1> SUFFICES ASSUME Init PROVE TypeOK
  OBVIOUS
<1>1. head \in [Checkout -> Rev] /\ code \in [Checkout -> Code]
  BY DEF Init, Code
<1>2. edits \in 0..MaxEdits
  BY MatrixAssumption DEF Init, MatrixAssumption
<1>3. script \in {"fetcher", "worker"} /\ at \in 0..Len(List) /\ exit \in {-1, 0, 1}
  BY Lists DEF Init, List
<1>4. printed \in [label : [Checkout -> Rev \cup {None}], seen : [Case -> Observation],
                   lifecycle : [Mode -> Project]]
  BY BlankTyped DEF Init, NoReport
<1> QED
  BY <1>1, <1>2, <1>3, <1>4, BlankTyped DEF Init, TypeOK, None

(* What npm leaves behind is a project, with its return code too.           *)
LEMMA WithTyped ==
    ASSUME NEW p \in Project, NEW code0 \in {0, 1}
    PROVE  /\ [p EXCEPT !.bootstrap = code0] \in Project
           /\ [p EXCEPT !.install = code0] \in Project
           /\ [p EXCEPT !.approval = 1] \in Project
           /\ [p EXCEPT !.approved = TRUE, !.approval = 0] \in Project
           /\ [p EXCEPT !.modules = FALSE] \in Project
  BY DEF Project

LEMMA OutcomesTyped ==
    ASSUME project \in Project, NEW mode, NEW which \in {"bootstrap", "install"},
           NEW p \in Outcomes(mode, which)
    PROVE  p.project \in Project /\ p.code \in {0, 1}
<1>1. Installed(mode, which) \in Project
  <2>1. CASE ~project.modules /\ RunsScripts(mode, which)
    <3>1. Installed(mode, which) = [project EXCEPT !.modules = TRUE, !.marker = which]
      BY <2>1 DEF Installed
    <3> QED
      BY <3>1 DEF Project
  <2>2. CASE ~(~project.modules /\ RunsScripts(mode, which))
    <3>1. Installed(mode, which) = [project EXCEPT !.modules = TRUE, !.marker = project.marker]
      BY <2>2 DEF Installed
    <3> QED
      BY <3>1 DEF Project
  <2> QED
    BY <2>1, <2>2
<1>2. \/ p \in [project : {Installed(mode, which)}, code : {0, 1}]
      \/ p = [project |-> project, code |-> 1]
  BY DEF Outcomes
<1> QED
  BY <1>1, <1>2

Typed == /\ at \in 0..Len(List) /\ sub \in Sub /\ exit \in {-1, 0, 1}

LEMMA TypeNext == TypeOK /\ [Next]_vars => TypeOK'
<1> SUFFICES ASSUME TypeOK, [Next]_vars PROVE TypeOK'
  OBVIOUS
<1> USE MatrixAssumption DEF MatrixAssumption
<1>a. Typed /\ TypeOK
  BY DEF Typed, TypeOK, Sub
<1>1. CASE Move \/ Modify
  <2>1. head' \in [Checkout -> Rev] /\ code' \in [Checkout -> Code]
    BY <1>1 DEF Move, Modify, TypeOK, Code
  <2>2. PICK c \in Checkout : Disturb(c)
    BY <1>1 DEF Move, Modify
  <2> QED
    <3>1. edits' \in 0..MaxEdits
      BY <2>2 DEF Disturb, TypeOK
    <3>2. at' \in 0..Len(List)'
      BY <2>2 DEF Disturb, TypeOK, List
    <3> QED
      BY <2>1, <2>2, <3>1, <3>2 DEF Disturb, TypeOK, process, result
<1>2. CASE \E s \in {"fetcher", "worker"} : Start(s)
  <2>1. PICK s \in {"fetcher", "worker"} : Start(s)
    BY <1>2
  <2>2. at' \in 0..Len(List)'
    BY <2>1, Lists DEF Start, List
  <2>3. printed' \in [label : [Checkout -> Rev \cup {None}], seen : [Case -> Observation],
                      lifecycle : [Mode -> Project]]
    BY <2>1, BlankTyped DEF Start, NoReport
  <2>4. steady' \in BOOLEAN
    BY <2>1 DEF Start
  <2> QED
    BY <2>1, <2>2, <2>3, <2>4, BlankTyped DEF Start, upstream, TypeOK, None
<1>3. CASE Import
  <2>1. Typed'
    BY <1>3, ProceedTyped, LoseTyped DEF Import, Step, setting, Typed
  <2>2. loaded' \in [Checkout -> Code \cup {None}]
    BY <1>3 DEF Import, TypeOK
  <2> QED
    BY <1>3, <2>1, <2>2 DEF Import, Step, setting, upstream, result, TypeOK, Typed, Sub
<1>4. CASE Label
  <2>1. PICK c \in Checkout : Step(c) /\ (Proceed \/ Lose) /\ UNCHANGED <<process, project, seen, lifecycle>>
                /\ label' \in {label, [label EXCEPT ![c] = Labelled(c)]}
    BY <1>4 DEF Label
  <2>2. Typed'
    BY <2>1, ProceedTyped, LoseTyped DEF Step, setting, Typed, Checkout
  <2>3. label' \in [Checkout -> Rev \cup {None}]
    BY <2>1 DEF Labelled, TypeOK
  <2> QED
    BY <2>1, <2>2, <2>3 DEF Step, setting, upstream, process, TypeOK, Typed, Sub
<1>5. CASE Package
  <2>1. Typed'
    BY <1>5, ProceedTyped, LoseTyped DEF Package, Step, setting, Typed
  <2> QED
    BY <1>5, <2>1 DEF Package, Step, setting, upstream, process, result, TypeOK, Typed, Sub
<1>6. CASE FetchCase
  <2>1. PICK k \in Archives \cup Npmsw :
           /\ Step(k) /\ (Proceed \/ Lose) /\ UNCHANGED <<process, project>>
           /\ (See(k, Sight) \/ UNCHANGED result)
    BY <1>6 DEF FetchCase
  <2>2. Typed'
    BY <2>1, ProceedTyped, LoseTyped DEF Step, setting, Typed, Archives, Npmsw
  <2>3. Sight \in Observation
    BY DEF Sight, Observation, TypeOK, Checkout
  <2>4. seen' \in [Case -> Observation]
    BY <2>1, <2>3 DEF See, result, TypeOK, Case
  <2> QED
    BY <2>1, <2>2, <2>4
       DEF See, Step, setting, upstream, process, result, TypeOK, Typed, Sub
<1>7. CASE Bootstrap
  <2>1. Typed'
    BY <1>7, LoseTyped, StayTyped DEF Bootstrap, Npm, Step, setting, Typed, Sub
  <2>2. project' \in Project
    <3>1. CASE UNCHANGED project
      BY <3>1 DEF TypeOK
    <3>2. ASSUME NEW p \in Outcomes(Now, "bootstrap"),
                 project' = [p.project EXCEPT !.bootstrap = p.code]
          PROVE  project' \in Project
      BY <3>2, OutcomesTyped, WithTyped DEF TypeOK
    <3> QED
      BY <1>7, <3>1, <3>2 DEF Bootstrap
  <2> QED
    BY <1>7, <2>1, <2>2
       DEF Bootstrap, Npm, Step, setting, upstream, process, TypeOK, Typed, Sub
<1>8. CASE Approve \/ Clear
  <2>1. Typed'
    BY <1>8, LoseTyped, StayTyped DEF Approve, Clear, Npm, Step, setting, Typed, Sub
  <2>2. project' \in Project
    BY <1>8, WithTyped DEF Approve, Clear, TypeOK
  <2> QED
    BY <1>8, <2>1, <2>2
       DEF Approve, Clear, Npm, Step, setting, upstream, process, TypeOK, Typed, Sub
<1>9. CASE Install
  <2>0. PICK m \in Mode : Step(m)
    BY <1>9 DEF Install, Npm
  <2>1. Typed'
    BY <1>9, <2>0, ProceedTyped, LoseTyped DEF Install, Step, setting, Typed, Mode
  <2>2. project' \in Project
    BY <1>9, BlankTyped DEF Install, TypeOK
  <2>3. lifecycle' \in [Mode -> Project]
    <3>1. CASE UNCHANGED lifecycle
      BY <3>1 DEF TypeOK
    <3>2. ASSUME NEW p \in Outcomes(Now, "install"),
                 lifecycle' = [lifecycle EXCEPT ![Now] = [p.project EXCEPT !.install = p.code]]
          PROVE  lifecycle' \in [Mode -> Project]
      <4>1. [p.project EXCEPT !.install = p.code] \in Project
        BY <3>2, OutcomesTyped, WithTyped DEF TypeOK
      <4> QED
        BY <3>2, <4>1 DEF TypeOK
    <3> QED
      BY <1>9, <3>1, <3>2 DEF Install
  <2> QED
    BY <1>9, <2>0, <2>1, <2>2, <2>3
       DEF Install, Npm, Step, setting, upstream, process, TypeOK, Typed, Sub
<1>10. CASE NetworkProbe
  <2>1. Typed'
    BY <1>10, ProceedTyped, LoseTyped DEF NetworkProbe, Step, setting, Typed
  <2>2. seen' \in [Case -> Observation]
    BY <1>10 DEF NetworkProbe, See, result, TypeOK, Case, Observation, Checkout
  <2> QED
    BY <1>10, <2>1, <2>2
       DEF NetworkProbe, Moves, See, Step, setting, upstream, result, TypeOK, Typed, Sub
<1>11. CASE EnvironmentProbe
  <2>1. Typed'
    BY <1>11, ProceedTyped, LoseTyped DEF EnvironmentProbe, Step, setting, Typed
  <2>2. seen' \in [Case -> Observation]
    <3>1. code["bitbake"] \in Code /\ netns \in {None, "caller", "own"}
      BY <1>a DEF TypeOK, Checkout
    <3>2. [code |-> code["bitbake"], oe |-> None, netns |-> netns, ambient |-> TRUE]
             \in Observation
      BY <3>1 DEF Observation
    <3> QED
      BY <1>11, <3>2 DEF EnvironmentProbe, See, result, TypeOK, Case
  <2>3. loaded' \in [Checkout -> Code \cup {None}]
    BY <1>11 DEF EnvironmentProbe, TypeOK
  <2> QED
    BY <1>11, <2>1, <2>2, <2>3
       DEF EnvironmentProbe, See, Step, setting, upstream, result, TypeOK, Typed, Sub
<1>12. CASE GpgProbe
  <2>1. Typed'
    BY <1>12, ProceedTyped, LoseTyped, StayTyped DEF GpgProbe, Step, setting, Typed, Sub
  <2>2. [Sight EXCEPT !.oe = loaded["oe"]] \in Observation
    BY DEF Sight, Observation, TypeOK, Checkout
  <2>3. seen' \in [Case -> Observation]
    BY <1>12, <2>2 DEF GpgProbe, See, result, TypeOK, Case
  <2>4. loaded' \in [Checkout -> Code \cup {None}]
    BY <1>12 DEF GpgProbe, TypeOK
  <2> QED
    BY <1>12, <2>1, <2>3, <2>4
       DEF GpgProbe, See, Step, setting, upstream, result, TypeOK, Typed, Sub
<1>13. CASE PrintReport
  <2>1. 0 \in 0..Len(List)'
    BY <1>13, Lists DEF PrintReport, setting, List
  <2>2. at' = 0 /\ sub' = None /\ exit' \in {0, 1}
    BY <1>13 DEF PrintReport, Lose
  <2> QED
    BY <1>13, <2>1, <2>2 DEF PrintReport, setting, upstream, process, result, TypeOK
<1>14. CASE Timeout
  <2>1. Typed'
    BY <1>14, LoseTyped DEF Timeout, setting, Typed
  <2> QED
    BY <1>14, <2>1 DEF Timeout, setting, upstream, process, result, TypeOK, Typed, Sub
<1>15. CASE UNCHANGED vars
  BY <1>15 DEF vars, upstream, process, result, TypeOK, List
<1> QED
  BY <1>1, <1>2, <1>3, <1>4, <1>5, <1>6, <1>7, <1>8, <1>9, <1>10, <1>11, <1>12, <1>13,
     <1>14, <1>15 DEF Next, Own, MayHang

(* Checkouts, scripts and reports stay well typed.                          *)
THEOREM TypeCorrect == Spec => []TypeOK
  BY TypeInit, TypeNext, PTL DEF Spec

-----------------------------------------------------------------------------
(* What is reported of one mode, alone.                                     *)
Told(m, p) ==
    /\ p.marker \in {None, "install"}
    /\ p.marker # None => m # "ignore" /\ (gated => m = "approved" /\ p.approval = 0)
    /\ m = "approved" /\ p.approval = 0 /\ p.install = 0 => p.marker = "install"

AllTold == \A m \in Mode : Told(m, lifecycle[m]) /\ Told(m, printed.lifecycle[m])

(* No script has run in the project at hand, and it is approved if and only *)
(* if the approval succeeded.                                               *)
Unmarked == project.marker = None /\ (project.approved <=> project.approval = 0)

(* Only the approved mode prepares its project, and the install of every    *)
(* mode begins without node_modules.                                        *)
Prepared ==
    /\ Running /\ (Now # "approved" \/ sub = "bootstrap") => project = NoProject
    /\ sub \in {"bootstrap", "approve", "clear"} => Running /\ Now = "approved"
    /\ sub = "approve" => ~project.approved
    /\ sub = "install" => ~project.modules

Lifecycle == TypeOK /\ AllTold /\ Unmarked /\ Prepared

LEMMA FirstsOf ==
    ASSUME NEW step
    PROVE  /\ FirstOf(step) \notin {"approve", "clear"}
           /\ FirstOf(step) = "bootstrap" => step = "approved"
           /\ step = "approved" => FirstOf(step) = "bootstrap"
  BY DEF FirstOf, None

LEMMA BlankTold == ASSUME NEW m PROVE Told(m, NoProject)
  BY DEF Told, NoProject, None

LEMMA ProceedPrepared ==
    ASSUME TypeOK, Running, Proceed, UNCHANGED script, project' = NoProject
    PROVE  Unmarked' /\ Prepared'
<1>1. Running' /\ Now' = List[at + 1] /\ sub' = FirstOf(Now')
  BY DEF Proceed, Running, Now, List, TypeOK
<1>2. sub' \notin {"approve", "clear"} /\ (sub' = "bootstrap" => Now' = "approved")
  BY <1>1, FirstsOf
<1> QED
  BY <1>1, <1>2 DEF Unmarked, Prepared, NoProject, None

LEMMA LosePrepared ==
    ASSUME Lose, Unmarked'
    PROVE  Unmarked' /\ Prepared'
  BY DEF Lose, Prepared, Running, None

LEMMA Apart ==
    /\ \A m \in Mode : m \notin {"import", "bitbake", "oe", "package", "network",
                                  "environment", "gpg", "print"} \cup Archives \cup Npmsw
    /\ Mode = {"default", "ignore", "explicit-allow", "approved"}
  BY DEF Mode, Archives, Npmsw

LEMMA LifecycleInit == Init => Lifecycle
<1> SUFFICES ASSUME Init PROVE Lifecycle
  OBVIOUS
<1>1. AllTold
  BY BlankTold DEF Init, AllTold, NoModes, NoReport
<1> QED
  BY <1>1, TypeInit DEF Init, Lifecycle, Unmarked, Prepared, Running, NoProject, None

(* A step that is not npm's goes on with no project, or is the last.        *)
LEMMA OthersKeep ==
    ASSUME Lifecycle, Running, Now # "approved", UNCHANGED <<script, project>>, Proceed \/ Lose
    PROVE  Unmarked' /\ Prepared'
<1>1. project = NoProject
  BY DEF Lifecycle, Prepared
<1>2. Unmarked'
  BY DEF Lifecycle, Unmarked
<1> QED
  BY <1>1, <1>2, ProceedPrepared, LosePrepared DEF Lifecycle

LEMMA StayTold ==
    ASSUME Lifecycle, UNCHANGED <<lifecycle, printed, gated>>
    PROVE  AllTold'
  BY DEF Lifecycle, AllTold, Told

(* What the install of a mode leaves behind may be reported.                *)
LEMMA InstallTold ==
    ASSUME Lifecycle, NEW m \in Mode, Running, Now = m, sub = "install",
           NEW p \in Outcomes(m, "install")
    PROVE  Told(m, [p.project EXCEPT !.install = p.code])
<1> DEFINE q == [p.project EXCEPT !.install = p.code]
<1>0. project \in Project /\ project.marker = None /\ ~project.modules
  BY DEF Lifecycle, TypeOK, Unmarked, Prepared
<1>1. project.approved <=> project.approval = 0
  BY DEF Lifecycle, Unmarked
<1>2. m # "approved" => ~project.approved
  BY DEF Lifecycle, Prepared, NoProject
<1>3. CASE p = [project |-> project, code |-> 1]
  <2>1. q.marker = None /\ q.install = 1
    BY <1>0, <1>3 DEF Project
  <2> QED
    BY <2>1 DEF Told, None
<1>4. CASE p \in [project : {Installed(m, "install")}, code : {0, 1}]
  <2>1. CASE RunsScripts(m, "install")
    <3>1. Installed(m, "install") = [project EXCEPT !.modules = TRUE, !.marker = "install"]
      BY <1>0, <2>1 DEF Installed
    <3>2. q.marker = "install" /\ q.approval = project.approval
      BY <1>0, <1>4, <3>1 DEF Project
    <3>3. m # "ignore" /\ (gated => project.approved)
      BY <2>1 DEF RunsScripts, Flag
    <3> QED
      BY <1>1, <1>2, <3>2, <3>3 DEF Told
  <2>2. CASE ~RunsScripts(m, "install")
    <3>1. Installed(m, "install") = [project EXCEPT !.modules = TRUE, !.marker = project.marker]
      BY <2>2 DEF Installed
    <3>2. q.marker = None /\ q.approval = project.approval
      BY <1>0, <1>4, <3>1 DEF Project
    <3>3. m = "approved" => ~project.approved
      BY <2>2 DEF RunsScripts, Flag, None, Mode
    <3> QED
      BY <1>1, <3>2, <3>3 DEF Told
  <2> QED
    BY <2>1, <2>2
<1> QED
  BY <1>3, <1>4 DEF Outcomes

LEMMA LifecycleNext == Lifecycle /\ [Next]_vars => Lifecycle'
<1> SUFFICES ASSUME Lifecycle, [Next]_vars PROVE AllTold' /\ Unmarked' /\ Prepared'
  BY TypeNext DEF Lifecycle
<1>1. CASE Move \/ Modify
  <2>1. UNCHANGED <<script, at, sub, gated, project, lifecycle, printed>>
    BY <1>1 DEF Move, Modify, Disturb, result
  <2> QED
    BY <2>1, StayTold DEF Lifecycle, Unmarked, Prepared, Running, Now, List
<1>2. CASE \E s \in {"fetcher", "worker"} : Start(s)
  <2>1. /\ at' = 1 /\ sub' = None /\ project' = NoProject
        /\ lifecycle' = NoModes /\ printed' = NoReport /\ UNCHANGED gated
    BY <1>2 DEF Start
  <2>2. AllTold'
    BY <2>1, BlankTold DEF AllTold, Told, NoModes, NoReport
  <2> QED
    BY <2>1, <2>2 DEF Unmarked, Prepared, NoProject, None
<1>3. CASE Import \/ Label \/ Package \/ FetchCase \/ NetworkProbe \/ EnvironmentProbe
  <2>1. /\ Running /\ Now # "approved" /\ (Proceed \/ Lose)
        /\ UNCHANGED <<script, gated, project, lifecycle, printed>>
    BY <1>3, Apart DEF Import, Label, Package, FetchCase, NetworkProbe, EnvironmentProbe,
                Step, setting, result, See, Checkout, Archives, Npmsw
  <2> QED
    BY <2>1, OthersKeep, StayTold
<1>4. CASE GpgProbe
  <2>1. /\ Running /\ Now = "gpg" /\ UNCHANGED <<script, gated, project, lifecycle, printed>>
    BY <1>4 DEF GpgProbe, Step, setting, result, See
  <2>2. CASE Proceed \/ Lose
    BY <2>1, <2>2, OthersKeep, StayTold
  <2>3. CASE sub' \in {"list", "sign", "verify"} /\ UNCHANGED at
    BY <2>1, <2>3, StayTold DEF Lifecycle, Unmarked, Prepared, Running, Now, List
  <2> QED
    BY <1>4, <2>2, <2>3 DEF GpgProbe
<1>5. CASE Bootstrap
  <2>1. /\ sub = "bootstrap" /\ UNCHANGED <<script, gated, lifecycle, printed>>
        /\ Running /\ Now = "approved" /\ project = NoProject
    BY <1>5 DEF Bootstrap, Npm, Step, setting, Lifecycle, Prepared
  <2>2. CASE Lose /\ UNCHANGED project
    BY <2>1, <2>2, LosePrepared, StayTold DEF Lifecycle, Unmarked
  <2>3. ASSUME sub' = "approve", UNCHANGED at, NEW p \in Outcomes(Now, "bootstrap"),
               project' = [p.project EXCEPT !.bootstrap = p.code]
        PROVE  Unmarked' /\ Prepared'
    <3>1. ~RunsScripts(Now, "bootstrap")
      BY <2>1 DEF RunsScripts, Flag
    <3>2. Installed(Now, "bootstrap")
            = [project EXCEPT !.modules = TRUE, !.marker = project.marker]
      BY <3>1 DEF Installed
    <3>3. p.project \in {project, Installed(Now, "bootstrap")}
      BY <2>3 DEF Outcomes
    <3>4. project'.marker = None /\ ~project'.approved /\ project'.approval = -1
      <4>1. CASE p.project = project
        BY <2>1, <2>3, <4>1 DEF NoProject
      <4>2. CASE p.project = Installed(Now, "bootstrap")
        <5>1. p.project = [NoProject EXCEPT !.modules = TRUE, !.marker = None]
          BY <2>1, <3>2, <4>2 DEF NoProject
        <5> QED
          BY <2>3, <5>1 DEF NoProject
      <4> QED
        BY <3>3, <4>1, <4>2
    <3>5. Unmarked'
      BY <3>4 DEF Unmarked
    <3> QED
      BY <2>1, <2>3, <3>4, <3>5 DEF Prepared, Running, Now, List
  <2> QED
    BY <1>5, <2>1, <2>2, <2>3, StayTold DEF Bootstrap
<1>6. CASE Approve
  <2>1. /\ sub = "approve" /\ UNCHANGED <<script, gated, lifecycle, printed>>
        /\ Running /\ Now = "approved" /\ project \in Project /\ project.marker = None
        /\ ~project.approved
    BY <1>6 DEF Approve, Npm, Step, setting, Lifecycle, Prepared, Unmarked, TypeOK
  <2>2. CASE Lose /\ UNCHANGED project
    BY <2>1, <2>2, LosePrepared, StayTold DEF Lifecycle, Unmarked
  <2>3. CASE /\ sub' = "clear" /\ UNCHANGED at
             /\ \/ project' = [project EXCEPT !.approved = TRUE, !.approval = 0]
                \/ project' = [project EXCEPT !.approval = 1]
    <3>1. Unmarked'
      <4>1. CASE project' = [project EXCEPT !.approved = TRUE, !.approval = 0]
        BY <2>1, <4>1 DEF Unmarked, Project
      <4>2. CASE project' = [project EXCEPT !.approval = 1]
        BY <2>1, <4>2 DEF Unmarked, Project
      <4> QED
        BY <2>3, <4>1, <4>2
    <3> QED
      BY <2>1, <2>3, <3>1, StayTold DEF Prepared, Running, Now, List
  <2> QED
    BY <1>6, <2>2, <2>3 DEF Approve
<1>7. CASE Clear
  <2>1. /\ sub = "clear" /\ UNCHANGED <<script, gated, lifecycle, printed>>
        /\ Running /\ Now = "approved" /\ project \in Project
    BY <1>7 DEF Clear, Npm, Step, setting, Lifecycle, Prepared, TypeOK
  <2>2. CASE Lose /\ UNCHANGED project
    BY <2>1, <2>2, LosePrepared, StayTold DEF Lifecycle, Unmarked
  <2>3. CASE sub' = "install" /\ UNCHANGED at /\ project' = [project EXCEPT !.modules = FALSE]
    <3>1. Unmarked' /\ ~project'.modules
      BY <2>1, <2>3 DEF Lifecycle, Unmarked, Project
    <3> QED
      BY <2>1, <2>3, <3>1, StayTold DEF Prepared, Running, Now, List
  <2> QED
    BY <1>7, <2>2, <2>3 DEF Clear
<1>8. CASE Install
  <2>1. PICK m \in Mode : Step(m)
    BY <1>8 DEF Install, Npm
  <2>2. Running /\ Now = m /\ sub = "install" /\ UNCHANGED <<script, gated, printed>>
    BY <1>8, <2>1 DEF Install, Npm, Step, setting
  <2>3. CASE Lose /\ UNCHANGED <<project, lifecycle>>
    BY <2>2, <2>3, LosePrepared, StayTold DEF Lifecycle, Unmarked
  <2>4. ASSUME Proceed, project' = NoProject, NEW p \in Outcomes(Now, "install"),
               lifecycle' = [lifecycle EXCEPT ![Now] = [p.project EXCEPT !.install = p.code]]
        PROVE  AllTold' /\ Unmarked' /\ Prepared'
    <3>1. Told(m, [p.project EXCEPT !.install = p.code])
      BY <2>2, <2>4, InstallTold
    <3>2. lifecycle'[m] = [p.project EXCEPT !.install = p.code]
      BY <2>2, <2>4 DEF Lifecycle, TypeOK
    <3>3. \A n \in Mode : n # m => lifecycle'[n] = lifecycle[n]
      BY <2>2, <2>4 DEF Lifecycle, TypeOK
    <3>4. AllTold'
      <4>1. \A n \in Mode : Told(n, lifecycle[n])' /\ Told(n, printed.lifecycle[n])'
        <5> SUFFICES ASSUME NEW n \in Mode
                     PROVE  Told(n, lifecycle[n])' /\ Told(n, printed.lifecycle[n])'
          OBVIOUS
        <5>1. Told(n, printed.lifecycle[n])'
          BY <2>2 DEF Lifecycle, AllTold, Told
        <5>2. CASE n = m
          BY <2>2, <3>1, <3>2, <5>1, <5>2 DEF Told
        <5>3. CASE n # m
          BY <2>2, <3>3, <5>1, <5>3 DEF Lifecycle, AllTold, Told
        <5> QED
          BY <5>2, <5>3
      <4> QED
        BY <4>1 DEF AllTold
    <3> QED
      BY <2>2, <2>4, <3>4, ProceedPrepared DEF Lifecycle
  <2> QED
    BY <1>8, <2>3, <2>4 DEF Install
<1>9. CASE PrintReport
  <2>1. /\ at' = 0 /\ sub' = None /\ UNCHANGED <<gated, project, lifecycle>>
        /\ printed'.lifecycle = lifecycle \/ UNCHANGED printed
    BY <1>9 DEF PrintReport, Lose, setting, result
  <2>2. AllTold'
    BY <2>1 DEF Lifecycle, AllTold, Told
  <2> QED
    BY <2>1, <2>2 DEF Lifecycle, Unmarked, Prepared, Running, None
<1>10. CASE Timeout
  <2>1. Lose /\ UNCHANGED <<gated, project, lifecycle, printed>>
    BY <1>10 DEF Timeout, setting, result
  <2> QED
    BY <2>1, LosePrepared, StayTold DEF Lifecycle, Unmarked
<1>11. CASE UNCHANGED vars
  BY <1>11, StayTold DEF vars, result, Lifecycle, Unmarked, Prepared, Running, Now, List
<1> QED
  BY <1>1, <1>2, <1>3, <1>4, <1>5, <1>6, <1>7, <1>8, <1>9, <1>10, <1>11
     DEF Next, Own, MayHang

(* What a report says of npm's install scripts is what the install of that  *)
(* mode did (run_npm_lifecycle_case), whatever the checkouts go through.    *)
THEOREM LifecycleIsReported == Spec => []LifecycleIsOfTheInstall
<1>1. Lifecycle => LifecycleIsOfTheInstall
  BY DEF Lifecycle, AllTold, Told, LifecycleIsOfTheInstall
<1> QED
  BY <1>1, LifecycleInit, LifecycleNext, PTL DEF Spec

-----------------------------------------------------------------------------
(* What has been seen while a script is under way: the cases behind it, each*)
(* in the caller's namespace but the network's, and of the one BitBake that *)
(* was imported; and if the checkouts are left alone, of what they are.     *)
Behind(n) == \E i \in 1..(at - 1) : List[i] = n

Told1(k) ==
    /\ seen[k].code # None <=> Behind(k) /\ k \in Expected
    /\ seen[k].netns = "own" => k = "network"
    /\ seen[k].code # None /\ k # "network" => seen[k].code = loaded["bitbake"]
    /\ seen[k].oe # None => k = "gpg" /\ Behind(k)

Steady ==
    /\ code = head
    /\ \A c \in Checkout : label[c] \in {None, code[c]} /\ loaded[c] \in {None, code[c]}
    /\ \A k \in Case : /\ seen[k].code \in {None, code["bitbake"]}
                        /\ seen[k].oe \in {None, code["oe"]}

InProgress ==
    Running =>
        /\ exit = -1 /\ netns = "caller"
        /\ \A k \in Case : Told1(k)
        /\ Behind("import") \/ Behind("environment") => loaded["bitbake"] # None
        /\ \A c \in Checkout : Behind(c) => label[c] # None
        /\ \A m \in Mode : Behind(m) <=> lifecycle[m].install # -1
        /\ steady => Steady

(* The lists, place by place.                                               *)
LEMMA Places ==
    ASSUME TypeOK, Running
    PROVE  /\ script = "fetcher" =>
                /\ at \in 1..14 /\ List[1] = "import" /\ List[2] = "bitbake"
                /\ List[3] = "package" /\ List[4] = "tar" /\ List[5] = "zip"
                /\ List[6] = "deb" /\ List[7] = "ipk" /\ List[8] = "normal"
                /\ List[9] = "traversal" /\ List[10] = "default" /\ List[11] = "ignore"
                /\ List[12] = "explicit-allow" /\ List[13] = "approved"
                /\ List[14] = "print"
           /\ script = "worker" =>
                /\ at \in 1..6 /\ List[1] = "bitbake" /\ List[2] = "oe"
                /\ List[3] = "network" /\ List[4] = "environment" /\ List[5] = "gpg"
                /\ List[6] = "print"
           /\ script \in {"fetcher", "worker"}
  BY Lists DEF TypeOK, Running, List, FetcherList, WorkerList

LEMMA PlaceOf ==
    ASSUME TypeOK, Running
    PROVE  /\ Now \in Archives \cup Npmsw => script = "fetcher" /\ Behind("import")
           /\ Now \in Mode => script = "fetcher"
           /\ Now = "import" => at = 1 /\ script = "fetcher"
           /\ Now = "network" => script = "worker"
           /\ Now = "environment" => script = "worker" /\ at = 4
           /\ Now = "gpg" => script = "worker" /\ Behind("environment")
<1>1. CASE script = "fetcher"
  <2>1. at = 1 => Now = "import"
    BY <1>1, Places DEF Now
  <2>2. at # 1 => Behind("import")
    BY <1>1, Places DEF Behind
  <2>3. Now \notin {"network", "environment", "gpg"} /\ (Now = "import" => at = 1)
    BY <1>1, Places DEF Now
  <2> QED BY <1>1, <2>1, <2>2, <2>3 DEF Archives, Npmsw
<1>2. CASE script = "worker"
  <2>1. Now \in {"bitbake", "oe", "network", "environment", "gpg", "print"}
    BY <1>2, Places DEF Now
  <2>2. (Now = "environment" => at = 4) /\ (Now = "gpg" => at = 5)
    BY <1>2, Places DEF Now
  <2>3. at = 5 => Behind("environment")
    BY <1>2, Places DEF Behind
  <2> QED BY <1>2, <2>1, <2>2, <2>3, Apart DEF Archives, Npmsw
<1> QED BY <1>1, <1>2, Places

(* Before the environment probe only the network has been seen.             *)
LEMMA BehindAt4 ==
    ASSUME TypeOK, Running, script = "worker", at = 4
    PROVE  \A k \in Case : Behind(k) => k = "network"
  BY Places DEF Behind, Case, Archives, Npmsw

LEMMA BehindAt1 ==
    ASSUME at = 1
    PROVE  \A n : ~Behind(n)
  BY DEF Behind

LEMMA BehindAll ==
    ASSUME TypeOK, Running, Now = "print"
    PROVE  /\ \A k \in Case : Behind(k) /\ k \in Expected <=> k \in Expected
           /\ Behind("bitbake") /\ (script = "worker" => Behind("oe"))
           /\ \A m \in Mode : Behind(m) <=> script = "fetcher"
           /\ Behind("gpg") => script = "worker"
<1>1. CASE script = "fetcher"
  <2>1. at = 14
    BY <1>1, Places DEF Now
  <2>2. \A n : Behind(n) <=> n \in {"import", "bitbake", "package"} \cup Archives
                                  \cup Npmsw \cup Mode
    BY <1>1, <2>1, Places DEF Behind, Archives, Npmsw, Mode
  <2> QED BY <1>1, <2>2, Apart DEF Expected, Archives, Npmsw
<1>2. CASE script = "worker"
  <2>1. at = 6
    BY <1>2, Places DEF Now
  <2>2. \A n : Behind(n) <=> n \in {"bitbake", "oe", "network", "environment", "gpg"}
    BY <1>2, <2>1, Places DEF Behind
  <2> QED BY <1>2, <2>2, Apart DEF Expected
<1> QED BY <1>1, <1>2, Places

LEMMA BehindNext ==
    ASSUME TypeOK, Running, Proceed, UNCHANGED script
    PROVE  /\ Running' /\ exit' = exit
           /\ \A n : Behind(n)' <=> Behind(n) \/ n = Now
  BY DEF TypeOK, Running, Proceed, Behind, List, Now

(* A case is seen once its place is passed.                                 *)
LEMMA SeeNext ==
    ASSUME TypeOK, InProgress, Running, Proceed, UNCHANGED <<setting, netns>>,
           NEW k \in Case, Now = k, k \in Expected, NEW x \in Observation, See(k, x),
           x.code # None, x.netns = "own" => k = "network",
           k # "network" => x.code = loaded'["bitbake"],
           \A l \in Case : l # "network" /\ Behind(l) => loaded'["bitbake"] = loaded["bitbake"],
           loaded["bitbake"] # None => loaded'["bitbake"] # None,
           k = "environment" => loaded'["bitbake"] # None,
           x.oe # None => k = "gpg",
           steady => /\ x.code \in {None, code["bitbake"]} /\ x.oe \in {None, code["oe"]}
                     /\ \A c \in Checkout : loaded'[c] \in {None, code[c]}
    PROVE  InProgress'
<1>1. /\ Running' /\ exit' = -1 /\ netns' = "caller"
      /\ \A n : Behind(n)' <=> Behind(n) \/ n = k
      /\ UNCHANGED <<label, lifecycle, head, code, script, tools, steady>>
  BY BehindNext DEF InProgress, setting, upstream, See
<1>2. /\ seen'[k] = x /\ \A l \in Case : l # k => seen'[l] = seen[l]
  BY DEF See, TypeOK
<1>3. ASSUME NEW l \in Case PROVE Told1(l)'
  <2>1. CASE l = k
    BY <1>1, <1>2, <2>1 DEF Told1, Expected
  <2>2. CASE l # k
    BY <1>1, <1>2, <2>2 DEF Told1, Expected, InProgress
  <2> QED BY <2>1, <2>2
<1>4. k \notin Mode /\ k \notin Checkout /\ k # "import"
  BY DEF Case, Mode, Checkout, Archives, Npmsw
<1>5. \A m \in Mode : (Behind(m) <=> lifecycle[m].install # -1)'
  BY <1>1, <1>4 DEF InProgress
<1>6. steady => Steady'
  BY <1>1, <1>2 DEF InProgress, Steady
<1> QED BY <1>1, <1>3, <1>4, <1>5, <1>6 DEF InProgress

(* A step that sees nothing: the place passed is no case and no mode.       *)
LEMMA PassNext ==
    ASSUME TypeOK, InProgress, Running, Proceed, UNCHANGED <<setting, netns, seen, lifecycle>>,
           Now \notin Mode /\ (Now \in Case => Now \notin Expected),
           \A l \in Case : l # "network" /\ Behind(l) => loaded'["bitbake"] = loaded["bitbake"],
           Now \in {"import", "environment"} \/ loaded["bitbake"] # None
                => loaded'["bitbake"] # None,
           \A c \in Checkout : c = Now \/ label[c] # None => label'[c] # None,
           steady => \A c \in Checkout : /\ label'[c] \in {None, code[c]}
                                         /\ loaded'[c] \in {None, code[c]}
    PROVE  InProgress'
<1>1. /\ Running' /\ exit' = -1 /\ netns' = "caller"
      /\ \A n : Behind(n)' <=> Behind(n) \/ n = Now
      /\ UNCHANGED <<lifecycle, seen, head, code, script, tools, steady>>
  BY BehindNext DEF InProgress, setting, upstream
<1>2. ASSUME NEW l \in Case PROVE Told1(l)'
  <2>1. Told1(l)
    BY DEF InProgress
  <2>2. l = Now => l \notin Expected
    OBVIOUS
  <2> QED BY <1>1, <2>1, <2>2 DEF Told1, Expected
<1>3. steady => Steady'
  BY <1>1 DEF InProgress, Steady
<1> QED BY <1>1, <1>2, <1>3 DEF InProgress

(* A step within a case.                                                    *)
LEMMA WithinNext ==
    ASSUME TypeOK, InProgress, Running, UNCHANGED <<at, exit, setting, netns, result>>,
           loaded'["bitbake"] = loaded["bitbake"],
           steady => \A c \in Checkout : loaded'[c] \in {None, code[c]}
    PROVE  InProgress'
<1>1. UNCHANGED <<at, exit, netns, label, seen, lifecycle, head, code, script, tools, steady>>
  BY DEF setting, upstream, result
<1>2. \A n : Behind(n)' <=> Behind(n)
  BY <1>1 DEF Behind, List
<1>3. \A l \in Case : Told1(l)'
  BY <1>1, <1>2 DEF InProgress, Told1, Expected
<1>4. steady => Steady'
  BY <1>1 DEF InProgress, Steady
<1> QED BY <1>1, <1>2, <1>3, <1>4 DEF InProgress, Running

LEMMA CodesAreNotNone ==
    ASSUME TypeOK
    PROVE  \A c \in Checkout : code[c] # None /\ head[c] # None
  BY MatrixAssumption DEF TypeOK, Code, None, MatrixAssumption

LEMMA InProgressNext == TypeOK /\ InProgress /\ [Next]_vars => InProgress'
<1> SUFFICES ASSUME TypeOK, InProgress, [Next]_vars PROVE InProgress'
  OBVIOUS
<1>0. Lose => InProgress'
  BY DEF Lose, InProgress, Running
<1>1. CASE Move \/ Modify
  <2>1. UNCHANGED <<script, at, tools, loaded, netns, label, seen, lifecycle, exit>>
        /\ steady' = FALSE
    BY <1>1 DEF Move, Modify, Disturb, result, process
  <2> QED BY <2>1 DEF InProgress, Running, Behind, List, Told1, Expected
<1>2. CASE \E s \in {"fetcher", "worker"} : Start(s)
  <2>1. /\ at' = 1 /\ exit' = -1 /\ netns' = "caller" /\ label' = Unlabelled
        /\ loaded' = Unlabelled /\ seen' = NothingSeen /\ lifecycle' = NoModes
        /\ steady' = (code = head) /\ UNCHANGED <<head, code>>
    BY <1>2 DEF Start, upstream
  <2>2. \A n : ~Behind(n)'
    BY <2>1 DEF Behind
  <2>3. /\ \A k \in Case : seen'[k] = NotSeen
        /\ \A c \in Checkout : label'[c] = None /\ loaded'[c] = None
        /\ \A m \in Mode : lifecycle'[m].install = -1
    BY <2>1 DEF NothingSeen, Unlabelled, NoModes, NoProject
  <2>4. \A k \in Case : Told1(k)'
    BY <2>2, <2>3 DEF Told1, NotSeen, None
  <2>5. ASSUME steady' PROVE code = head
    <3>1. steady' = (code = head)
      BY <2>1
    <3> QED BY <3>1, <2>5, Zenon
  <2>6. \A k \in Case : seen'[k].code = None /\ seen'[k].oe = None
    BY <2>3 DEF NotSeen
  <2>7. ASSUME steady' PROVE Steady'
    <3>1. code' = head'
      <4>1. code' = code /\ head' = head
        BY <2>1
      <4> QED BY <4>1, <2>5, <2>7
    <3>2. \A c \in Checkout : /\ label'[c] \in {None, code'[c]}
                                /\ loaded'[c] \in {None, code'[c]}
      BY <2>3
    <3>3. \A k \in Case : /\ seen'[k].code \in {None, code'["bitbake"]}
                            /\ seen'[k].oe \in {None, code'["oe"]}
      BY <2>6
    <3> QED BY <3>1, <3>2, <3>3 DEF Steady
  <2> QED BY <2>1, <2>2, <2>3, <2>4, <2>7 DEF InProgress
<1>3. CASE Import
  <2>0. CASE Lose
    BY <1>0, <2>0
  <2> SUFFICES ASSUME ~Lose PROVE InProgress'
    BY <2>0
  <2>1. /\ Running /\ Now = "import" /\ Proceed /\ loaded'["bitbake"] = code["bitbake"]
        /\ loaded'["oe"] = loaded["oe"]
        /\ UNCHANGED <<setting, netns, seen, label, lifecycle>>
    BY <1>3 DEF Import, Step, result, TypeOK, Checkout
  <2>2. at = 1 /\ \A n : ~Behind(n)
    BY <2>1, PlaceOf, BehindAt1
  <2>3. Now \notin Mode /\ Now \notin Case /\ Now \notin Checkout
    BY <2>1 DEF Mode, Case, Checkout, Archives, Npmsw
  <2> QED BY <2>1, <2>2, <2>3, CodesAreNotNone, PassNext DEF InProgress, Steady, Checkout
<1>4. CASE Label
  <2>1. PICK c \in Checkout :
          /\ Step(c)
          /\ \/ Proceed /\ label' = [label EXCEPT ![c] = head[c]]
             \/ Lose /\ UNCHANGED label
          /\ UNCHANGED <<process, project, seen, lifecycle>>
    BY <1>4 DEF Label, Labelled
  <2>2. CASE Lose
    BY <1>0, <2>2
  <2>3. CASE Proceed /\ label' = [label EXCEPT ![c] = head[c]]
    <3>1. /\ Running /\ Now = c /\ UNCHANGED <<setting, netns, seen, lifecycle, loaded>>
      BY <2>1 DEF Step, process
    <3>2. Now \notin Mode /\ Now \notin Case /\ Now \notin {"import", "environment"}
      BY <3>1 DEF Mode, Case, Checkout, Archives, Npmsw
    <3>3. label'[c] = head[c] /\ \A e \in Checkout : e # c => label'[e] = label[e]
      BY <2>3 DEF TypeOK
    <3>4. steady => \A e \in Checkout : /\ label'[e] \in {None, code[e]}
                                        /\ loaded'[e] \in {None, code[e]}
      BY <3>1, <3>3 DEF InProgress, Steady
    <3> QED BY <2>3, <3>1, <3>2, <3>3, <3>4, CodesAreNotNone, PassNext
  <2> QED BY <2>1, <2>2, <2>3
<1>5. CASE Package
  <2>1. CASE Lose
    BY <1>0, <2>1
  <2>2. CASE Proceed
    <3>1. /\ Running /\ Now = "package"
          /\ UNCHANGED <<setting, netns, seen, lifecycle, loaded, label>>
      BY <1>5 DEF Package, Step, process, result
    <3>2. Now \notin Mode /\ Now \notin Case /\ Now \notin Checkout
      BY <3>1 DEF Mode, Case, Checkout, Archives, Npmsw
    <3> QED BY <2>2, <3>1, <3>2, PassNext DEF InProgress, Steady
  <2> QED BY <1>5, <2>1, <2>2 DEF Package
<1>6. CASE FetchCase
  <2>1. PICK k \in Archives \cup Npmsw :
          /\ Step(k) /\ UNCHANGED <<process, project>>
          /\ \/ Proceed /\ See(k, Sight)
             \/ Lose
    BY <1>6 DEF FetchCase
  <2>2. CASE Lose
    BY <1>0, <2>2
  <2>3. CASE Proceed /\ See(k, Sight)
    <3>1. /\ Running /\ Now = k /\ UNCHANGED <<setting, netns, loaded>>
      BY <2>1 DEF Step, process
    <3>2. k \in Case /\ k \in Expected /\ k \notin {"network", "environment", "gpg"}
      BY <3>1, PlaceOf DEF Case, Expected, Archives, Npmsw
    <3>3. loaded["bitbake"] # None /\ netns = "caller"
      BY <3>1, PlaceOf DEF InProgress
    <3>4. Sight \in Observation
      BY DEF TypeOK, Sight, Observation, Checkout
    <3>5. /\ Sight.code = loaded["bitbake"] /\ Sight.oe = None /\ Sight.netns = "caller"
      BY <3>3 DEF Sight
    <3>6. steady => /\ Sight.code \in {None, code["bitbake"]} /\ Sight.oe \in {None, code["oe"]}
                    /\ \A c \in Checkout : loaded'[c] \in {None, code[c]}
      BY <3>1, <3>5 DEF InProgress, Steady, Checkout
    <3> QED BY <2>3, <3>1, <3>2, <3>3, <3>4, <3>5, <3>6, SeeNext
  <2> QED BY <2>1, <2>2, <2>3
<1>7. CASE Bootstrap \/ Approve \/ Clear
  <2>1. /\ Running /\ UNCHANGED <<setting, netns, loaded, label, seen, lifecycle>>
    BY <1>7 DEF Bootstrap, Approve, Clear, Npm, Step, process
  <2>2. Lose \/ UNCHANGED <<at, exit>>
    BY <1>7 DEF Bootstrap, Approve, Clear
  <2> QED BY <1>0, <2>1, <2>2, WithinNext DEF InProgress, Steady, result
<1>8. CASE Install
  <2>1. PICK m \in Mode : Running /\ Now = m /\ UNCHANGED setting
    BY <1>8 DEF Install, Npm, Step
  <2>2. UNCHANGED <<netns, loaded, label, seen>>
    BY <1>8 DEF Install, Npm, process
  <2>3. CASE Lose
    BY <1>0, <2>3
  <2>4. CASE ~Lose
    <3>1. Proceed /\ \E p \in Outcomes(m, "install") :
             lifecycle' = [lifecycle EXCEPT ![m] = [p.project EXCEPT !.install = p.code]]
      BY <1>8, <2>1, <2>4 DEF Install
    <3>2. PICK p \in Outcomes(m, "install") :
             lifecycle' = [lifecycle EXCEPT ![m] = [p.project EXCEPT !.install = p.code]]
      BY <3>1
    <3>3. p.project \in Project /\ p.code \in {0, 1}
      BY OutcomesTyped DEF TypeOK
    <3>4. [p.project EXCEPT !.install = p.code].install = p.code
      BY <3>3 DEF Project
    <3>5. /\ lifecycle'[m].install # -1
          /\ \A n \in Mode : n # m => lifecycle'[n] = lifecycle[n]
      BY <3>2, <3>3, <3>4 DEF TypeOK
    <3>6. /\ Running' /\ exit' = -1 /\ netns' = "caller"
          /\ \A n : Behind(n)' <=> Behind(n) \/ n = m
          /\ UNCHANGED <<head, code, script, tools, steady>>
      BY <2>1, <2>2, <3>1, BehindNext DEF InProgress, setting, upstream
    <3>7. m \notin Case \cup Checkout \cup {"import", "environment"}
      BY DEF Mode, Case, Checkout, Archives, Npmsw
    <3>8. \A k \in Case : Told1(k)'
      BY <2>1, <2>2, <3>6, <3>7 DEF InProgress, Told1, Expected
    <3>9. \A n \in Mode : (Behind(n) <=> lifecycle[n].install # -1)'
      BY <2>1, <3>5, <3>6 DEF InProgress
    <3>10. steady => Steady'
      BY <2>1, <2>2, <3>6 DEF InProgress, Steady
    <3> QED BY <2>1, <2>2, <3>6, <3>7, <3>8, <3>9, <3>10 DEF InProgress
  <2> QED BY <2>3, <2>4
<1>9. CASE NetworkProbe
  <2>1. /\ Running /\ Now = "network" /\ UNCHANGED <<setting, loaded>>
    BY <1>9 DEF NetworkProbe, Step
  <2>2. CASE Lose
    BY <1>0, <2>2
  <2>3. CASE ~Lose
    <3>1. PICK ns \in {"caller", "own"} :
            /\ See("network", [code |-> code["bitbake"], oe |-> None, netns |-> ns,
                               ambient |-> ambient])
            /\ UNCHANGED netns /\ Proceed
      BY <1>9, <2>3 DEF NetworkProbe, Moves
    <3> DEFINE x == [code |-> code["bitbake"], oe |-> None, netns |-> ns, ambient |-> ambient]
    <3>2. x \in Observation /\ x.code = code["bitbake"] /\ x.oe = None
      BY DEF TypeOK, Observation, Checkout
    <3>3. "network" \in Case /\ "network" \in Expected
      BY <2>1, PlaceOf DEF Case, Expected
    <3>4. See("network", x)
      BY <3>1
    <3> HIDE DEF x
    <3>5. x.code # None
      BY <3>2, CodesAreNotNone DEF Checkout
    <3>6. steady => \A c \in Checkout : loaded'[c] \in {None, code[c]}
      BY <2>1 DEF InProgress, Steady
    <3> QED BY <2>1, <3>1, <3>2, <3>3, <3>4, <3>5, <3>6, SeeNext
  <2> QED BY <2>2, <2>3
<1>10. CASE EnvironmentProbe
  <2>1. /\ Running /\ Now = "environment" /\ UNCHANGED <<setting, netns>>
        /\ loaded'["bitbake"] = code["bitbake"] /\ loaded'["oe"] = loaded["oe"]
    BY <1>10 DEF EnvironmentProbe, Step, TypeOK, Checkout
  <2>2. CASE Lose
    BY <1>0, <2>2
  <2>3. CASE ~Lose
    <3> DEFINE x == [code |-> code["bitbake"], oe |-> None, netns |-> netns, ambient |-> TRUE]
    <3>1. Proceed /\ See("environment", x)
      BY <1>10, <2>3 DEF EnvironmentProbe
    <3>2. x \in Observation /\ x.code = code["bitbake"] /\ x.oe = None /\ x.netns = "caller"
      BY <2>1 DEF TypeOK, Observation, Checkout, InProgress
    <3> HIDE DEF x
    <3>3. "environment" \in Case /\ "environment" \in Expected /\ script = "worker" /\ at = 4
      BY <2>1, PlaceOf DEF Case, Expected
    <3>4. \A l \in Case : Behind(l) => l = "network"
      BY <2>1, <3>3, BehindAt4
    <3>5. x.code # None
      BY <3>2, CodesAreNotNone DEF Checkout
    <3>6. steady => \A c \in Checkout : loaded'[c] \in {None, code[c]}
      BY <2>1 DEF InProgress, Steady, Checkout
    <3> QED BY <2>1, <3>1, <3>2, <3>3, <3>4, <3>5, <3>6, SeeNext
  <2> QED BY <2>2, <2>3
<1>11. CASE GpgProbe
  <2>1. /\ Running /\ Now = "gpg" /\ UNCHANGED <<setting, netns>>
    BY <1>11 DEF GpgProbe, Step
  <2>2. loaded'["bitbake"] = loaded["bitbake"] /\ loaded'["oe"] \in {loaded["oe"], code["oe"]}
    BY <1>11 DEF GpgProbe, TypeOK, Checkout
  <2>3. steady => \A c \in Checkout : loaded'[c] \in {None, code[c]}
    BY <2>1, <2>2 DEF InProgress, Steady, Checkout
  <2>4. script = "worker" /\ loaded["bitbake"] # None /\ "gpg" \in Case /\ netns = "caller"
    BY <2>1, PlaceOf DEF InProgress, Case
  <2>5. CASE Lose
    BY <1>0, <2>5
  <2>6. CASE "gpg" \notin tools /\ Proceed /\ UNCHANGED result
    <3>1. Now \notin Mode /\ Now \notin Checkout /\ Now \notin Expected
      BY <2>1, <2>4, <2>6 DEF Mode, Checkout, Expected
    <3>2. UNCHANGED <<label, seen, lifecycle>>
      BY <2>6 DEF result
    <3>3. steady => \A c \in Checkout : label'[c] \in {None, code[c]}
      BY <2>1, <3>2 DEF InProgress, Steady
    <3> QED BY <2>1, <2>2, <2>3, <2>4, <2>6, <3>1, <3>2, <3>3, PassNext
  <2>7. CASE UNCHANGED <<at, exit, result>>
    BY <2>1, <2>2, <2>3, <2>7, WithinNext
  <2>8. CASE "gpg" \in tools /\ Proceed /\ See("gpg", [Sight EXCEPT !.oe = loaded["oe"]])
    <3> DEFINE x == [Sight EXCEPT !.oe = loaded["oe"]]
    <3>1. /\ x \in Observation /\ x.code = loaded["bitbake"] /\ x.oe = loaded["oe"]
          /\ x.netns = "caller"
      BY <2>4 DEF TypeOK, Sight, Observation, Checkout
    <3>2. See("gpg", x)
      BY <2>8
    <3> HIDE DEF x
    <3>3. "gpg" \in Expected
      BY <2>4, <2>8 DEF Expected
    <3>4. steady => x.code \in {None, code["bitbake"]} /\ x.oe \in {None, code["oe"]}
      BY <2>1, <3>1 DEF InProgress, Steady, Checkout
    <3> QED BY <2>1, <2>2, <2>3, <2>4, <2>8, <3>1, <3>2, <3>3, <3>4, SeeNext
  <2> QED BY <1>11, <2>5, <2>6, <2>7, <2>8 DEF GpgProbe
<1>12. CASE PrintReport \/ Timeout
  BY <1>0, <1>12 DEF PrintReport, Timeout, InProgress, Running
<1>13. CASE UNCHANGED vars
  <2>1. UNCHANGED <<script, at, tools, loaded, netns, label, seen, lifecycle, exit, head, code,
                    steady>>
    BY <1>13 DEF vars, upstream, process, result
  <2> QED BY <2>1 DEF InProgress, Running, Behind, List, Told1, Expected, Steady
<1> QED BY <1>1, <1>2, <1>3, <1>4, <1>5, <1>6, <1>7, <1>8, <1>9, <1>10, <1>11, <1>12, <1>13
        DEF Next, Own, MayHang

LEMMA ReportedNext ==
    ASSUME TypeOK, InProgress, ReportIsAttributed, [Next]_vars
    PROVE  ReportIsAttributed'
<1>1. CASE Move \/ Modify
  <2>1. UNCHANGED <<script, tools, printed, exit>> /\ steady' = FALSE
    BY <1>1 DEF Move, Modify, Disturb
  <2> QED BY <2>1 DEF ReportIsAttributed, Expected
<1>2. CASE UNCHANGED vars
  BY <1>2 DEF vars, ReportIsAttributed, Expected
<1>3. CASE PrintReport
  <2>0. CASE Lose
    BY <2>0 DEF Lose, ReportIsAttributed
  <2> SUFFICES ASSUME ~Lose PROVE ReportIsAttributed'
    BY <2>0
  <2>1. /\ Running /\ Now = "print" /\ UNCHANGED <<script, tools, steady>>
        /\ printed' = [label |-> label, seen |-> seen, lifecycle |-> lifecycle]
    BY <1>3 DEF PrintReport, setting
  <2>2. /\ \A k \in Case : Told1(k)
        /\ \A k \in Case : Behind(k) /\ k \in Expected <=> k \in Expected
        /\ label["bitbake"] # None /\ (script = "worker" => label["oe"] # None)
        /\ \A m \in Mode : script = "fetcher" <=> lifecycle[m].install # -1
        /\ Behind("gpg") => script = "worker"
    BY <2>1, BehindAll DEF InProgress, Checkout
  <2>3. Expected \subseteq Case
    BY DEF Expected, Case
  <2>4. ASSUME NEW k \in Case
        PROVE  /\ (k \in Expected) <=> seen[k].code # None
               /\ seen[k].netns = "own" => k = "network"
               /\ steady => /\ seen[k].code \in {None, label["bitbake"]}
                            /\ seen[k].oe \in {None, label["oe"]}
    BY <2>1, <2>2 DEF Told1, InProgress, Steady, Checkout
  <2>5. ASSUME NEW k \in Expected \ {"network"}, NEW l \in Expected \ {"network"}
        PROVE  seen[k].code = seen[l].code
    BY <2>2, <2>3, <2>4 DEF Told1
  <2>6. Expected' = Expected
    BY <2>1 DEF Expected
  <2> QED BY <2>1, <2>2, <2>4, <2>5, <2>6 DEF ReportIsAttributed
<1>4. CASE \E s \in {"fetcher", "worker"} : Start(s)
  BY <1>4 DEF Start, ReportIsAttributed
<1>5. CASE \/ Import \/ Label \/ Package \/ FetchCase \/ Clear \/ EnvironmentProbe
           \/ GpgProbe \/ Timeout \/ MayHang
  <2>1. Running /\ exit' \in {exit, 1}
    BY <1>5 DEF Import, Label, Package, FetchCase, Clear, EnvironmentProbe, GpgProbe, Timeout,
       MayHang, Bootstrap, Approve, Install, NetworkProbe, Npm, Step, Proceed, Lose
  <2> QED BY <2>1 DEF InProgress, ReportIsAttributed
<1> QED BY <1>1, <1>2, <1>3, <1>4, <1>5 DEF Next, Own

(* No case is missing from a report, one process saw one BitBake, and what  *)
(* was seen of checkouts left alone is what its revisions name.             *)
THEOREM ReportsAreAttributed == Spec => []ReportIsAttributed
<1>1. Init => InProgress /\ ReportIsAttributed
  BY DEF Init, InProgress, Running, ReportIsAttributed
<1>2. TypeOK /\ InProgress /\ ReportIsAttributed /\ [Next]_vars
        => InProgress' /\ ReportIsAttributed'
  BY InProgressNext, ReportedNext
<1> QED BY <1>1, <1>2, TypeCorrect, PTL DEF Spec

-----------------------------------------------------------------------------
(* Why a script ends.  A bound on the steps that are still before it: four  *)
(* for every place of its list, less those done at the present one.         *)
Done(step) ==
    CASE step \in {"approve", "list"} -> 1
      [] step \in {"clear", "sign"} -> 2
      [] step \in {"install", "verify"} -> 3
      [] OTHER -> 0

StepsLeft == IF Running THEN 4 * (Len(List) + 1 - at) - Done(sub) ELSE 0

(* The guards of Own, none of which waits for npm or for the network child: *)
(* of each of them it has a timer, or an exit when it fails.                *)
CanGoOn ==
    \/ Now \in {"import", "package", "environment", "gpg", "print"}
    \/ Now \in Checkout \cup Archives \cup Npmsw
    \/ Now \in Mode /\ sub = "clear"
    \/ Timed

MatrixIsBounded ==
    /\ StepsLeft \in 0..56
    /\ Running => StepsLeft > 0 /\ CanGoOn

MatrixCountsDown ==
    [][/\ Own \/ MayHang => StepsLeft' < StepsLeft
       /\ StepsLeft' > StepsLeft => \E s \in {"fetcher", "worker"} : Start(s)]_vars

LEMMA DoneType == \A step : Done(step) \in 0..3
  BY DEF Done

(* A script under way never waits for what may not come, and has at most 56 *)
(* steps before it, the commands of the npm modes and of gpg included.      *)
THEOREM NoMatrixIsStuck == Spec => []MatrixIsBounded
<1>1. TypeOK => MatrixIsBounded
  <2> SUFFICES ASSUME TypeOK, Running PROVE StepsLeft \in 1..56 /\ CanGoOn
    <3>1. ~Running => StepsLeft = 0
      BY DEF StepsLeft
    <3> QED BY <3>1 DEF MatrixIsBounded
  <2>1. PICK d \in 0..3 : d = Done(sub)
    BY DoneType
  <2>2. CASE script = "fetcher"
    <3>1. Len(List) = 14 /\ at \in 1..14
      BY <2>2, Lists, Places DEF List
    <3>2. StepsLeft = 4 * (15 - at) - d
      BY <2>1, <3>1 DEF StepsLeft
    <3>3. CanGoOn
      BY <2>2, Places DEF Now, CanGoOn, Timed, Checkout, Archives, Npmsw, Mode
    <3> QED BY <3>1, <3>2, <3>3
  <2>3. CASE script = "worker"
    <3>1. Len(List) = 6 /\ at \in 1..6
      BY <2>3, Lists, Places DEF List
    <3>2. StepsLeft = 4 * (7 - at) - d
      BY <2>1, <3>1 DEF StepsLeft
    <3>3. CanGoOn
      BY <2>3, Places DEF Now, CanGoOn, Timed, Checkout
    <3> QED BY <3>1, <3>2, <3>3
  <2> QED BY <2>2, <2>3, Places
<1> QED BY <1>1, TypeCorrect, PTL

(* Every step of a script brings it nearer to its end, no change of the     *)
(* checkouts takes it further from it, and only a new run starts the count  *)
(* again: no case, mode or command is tried a second time.                  *)
THEOREM EveryStepCounts == Spec => MatrixCountsDown
<1>1. TypeOK /\ MatrixIsBounded /\ MatrixIsBounded' /\ [Next]_vars =>
        [/\ Own \/ MayHang => StepsLeft' < StepsLeft
         /\ StepsLeft' > StepsLeft => \E s \in {"fetcher", "worker"} : Start(s)]_vars
  <2> SUFFICES ASSUME TypeOK, MatrixIsBounded, MatrixIsBounded', Next
               PROVE  /\ Own \/ MayHang => StepsLeft' < StepsLeft
                      /\ StepsLeft' > StepsLeft => \E s \in {"fetcher", "worker"} : Start(s)
    OBVIOUS
  <2>1. StepsLeft \in Nat /\ StepsLeft' \in Nat /\ (Running => StepsLeft > 0)
    BY DEF MatrixIsBounded
  <2>2. PICK d \in 0..3, e \in 0..3, n \in Nat :
          d = Done(sub) /\ e = Done(sub') /\ n = Len(List)
    BY DoneType, Lists DEF List
  <2>3. ASSUME Running, Lose PROVE StepsLeft' < StepsLeft
    <3>1. StepsLeft' = 0
      BY <2>3 DEF Lose, StepsLeft, Running
    <3> QED BY <2>1, <2>3, <3>1
  <2>4. ASSUME Running, Proceed, script' = script PROVE StepsLeft' < StepsLeft
    <3>1. at \in Nat /\ at' = at + 1 /\ Len(List)' = n /\ Running'
      BY <2>2, <2>4 DEF Proceed, List, TypeOK, Running
    <3>2. StepsLeft = 4 * (n + 1 - at) - d /\ StepsLeft' = 4 * (n + 1 - (at + 1)) - e
      BY <2>2, <2>4, <3>1 DEF StepsLeft
    <3> QED BY <2>2, <3>1, <3>2
  <2>5. ASSUME Running, at' = at, script' = script, Done(sub') = Done(sub) + 1
        PROVE  StepsLeft' < StepsLeft
    <3>1. at \in Nat /\ Len(List)' = n /\ Running'
      BY <2>2, <2>5 DEF List, TypeOK, Running
    <3>2. StepsLeft = 4 * (n + 1 - at) - d /\ StepsLeft' = 4 * (n + 1 - at) - (d + 1)
      BY <2>2, <2>5, <3>1 DEF StepsLeft
    <3> QED BY <2>2, <3>1, <3>2
  <2>6. ASSUME Own PROVE StepsLeft' < StepsLeft
    <3>1. CASE Import \/ Label \/ Package \/ FetchCase \/ EnvironmentProbe
      BY <2>3, <2>4, <3>1 DEF Import, Label, Package, FetchCase, EnvironmentProbe, Step, setting
    <3>2. CASE Clear
      <4>1. Running /\ sub = "clear" /\ script' = script
            /\ (Lose \/ (sub' = "install" /\ at' = at))
        BY <3>2 DEF Clear, Npm, Step, setting
      <4>2. Done("install") = Done("clear") + 1
        BY DEF Done
      <4> QED BY <2>3, <2>5, <4>1, <4>2
    <3>3. CASE GpgProbe
      <4>1. /\ Running /\ script' = script
            /\ \/ Proceed \/ Lose
               \/ sub = "generate" /\ sub' = "list" /\ at' = at
               \/ sub = "list" /\ sub' = "sign" /\ at' = at
               \/ sub = "sign" /\ sub' = "verify" /\ at' = at
        BY <3>3 DEF GpgProbe, Step, setting
      <4>2. /\ Done("generate") = 0 /\ Done("list") = 1
            /\ Done("sign") = 2 /\ Done("verify") = 3
        BY DEF Done
      <4> QED BY <2>3, <2>4, <2>5, <4>1, <4>2
    <3>4. CASE PrintReport
      <4>1. Running /\ StepsLeft' = 0
        BY <3>4 DEF PrintReport, Lose, StepsLeft, Running
      <4> QED BY <2>1, <4>1
    <3>5. CASE Timeout
      BY <2>3, <3>5 DEF Timeout
    <3> QED BY <2>6, <3>1, <3>2, <3>3, <3>4, <3>5 DEF Own
  <2>7. ASSUME MayHang PROVE StepsLeft' < StepsLeft
    <3>1. CASE Install \/ NetworkProbe
      BY <2>3, <2>4, <3>1 DEF Install, NetworkProbe, Npm, Step, setting
    <3>2. CASE Bootstrap \/ Approve
      <4>1. /\ Running /\ script' = script
            /\ \/ Lose
               \/ sub = "bootstrap" /\ sub' = "approve" /\ at' = at
               \/ sub = "approve" /\ sub' = "clear" /\ at' = at
        BY <3>2 DEF Bootstrap, Approve, Npm, Step, setting
      <4>2. Done("bootstrap") = 0 /\ Done("approve") = 1 /\ Done("clear") = 2
        BY DEF Done
      <4> QED BY <2>3, <2>5, <4>1, <4>2
    <3> QED BY <2>7, <3>1, <3>2 DEF MayHang
  <2>8. ASSUME Move \/ Modify PROVE StepsLeft' = StepsLeft
    BY <2>8 DEF Move, Modify, Disturb, StepsLeft, List, Running
  <2> QED BY <2>1, <2>6, <2>7, <2>8 DEF Next
<1> QED BY <1>1, TypeCorrect, NoMatrixIsStuck, PTL DEF Spec, MatrixCountsDown
=============================================================================
