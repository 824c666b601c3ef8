-------------------------- MODULE RapidChecksProofs --------------------------
(***************************************************************************)
(* Proofs about the gate: for any stages, any number of concurrent runs,    *)
(* any edits and any number of deaths.                                      *)
(***************************************************************************)
EXTENDS RapidChecks, SequenceTheorems, TLAPS

(* A child that takes a step is still a child (Popen, :45-57).              *)
LEMMA AdvanceType ==
    ASSUME NEW c \in Child, c.stage \in Stage, c.phase \in {"run", "open", "write"},
           input \in [Stage -> Outcome]
    PROVE  Advance(c) \in Child
<1>1. CASE c.phase = "run"
  <2> DEFINE d == [c EXCEPT !.outcome = Finds(c.stage)]
  <2>1. Finds(c.stage) \in Outcome
    BY DEF Finds, Outcome
  <2>2. Advance(c) = [d EXCEPT !.phase = IF Writes(d) THEN "open" ELSE "exited"]
    BY <1>1 DEF Advance
  <2>3. CASE Writes(d)
    BY <2>1, <2>2, <2>3 DEF Child, Phase, Writes
  <2>4. CASE ~Writes(d)
    BY <2>1, <2>2, <2>4 DEF Child, Phase
  <2> QED BY <2>3, <2>4
<1>2. CASE c.phase = "open"
  <2>1. Advance(c) = [c EXCEPT !.phase = "write"]
    BY <1>2 DEF Advance
  <2> QED BY <1>2, <2>1 DEF Child, Phase, Writes
<1>3. CASE c.phase = "write"
  <2>1. Advance(c) = [c EXCEPT !.phase = "exited"]
    BY <1>3 DEF Advance
  <2> QED BY <1>3, <2>1 DEF Child, Phase
<1> QED BY <1>1, <1>2, <1>3

(* ... and what it writes is the content of an artifact (write_text).       *)
LEMMA WritingType ==
    ASSUME NEW r \in Runner, NEW c \in Child, c.phase \in {"run", "open", "write"},
           evidence \in [Reports -> File], temp \in [Runner -> [Reports -> File]],
           Writing(r, c)
    PROVE  evidence' \in [Reports -> File] /\ temp' \in [Runner -> [Reports -> File]]
<1>1. ASSUME NEW x \in File, Put(r, c, x)
      PROVE  evidence' \in [Reports -> File] /\ temp' \in [Runner -> [Reports -> File]]
  <2>1. [evidence EXCEPT ![c.stage] = x] \in [Reports -> File]
    OBVIOUS
  <2>2. [temp EXCEPT ![r][c.stage] = x] \in [Runner -> [Reports -> File]]
    <3>1. [temp[r] EXCEPT ![c.stage] = x] \in [Reports -> File]
      OBVIOUS
    <3> QED BY <3>1
  <2> QED BY <1>1, <2>1, <2>2 DEF Put
<1>2. CASE c.phase = "run"
  BY <1>2 DEF Writing
<1>3. CASE c.phase = "open"
  BY <1>1, <1>3 DEF Writing, File
<1>4. CASE c.phase = "write"
  <2>1. c.outcome \in File
    BY <1>4 DEF Child, Writes, Outcome, File
  <2> QED BY <1>1, <1>4, <2>1 DEF Writing
<1> QED BY <1>2, <1>3, <1>4

LEMMA NoChildType == NoChild \in Child
BY DEF NoChild, Child, Phase, Outcome

-----------------------------------------------------------------------------
(* Every state of every run, child and file is well typed.                  *)
THEOREM TypeCorrect == Spec => []TypeOK
<1> USE RapidAssumption, NoChildType
<1>1. Init => TypeOK
  <2> SUFFICES ASSUME Init PROVE TypeOK
    OBVIOUS
  <2>1. edits \in 0..MaxEdits /\ deaths \in 0..MaxDeaths
    BY DEF Init, RapidAssumption
  <2>2. /\ evidence \in [Reports -> File]
        /\ temp \in [Runner -> [Reports -> File]]
    BY DEF Init, NoReports, File
  <2>3. /\ stages \in [Runner -> Seq({"passed", "failed"})]
        /\ said \in [Runner -> Seq(Outcome)]
    BY DEF Init
  <2>4. /\ input \in [Stage -> Outcome]
        /\ pc \in [Runner -> {"idle", "launch", "wait", "save"}]
        /\ exit \in [Runner -> {-1, 0, 1}]
        /\ summary \in [Runner -> {"absent", "empty", "passed", "failed"}]
    BY DEF Init, Outcome
  <2>5. refresh \in [Runner -> BOOLEAN] /\ disturbed \in [Runner -> BOOLEAN]
    BY DEF Init
  <2>6. child \in [Runner -> Child] /\ orphan \in [Runner -> Child]
    BY DEF Init
  <2> QED BY <2>1, <2>2, <2>3, <2>4, <2>5, <2>6 DEF TypeOK
<1>2. TypeOK /\ [Next]_vars => TypeOK'
  <2> SUFFICES ASSUME TypeOK, [Next]_vars PROVE TypeOK'
    OBVIOUS
  <2> USE DEF TypeOK
  <2>1. CASE EditInput
    BY <2>1 DEF EditInput, RapidAssumption, run
  <2>2. ASSUME NEW r \in Runner, Start(r) PROVE TypeOK'
    <3>1. NoReports \in [Reports -> File]
      BY DEF NoReports, File
    <3> QED BY <2>2, <3>1 DEF Start, setting
  <2>3. ASSUME NEW r \in Runner, Launch(r) PROVE TypeOK'
    <3>1. Current(r) \in Stage
      <4>1. Len(stages[r]) + 1 \in 1..N
        BY <2>3, LenProperties DEF Launch, RapidAssumption
      <4> QED BY <4>1, ElementOfSeq DEF Current, RapidAssumption, N
    <3>2. [stage |-> Current(r), phase |-> "run", outcome |-> "crash",
           target |-> Target(r)] \in Child
      BY <3>1 DEF Child, Phase, Outcome, Target
    <3> QED BY <2>3, <3>2 DEF Launch, setting
  <2>4. ASSUME NEW r \in Runner, NEW v \in {"passed", "failed"}, NEW o \in Outcome,
               Record(r, v, o)
        PROVE  TypeOK'
    <3>1. Append(stages[r], v) \in Seq({"passed", "failed"})
      BY AppendProperties
    <3>2. Append(said[r], o) \in Seq(Outcome)
      BY AppendProperties
    <3> QED BY <2>4, <3>1, <3>2 DEF Record, setting
  <2>5. ASSUME NEW r \in Runner, LaunchFails(r) \/ Timeout(r) \/ Judge(r) PROVE TypeOK'
    <3>1. "crash" \in Outcome /\ child[r].outcome \in Outcome
      BY DEF Outcome, Child
    <3> QED BY <2>4, <2>5, <3>1 DEF LaunchFails, Timeout, Judge
  <2>6. ASSUME NEW r \in Runner, Save(r) PROVE TypeOK'
    <3>1. NoReports \in [Reports -> File]
      BY DEF NoReports, File
    <3> QED BY <2>6, <3>1 DEF Save, setting
  <2>13. ASSUME NEW r \in Runner, Finish(r) PROVE TypeOK'
    <3>1. summary' \in [Runner -> {"absent", "empty", "passed", "failed"}]
      BY <2>13 DEF Finish
    <3>2. exit' \in [Runner -> {-1, 0, 1}]
      <4>1. PICK x \in {0, 1} : exit' = [exit EXCEPT ![r] = x]
        BY <2>13 DEF Finish
      <4> QED BY <4>1
    <3> QED BY <2>13, <3>1, <3>2 DEF Finish, setting
  <2>7. ASSUME NEW r \in Runner, Die(r), orphan' \in [Runner -> Child] PROVE TypeOK'
    <3>1. NoReports \in [Reports -> File]
      BY DEF NoReports, File
    <3>2. deaths' \in 0..MaxDeaths
      BY <2>7 DEF Die, RapidAssumption
    <3> QED BY <2>7, <3>1, <3>2 DEF Die
  <2>8. ASSUME NEW r \in Runner, Interrupt(r) PROVE TypeOK'
    BY <2>7, <2>8 DEF Interrupt
  <2>9. ASSUME NEW r \in Runner, Kill(r) PROVE TypeOK'
    <3>1. [child[r] EXCEPT !.target = IF refresh[r] THEN @ ELSE "lost"] \in Child
      <4>1. child[r] \in Child
        OBVIOUS
      <4>2. ASSUME NEW c \in Child, NEW t \in {"evidence", "temp", "lost"}
            PROVE  [c EXCEPT !.target = t] \in Child
        BY DEF Child, Writes
      <4>3. child[r].target \in {"evidence", "temp", "lost"}
        BY <4>1 DEF Child
      <4> QED BY <4>1, <4>2, <4>3
    <3> QED BY <2>7, <2>9, <3>1 DEF Kill
  <2>10. ASSUME NEW r \in Runner, ChildStep(r) PROVE TypeOK'
    <3>1. child[r] \in Child /\ child[r].stage \in Stage
      BY <2>10 DEF ChildStep, Child
    <3>2. child' \in [Runner -> Child]
      BY <2>10, <3>1, AdvanceType DEF ChildStep
    <3>3. evidence' \in [Reports -> File] /\ temp' \in [Runner -> [Reports -> File]]
      BY <2>10, <3>1, WritingType DEF ChildStep
    <3>4. disturbed' \in [Runner -> BOOLEAN]
      BY <2>10 DEF ChildStep, Disturb
    <3> QED BY <2>10, <3>2, <3>3, <3>4 DEF ChildStep, setting, run
  <2>11. ASSUME NEW r \in Runner, OrphanStep(r) PROVE TypeOK'
    <3>1. orphan[r] \in Child /\ orphan[r].stage \in Stage
      BY <2>11 DEF OrphanStep, Child
    <3>2. orphan' \in [Runner -> Child]
      BY <2>11, <3>1, AdvanceType DEF OrphanStep
    <3>3. evidence' \in [Reports -> File] /\ temp' \in [Runner -> [Reports -> File]]
      BY <2>11, <3>1, WritingType DEF OrphanStep
    <3>4. disturbed' \in [Runner -> BOOLEAN]
      BY <2>11 DEF OrphanStep, Disturb
    <3> QED BY <2>11, <3>2, <3>3, <3>4 DEF OrphanStep, setting, run
  <2>12. CASE UNCHANGED vars
    BY <2>12 DEF vars, setting, run
  <2> QED BY <2>1, <2>2, <2>3, <2>5, <2>6, <2>8, <2>9, <2>13, <2>10, <2>11, <2>12
          DEF Next, Runs
<1> QED BY <1>1, <1>2, PTL DEF Spec

-----------------------------------------------------------------------------
(* The inductive invariant of a run: it has one verdict and one report per  *)
(* stage judged so far, a stage passes only on a child that passed, and 0   *)
(* is the exit code of a run that judged and passed them all.               *)
RunInvOf(r) ==
    /\ Len(stages[r]) \in 0..N /\ Len(said[r]) = Len(stages[r])
    /\ pc[r] = "wait" => Len(stages[r]) < N
    /\ pc[r] = "save" => Len(stages[r]) = N
    /\ pc[r] # "idle" => exit[r] = -1
    /\ \A n \in 1..Len(stages[r]) : stages[r][n] = "passed" => said[r][n] = "pass"
    /\ exit[r] = 0 => Len(stages[r]) = N /\ AllPassed(r)

RunInv == \A r \in Runner : RunInvOf(r)

(* One more stage judged keeps the invariant (stages.append, :70-109).      *)
LEMMA RecordKeepsRunInv ==
    ASSUME TypeOK, RunInv, NEW r \in Runner, NEW v \in {"passed", "failed"},
           NEW o \in Outcome, v = "passed" => o = "pass",
           pc[r] # "idle", Len(stages[r]) < N, Record(r, v, o)
    PROVE  RunInv'
<1>1. stages[r] \in Seq({"passed", "failed"}) /\ said[r] \in Seq(Outcome)
  BY DEF TypeOK
<1>2. N \in Nat
  BY RapidAssumption
<1>3. /\ stages'[r] = Append(stages[r], v) /\ said'[r] = Append(said[r], o)
      /\ pc'[r] = "launch" /\ exit' = exit
  BY DEF Record, TypeOK
<1>4. /\ Len(stages'[r]) = Len(stages[r]) + 1 /\ Len(said'[r]) = Len(said[r]) + 1
      /\ stages'[r][Len(stages[r]) + 1] = v /\ said'[r][Len(said[r]) + 1] = o
      /\ \A n \in 1..Len(stages[r]) : stages'[r][n] = stages[r][n]
      /\ \A n \in 1..Len(said[r]) : said'[r][n] = said[r][n]
  BY <1>1, <1>3, AppendProperties
<1>5. Len(stages[r]) \in Nat /\ Len(said[r]) = Len(stages[r]) /\ exit[r] = -1
  BY <1>1, LenProperties DEF RunInv, RunInvOf
<1>6. ASSUME NEW n \in 1..Len(stages'[r]), stages'[r][n] = "passed"
      PROVE  said'[r][n] = "pass"
  <2>1. CASE n = Len(stages[r]) + 1
    BY <1>4, <1>5, <1>6, <2>1
  <2>2. CASE n \in 1..Len(stages[r])
    BY <1>4, <1>5, <1>6, <2>2 DEF RunInv, RunInvOf
  <2> QED BY <1>4, <1>5, <2>1, <2>2
<1>7. RunInvOf(r)'
  BY <1>2, <1>3, <1>4, <1>5, <1>6 DEF RunInvOf
<1>8. ASSUME NEW q \in Runner, q # r PROVE RunInvOf(q)'
  <2>1. /\ stages'[q] = stages[q] /\ said'[q] = said[q] /\ pc'[q] = pc[q]
        /\ exit'[q] = exit[q]
    BY <1>8 DEF Record, TypeOK
  <2> QED BY <2>1 DEF RunInv, RunInvOf, AllPassed
<1> QED BY <1>7, <1>8 DEF RunInv

THEOREM RunInvariant == Spec => []RunInv
<1> USE RapidAssumption
<1>1. Init => RunInv
  <2> SUFFICES ASSUME Init, NEW r \in Runner PROVE RunInvOf(r)
    BY DEF RunInv
  <2>1. /\ stages[r] = <<>> /\ said[r] = <<>> /\ pc[r] = "idle" /\ exit[r] = -1
    BY DEF Init
  <2> QED BY <2>1 DEF RunInvOf, RapidAssumption
<1>2. TypeOK /\ RunInv /\ [Next]_vars => RunInv'
  <2> SUFFICES ASSUME TypeOK, RunInv, [Next]_vars PROVE RunInv'
    OBVIOUS
  <2>0. ASSUME NEW q \in Runner, stages'[q] = stages[q], said'[q] = said[q],
               pc'[q] = pc[q], exit'[q] = exit[q]
        PROVE  RunInvOf(q)'
    BY <2>0 DEF RunInv, RunInvOf, AllPassed
  <2>1. CASE UNCHANGED run
    BY <2>0, <2>1 DEF run, RunInv
  <2>2. ASSUME NEW r \in Runner, Start(r) PROVE RunInv'
    <3>1. /\ stages'[r] = <<>> /\ said'[r] = <<>> /\ pc'[r] = "launch" /\ exit'[r] = -1
      BY <2>2 DEF Start, TypeOK
    <3>2. RunInvOf(r)'
      BY <3>1 DEF RunInvOf, RapidAssumption
    <3>3. ASSUME NEW q \in Runner, q # r PROVE RunInvOf(q)'
      BY <2>0, <2>2, <3>3 DEF Start, TypeOK
    <3> QED BY <3>2, <3>3 DEF RunInv
  <2>3. ASSUME NEW r \in Runner, Launch(r) PROVE RunInv'
    <3>1. /\ stages' = stages /\ said' = said /\ exit' = exit
          /\ pc[r] = "launch" /\ pc'[r] = "wait" /\ Len(stages[r]) < N
      BY <2>3 DEF Launch, TypeOK
    <3>2. RunInvOf(r)'
      BY <3>1 DEF RunInv, RunInvOf, AllPassed
    <3>3. ASSUME NEW q \in Runner, q # r PROVE RunInvOf(q)'
      BY <2>0, <2>3, <3>1, <3>3 DEF Launch, TypeOK
    <3> QED BY <3>2, <3>3 DEF RunInv
  <2>4. ASSUME NEW r \in Runner, LaunchFails(r) PROVE RunInv'
    <3>1. "crash" \in Outcome
      BY DEF Outcome
    <3> QED BY <2>4, <3>1, RecordKeepsRunInv DEF LaunchFails
  <2>5. ASSUME NEW r \in Runner, Timeout(r) PROVE RunInv'
    <3>1. "crash" \in Outcome /\ Len(stages[r]) < N
      BY <2>5 DEF Outcome, Timeout, RunInv, RunInvOf
    <3> QED BY <2>5, <3>1, RecordKeepsRunInv DEF Timeout
  <2>6. ASSUME NEW r \in Runner, Judge(r) PROVE RunInv'
    <3>1. child[r].outcome \in Outcome /\ Len(stages[r]) < N
      BY <2>6 DEF Judge, TypeOK, Child, RunInv, RunInvOf
    <3>2. Accepted(r, child[r]) => child[r].outcome = "pass"
      BY DEF Accepted
    <3> QED BY <2>6, <3>1, <3>2, RecordKeepsRunInv DEF Judge
  <2>7. ASSUME NEW r \in Runner, Save(r) PROVE RunInv'
    <3>1. /\ stages' = stages /\ said' = said /\ exit' = exit
          /\ pc[r] = "launch" /\ pc'[r] = "save" /\ Len(stages[r]) = N
      BY <2>7 DEF Save, TypeOK
    <3>2. RunInvOf(r)'
      BY <3>1 DEF RunInv, RunInvOf, AllPassed
    <3>3. ASSUME NEW q \in Runner, q # r PROVE RunInvOf(q)'
      BY <2>0, <2>7, <3>1, <3>3 DEF Save, TypeOK
    <3> QED BY <3>2, <3>3 DEF RunInv
  <2>8. ASSUME NEW r \in Runner, Finish(r) PROVE RunInv'
    <3>1. /\ stages' = stages /\ said' = said /\ pc[r] = "save" /\ pc'[r] = "idle"
          /\ exit'[r] = IF AllPassed(r) THEN 0 ELSE 1
      BY <2>8 DEF Finish, TypeOK
    <3>2. AllPassed(r)' <=> AllPassed(r)
      BY <3>1 DEF AllPassed
    <3>3. RunInvOf(r)'
      BY <3>1, <3>2 DEF RunInv, RunInvOf
    <3>4. ASSUME NEW q \in Runner, q # r PROVE RunInvOf(q)'
      BY <2>0, <2>8, <3>1, <3>4 DEF Finish, TypeOK
    <3> QED BY <3>3, <3>4 DEF RunInv
  <2>9. ASSUME NEW r \in Runner, Interrupt(r) \/ Kill(r) PROVE RunInv'
    <3>1. /\ stages' = stages /\ said' = said /\ exit' = exit /\ pc'[r] = "idle"
      BY <2>9 DEF Interrupt, Kill, Die, TypeOK
    <3>2. RunInvOf(r)'
      BY <3>1 DEF RunInv, RunInvOf, AllPassed
    <3>3. ASSUME NEW q \in Runner, q # r PROVE RunInvOf(q)'
      BY <2>0, <2>9, <3>1, <3>3 DEF Interrupt, Kill, Die, TypeOK
    <3> QED BY <3>2, <3>3 DEF RunInv
  <2> QED BY <2>1, <2>2, <2>3, <2>4, <2>5, <2>6, <2>7, <2>8, <2>9
          DEF Next, Runs, EditInput, ChildStep, OrphanStep, vars
<1> QED BY <1>1, <1>2, TypeCorrect, PTL DEF Spec

(* Exit code 0 means that every stage's own child passed, for any stages    *)
(* and whatever the other runs, the orphans and the edits did meanwhile.    *)
THEOREM PassIsHonest == Spec => []HonestPass
<1>1. TypeOK /\ RunInv => HonestPass
  <2> SUFFICES ASSUME TypeOK, RunInv, NEW r \in Runner, exit[r] = 0
               PROVE  said[r] = [n \in 1..N |-> "pass"]
    BY DEF HonestPass
  <2>1. Len(said[r]) = N /\ said[r] \in Seq(Outcome) /\ N \in Nat
    BY RapidAssumption DEF RunInv, RunInvOf, TypeOK
  <2>2. said[r] = [n \in 1..N |-> said[r][n]]
    BY <2>1, LenProperties
  <2>3. \A n \in 1..N : said[r][n] = "pass"
    BY DEF RunInv, RunInvOf, AllPassed
  <2> QED BY <2>2, <2>3
<1> QED BY <1>1, TypeCorrect, RunInvariant, PTL

-----------------------------------------------------------------------------
(* The gate implements its contract: each step of a run is a step of the    *)
(* contract or leaves the contract's variables alone.                       *)
THEOREM GateImplementsContract == Spec => KeepsContract
<1> DEFINE alive == [r \in Runner |-> pc[r] # "idle"]
<1>1. Init => Contract!Init
  <2> SUFFICES ASSUME Init PROVE Contract!Init
    OBVIOUS
  <2>1. alive = [r \in Runner |-> FALSE]
    BY DEF Init
  <2> QED BY <2>1 DEF Init, Contract!Init
<1>2. TypeOK /\ RunInv /\ [Next]_vars => [Contract!Next]_(Contract!vars)
  <2> SUFFICES ASSUME TypeOK, RunInv, [Next]_vars
               PROVE  Contract!Next \/ UNCHANGED Contract!vars
    BY DEF Contract!vars
  <2>1. ASSUME UNCHANGED <<stages, pc, exit>> PROVE UNCHANGED Contract!vars
    BY <2>1 DEF Contract!vars
  <2>2. ASSUME NEW r \in Runner, NEW p \in {"launch", "wait", "save"},
               pc[r] # "idle", pc' = [pc EXCEPT ![r] = p]
        PROVE  alive' = alive
    BY <2>2 DEF TypeOK
  <2>3. ASSUME NEW r \in Runner, NEW p \in {"launch", "idle"}, pc' = [pc EXCEPT ![r] = p]
        PROVE  alive' = [alive EXCEPT ![r] = (p # "idle")]
    BY <2>3 DEF TypeOK
  <2>4. ASSUME NEW r \in Runner, Start(r) PROVE Contract!Begin(r)
    <3>1. alive' = [alive EXCEPT ![r] = TRUE]
      BY <2>3, <2>4 DEF Start
    <3> QED BY <2>4, <3>1 DEF Start, Contract!Begin
  <2>5. ASSUME NEW r \in Runner, Launch(r) \/ Save(r) PROVE UNCHANGED Contract!vars
    <3>1. alive' = alive
      BY <2>2, <2>5 DEF Launch, Save
    <3> QED BY <2>5, <3>1 DEF Launch, Save, Contract!vars
  <2>6. ASSUME NEW r \in Runner, LaunchFails(r) \/ Timeout(r) \/ Judge(r)
        PROVE  Contract!JudgeNext(r)
    <3>1. Len(stages[r]) < N /\ pc[r] # "idle"
      BY <2>6 DEF LaunchFails, Timeout, Judge, RunInv, RunInvOf
    <3>2. PICK v \in {"passed", "failed"}, o \in Outcome : Record(r, v, o)
      <4>1. "crash" \in Outcome /\ child[r].outcome \in Outcome
        BY DEF Outcome, TypeOK, Child
      <4> QED BY <2>6, <4>1 DEF LaunchFails, Timeout, Judge
    <3>3. alive' = alive
      BY <2>2, <3>1, <3>2 DEF Record
    <3> QED BY <3>1, <3>2, <3>3 DEF Record, Contract!JudgeNext
  <2>7. ASSUME NEW r \in Runner, Finish(r) PROVE Contract!End(r)
    <3>1. alive' = [alive EXCEPT ![r] = FALSE]
      BY <2>3, <2>7 DEF Finish
    <3>2. Len(stages[r]) = N /\ pc[r] = "save"
      BY <2>7 DEF Finish, RunInv, RunInvOf
    <3>3. Contract!Verdict(r) = IF AllPassed(r) THEN 0 ELSE 1
      BY <3>2 DEF Contract!Verdict, AllPassed
    <3> QED BY <2>7, <3>1, <3>2, <3>3 DEF Finish, Contract!End
  <2>8. ASSUME NEW r \in Runner, Interrupt(r) \/ Kill(r) PROVE Contract!Die(r)
    <3>1. alive' = [alive EXCEPT ![r] = FALSE]
      BY <2>3, <2>8 DEF Interrupt, Kill, Die
    <3> QED BY <2>8, <3>1 DEF Interrupt, Kill, Die, Contract!Die
  <2>9. CASE EditInput \/ UNCHANGED vars
    BY <2>1, <2>9 DEF EditInput, vars, run
  <2>10. ASSUME NEW r \in Runner, ChildStep(r) \/ OrphanStep(r)
         PROVE  UNCHANGED Contract!vars
    BY <2>1, <2>10 DEF ChildStep, OrphanStep, run
  <2> QED BY <2>4, <2>5, <2>6, <2>7, <2>8, <2>9, <2>10 DEF Next, Runs, Contract!Next
<1> QED BY <1>1, <1>2, TypeCorrect, RunInvariant, PTL DEF Spec, KeepsContract, Contract!Spec

-----------------------------------------------------------------------------
(* Whose file is written: a run's child works for the stage being judged    *)
(* and writes where that run's mode says, and there is none at other times. *)
ChildInvOf(r) ==
    /\ pc[r] = "wait" => child[r].stage = Current(r) /\ child[r].target = Target(r)
    /\ pc[r] # "wait" => child[r] = NoChild

(* An undisturbed refresh still has the report of each stage it judged: a   *)
(* child that exited left what it found, and later children write other     *)
(* files.                                                                   *)
KeptOf(r) ==
    refresh[r] /\ ~disturbed[r] =>
        /\ \A n \in 1..Len(stages[r]) :
              StageList[n] \in Reports /\ said[r][n] # "crash" =>
                  evidence[StageList[n]] = said[r][n]
        /\ pc[r] = "wait" /\ child[r].phase = "exited" /\ Writes(child[r]) =>
              evidence[child[r].stage] = child[r].outcome

RefreshInv == \A r \in Runner : ChildInvOf(r) /\ KeptOf(r)

LEMMA AdvanceKeeps ==
    ASSUME NEW c, c.phase \in {"run", "open", "write"}, c \in Child
    PROVE  Advance(c).stage = c.stage /\ Advance(c).target = c.target
<1>1. \A x : [c EXCEPT !.phase = x].stage = c.stage
         /\ [c EXCEPT !.phase = x].target = c.target
  BY DEF Child
<1>2. \A o, x : [[c EXCEPT !.outcome = o] EXCEPT !.phase = x].stage = c.stage
             /\ [[c EXCEPT !.outcome = o] EXCEPT !.phase = x].target = c.target
  BY DEF Child
<1>3. CASE c.phase = "run"
  <2> DEFINE d == [c EXCEPT !.outcome = Finds(c.stage)]
  <2>1. Advance(c) = [d EXCEPT !.phase = IF Writes(d) THEN "open" ELSE "exited"]
    BY <1>3 DEF Advance
  <2> QED BY <1>2, <2>1
<1>4. CASE c.phase = "open"
  BY <1>1, <1>4 DEF Advance
<1>5. CASE c.phase = "write"
  BY <1>1, <1>5 DEF Advance
<1> QED BY <1>3, <1>4, <1>5

LEMMA WritingTouches ==
    ASSUME TypeOK, NEW r \in Runner, NEW c, c.phase \in {"run", "open", "write"},
           Writing(r, c)
    PROVE  /\ c.target # "evidence" => evidence' = evidence
           /\ \A s \in Reports : s # c.stage => evidence'[s] = evidence[s]
<1>1. \A x : Put(r, c, x) =>
        /\ c.target # "evidence" => evidence' = evidence
        /\ \A s \in Reports : s # c.stage => evidence'[s] = evidence[s]
  BY DEF Put, TypeOK
<1>2. CASE c.phase = "run"
  BY <1>2 DEF Writing
<1>3. CASE c.phase = "open"
  BY <1>1, <1>3 DEF Writing
<1>4. CASE c.phase = "write"
  BY <1>1, <1>4 DEF Writing
<1> QED BY <1>2, <1>3, <1>4

(* A child that exits with a report has written it (write_text, then exit). *)
LEMMA ExitedHasWritten ==
    ASSUME TypeOK, NEW r \in Runner, NEW c \in Child, c.phase \in {"run", "open", "write"},
           c.target = "evidence", Writing(r, c), Advance(c).phase = "exited",
           Writes(Advance(c))
    PROVE  evidence'[c.stage] = Advance(c).outcome
<1>1. CASE c.phase = "run"
  <2> DEFINE d == [c EXCEPT !.outcome = Finds(c.stage)]
             e == [d EXCEPT !.phase = IF Writes(d) THEN "open" ELSE "exited"]
  <2>1. Advance(c) = e
    BY <1>1 DEF Advance
  <2>2. e.stage = d.stage /\ e.outcome = d.outcome
        /\ e.phase = IF Writes(d) THEN "open" ELSE "exited"
    BY DEF Child
  <2>3. Writes(d) <=> Writes(e)
    BY <2>2 DEF Writes
  <2> QED BY <2>1, <2>2, <2>3
<1>2. CASE c.phase = "open"
  BY <1>2 DEF Advance, Child
<1>3. CASE c.phase = "write"
  <2>1. Advance(c) = [c EXCEPT !.phase = "exited"] /\ Put(r, c, c.outcome)
    BY <1>3 DEF Advance, Writing
  <2>2. Advance(c).outcome = c.outcome /\ Advance(c).stage = c.stage
    BY <2>1 DEF Child
  <2>3. c.stage \in Reports
    BY <2>2 DEF Writes
  <2> QED BY <2>1, <2>2, <2>3 DEF Put, TypeOK
<1> QED BY <1>1, <1>2, <1>3

LEMMA RecordKeepsRefreshInv ==
    ASSUME TypeOK, RunInv, RefreshInv, NEW r \in Runner, NEW v \in {"passed", "failed"},
           NEW o \in Outcome, Len(stages[r]) < N, Record(r, v, o),
           refresh[r] /\ ~disturbed[r] /\ o # "crash" /\ Current(r) \in Reports =>
                evidence[Current(r)] = o
    PROVE  RefreshInv'
<1>1. /\ stages[r] \in Seq({"passed", "failed"}) /\ Len(stages[r]) \in Nat
      /\ said[r] \in Seq(Outcome) /\ Len(said[r]) = Len(stages[r])
  BY LenProperties DEF TypeOK, RunInv, RunInvOf
<1>2. /\ stages'[r] = Append(stages[r], v) /\ said'[r] = Append(said[r], o)
      /\ pc'[r] = "launch" /\ child'[r] = NoChild
      /\ UNCHANGED <<refresh, disturbed, evidence>>
  BY DEF Record, TypeOK
<1>3. /\ Len(stages'[r]) = Len(stages[r]) + 1 /\ said'[r][Len(stages[r]) + 1] = o
      /\ \A n \in 1..Len(stages[r]) : said'[r][n] = said[r][n]
  BY <1>1, <1>2, AppendProperties
<1>4. \A n \in 1..Len(stages'[r]) : n = Len(stages[r]) + 1 \/ n \in 1..Len(stages[r])
  BY <1>1, <1>3
<1>5. KeptOf(r)'
  BY <1>2, <1>3, <1>4 DEF KeptOf, RefreshInv, Current
<1>6. ChildInvOf(r)'
  BY <1>2 DEF ChildInvOf
<1>7. ASSUME NEW q \in Runner, q # r PROVE ChildInvOf(q)' /\ KeptOf(q)'
  <2>1. stages'[q] = stages[q] /\ said'[q] = said[q] /\ pc'[q] = pc[q]
        /\ child'[q] = child[q]
    BY <1>7 DEF Record, TypeOK
  <2> QED BY <1>2, <2>1 DEF ChildInvOf, KeptOf, RefreshInv, Current, Target
<1> QED BY <1>5, <1>6, <1>7 DEF RefreshInv

THEOREM RefreshInvariant == Spec => []RefreshInv
<1> USE RapidAssumption
<1>1. Init => RefreshInv
  BY DEF Init, RefreshInv, ChildInvOf, KeptOf
<1>2. TypeOK /\ RunInv /\ RefreshInv /\ [Next]_vars => RefreshInv'
  <2> SUFFICES ASSUME TypeOK, RunInv, RefreshInv, [Next]_vars PROVE RefreshInv'
    OBVIOUS
  <2>0. ASSUME NEW q \in Runner, stages'[q] = stages[q], said'[q] = said[q], pc'[q] = pc[q],
               child'[q] = child[q], refresh'[q] = refresh[q],
               disturbed'[q] = disturbed[q], evidence' = evidence
        PROVE  ChildInvOf(q)' /\ KeptOf(q)'
    BY <2>0 DEF ChildInvOf, KeptOf, RefreshInv, Current, Target
  <2>1. CASE EditInput \/ UNCHANGED vars
    BY <2>0, <2>1 DEF EditInput, vars, run, RefreshInv
  <2>2. ASSUME NEW r \in Runner, Start(r) PROVE RefreshInv'
    <3>1. stages'[r] = <<>> /\ pc'[r] = "launch" /\ child'[r] = NoChild
      BY <2>2 DEF Start, TypeOK, RefreshInv, ChildInvOf
    <3>2. ChildInvOf(r)' /\ KeptOf(r)'
      BY <3>1 DEF ChildInvOf, KeptOf
    <3>3. ASSUME NEW q \in Runner, q # r PROVE ChildInvOf(q)' /\ KeptOf(q)'
      BY <2>0, <2>2, <3>3 DEF Start, TypeOK
    <3> QED BY <3>2, <3>3 DEF RefreshInv
  <2>3. ASSUME NEW r \in Runner, Launch(r) PROVE RefreshInv'
    <3>1. /\ stages' = stages /\ said' = said /\ pc'[r] = "wait"
          /\ child'[r].stage = Current(r) /\ child'[r].target = Target(r)
          /\ child'[r].phase = "run"
          /\ UNCHANGED <<refresh, disturbed, evidence>>
      BY <2>3 DEF Launch, TypeOK
    <3>2. ChildInvOf(r)' /\ KeptOf(r)'
      BY <3>1 DEF ChildInvOf, KeptOf, RefreshInv, Current, Target
    <3>3. ASSUME NEW q \in Runner, q # r PROVE ChildInvOf(q)' /\ KeptOf(q)'
      BY <2>0, <2>3, <3>1, <3>3 DEF Launch, TypeOK
    <3> QED BY <3>2, <3>3 DEF RefreshInv
  <2>4. ASSUME NEW r \in Runner, LaunchFails(r) \/ Timeout(r) PROVE RefreshInv'
    <3>1. Len(stages[r]) < N /\ Record(r, "failed", "crash") /\ "crash" \in Outcome
      BY <2>4 DEF LaunchFails, Timeout, RunInv, RunInvOf, Outcome
    <3> QED BY <3>1, RecordKeepsRefreshInv
  <2>5. ASSUME NEW r \in Runner, Judge(r) PROVE RefreshInv'
    <3> DEFINE v == IF Accepted(r, child[r]) THEN "passed" ELSE "failed"
    <3>1. /\ Len(stages[r]) < N /\ Record(r, v, child[r].outcome)
          /\ child[r].stage = Current(r) /\ pc[r] = "wait" /\ child[r].phase = "exited"
          /\ child[r].outcome \in Outcome
      BY <2>5 DEF Judge, RunInv, RunInvOf, RefreshInv, ChildInvOf, TypeOK, Child
    <3>2. refresh[r] /\ ~disturbed[r] /\ child[r].outcome # "crash" /\ Current(r) \in Reports =>
            evidence[Current(r)] = child[r].outcome
      BY <3>1 DEF Writes, RefreshInv, KeptOf
    <3>3. v \in {"passed", "failed"}
      OBVIOUS
    <3> HIDE DEF v
    <3> QED BY <3>1, <3>2, <3>3, RecordKeepsRefreshInv
  <2>6. ASSUME NEW r \in Runner, Save(r) \/ Finish(r) PROVE RefreshInv'
    <3>1. /\ UNCHANGED <<stages, said, child, refresh, disturbed, evidence>>
          /\ pc[r] # "wait" /\ pc'[r] # "wait"
      BY <2>6 DEF Save, Finish, TypeOK
    <3>2. ChildInvOf(r)' /\ KeptOf(r)'
      BY <3>1 DEF ChildInvOf, KeptOf, RefreshInv
    <3>3. ASSUME NEW q \in Runner, q # r PROVE ChildInvOf(q)' /\ KeptOf(q)'
      BY <2>0, <2>6, <3>1, <3>3 DEF Save, Finish, TypeOK
    <3> QED BY <3>2, <3>3 DEF RefreshInv
  <2>7. ASSUME NEW r \in Runner, Die(r) PROVE RefreshInv'
    <3>1. /\ UNCHANGED <<stages, said, refresh, disturbed, evidence>>
          /\ pc'[r] = "idle" /\ child'[r] = NoChild
      BY <2>7 DEF Die, TypeOK
    <3>2. ChildInvOf(r)' /\ KeptOf(r)'
      BY <3>1 DEF ChildInvOf, KeptOf, RefreshInv
    <3>3. ASSUME NEW q \in Runner, q # r PROVE ChildInvOf(q)' /\ KeptOf(q)'
      BY <2>0, <2>7, <3>1, <3>3 DEF Die, TypeOK
    <3> QED BY <3>2, <3>3 DEF RefreshInv
  <2>8. ASSUME NEW r \in Runner, ChildStep(r) PROVE RefreshInv'
    <3>1. /\ UNCHANGED <<stages, said, pc, refresh>>
          /\ child[r].phase \in {"run", "open", "write"}
          /\ child'[r] = Advance(child[r]) /\ child[r] \in Child
          /\ Writing(r, child[r])
          /\ \A q \in Runner : disturbed'[q] =
                (disturbed[q] \/ (q \in Runner \ {r} /\ evidence' # evidence))
      BY <2>8 DEF ChildStep, Disturb, run, TypeOK
    <3>2. pc[r] = "wait" /\ child[r].stage = Current(r) /\ Len(stages[r]) < N
      BY <3>1 DEF RefreshInv, ChildInvOf, NoChild, RunInv, RunInvOf
    <3>3. ChildInvOf(r)'
      BY <3>1, <3>2, AdvanceKeeps DEF RefreshInv, ChildInvOf, Current, Target
    <3>4. \A n \in 1..Len(stages[r]) : StageList[n] # Current(r)
      <4>1. Len(stages[r]) \in Nat /\ N \in Nat
        BY LenProperties DEF TypeOK, N
      <4> QED BY <3>2, <4>1 DEF Current, RapidAssumption
    <3>5. \A s \in Reports : s # Current(r) => evidence'[s] = evidence[s]
      BY <3>1, <3>2, WritingTouches
    <3>8. ASSUME refresh[r], child'[r].phase = "exited", Writes(child[r])'
          PROVE  evidence'[child'[r].stage] = child'[r].outcome
      <4>1. child[r].target = "evidence"
        BY <3>2, <3>8 DEF RefreshInv, ChildInvOf, Target
      <4>2. Writes(Advance(child[r]))
        BY <3>1, <3>8 DEF Writes
      <4> QED BY <3>1, <3>8, <4>1, <4>2, AdvanceKeeps, ExitedHasWritten
    <3>6. KeptOf(r)'
      BY <3>1, <3>4, <3>5, <3>8 DEF KeptOf, RefreshInv
    <3>7. ASSUME NEW q \in Runner, q # r PROVE ChildInvOf(q)' /\ KeptOf(q)'
      <4>1. child'[q] = child[q]
        BY <2>8, <3>7 DEF ChildStep, TypeOK
      <4>2. CASE evidence' = evidence
        BY <3>1, <3>7, <4>1, <4>2 DEF ChildInvOf, KeptOf, RefreshInv, Current, Target
      <4>3. CASE evidence' # evidence
        <5>1. disturbed'[q] = TRUE
          BY <3>1, <3>7, <4>3
        <5> QED BY <3>1, <4>1, <5>1 DEF ChildInvOf, KeptOf, RefreshInv, Current, Target
      <4> QED BY <4>2, <4>3
    <3> QED BY <3>3, <3>6, <3>7 DEF RefreshInv
  <2>9. ASSUME NEW r \in Runner, OrphanStep(r) PROVE RefreshInv'
    <3>1. /\ UNCHANGED <<stages, said, pc, refresh, child>>
          /\ \A q \in Runner : disturbed'[q] =
                (disturbed[q] \/ (q \in Runner /\ evidence' # evidence))
      BY <2>9 DEF OrphanStep, Disturb, run
    <3>2. CASE evidence' = evidence
      BY <3>1, <3>2 DEF ChildInvOf, KeptOf, RefreshInv, Current, Target
    <3>3. CASE evidence' # evidence
      <4>1. \A q \in Runner : disturbed'[q] = TRUE
        BY <3>1, <3>3
      <4> QED BY <3>1, <4>1 DEF ChildInvOf, KeptOf, RefreshInv, Current, Target
    <3> QED BY <3>2, <3>3
  <2> QED BY <2>1, <2>2, <2>3, <2>4, <2>5, <2>6, <2>7, <2>8, <2>9
          DEF Next, Runs, Interrupt, Kill
<1> QED BY <1>1, <1>2, TypeCorrect, RunInvariant, PTL DEF Spec

(* What an undisturbed refresh leaves under evidence/ is what its stages    *)
(* said, for any stages, runners, deaths and edits, until somebody else     *)
(* writes there (rapid_hardening_checks.py:76-109, :162-220).               *)
THEOREM RefreshLeavesItsOwn == Spec => []EvidenceIsWhatTheRunSaid
<1>1. RefreshInv => EvidenceIsWhatTheRunSaid
  BY DEF RefreshInv, KeptOf, EvidenceIsWhatTheRunSaid
<1> QED BY <1>1, RefreshInvariant, PTL

(* In particular a refresh that ended in 0 left a passing report for every  *)
(* stage that has one.                                                      *)
PassLeavesPasses ==
    \A r \in Runner : exit[r] = 0 /\ refresh[r] /\ ~disturbed[r] =>
        \A n \in 1..N : StageList[n] \in Reports => evidence[StageList[n]] = "pass"

THEOREM RefreshLeavesGoodEvidence == Spec => []PassLeavesPasses
<1>1. RunInv /\ EvidenceIsWhatTheRunSaid => PassLeavesPasses
  <2> SUFFICES ASSUME RunInv, EvidenceIsWhatTheRunSaid, NEW r \in Runner, exit[r] = 0,
                      refresh[r], ~disturbed[r], NEW n \in 1..N, StageList[n] \in Reports
               PROVE  evidence[StageList[n]] = "pass"
    BY DEF PassLeavesPasses
  <2>1. n \in 1..Len(stages[r]) /\ said[r][n] = "pass"
    BY DEF RunInv, RunInvOf, AllPassed
  <2> QED BY <2>1 DEF EvidenceIsWhatTheRunSaid
<1> QED BY <1>1, RunInvariant, RefreshLeavesItsOwn, PTL

(* Each change of a report under evidence/ is made by a refresh waiting for *)
(* that stage, or by the child of a refresh killed in it (:45-57, :164-167).*)
THEOREM EvidenceIsLeftAlone == Spec => OnlyRefreshWrites
<1> DEFINE ByRefresh(s) == \E r \in Runner :
        \/ pc[r] = "wait" /\ refresh[r] /\ Current(r) = s
        \/ orphan[r].stage = s /\ orphan[r].target = "evidence"
<1>1. TypeOK /\ RefreshInv /\ [Next]_vars =>
        [\A s \in Reports : evidence'[s] # evidence[s] => ByRefresh(s)]_vars
  <2> SUFFICES ASSUME TypeOK, RefreshInv, Next, NEW s \in Reports, evidence'[s] # evidence[s]
               PROVE  ByRefresh(s)
    OBVIOUS
  <2>1. ASSUME NEW r \in Runner, ChildStep(r) PROVE ByRefresh(s)
    <3>1. /\ child[r].phase \in {"run", "open", "write"} /\ Writing(r, child[r])
          /\ child[r] # NoChild
      BY <2>1 DEF ChildStep, NoChild
    <3>2. pc[r] = "wait" /\ child[r].target = Target(r) /\ child[r].stage = Current(r)
      BY <3>1 DEF RefreshInv, ChildInvOf
    <3>3. child[r].target = "evidence" /\ child[r].stage = s
      BY <3>1, WritingTouches
    <3> QED BY <3>2, <3>3 DEF Target
  <2>2. ASSUME NEW r \in Runner, OrphanStep(r) PROVE ByRefresh(s)
    <3>1. orphan[r].phase \in {"run", "open", "write"} /\ Writing(r, orphan[r])
      BY <2>2 DEF OrphanStep
    <3>2. orphan[r].target = "evidence" /\ orphan[r].stage = s
      BY <3>1, WritingTouches
    <3> QED BY <3>2
  <2>3. ASSUME UNCHANGED evidence PROVE FALSE
    BY <2>3
  <2> QED BY <2>1, <2>2, <2>3 DEF Next, EditInput, Start, Runs, Launch, LaunchFails, Record,
          Timeout, Judge, Save, Finish, Interrupt, Kill, Die, setting
<1> QED BY <1>1, TypeCorrect, RefreshInvariant, PTL DEF Spec, OnlyRefreshWrites

-----------------------------------------------------------------------------
(* Why a refresh repairs stale evidence.  While nobody edits, every input is*)
(* good, and an undisturbed refresh in which no stage crashed has passed    *)
(* every stage so far; the present child therefore reads good reports only, *)
(* finds a pass, and has its own report in place when it exits.             *)
NoCrash(r) == \A n \in 1..Len(stages[r]) : said[r][n] # "crash"

ChildDoesWell(r) ==
    /\ child[r].phase \in {"open", "write", "exited"} => child[r].outcome = "pass"
    /\ child[r].phase = "exited" /\ child[r].stage \in Reports =>
          evidence[child[r].stage] = "pass"

RepairsOf(r) ==
    refresh[r] /\ ~disturbed[r] /\ edits = 0 /\ NoCrash(r) =>
        /\ AllPassed(r)
        /\ pc[r] = "wait" => ChildDoesWell(r)

RepairInv ==
    /\ edits = 0 => \A s \in Stage : input[s] = "pass"
    /\ \A r \in Runner : RepairsOf(r)
    /\ \A r \in Runner : exit[r] = 1 => ~AllPassed(r)

(* A child that reads good reports on a good input finds a pass.            *)
LEMMA CurrentFindsPass ==
    ASSUME TypeOK, RunInv, RefreshInv, RepairInv, NEW r \in Runner, pc[r] = "wait",
           refresh[r], ~disturbed[r], edits = 0, NoCrash(r)
    PROVE  Finds(Current(r)) = "pass"
<1> DEFINE k == Len(stages[r])
<1>1. k \in Nat /\ k + 1 \in 1..N /\ N \in Nat
  BY RapidAssumption, LenProperties DEF TypeOK, RunInv, RunInvOf
<1>2. Current(r) \in Stage
  BY <1>1, RapidAssumption, ElementOfSeq DEF Current, N
<1>3. ASSUME NEW t \in Evidence[Current(r)] PROVE evidence[t] = "pass"
  <2>1. \E m \in 1..((k + 1) - 1) : StageList[m] = t
    BY <1>1, OrderAssumption DEF Current
  <2>2. PICK m \in 1..k : StageList[m] = t
    BY <1>1, <2>1
  <2>3. stages[r][m] = "passed"
    BY DEF RepairInv, RepairsOf, AllPassed
  <2>4. said[r][m] = "pass"
    BY <2>3 DEF RunInv, RunInvOf
  <2>5. t \in Reports
    BY <1>2, RapidAssumption
  <2> QED BY <2>2, <2>4, <2>5 DEF RefreshInv, KeptOf
<1>4. input[Current(r)] = "pass"
  BY <1>2 DEF RepairInv
<1> QED BY <1>3, <1>4 DEF Finds

(* A step of such a child keeps it doing well.                              *)
LEMMA ChildGoesOnWell ==
    ASSUME TypeOK, NEW r \in Runner, NEW c \in Child, c.stage \in Stage,
           c.phase \in {"run", "open", "write"}, c.target = "evidence",
           Finds(c.stage) = "pass", c.phase # "run" => c.outcome = "pass",
           Writing(r, c)
    PROVE  LET d == Advance(c) IN
           /\ d.phase # "run" /\ d.outcome = "pass"
           /\ d.phase = "exited" /\ d.stage \in Reports => evidence'[d.stage] = "pass"
<1>1. CASE c.phase = "run"
  <2> DEFINE d == [c EXCEPT !.outcome = Finds(c.stage)]
             e == [d EXCEPT !.phase = IF Writes(d) THEN "open" ELSE "exited"]
  <2>1. Advance(c) = e
    BY <1>1 DEF Advance
  <2>2. d.outcome = "pass" /\ d.stage = c.stage
    BY DEF Child
  <2>3. e.outcome = "pass" /\ e.stage = c.stage
        /\ e.phase = IF Writes(d) THEN "open" ELSE "exited"
    BY DEF Child
  <2>4. Writes(d) <=> c.stage \in Reports
    BY <2>2 DEF Writes
  <2> QED BY <2>1, <2>3, <2>4
<1>2. CASE c.phase = "open"
  <2>1. Advance(c) = [c EXCEPT !.phase = "write"]
    BY <1>2 DEF Advance
  <2>2. Advance(c).phase = "write" /\ Advance(c).outcome = c.outcome
    BY <2>1 DEF Child
  <2> QED BY <1>2, <2>2
<1>3. CASE c.phase = "write"
  <2>1. Advance(c) = [c EXCEPT !.phase = "exited"] /\ Put(r, c, c.outcome)
    BY <1>3 DEF Advance, Writing
  <2>2. Advance(c).phase = "exited" /\ Advance(c).outcome = c.outcome
        /\ Advance(c).stage = c.stage
    BY <2>1 DEF Child
  <2>3. c.stage \in Reports => evidence'[c.stage] = c.outcome
    BY <2>1 DEF Put, TypeOK
  <2> QED BY <1>3, <2>2, <2>3
<1> QED BY <1>1, <1>2, <1>3

(* One more stage judged: a stage that did not crash passed.                *)
LEMMA RecordKeepsRepairs ==
    ASSUME TypeOK, RunInv, RepairInv, NEW r \in Runner, NEW v \in {"passed", "failed"},
           NEW o \in Outcome, Record(r, v, o), pc[r] # "idle",
           refresh[r] /\ ~disturbed[r] /\ edits = 0 /\ NoCrash(r) =>
                v = "passed" \/ o = "crash"
    PROVE  \A q \in Runner : RepairsOf(q)' /\ (exit'[q] = 1 => ~AllPassed(q)')
<1>1. stages[r] \in Seq({"passed", "failed"}) /\ said[r] \in Seq(Outcome)
      /\ Len(stages[r]) \in Nat /\ Len(said[r]) = Len(stages[r]) /\ exit[r] = -1
  BY LenProperties DEF TypeOK, RunInv, RunInvOf
<1>2. /\ stages'[r] = Append(stages[r], v) /\ said'[r] = Append(said[r], o)
      /\ pc'[r] = "launch" /\ UNCHANGED <<refresh, disturbed, edits, exit>>
  BY DEF Record, TypeOK, setting
<1>3. /\ Len(stages'[r]) = Len(stages[r]) + 1
      /\ stages'[r][Len(stages[r]) + 1] = v /\ said'[r][Len(stages[r]) + 1] = o
      /\ \A n \in 1..Len(stages[r]) : stages'[r][n] = stages[r][n]
                                      /\ said'[r][n] = said[r][n]
  BY <1>1, <1>2, AppendProperties
<1>4. \A n \in 1..Len(stages'[r]) : n = Len(stages[r]) + 1 \/ n \in 1..Len(stages[r])
  BY <1>1, <1>3
<1>5. RepairsOf(r)'
  <2> SUFFICES ASSUME refresh[r], ~disturbed[r], edits = 0, NoCrash(r)'
               PROVE  AllPassed(r)'
    BY <1>2 DEF RepairsOf
  <2>1. NoCrash(r) /\ o # "crash"
    BY <1>1, <1>3, <1>4 DEF NoCrash
  <2>2. v = "passed" /\ AllPassed(r)
    BY <2>1 DEF RepairInv, RepairsOf
  <2> QED BY <1>1, <1>3, <1>4, <2>2 DEF AllPassed
<1>6. ASSUME NEW q \in Runner, q # r
      PROVE  RepairsOf(q)' /\ (exit'[q] = 1 => ~AllPassed(q)')
  <2>1. stages'[q] = stages[q] /\ pc'[q] = pc[q] /\ child'[q] = child[q] /\ said'[q] = said[q]
        /\ evidence' = evidence
    BY <1>6 DEF Record, TypeOK
  <2>2. RepairsOf(q) /\ (exit[q] = 1 => ~AllPassed(q))
    BY DEF RepairInv
  <2>3. refresh' = refresh /\ disturbed' = disturbed /\ edits' = edits /\ exit' = exit
    BY <1>2
  <2>4. /\ AllPassed(q)' <=> AllPassed(q)
        /\ NoCrash(q)' <=> NoCrash(q)
        /\ ChildDoesWell(q)' <=> ChildDoesWell(q)
    BY <2>1 DEF AllPassed, NoCrash, ChildDoesWell
  <2> QED BY <2>1, <2>2, <2>3, <2>4 DEF RepairsOf
<1> QED BY <1>1, <1>2, <1>5, <1>6

THEOREM RepairInvariant == Spec => []RepairInv
<1> USE RapidAssumption
<1>1. Init => RepairInv
  <2> SUFFICES ASSUME Init PROVE RepairInv
    OBVIOUS
  <2>1. \A s \in Stage : input[s] = "pass"
    BY DEF Init
  <2>2. \A r \in Runner : ~refresh[r] /\ exit[r] = -1
    BY DEF Init
  <2> QED BY <2>1, <2>2 DEF RepairInv, RepairsOf
<1>2. TypeOK /\ RunInv /\ RefreshInv /\ RepairInv /\ [Next]_vars => RepairInv'
  <2> SUFFICES ASSUME TypeOK, RunInv, RefreshInv, RepairInv, [Next]_vars
               PROVE  RepairInv'
    OBVIOUS
  <2> DEFINE Fine(q) == RepairsOf(q) /\ (exit[q] = 1 => ~AllPassed(q))
  <2>0. ASSUME NEW q \in Runner, stages'[q] = stages[q], said'[q] = said[q],
               pc'[q] = pc[q], exit'[q] = exit[q], child'[q] = child[q],
               refresh'[q] = refresh[q], edits' = edits,
               ~disturbed'[q] => ~disturbed[q] /\ evidence' = evidence
        PROVE  Fine(q)'
    BY <2>0 DEF RepairInv, RepairsOf, NoCrash, ChildDoesWell, AllPassed
  <2>1. ASSUME UNCHANGED setting, \A q \in Runner : Fine(q)' PROVE RepairInv'
    BY <2>1 DEF RepairInv, setting
  <2>2. CASE EditInput
    <3>1. edits' # 0 /\ UNCHANGED <<stages, said, exit>>
      BY <2>2 DEF EditInput, run, TypeOK
    <3> QED BY <3>1 DEF RepairInv, RepairsOf, AllPassed
  <2>3. ASSUME NEW r \in Runner, Start(r) PROVE RepairInv'
    <3>1. stages'[r] = <<>> /\ pc'[r] = "launch" /\ exit'[r] = -1
      BY <2>3 DEF Start, TypeOK
    <3>2. Fine(r)'
      BY <3>1 DEF RepairsOf, AllPassed
    <3>3. ASSUME NEW q \in Runner, q # r PROVE Fine(q)'
      BY <2>0, <2>3, <3>3 DEF Start, TypeOK, setting
    <3> QED BY <2>1, <2>3, <3>2, <3>3 DEF Start
  <2>4. ASSUME NEW r \in Runner, Launch(r) PROVE RepairInv'
    <3>1. /\ child'[r].phase = "run" /\ stages' = stages /\ said' = said /\ exit' = exit
          /\ UNCHANGED <<refresh, disturbed, edits>>
      BY <2>4 DEF Launch, TypeOK, setting
    <3>2. Fine(r)'
      BY <3>1 DEF RepairInv, RepairsOf, NoCrash, AllPassed, ChildDoesWell
    <3>3. ASSUME NEW q \in Runner, q # r PROVE Fine(q)'
      BY <2>0, <2>4, <3>1, <3>3 DEF Launch, TypeOK
    <3> QED BY <2>1, <2>4, <3>2, <3>3 DEF Launch
  <2>5. ASSUME NEW r \in Runner, LaunchFails(r) \/ Timeout(r) PROVE RepairInv'
    <3>1. Record(r, "failed", "crash") /\ pc[r] # "idle" /\ "crash" \in Outcome
      BY <2>5 DEF LaunchFails, Timeout, Outcome
    <3> QED BY <2>1, <3>1, RecordKeepsRepairs DEF Record
  <2>6. ASSUME NEW r \in Runner, Judge(r) PROVE RepairInv'
    <3> DEFINE v == IF Accepted(r, child[r]) THEN "passed" ELSE "failed"
    <3>1. /\ Record(r, v, child[r].outcome) /\ pc[r] = "wait"
          /\ child[r].phase = "exited" /\ child[r].outcome \in Outcome
      BY <2>6 DEF Judge, TypeOK, Child
    <3>2. ASSUME refresh[r], ~disturbed[r], edits = 0, NoCrash(r)
          PROVE  Accepted(r, child[r])
      BY <3>1, <3>2 DEF RepairInv, RepairsOf, ChildDoesWell, Accepted, Artifact
    <3>3. v \in {"passed", "failed"}
      OBVIOUS
    <3>4. refresh[r] /\ ~disturbed[r] /\ edits = 0 /\ NoCrash(r) => v = "passed"
      BY <3>2
    <3> HIDE DEF v
    <3> QED BY <2>1, <3>1, <3>3, <3>4, RecordKeepsRepairs DEF Record
  <2>7. ASSUME NEW r \in Runner, Save(r) \/ Finish(r) PROVE RepairInv'
    <3>1. /\ UNCHANGED <<stages, said, child, refresh, disturbed, evidence, edits>>
          /\ pc'[r] # "wait" /\ (exit'[r] = 1 => exit[r] = 1 \/ ~AllPassed(r))
      BY <2>7 DEF Save, Finish, TypeOK, setting
    <3>2. Fine(r)'
      BY <3>1 DEF RepairInv, RepairsOf, NoCrash, AllPassed
    <3>3. ASSUME NEW q \in Runner, q # r PROVE Fine(q)'
      BY <2>0, <2>7, <3>1, <3>3 DEF Save, Finish, TypeOK
    <3> QED BY <2>1, <2>7, <3>2, <3>3 DEF Save, Finish
  <2>8. ASSUME NEW r \in Runner, Die(r) PROVE RepairInv'
    <3>1. /\ UNCHANGED <<stages, said, exit, refresh, disturbed, evidence, edits, input>>
          /\ pc'[r] = "idle"
      BY <2>8 DEF Die, TypeOK
    <3>2. Fine(r)'
      BY <3>1 DEF RepairInv, RepairsOf, NoCrash, AllPassed
    <3>3. ASSUME NEW q \in Runner, q # r PROVE Fine(q)'
      BY <2>0, <2>8, <3>1, <3>3 DEF Die, TypeOK
    <3> QED BY <3>1, <3>2, <3>3 DEF RepairInv
  <2>9. ASSUME NEW r \in Runner, ChildStep(r) PROVE RepairInv'
    <3>1. /\ UNCHANGED <<setting, stages, said, exit, pc, refresh>>
          /\ child[r].phase \in {"run", "open", "write"}
          /\ child'[r] = Advance(child[r]) /\ child[r] \in Child
          /\ Writing(r, child[r]) /\ disturbed'[r] = disturbed[r]
          /\ \A q \in Runner \ {r} : ~disturbed'[q] => ~disturbed[q] /\ evidence' = evidence
      BY <2>9 DEF ChildStep, Disturb, run, TypeOK
    <3>2. /\ pc[r] = "wait" /\ child[r].stage = Current(r) /\ child[r].target = Target(r)
          /\ child[r].stage \in Stage
      BY <3>1 DEF RefreshInv, ChildInvOf, NoChild, Child
    <3>3. ASSUME refresh[r], ~disturbed[r], edits = 0, NoCrash(r) PROVE ChildDoesWell(r)'
      <4>1. Finds(child[r].stage) = "pass" /\ child[r].target = "evidence"
        BY <3>2, <3>3, CurrentFindsPass DEF Target
      <4>2. child[r].phase # "run" => child[r].outcome = "pass"
        BY <3>1, <3>2, <3>3 DEF RepairInv, RepairsOf, ChildDoesWell
      <4> QED BY <3>1, <3>2, <4>1, <4>2, ChildGoesOnWell DEF ChildDoesWell
    <3>4. Fine(r)'
      BY <3>1, <3>3 DEF RepairInv, RepairsOf, NoCrash, AllPassed, setting
    <3>5. ASSUME NEW q \in Runner, q # r PROVE Fine(q)'
      <4>1. child'[q] = child[q]
        BY <2>9, <3>5 DEF ChildStep, TypeOK
      <4> QED BY <2>0, <3>1, <3>5, <4>1 DEF setting
    <3> QED BY <2>1, <3>1, <3>4, <3>5
  <2>10. ASSUME NEW r \in Runner, OrphanStep(r) PROVE RepairInv'
    <3>1. /\ UNCHANGED <<setting, stages, said, exit, pc, refresh, child>>
          /\ \A q \in Runner : ~disturbed'[q] => ~disturbed[q] /\ evidence' = evidence
      BY <2>10 DEF OrphanStep, Disturb, run
    <3>2. ASSUME NEW q \in Runner PROVE Fine(q)'
      BY <2>0, <3>1, <3>2 DEF setting
    <3> QED BY <2>1, <3>1, <3>2
  <2>11. CASE UNCHANGED vars
    <3>1. ASSUME NEW q \in Runner PROVE Fine(q)'
      BY <2>0, <2>11, <3>1 DEF vars, run, setting
    <3> QED BY <2>1, <2>11, <3>1 DEF vars
  <2> QED BY <2>2, <2>3, <2>4, <2>5, <2>6, <2>7, <2>8, <2>9, <2>10, <2>11
          DEF Next, Runs, Interrupt, Kill
<1> QED BY <1>1, <1>2, TypeCorrect, RunInvariant, RefreshInvariant, PTL DEF Spec

(* Stale evidence does not make a refresh fail: an undisturbed one on good  *)
(* inputs that ends in 1 had a stage that crashed, for any stages that are  *)
(* listed after the reports they read (rapid_hardening_checks.py:162-227).  *)
THEOREM StaleEvidenceIsRepaired == Spec => []RefreshRepairs
<1>1. TypeOK /\ RunInv /\ RepairInv => RefreshRepairs
  <2> SUFFICES ASSUME TypeOK, RunInv, RepairInv, NEW r \in Runner, exit[r] = 1,
                      refresh[r], ~disturbed[r], edits = 0
               PROVE  \E n \in 1..N : said[r][n] = "crash"
    BY DEF RefreshRepairs
  <2>1. ~NoCrash(r)
    BY DEF RepairInv, RepairsOf
  <2>2. Len(stages[r]) \in 0..N /\ N \in Nat
    BY RapidAssumption DEF RunInv, RunInvOf
  <2> QED BY <2>1, <2>2 DEF NoCrash
<1> QED BY <1>1, TypeCorrect, RunInvariant, RepairInvariant, PTL

-----------------------------------------------------------------------------
(* Why a run ends.  StepsLeft bounds the steps of the runner's own that a   *)
(* run still has before it: two per stage to judge, two to write the        *)
(* summary.                                                                 *)
StepsLeft(r) ==
    CASE pc[r] = "idle" -> 0
      [] pc[r] = "launch" -> 2 * (N - Len(stages[r])) + 2
      [] pc[r] = "wait" -> 2 * (N - Len(stages[r])) + 1
      [] pc[r] = "save" -> 1

(* The guards of the runner's own actions: what it needs from the others to *)
(* go on, which is nothing.                                                 *)
CanGoOn(r) ==
    \/ pc[r] = "launch" /\ Len(stages[r]) < N
    \/ pc[r] = "launch" /\ Len(stages[r]) = N
    \/ pc[r] = "wait" /\ (Expired(r) \/ child[r].phase = "exited")
    \/ pc[r] = "save"

RunsAreBounded ==
    \A r \in Runner :
        /\ StepsLeft(r) \in 0..(2 * N + 2)
        /\ pc[r] # "idle" => StepsLeft(r) > 0 /\ CanGoOn(r)

RunsCountDown ==
    [][\A r \in Runner :
        /\ Runs(r) => StepsLeft(r)' < StepsLeft(r)
        /\ StepsLeft(r)' > StepsLeft(r) => Start(r)]_vars

(* A run under way is never stuck, whatever its child, the other runs and   *)
(* the orphans do, and has at most 2 N + 2 steps of its own before it: a    *)
(* child that hangs does not hold it, its timer may fire (:45-57).          *)
THEOREM NoRunIsStuck == Spec => []RunsAreBounded
<1>1. TypeOK /\ RunInv => RunsAreBounded
  <2> SUFFICES ASSUME TypeOK, RunInv, NEW r \in Runner
               PROVE  /\ StepsLeft(r) \in 0..(2 * N + 2)
                      /\ pc[r] # "idle" => StepsLeft(r) > 0 /\ CanGoOn(r)
    BY DEF RunsAreBounded
  <2>1. /\ N \in Nat /\ Len(stages[r]) \in 0..N
        /\ pc[r] = "wait" => Len(stages[r]) < N
    BY RapidAssumption DEF RunInv, RunInvOf
  <2>2. pc[r] \in {"idle", "launch", "wait", "save"}
    BY DEF TypeOK
  <2>3. StepsLeft(r) \in 0..(2 * N + 2) /\ (pc[r] # "idle" => StepsLeft(r) > 0)
    <3>1. PICK k \in 0..N : k = Len(stages[r])
      BY <2>1
    <3>2. CASE pc[r] = "idle"
      BY <2>1, <3>2 DEF StepsLeft
    <3>3. CASE pc[r] = "launch"
      <4>1. StepsLeft(r) = 2 * (N - k) + 2
        BY <3>1, <3>3 DEF StepsLeft
      <4> QED BY <2>1, <4>1
    <3>4. CASE pc[r] = "wait"
      <4>1. StepsLeft(r) = 2 * (N - k) + 1
        BY <3>1, <3>4 DEF StepsLeft
      <4> QED BY <2>1, <4>1
    <3>5. CASE pc[r] = "save"
      <4>1. StepsLeft(r) = 1
        BY <3>5 DEF StepsLeft
      <4> QED BY <2>1, <4>1
    <3> QED BY <2>2, <3>2, <3>3, <3>4, <3>5
  <2>4. pc[r] # "idle" => CanGoOn(r)
    BY <2>1, <2>2 DEF CanGoOn, Expired
  <2> QED BY <2>3, <2>4
<1> QED BY <1>1, TypeCorrect, RunInvariant, PTL

(* Every step of a runner brings its run nearer to the end, no step of any  *)
(* other process takes it further from it, and only a new run starts the    *)
(* count again: a stage is judged once, and no failure, timeout or edit     *)
(* makes the gate judge it a second time (main, :130-259).                  *)
THEOREM EveryStepCounts == Spec => RunsCountDown
<1> USE RapidAssumption
<1>1. TypeOK /\ RunInv /\ RunsAreBounded /\ RunsAreBounded' /\ [Next]_vars =>
        [\A r \in Runner :
            /\ Runs(r) => StepsLeft(r)' < StepsLeft(r)
            /\ StepsLeft(r)' > StepsLeft(r) => Start(r)]_vars
  <2> SUFFICES ASSUME TypeOK, RunInv, RunsAreBounded, RunsAreBounded', Next, NEW r \in Runner
               PROVE  /\ Runs(r) => StepsLeft(r)' < StepsLeft(r)
                      /\ StepsLeft(r)' > StepsLeft(r) => Start(r)
    OBVIOUS
  <2> DEFINE k == Len(stages[r])
  <2>0. /\ N \in Nat /\ k \in 0..N /\ pc[r] \in {"idle", "launch", "wait", "save"}
        /\ pc[r] = "wait" => k < N
        /\ StepsLeft(r) \in Nat
    <3>1. /\ N \in Nat /\ k \in 0..N /\ (pc[r] = "wait" => k < N)
          /\ pc[r] \in {"idle", "launch", "wait", "save"}
      BY DEF RunInv, RunInvOf, TypeOK
    <3> QED BY <3>1 DEF RunsAreBounded
  <2>1. ASSUME NEW v, NEW o, Record(r, v, o), pc[r] \in {"launch", "wait"}, k < N
        PROVE  StepsLeft(r)' < StepsLeft(r)
    <3>1. pc'[r] = "launch" /\ stages'[r] = Append(stages[r], v)
      BY <2>1 DEF Record, TypeOK
    <3>2. Len(stages'[r]) = k + 1
      BY <3>1 DEF TypeOK
    <3>3. StepsLeft(r)' = 2 * (N - (k + 1)) + 2
      BY <3>1, <3>2 DEF StepsLeft
    <3>4. StepsLeft(r) >= 2 * (N - k) + 1
      BY <2>0, <2>1 DEF StepsLeft
    <3> QED BY <2>0, <3>3, <3>4
  <2>2. ASSUME Runs(r) PROVE StepsLeft(r)' < StepsLeft(r)
    <3>1. CASE Launch(r)
      <4>1. pc[r] = "launch" /\ pc'[r] = "wait" /\ stages' = stages
        BY <3>1 DEF Launch, TypeOK
      <4> QED BY <2>0, <4>1 DEF StepsLeft
    <3>2. CASE LaunchFails(r) \/ Timeout(r) \/ Judge(r)
      BY <2>0, <2>1, <3>2 DEF LaunchFails, Timeout, Judge
    <3>3. CASE Save(r)
      <4>1. pc[r] = "launch" /\ pc'[r] = "save" /\ k = N
        BY <3>3 DEF Save, TypeOK
      <4> QED BY <2>0, <4>1 DEF StepsLeft
    <3>4. CASE Finish(r)
      <4>1. pc[r] = "save" /\ pc'[r] = "idle"
        BY <3>4 DEF Finish, TypeOK
      <4> QED BY <4>1 DEF StepsLeft
    <3> QED BY <2>2, <3>1, <3>2, <3>3, <3>4 DEF Runs
  <2>3. ASSUME pc'[r] = pc[r], stages'[r] = stages[r]
        PROVE  StepsLeft(r)' = StepsLeft(r)
    BY <2>3 DEF StepsLeft
  <2>4. ASSUME pc'[r] = "idle" PROVE ~(StepsLeft(r)' > StepsLeft(r))
    BY <2>0, <2>4 DEF StepsLeft
  <2>5. ASSUME NEW q \in Runner, q # r, Start(q) \/ Runs(q) \/ Interrupt(q) \/ Kill(q)
        PROVE  pc'[r] = pc[r] /\ stages'[r] = stages[r]
    <3>1. \/ Start(q) \/ Launch(q) \/ Save(q) \/ Finish(q) \/ Die(q)
          \/ \E v, o : Record(q, v, o)
      BY <2>5 DEF Runs, LaunchFails, Timeout, Judge, Interrupt, Kill
    <3>2. \/ stages' = stages \/ \E x : stages' = [stages EXCEPT ![q] = x]
      BY <3>1 DEF Start, Launch, Save, Finish, Die, Record
    <3>3. \E x : pc' = [pc EXCEPT ![q] = x]
      BY <3>1 DEF Start, Launch, Save, Finish, Die, Record
    <3> QED BY <2>5, <3>2, <3>3 DEF TypeOK
  <2>6. ASSUME Interrupt(r) \/ Kill(r) PROVE pc'[r] = "idle"
    BY <2>6 DEF Interrupt, Kill, Die, TypeOK
  <2>7. CASE EditInput \/ \E q \in Runner : ChildStep(q) \/ OrphanStep(q)
    <3>1. UNCHANGED run
      BY <2>7 DEF EditInput, ChildStep, OrphanStep
    <3>2. pc'[r] = pc[r] /\ stages'[r] = stages[r]
      BY <3>1 DEF run
    <3> QED BY <2>0, <2>2, <2>3, <3>2
  <2>8. CASE Start(r)
    BY <2>2, <2>8
  <2>9. CASE Runs(r)
    <3>1. StepsLeft(r)' \in Nat
      BY <2>0 DEF RunsAreBounded
    <3> QED BY <2>0, <2>2, <2>9, <3>1
  <2> QED BY <2>0, <2>2, <2>3, <2>4, <2>5, <2>6, <2>7, <2>8, <2>9 DEF Next
<1> QED BY <1>1, TypeCorrect, RunInvariant, NoRunIsStuck, PTL DEF Spec, RunsCountDown
=============================================================================
