----------------------- MODULE ReferenceBaselineProofs -----------------------
(* Theorems about the reference baseline, for any files, profiles, upstream  *)
(* checkouts and expected variables, and any number of changes.              *)
EXTENDS ReferenceBaseline, TLAPS

(* The elements of the three lists.                                         *)
LEMMA Lists ==
    /\ Len(InputList) \in Nat /\ Len(InputList) >= 1
    /\ \A n \in 1..Len(InputList) : InputList[n] \in Input /\ InputList[n] \in Path
    /\ Len(ProfileList) \in Nat /\ Len(ProfileList) >= 1
    /\ \A n \in 1..Len(ProfileList) : ProfileList[n] \in Profile
    /\ Len(ComponentList) \in Nat /\ Len(ComponentList) >= 1
    /\ \A n \in 1..Len(ComponentList) : ComponentList[n] \in Component
    /\ Input \subseteq Path /\ Profile \subseteq Input
<1>1. \A S : \A s \in Seq(S) : s # <<>> => Len(s) \in Nat /\ Len(s) >= 1
  OBVIOUS
<1>2. InputList \in Seq(Path) /\ InputList # <<>> /\ ProfileList \in Seq(Input)
      /\ ProfileList # <<>> /\ ComponentList \in Seq(Component) /\ ComponentList # <<>>
  BY BaselineAssumption DEF BaselineAssumption
<1>3. Len(InputList) \in Nat /\ Len(InputList) >= 1
  BY <1>1, <1>2
<1>4. Len(ProfileList) \in Nat /\ Len(ProfileList) >= 1
  BY <1>1, <1>2
<1>5. Len(ComponentList) \in Nat /\ Len(ComponentList) >= 1
  BY <1>1, <1>2
<1>6. \A n \in 1..Len(InputList) : InputList[n] \in Input /\ InputList[n] \in Path
  BY <1>2 DEF Input
<1>7. \A n \in 1..Len(ProfileList) : ProfileList[n] \in Profile /\ ProfileList[n] \in Input
  BY <1>2 DEF Profile
<1>8. \A n \in 1..Len(ComponentList) : ComponentList[n] \in Component
  BY DEF Component
<1>9. Input \subseteq Path
  BY <1>6 DEF Input
<1>10. Profile \subseteq Input
  BY <1>7 DEF Profile
<1> QED
  BY <1>3, <1>4, <1>5, <1>6, <1>7, <1>8, <1>9, <1>10

(* No report, an empty one and a commit made from the checkout.             *)
LEMMA BlankReports == Blank("absent") \in Report /\ Blank("empty") \in Report
  BY DEF Blank, Report, NoHashes, NoVerdict, Content, Verdict

LEMMA LastCommit ==
    ASSUME NEW s \in Seq(Commit), Len(s) > 0
    PROVE  s[Len(s)] \in Commit
  OBVIOUS

LEMMA OneMore ==
    ASSUME NEW s \in Seq(Commit), NEW c \in Commit
    PROVE  /\ Append(s, c) \in Seq(Commit) /\ Len(Append(s, c)) = Len(s) + 1
           /\ Append(s, c)[Len(Append(s, c))] = c
  OBVIOUS

(* What every step leaves alone is typed after it as before.                *)
LEMMA TypeInit == Init => TypeOK
<1> SUFFICES ASSUME Init PROVE TypeOK
  OBVIOUS
<1>1. tree \in [Path -> Content] /\ report \in Report /\ outside \in Report
  BY BlankReports DEF Init, Content
<1>2. commits \in Seq(Commit) /\ Len(commits) > 0
  BY <1>1 DEF Init, Commit
<1>3. hashes \in [Input -> Content] /\ verdict \in [Profile -> Verdict]
      /\ given \in [Profile -> Content] /\ appended \in Content
  BY DEF Init, NoHashes, NoVerdict, NoneGiven, Content, Verdict
<1>4. edits \in 0..MaxEdits /\ deaths \in 0..MaxDeaths
  BY BaselineAssumption DEF Init, BaselineAssumption
<1> QED
  BY <1>1, <1>2, <1>3, <1>4 DEF Init, TypeOK

LEMMA TypeNext == TypeOK /\ [Next]_vars => TypeOK'
<1> SUFFICES ASSUME TypeOK, [Next]_vars PROVE TypeOK'
  OBVIOUS
<1> USE BaselineAssumption DEF BaselineAssumption
<1>a. HEAD \in Commit /\ HEAD.tree \in [Path -> Content] /\ HEAD.report \in Report
  BY LastCommit DEF TypeOK, HEAD, Commit
<1>1. CASE Edit
  <2>1. tree' \in [Path -> Content]
    BY <1>1 DEF Edit, TypeOK, Content
  <2> QED
    BY <1>1, <2>1 DEF Edit, Disturb, TypeOK, found, Running
<1>2. CASE MakeCommit
  <2>1. [tree |-> tree, report |-> report] \in Commit
    BY DEF TypeOK, Commit
  <2>2. commits' \in Seq(Commit) /\ Len(commits') > 0
    BY <1>2, <2>1, OneMore DEF MakeCommit, TypeOK
  <2> QED
    BY <1>2, <2>2 DEF MakeCommit, Disturb, TypeOK, found, Running
<1>3. CASE Restore
  BY <1>3, <1>a DEF Restore, Disturb, TypeOK, found, Running
<1>4. CASE Move
  BY <1>4 DEF Move, TypeOK, checkout, found, Running
<1>5. CASE Start
  BY <1>5 DEF Start, Goto, TypeOK, checkout, NoHashes, NoVerdict, NoneGiven, Content, Verdict
<1> USE Lists DEF Goto, Others, checkout, found
<1>6. CASE GetRevision
  BY <1>6 DEF GetRevision, TypeOK
<1>7. CASE CheckStatus
  BY <1>7 DEF CheckStatus, Refuse, TypeOK
<1>8. CASE HashInput
  <2>1. hashes' \in [Input -> Content]
    BY <1>8 DEF HashInput, TypeOK
  <2>2. at \in 1..Len(InputList) /\ (at < Len(InputList) => at + 1 \in 1..Len(InputList))
    BY <1>8 DEF HashInput, TypeOK
  <2> QED
    BY <1>8, <2>1, <2>2 DEF HashInput, Refuse, TypeOK
<1>9. CASE CheckRevision
  BY <1>9 DEF CheckRevision, Refuse, TypeOK
<1>10. CASE CheckComponent
  <2>1. at \in 1..Len(ComponentList)
        /\ (at < Len(ComponentList) => at + 1 \in 1..Len(ComponentList))
    BY <1>10 DEF CheckComponent, TypeOK
  <2> QED
    BY <1>10, <2>1 DEF CheckComponent, Refuse, TypeOK
<1>11. CASE AppendProfile
  <2>1. at \in 1..Len(ProfileList)
        /\ (at < Len(ProfileList) => at + 1 \in 1..Len(ProfileList))
    BY <1>11 DEF AppendProfile, TypeOK
  <2>2. tree[ProfileList[at]] \in Content /\ ProfileList[at] \in Profile
    BY <2>1 DEF TypeOK
  <2>3. given' \in [Profile -> Content] /\ appended' \in Content
    BY <1>11, <2>2 DEF AppendProfile, TypeOK
  <2>4. pc' = "expand" => appended' \in Version
    BY <1>11, <2>2 DEF AppendProfile, NextProfile, Content
  <2> QED
    BY <1>11, <2>1, <2>3, <2>4 DEF AppendProfile, NextProfile, TypeOK
<1>12. CASE Expand
  <2>1. at \in 1..Len(ProfileList)
        /\ (at < Len(ProfileList) => at + 1 \in 1..Len(ProfileList))
    BY <1>12 DEF Expand, TypeOK
  <2>2. verdict' \in [Profile -> Verdict]
    <3>1. PICK v \in Verdict : verdict' = [verdict EXCEPT ![ProfileList[at]] = v]
      BY <1>12 DEF Expand, Verdict
    <3> QED
      BY <3>1 DEF TypeOK
  <2>3. pc' # "expand"
    BY <1>12 DEF Expand, NextProfile
  <2>4. UNCHANGED <<tree, report, commits, component, outside, edits, deaths, out,
                    ambient, disturbed, moved, revision, hashes, appended, given, exit>>
    BY <1>12 DEF Expand
  <2>5. at' \in Nat /\ pc' \in {"append", "save"}
        /\ (pc' = "append" => at' \in 1..Len(ProfileList))
    BY <1>12, <2>1 DEF Expand, NextProfile
  <2> QED
    BY <2>2, <2>3, <2>4, <2>5 DEF TypeOK
<1>13. CASE Timeout \/ WriteFails
  BY <1>13 DEF Timeout, WriteFails, Refuse, TypeOK
<1>14. CASE Save
  BY <1>14, BlankReports DEF Save, Put, TypeOK
<1>15. CASE Fill
  <2>1. [kind |-> "whole", revision |-> revision, hashes |-> hashes,
         verdict |-> verdict] \in Report
    BY DEF TypeOK, Report
  <2> QED
    BY <1>15, <2>1 DEF Fill, Put, TypeOK
<1>16. CASE Die
  BY <1>16 DEF Die, TypeOK
<1>17. CASE UNCHANGED vars
  BY <1>17 DEF vars, TypeOK
<1> QED
  BY <1>1, <1>2, <1>3, <1>4, <1>5, <1>6, <1>7, <1>8, <1>9, <1>10, <1>11, <1>12,
     <1>13, <1>14, <1>15, <1>16, <1>17 DEF Next, Steps, Child

(* Reports, commits and what the run has found out stay well typed, and the *)
(* run stays inside its three lists (main, reference_baseline.py:245-293).  *)
THEOREM TypeCorrect == Spec => []TypeOK
  BY TypeInit, TypeNext, PTL DEF Spec

-----------------------------------------------------------------------------
(* The profiles still to be judged count as blocked, BitBake works on the   *)
(* content recorded as given, and a run under way has no exit code.         *)
Pending ==
    /\ pc \in {"revision", "status", "inputs", "component", "changes"} =>
          \A p \in Profile : verdict[p] = "blocked"
    /\ pc \in {"append", "expand"} =>
          \A n \in at..Len(ProfileList) : verdict[ProfileList[n]] = "blocked"
    /\ pc = "expand" => given[ProfileList[at]] = appended
    /\ Running => exit = -1

LEMMA PendingNext == TypeOK /\ Pending /\ [Next]_vars => Pending'
<1> SUFFICES ASSUME TypeOK, Pending, [Next]_vars PROVE Pending'
  OBVIOUS
<1> USE DEF Running, Goto, Others, checkout, found
<1>1. CASE Edit \/ MakeCommit \/ Restore
  BY <1>1 DEF Edit, MakeCommit, Restore, Disturb, Pending
<1>2. CASE Move \/ Die
  BY <1>2 DEF Move, Die, Pending
<1>3. CASE Start
  BY <1>3 DEF Start, Pending, NoVerdict
<1>4. CASE GetRevision \/ CheckStatus \/ CheckRevision \/ Timeout \/ WriteFails
  BY <1>4 DEF GetRevision, CheckStatus, CheckRevision, Timeout, WriteFails, Refuse, Pending
<1>5. CASE HashInput
  BY <1>5 DEF HashInput, Refuse, Pending
<1>6. CASE CheckComponent
  <2>1. pc = "changes" /\ UNCHANGED verdict
        /\ (pc' = "idle" \/ (pc' \in {"component", "append"} /\ UNCHANGED exit))
        /\ (pc' = "append" => at' = 1)
    BY <1>6 DEF CheckComponent, Refuse
  <2> QED
    BY <2>1, Lists DEF Pending
<1>7. CASE AppendProfile
  <2>1. pc = "append" /\ at \in 1..Len(ProfileList) /\ UNCHANGED <<verdict, exit>>
    BY <1>7 DEF AppendProfile, TypeOK
  <2>2. given'[ProfileList[at]] = tree[ProfileList[at]] /\ appended' = tree[ProfileList[at]]
    BY <1>7, <2>1, Lists DEF AppendProfile, TypeOK
  <2>3. \/ pc' = "append" /\ at' = at + 1
        \/ pc' = "save"
        \/ pc' = "expand" /\ at' = at
    BY <1>7 DEF AppendProfile, NextProfile
  <2> QED
    BY <2>1, <2>2, <2>3, Lists DEF Pending
<1>8. CASE Expand
  <2>1. pc = "expand" /\ at \in 1..Len(ProfileList) /\ UNCHANGED <<given, exit>>
    BY <1>8 DEF Expand, TypeOK
  <2>2. \A n \in 1..Len(ProfileList) :
           n # at => verdict'[ProfileList[n]] = verdict[ProfileList[n]]
    <3>1. \A m, n \in 1..Len(ProfileList) : ProfileList[m] = ProfileList[n] => m = n
      BY BaselineAssumption DEF BaselineAssumption, Distinct
    <3>2. PICK v : verdict' = [verdict EXCEPT ![ProfileList[at]] = v]
      BY <1>8 DEF Expand
    <3> QED
      BY <3>1, <3>2, <2>1, Lists DEF TypeOK
  <2>3. (pc' = "append" /\ at' = at + 1) \/ pc' = "save"
    BY <1>8 DEF Expand, NextProfile
  <2>4. \A n \in at + 1..Len(ProfileList) : n \in 1..Len(ProfileList) /\ n # at
                                            /\ n \in at..Len(ProfileList)
    BY <2>1, Lists
  <2> QED
    BY <2>1, <2>2, <2>3, <2>4 DEF Pending
<1>9. CASE Save \/ Fill
  BY <1>9 DEF Save, Fill, Put, Pending
<1>10. CASE UNCHANGED vars
  BY <1>10 DEF vars, Pending
<1> QED
  BY <1>1, <1>2, <1>3, <1>4, <1>5, <1>6, <1>7, <1>8, <1>9, <1>10 DEF Next, Steps, Child

-----------------------------------------------------------------------------
(* While nobody moves them, the upstream checkouts found to be pinned and   *)
(* clean are so: the first at - 1, and from then on all of them.            *)
Pinned ==
    ~moved =>
        /\ pc \in {"component", "changes"} =>
              \A n \in 1..(at - 1) : component[ComponentList[n]] = "pinned"
        /\ pc = "changes" => component[ComponentList[at]] # "moved"
        /\ pc \in {"append", "expand", "save", "fill"} =>
              \A c \in Component : component[c] = "pinned"

LEMMA PinnedNext == TypeOK /\ Pinned /\ [Next]_vars => Pinned'
<1> SUFFICES ASSUME TypeOK, Pinned, [Next]_vars PROVE Pinned'
  OBVIOUS
<1> USE DEF Running, Goto, Others, checkout, found
<1>1. CASE Edit \/ MakeCommit \/ Restore
  BY <1>1 DEF Edit, MakeCommit, Restore, Disturb, Pinned
<1>2. CASE Move \/ Die \/ Start \/ GetRevision \/ CheckStatus \/ Timeout \/ WriteFails
  BY <1>2 DEF Move, Die, Start, GetRevision, CheckStatus, Timeout, WriteFails, Refuse, Pinned
<1>3. CASE HashInput
  <2>1. UNCHANGED <<moved, component>>
        /\ (pc' \in {"idle", "inputs"} \/ (pc' = "component" /\ at' = 1))
    BY <1>3 DEF HashInput, Refuse
  <2> QED
    BY <2>1 DEF Pinned
<1>4. CASE CheckRevision
  BY <1>4 DEF CheckRevision, Refuse, Pinned
<1>5. CASE CheckComponent
  <2>1. pc = "changes" /\ at \in 1..Len(ComponentList) /\ UNCHANGED <<moved, component>>
    BY <1>5 DEF CheckComponent, TypeOK
  <2>2. CASE pc' = "idle"
    BY <2>2 DEF Pinned
  <2>3. CASE pc' # "idle"
    <3>1. component[ComponentList[at]] # "dirty"
          /\ \/ at < Len(ComponentList) /\ pc' = "component" /\ at' = at + 1
             \/ ~(at < Len(ComponentList)) /\ pc' = "append" /\ at' = 1
      BY <1>5, <2>3 DEF CheckComponent, Refuse, Accepts
    <3>2. ~moved => component[ComponentList[at]] = "pinned"
      BY <2>1, <3>1, Lists DEF TypeOK, Pinned
    <3>3. ~moved => \A n \in 1..at : component[ComponentList[n]] = "pinned"
      BY <2>1, <3>2, Lists DEF Pinned
    <3>4. at = Len(ComponentList) /\ ~moved =>
             \A c \in Component : component[c] = "pinned"
      BY <3>3 DEF Component
    <3> QED
      BY <2>1, <3>1, <3>3, <3>4, Lists DEF Pinned
  <2> QED
    BY <2>2, <2>3
<1>6. CASE Child
  BY <1>6 DEF Child, AppendProfile, Expand, NextProfile, Pinned
<1>7. CASE Save \/ Fill
  BY <1>7 DEF Save, Fill, Put, Pinned
<1>8. CASE UNCHANGED vars
  BY <1>8 DEF vars, Pinned
<1> QED
  BY <1>1, <1>2, <1>3, <1>4, <1>5, <1>6, <1>7, <1>8 DEF Next, Steps

-----------------------------------------------------------------------------
(* A profile whose verdict becomes "passed" was expanded by the given       *)
(* bitbake of the pinned checkout to just the expected variables.           *)
LEMMA PassMeansMet ==
    ASSUME TypeOK, Pending, Pinned, Expand, ~moved, verdict'[ProfileList[at]] = "passed"
    PROVE  given[ProfileList[at]] \in Version
           /\ Yields[given[ProfileList[at]]] = Expected[ProfileList[at]]
<1> DEFINE p == ProfileList[at]
<1>1. pc = "expand" /\ p \in Profile /\ appended \in Version
  BY Lists DEF Expand, TypeOK
<1>2. Mismatches(p, Effective(appended)) = {}
  <2>1. \A c \in Component : component[c] = "pinned"
    BY <1>1 DEF Pinned
  <2>2. PICK ours, works, luck \in BOOLEAN :
          verdict' = [verdict EXCEPT ![p] =
            IF Returns(ours, works)
               /\ (IF ours /\ \A c \in Component : component[c] = "pinned"
                   THEN Mismatches(p, Effective(appended)) = {} ELSE luck)
            THEN "passed" ELSE "blocked"]
    BY DEF Expand
  <2>3. Returns(ours, works)
        /\ (IF ours /\ \A c \in Component : component[c] = "pinned"
            THEN Mismatches(p, Effective(appended)) = {} ELSE luck)
    <3>1. verdict'[p] = IF Returns(ours, works)
               /\ (IF ours /\ \A c \in Component : component[c] = "pinned"
                   THEN Mismatches(p, Effective(appended)) = {} ELSE luck)
            THEN "passed" ELSE "blocked"
      BY <2>2, <1>1 DEF TypeOK
    <3>2. verdict'[p] = "passed"
      OBVIOUS
    <3> QED
      BY <3>1, <3>2
  <2> QED
    BY <2>1, <2>3 DEF Returns
<1>3. Effective(appended) = Yields[appended]
  <2>1. Inherited = {}
    BY DEF TypeOK, Inherited
  <2>2. Yields[appended] \in [Variable -> Value \cup {Unset}]
    BY <1>1, BaselineAssumption DEF BaselineAssumption
  <2> QED
    BY <2>1, <2>2 DEF Effective
<1>4. Yields[appended] = Expected[p]
  <2>1. Yields[appended] \in [Variable -> Value \cup {Unset}]
        /\ Expected[p] \in [Variable -> Value \cup {Unset}]
    BY <1>1, BaselineAssumption DEF BaselineAssumption
  <2>2. \A v \in Variable : Yields[appended][v] = Expected[p][v]
    BY <1>2, <1>3 DEF Mismatches
  <2> QED
    BY <2>1, <2>2
<1> QED
  BY <1>1, <1>4 DEF Pending

LEMMA GivenNext ==
    TypeOK /\ Pending /\ Pinned /\ PassedWasGiven /\ [Next]_vars => PassedWasGiven'
<1> SUFFICES ASSUME TypeOK, Pending, Pinned, PassedWasGiven, [Next]_vars
             PROVE PassedWasGiven'
  OBVIOUS
<1> USE DEF Running, Goto, Others, checkout, found
<1>1. CASE AppendProfile
  <2>1. pc = "append" /\ at \in 1..Len(ProfileList) /\ UNCHANGED <<verdict, moved>>
        /\ given' = [given EXCEPT ![ProfileList[at]] = tree[ProfileList[at]]]
    BY <1>1 DEF AppendProfile, TypeOK
  <2>2. verdict[ProfileList[at]] = "blocked"
    BY <2>1, Lists DEF Pending
  <2> QED
    BY <2>1, <2>2 DEF PassedWasGiven, TypeOK
<1>2. CASE Expand
  <2>1. UNCHANGED <<given, moved>> /\ \A q \in Profile :
          q # ProfileList[at] => verdict'[q] = verdict[q]
    <3>1. PICK v : verdict' = [verdict EXCEPT ![ProfileList[at]] = v]
      BY <1>2 DEF Expand
    <3> QED
      BY <1>2, <3>1 DEF Expand, TypeOK
  <2> QED
    BY <1>2, <2>1, PassMeansMet DEF PassedWasGiven
<1>3. CASE Start
  BY <1>3 DEF Start, NoVerdict, PassedWasGiven
<1>4. CASE Edit \/ MakeCommit \/ Restore \/ Move \/ Die
  BY <1>4 DEF Edit, MakeCommit, Restore, Disturb, Move, Die, PassedWasGiven
<1>5. CASE Steps
  BY <1>5 DEF Steps, GetRevision, CheckStatus, HashInput, CheckRevision, CheckComponent,
              Timeout, WriteFails, Save, Fill, Put, PassedWasGiven
<1>6. CASE UNCHANGED vars
  BY <1>6 DEF vars, PassedWasGiven
<1> QED
  BY <1>1, <1>2, <1>3, <1>4, <1>5, <1>6 DEF Next, Child

LEMMA RunInit == Init => Pending /\ Pinned /\ PassedWasGiven
  BY DEF Init, Pending, Pinned, PassedWasGiven, Running, NoVerdict

THEOREM RunInvariant == Spec => [](TypeOK /\ Pending /\ Pinned /\ PassedWasGiven)
  BY TypeInit, TypeNext, RunInit, PendingNext, PinnedNext, GivenNext, PTL DEF Spec

(* A pass is about what BitBake was given, also when the profile was edited *)
(* after it was hashed (run_profile, :181-252).                             *)
THEOREM PassIsOfTheGiven == Spec => []PassedWasGiven
  BY RunInvariant, PTL

-----------------------------------------------------------------------------
(* While nobody disturbs the run: past the cleanliness test the checkout is *)
(* the commit, until the run itself empties the report; the revision, the   *)
(* hashes and what BitBake was given for a passed profile are the commit's. *)
Checked == {"inputs", "component", "changes", "append", "expand", "save", "fill"}
Hashed == Checked \ {"inputs"}

AtCommit ==
    ~disturbed =>
        /\ pc \in Checked \cup {"status"} => revision = Len(commits)
        /\ pc \in Checked => tree = HEAD.tree
        /\ pc \in Checked /\ (pc = "fill" => out = "outside") => report = HEAD.report
        /\ pc = "fill" => IF out = "inside" THEN report.kind = "empty" ELSE outside.kind = "empty"

Recorded ==
    ~disturbed =>
        /\ pc = "inputs" => \A n \in 1..(at - 1) : hashes[InputList[n]] = tree[InputList[n]]
        /\ pc \in Hashed => \A i \in Input : hashes[i] = tree[i]
        /\ Running => \A p \in Profile : verdict[p] = "passed" => given[p] = tree[p]
        /\ pc = "expand" => given[ProfileList[at]] = tree[ProfileList[at]]

(* Others set `disturbed` when the run is under way, and only then does it  *)
(* matter.                                                                  *)
LEMMA OthersDisturb ==
    ASSUME Edit \/ MakeCommit \/ Restore
    PROVE  UNCHANGED <<pc, at, out, component, outside, found, exit, moved>>
           /\ disturbed' = (disturbed \/ pc # "idle")
  BY DEF Edit, MakeCommit, Restore, Disturb, Running

LEMMA AtCommitNext == TypeOK /\ AtCommit /\ [Next]_vars => AtCommit'
<1> SUFFICES ASSUME TypeOK, AtCommit, [Next]_vars PROVE AtCommit'
  OBVIOUS
<1> USE DEF Goto, Others, checkout, found, Checked, HEAD
<1>1. CASE Edit \/ MakeCommit \/ Restore
  BY <1>1, OthersDisturb DEF AtCommit
<1>2. CASE Move \/ Die \/ Start
  BY <1>2 DEF Move, Die, Start, AtCommit
<1>3. CASE GetRevision \/ CheckStatus
  BY <1>3 DEF GetRevision, CheckStatus, Clean, Refuse, AtCommit
<1>4. CASE HashInput \/ CheckRevision \/ CheckComponent \/ Timeout \/ WriteFails
  BY <1>4 DEF HashInput, CheckRevision, CheckComponent, Timeout, WriteFails, Expires,
     Refuse, AtCommit
<1>5. CASE Child
  BY <1>5 DEF Child, AppendProfile, Expand, NextProfile, AtCommit
<1>6. CASE Save
  BY <1>6 DEF Save, Put, Blank, AtCommit, TypeOK
<1>7. CASE Fill
  BY <1>7 DEF Fill, Put, AtCommit
<1>8. CASE UNCHANGED vars
  BY <1>8 DEF vars, AtCommit
<1> QED
  BY <1>1, <1>2, <1>3, <1>4, <1>5, <1>6, <1>7, <1>8 DEF Next, Steps

LEMMA RecordedNext == TypeOK /\ Pending /\ Recorded /\ [Next]_vars => Recorded'
<1> SUFFICES ASSUME TypeOK, Pending, Recorded, [Next]_vars PROVE Recorded'
  OBVIOUS
<1> USE DEF Goto, Others, checkout, found, Checked, Hashed, Running
<1>1. CASE Edit \/ MakeCommit \/ Restore
  BY <1>1, OthersDisturb DEF Recorded
<1>2. CASE Move \/ Die \/ Start
  BY <1>2 DEF Move, Die, Start, NoVerdict, Recorded
<1>3. CASE GetRevision
  BY <1>3 DEF GetRevision, Recorded
<1>4. CASE CheckStatus
  BY <1>4 DEF CheckStatus, Refuse, Recorded
<1>5. CASE HashInput
  <2>1. pc = "inputs" /\ at \in 1..Len(InputList)
        /\ UNCHANGED <<tree, verdict, given, disturbed>>
    BY <1>5 DEF HashInput, TypeOK
  <2>2. CASE pc' = "idle"
    BY <2>1, <2>2 DEF Recorded
  <2>3. CASE pc' # "idle"
    <3>1. hashes' = [hashes EXCEPT ![InputList[at]] = tree[InputList[at]]]
          /\ \/ at < Len(InputList) /\ pc' = "inputs" /\ at' = at + 1
             \/ ~(at < Len(InputList)) /\ pc' = "component" /\ at' = 1
      BY <1>5, <2>3 DEF HashInput, Refuse
    <3>2. ~disturbed => \A n \in 1..at : hashes'[InputList[n]] = tree[InputList[n]]
      BY <2>1, <3>1, Lists DEF Recorded, TypeOK
    <3>3. at = Len(InputList) /\ ~disturbed => \A i \in Input : hashes'[i] = tree[i]
      BY <3>2 DEF Input
    <3> QED
      BY <2>1, <3>1, <3>2, <3>3, Lists DEF Recorded
  <2> QED
    BY <2>2, <2>3
<1>6. CASE CheckRevision \/ Timeout \/ WriteFails \/ Save \/ Fill
  BY <1>6 DEF CheckRevision, Timeout, WriteFails, Save, Fill, Put, Refuse, Recorded
<1>7. CASE CheckComponent
  BY <1>7 DEF CheckComponent, Refuse, Recorded
<1>8. CASE AppendProfile
  <2>1. pc = "append" /\ at \in 1..Len(ProfileList)
        /\ given' = [given EXCEPT ![ProfileList[at]] = tree[ProfileList[at]]]
        /\ (pc' \in {"append", "save"} \/ (pc' = "expand" /\ at' = at))
        /\ UNCHANGED <<tree, hashes, verdict, disturbed>>
    BY <1>8 DEF AppendProfile, NextProfile, TypeOK
  <2>2. verdict[ProfileList[at]] = "blocked"
    BY <2>1, Lists DEF Pending
  <2>3. \A q \in Profile : q # ProfileList[at] => given'[q] = given[q]
    BY <2>1 DEF TypeOK
  <2>4. given'[ProfileList[at]] = tree[ProfileList[at]]
    BY <2>1, Lists DEF TypeOK
  <2>5. ~disturbed => \A q \in Profile : verdict'[q] = "passed" => given'[q] = tree'[q]
    BY <2>1, <2>2, <2>3 DEF Recorded
  <2>6. ~disturbed => \A i \in Input : hashes'[i] = tree'[i]
    BY <2>1 DEF Recorded
  <2> QED
    BY <2>1, <2>4, <2>5, <2>6 DEF Recorded
<1>9. CASE Expand
  <2>1. pc = "expand" /\ at \in 1..Len(ProfileList) /\ pc' \in {"append", "save"}
        /\ UNCHANGED <<tree, hashes, given, disturbed>>
    BY <1>9 DEF Expand, NextProfile, TypeOK
  <2>2. \A q \in Profile : q # ProfileList[at] => verdict'[q] = verdict[q]
    BY <1>9 DEF Expand, TypeOK
  <2>3. ~disturbed => given[ProfileList[at]] = tree[ProfileList[at]]
    BY <2>1 DEF Recorded
  <2>4. ~disturbed => \A q \in Profile : verdict'[q] = "passed" => given'[q] = tree'[q]
    BY <2>1, <2>2, <2>3 DEF Recorded
  <2>5. ~disturbed => \A i \in Input : hashes'[i] = tree'[i]
    BY <2>1 DEF Recorded
  <2> QED
    BY <2>1, <2>4, <2>5 DEF Recorded
<1>10. CASE UNCHANGED vars
  BY <1>10 DEF vars, Recorded
<1> QED
  BY <1>1, <1>2, <1>3, <1>4, <1>5, <1>6, <1>7, <1>8, <1>9, <1>10 DEF Next, Steps, Child

LEMMA CommitInit == Init => AtCommit /\ Recorded
  BY DEF Init, AtCommit, Recorded, Checked, Hashed, Running, NoVerdict

-----------------------------------------------------------------------------
RunInv == TypeOK /\ Pending /\ Pinned /\ PassedWasGiven /\ AtCommit /\ Recorded

THEOREM BaselineInvariant == Spec => []RunInv
<1>1. Init => RunInv
  BY TypeInit, RunInit, CommitInit DEF RunInv
<1>2. RunInv /\ [Next]_vars => RunInv'
  BY TypeNext, PendingNext, PinnedNext, GivenNext, AtCommitNext, RecordedNext DEF RunInv
<1> QED
  BY <1>1, <1>2, PTL DEF Spec

(* An undisturbed run never writes over a report that is not committed      *)
(* (analysis_provenance, :122-140).                                         *)
THEOREM EvidenceIsKept == Spec => KeepsUncommittedReports
<1>1. RunInv /\ [Next]_vars =>
        [~disturbed /\ pc = "save" /\ report' # report => report = HEAD.report]_vars
  <2>1. ASSUME AtCommit, ~disturbed, pc = "save" PROVE report = HEAD.report
    <3>1. pc \in Checked /\ pc # "fill"
      BY <2>1 DEF Checked
    <3> QED
      BY <2>1, <3>1 DEF AtCommit
  <2> QED
    BY <2>1 DEF RunInv
<1> QED
  BY <1>1, BaselineInvariant, PTL DEF Spec, KeepsUncommittedReports

-----------------------------------------------------------------------------
(* The run implements the claim: emptying the report is Open, the report    *)
(* written is Certify, every other end is Stop.                             *)
LEMMA ClaimInit == Init => Claim!Init
  BY DEF Init, Claim!Init, Running

LEMMA CertifiableToSave ==
    ASSUME RunInv, pc \in {"save", "fill"}, ~disturbed, ~moved
    PROVE  /\ Claim!Certifiable
           /\ revision = Len(commits)
           /\ hashes = [i \in Input |-> HEAD.tree[i]]
<1>1. tree = HEAD.tree /\ revision = Len(commits)
      /\ (report = HEAD.report \/ report.kind = "empty")
  <2>1. out \in {"inside", "outside"}
    BY DEF RunInv, TypeOK
  <2>2. pc \in Checked
    BY DEF Checked
  <2> QED
    BY <2>1, <2>2 DEF RunInv, AtCommit
<1>2. \A c \in Component : component[c] = "pinned"
  BY DEF RunInv, Pinned
<1>3. hashes = [i \in Input |-> tree[i]]
  BY DEF RunInv, Recorded, Checked, Hashed, TypeOK
<1> QED
  BY <1>1, <1>2, <1>3 DEF Claim!Certifiable, Claim!HEAD, HEAD, RunInv, TypeOK

LEMMA ClaimNext == RunInv /\ [Next]_vars => [Claim!Next]_(Claim!vars)
<1> SUFFICES ASSUME RunInv, [Next]_vars PROVE [Claim!Next]_(Claim!vars)
  OBVIOUS
<1> USE DEF Running, Goto, Others, checkout, found
<1>a. TypeOK /\ (Running => exit = -1)
  BY DEF RunInv, Pending
<1>1. CASE Edit \/ MakeCommit \/ Restore
  <2>1. commits' = commits \/ commits' = Append(commits, [tree |-> tree, report |-> report])
    BY <1>1 DEF Edit, MakeCommit, Restore
  <2>2. UNCHANGED <<pc, outside, exit, moved>> /\ disturbed' = (disturbed \/ Running)
    BY <1>1, OthersDisturb
  <2>3. (disturbed \/ moved)' = ((disturbed \/ moved) \/ Running)
    BY <2>2
  <2>4. (Running <=> Running') /\ (Running \in BOOLEAN) /\ (Running' \in BOOLEAN)
    BY <2>2
  <2> QED
    BY <2>1, <2>2, <2>3, <2>4 DEF Claim!Next, Claim!Maintain
<1>2. CASE Move
  BY <1>2 DEF Move, Claim!Next, Claim!Maintain
<1>3. CASE Start
  BY <1>3 DEF Start, Claim!Next, Claim!Begin
<1>4. CASE GetRevision \/ Child
  BY <1>4 DEF GetRevision, Child, AppendProfile, Expand, NextProfile, Claim!vars
<1>5. CASE CheckStatus \/ HashInput \/ CheckRevision \/ CheckComponent \/ Timeout \/ WriteFails
  <2>1. pc # "idle" /\ UNCHANGED <<tree, report, commits, outside, component, disturbed, moved>>
        /\ ((pc' = "idle" /\ exit' = 1) \/ (pc' # "idle" /\ UNCHANGED exit))
    BY <1>5 DEF CheckStatus, HashInput, CheckRevision, CheckComponent, Timeout, WriteFails,
       Expires, Refuse
  <2> QED
    BY <2>1 DEF Claim!Next, Claim!Stop, Claim!vars
<1>6. CASE Die
  BY <1>6, <1>a DEF Die, Claim!Next, Claim!Stop
<1>7. CASE Save
  <2>1. ~disturbed /\ ~moved => Claim!Certifiable
    BY <1>7, CertifiableToSave DEF Save
  <2>2. \E x \in {report', outside'} : x.kind = "empty" /\ Claim!Write(x)
    BY <1>7, <1>a DEF Save, Put, Blank, Claim!Write, TypeOK
  <2> QED
    BY <1>7, <2>1, <2>2 DEF Save, Put, Claim!Next, Claim!Open
<1>8. CASE Fill
  <2> DEFINE x == [kind |-> "whole", revision |-> revision, hashes |-> hashes,
                   verdict |-> verdict]
  <2>1. x \in {report', outside'} /\ Claim!Write(x) /\ x.kind = "whole" /\ x.verdict = verdict
    BY <1>8, <1>a DEF Fill, Put, Claim!Write, TypeOK
  <2>2. ~(disturbed \/ moved) => Claim!Certifiable /\ x = Claim!ReportOf(x.verdict)
    BY <1>8, CertifiableToSave DEF Fill, Claim!ReportOf, Claim!HEAD, HEAD
  <2>3. ~(disturbed \/ moved) => Claim!Honest(x.verdict)
    <3> SUFFICES ASSUME ~disturbed, ~moved, NEW p \in Profile, verdict[p] = "passed"
                 PROVE  HEAD.tree[p] \in Version /\ Yields[HEAD.tree[p]] = Expected[p]
      BY DEF Claim!Honest, Claim!HEAD, HEAD
    <3>1. given[p] \in Version /\ Yields[given[p]] = Expected[p]
      BY DEF RunInv, PassedWasGiven
    <3>2. given[p] = tree[p] /\ tree = HEAD.tree
      BY <1>8 DEF Fill, RunInv, Recorded, AtCommit, Checked
    <3> QED
      BY <3>1, <3>2
  <2>4. exit' = IF \A p \in Profile : x.verdict[p] = "passed" THEN 0 ELSE 1
    BY <1>8 DEF Fill
  <2>5. pc # "idle" /\ pc' = "idle"
        /\ UNCHANGED <<tree, commits, component, disturbed, moved>>
    BY <1>8 DEF Fill, Put
  <2> QED
    BY <2>1, <2>2, <2>3, <2>4, <2>5 DEF Claim!Next, Claim!Certify
<1>9. CASE UNCHANGED vars
  BY <1>9 DEF vars, Claim!vars
<1> QED
  BY <1>1, <1>2, <1>3, <1>4, <1>5, <1>6, <1>7, <1>8, <1>9 DEF Next, Steps

(* A report is about the commit it names: for any files and any number of   *)
(* changes the run implements BaselineClaim (main, :245-293).               *)
THEOREM BaselineImplementsClaim == Spec => ImplementsClaim
  BY ClaimInit, ClaimNext, BaselineInvariant, PTL
     DEF Spec, ImplementsClaim, Claim!Spec

(* What the claim is worth: when a run nobody disturbed ends in 0, then at  *)
(* that moment the checkout is the commit, the components are pinned, every *)
(* committed profile gives the expected variables, and the report just      *)
(* written names that commit and has its hashes.                            *)
PassesTheCommit ==
    [][exit # 0 /\ exit' = 0 /\ ~disturbed /\ ~moved =>
        /\ tree = HEAD.tree
        /\ \A c \in DOMAIN component : component[c] = "pinned"
        /\ \A p \in Profile : \E v \in Version :
              tree[p] = v /\ Yields[v] = Expected[p]
        /\ \E x \in {report', outside'} :
              /\ x.kind = "whole" /\ x.revision = Len(commits)
              /\ x.hashes = [i \in Input |-> tree[i]]]_vars

(* Only a certificate ends a run in 0, so whatever keeps the claim has this *)
(* (main, reference_baseline.py:245-293).                                   *)
THEOREM PassIsOfTheCommit == Spec => PassesTheCommit
<1> DEFINE Meets == [p \in Profile |-> {v \in Version : Yields[v] = Expected[p]}]
           Pass == /\ exit # 0 /\ exit' = 0 /\ ~disturbed /\ ~moved
           Worth == /\ tree = HEAD.tree
                    /\ \A c \in DOMAIN component : component[c] = "pinned"
                    /\ \A p \in Profile : \E v \in Version :
                          tree[p] = v /\ Yields[v] = Expected[p]
                    /\ \E x \in {report', outside'} :
                          /\ x.kind = "whole" /\ x.revision = Len(commits)
                          /\ x.hashes = [i \in Input |-> tree[i]]
<1>1. [Claim!Next]_(Claim!vars) => [Pass => Worth]_vars
  <2> SUFFICES ASSUME [Claim!Next]_(Claim!vars), Pass PROVE Worth
    OBVIOUS
  <2>1. Claim!Certify
    BY DEF Claim!Next, Claim!vars, Claim!Maintain, Claim!Begin, Claim!Open, Claim!Stop
  <2>2. PICK x \in {report', outside'} :
          /\ x.kind = "whole" /\ Claim!Certifiable /\ Claim!Honest(x.verdict)
          /\ x = Claim!ReportOf(x.verdict)
          /\ exit' = IF \A p \in Profile : x.verdict[p] = "passed" THEN 0 ELSE 1
    BY <2>1 DEF Claim!Certify
  <2>3. \A p \in Profile : x.verdict[p] = "passed"
    BY <2>2
  <2>4. tree = HEAD.tree /\ \A c \in DOMAIN component : component[c] = "pinned"
    BY <2>2 DEF Claim!Certifiable, Claim!HEAD, HEAD
  <2>5. \A p \in Profile : tree[p] \in Meets[p]
    BY <2>2, <2>3, <2>4 DEF Claim!Honest, Claim!HEAD, HEAD
  <2>6. x.revision = Len(commits) /\ x.hashes = [i \in Input |-> tree[i]]
    BY <2>2, <2>4 DEF Claim!ReportOf, Claim!HEAD, HEAD
  <2> QED BY <2>2, <2>4, <2>5, <2>6
<1> QED BY <1>1, BaselineImplementsClaim, PTL DEF ImplementsClaim, Claim!Spec, PassesTheCommit

-----------------------------------------------------------------------------
(* Why a run ends.  The steps that are still before it: one per input, two  *)
(* per component, two per profile, and those that open and close the run.   *)
Inputs == Len(InputList)
Components == Len(ComponentList)
Profiles == Len(ProfileList)

StepsLeft ==
    CASE pc = "idle" -> 0
      [] pc = "fill" -> 1
      [] pc = "save" -> 2
      [] pc = "expand" -> 2 * (Profiles - at) + 3
      [] pc = "append" -> 2 * (Profiles - at) + 4
      [] pc = "changes" -> 2 * (Components - at) + 2 * Profiles + 3
      [] pc = "component" -> 2 * (Components - at) + 2 * Profiles + 4
      [] pc = "inputs" -> (Inputs - at) + 2 * Components + 2 * Profiles + 3
      [] pc = "status" -> Inputs + 2 * Components + 2 * Profiles + 3
      [] pc = "revision" -> Inputs + 2 * Components + 2 * Profiles + 4

(* The guards of Steps, none of which waits for the shell or for BitBake:   *)
(* while either runs its timer may fire.                                    *)
CanGoOn ==
    \/ pc \in {"revision", "status", "inputs", "component", "changes", "save", "fill"}
    \/ Expires

RunIsBounded ==
    /\ StepsLeft \in 0..(Inputs + 2 * Components + 2 * Profiles + 4)
    /\ Running => StepsLeft > 0 /\ CanGoOn

RunCountsDown ==
    [][/\ Steps \/ Child \/ Die => StepsLeft' < StepsLeft
       /\ StepsLeft' > StepsLeft => Start]_vars

LEMMA ListLengths ==
    Inputs \in Nat \ {0} /\ Components \in Nat \ {0} /\ Profiles \in Nat \ {0}
  BY Lists DEF Inputs, Components, Profiles

(* A run under way never waits for what may not come, and the number of its *)
(* steps is bounded by the lengths of the three lists (main, :245-293).     *)
THEOREM NoRunIsStuck == Spec => []RunIsBounded
<1>1. TypeOK => RunIsBounded
  <2> SUFFICES ASSUME TypeOK PROVE RunIsBounded
    OBVIOUS
  <2>1. PICK i \in Nat \ {0}, c \in Nat \ {0}, p \in Nat \ {0} :
          i = Inputs /\ c = Components /\ p = Profiles
    BY ListLengths
  <2>2. /\ at \in Nat /\ (pc = "inputs" => at \in 1..i)
        /\ (pc \in {"component", "changes"} => at \in 1..c)
        /\ (pc \in {"append", "expand"} => at \in 1..p)
    BY <2>1 DEF TypeOK, Inputs, Components, Profiles
  <2>3. pc \in {"idle", "revision", "status", "inputs", "component",
                "changes", "append", "expand", "save", "fill"}
    BY DEF TypeOK
  <2>4. CanGoOn \/ ~Running
    BY <2>3 DEF CanGoOn, Expires, Running
  <2>5. StepsLeft \in 0..(i + 2 * c + 2 * p + 4) /\ (Running => StepsLeft > 0)
    <3>1. CASE pc \in {"idle", "fill", "save"}
      <4>1. StepsLeft \in {0, 1, 2} /\ (Running => StepsLeft # 0)
        BY <3>1 DEF StepsLeft, Running
      <4> QED BY <2>1, <4>1
    <3>2. CASE pc \in {"append", "expand"}
      <4>1. StepsLeft \in {2 * (p - at) + 3, 2 * (p - at) + 4} /\ at \in 1..p
        BY <2>1, <2>2, <3>2 DEF StepsLeft
      <4> QED BY <2>1, <4>1
    <3>3. CASE pc \in {"component", "changes"}
      <4>1. /\ StepsLeft \in {2 * (c - at) + 2 * p + 3, 2 * (c - at) + 2 * p + 4}
            /\ at \in 1..c
        BY <2>1, <2>2, <3>3 DEF StepsLeft
      <4> QED BY <2>1, <4>1
    <3>4. CASE pc = "inputs"
      <4>1. StepsLeft = (i - at) + 2 * c + 2 * p + 3 /\ at \in 1..i
        BY <2>1, <2>2, <3>4 DEF StepsLeft
      <4> QED BY <2>1, <4>1
    <3>5. CASE pc \in {"status", "revision"}
      <4>1. StepsLeft \in {i + 2 * c + 2 * p + 3, i + 2 * c + 2 * p + 4}
        BY <2>1, <3>5 DEF StepsLeft
      <4> QED BY <2>1, <4>1
    <3> QED BY <2>3, <3>1, <3>2, <3>3, <3>4, <3>5
  <2> QED BY <2>1, <2>4, <2>5 DEF RunIsBounded
<1> QED BY <1>1, TypeCorrect, PTL

(* Every step of the run brings it nearer to its end, no change of the      *)
(* checkouts takes it further from it, and only a new run starts the count  *)
(* again: nothing is hashed, checked or expanded twice.                     *)
THEOREM EveryStepCounts == Spec => RunCountsDown
<1>1. TypeOK /\ RunIsBounded /\ RunIsBounded' /\ [Next]_vars =>
        [/\ Steps \/ Child \/ Die => StepsLeft' < StepsLeft
         /\ StepsLeft' > StepsLeft => Start]_vars
  <2> SUFFICES ASSUME TypeOK, RunIsBounded, RunIsBounded', Next
               PROVE  /\ Steps \/ Child \/ Die => StepsLeft' < StepsLeft
                      /\ StepsLeft' > StepsLeft => Start
    OBVIOUS
  <2>0. PICK i \in Nat \ {0}, c \in Nat \ {0}, p \in Nat \ {0} :
          i = Inputs /\ c = Components /\ p = Profiles
    BY ListLengths
  <2>1. at \in Nat /\ StepsLeft \in Nat /\ StepsLeft' \in Nat
        /\ (Running => StepsLeft > 0)
    BY <2>0 DEF TypeOK, RunIsBounded
  <2>2. ASSUME Running, Goto("idle", 0) PROVE StepsLeft' < StepsLeft
    <3>1. StepsLeft' = 0
      BY <2>2 DEF Goto, StepsLeft
    <3> QED BY <2>1, <2>2, <3>1
  <2>3. ASSUME pc \in {"append", "expand"}, NextProfile PROVE StepsLeft' < StepsLeft
    <3>1. at \in 1..p
      BY <2>0, <2>3 DEF TypeOK, Profiles
    <3>2. StepsLeft >= 2 * (p - at) + 3
      BY <2>0, <2>3, <3>1 DEF StepsLeft
    <3>3. CASE at < p
      <4>1. StepsLeft' = 2 * (p - (at + 1)) + 4
        BY <2>0, <2>3, <3>3 DEF NextProfile, Goto, StepsLeft, Profiles
      <4> QED BY <2>0, <2>1, <3>1, <3>2, <4>1
    <3>4. CASE at = p
      <4>1. StepsLeft' = 2
        BY <2>0, <2>3, <3>4 DEF NextProfile, Goto, StepsLeft, Profiles
      <4> QED BY <2>0, <2>1, <3>1, <3>2, <3>4, <4>1
    <3> QED BY <2>0, <3>1, <3>3, <3>4
  <2>4. ASSUME GetRevision PROVE StepsLeft' < StepsLeft
    BY <2>0, <2>4 DEF GetRevision, Goto, StepsLeft
  <2>5. ASSUME CheckStatus PROVE StepsLeft' < StepsLeft
    <3>1. pc = "status" /\ (Goto("inputs", 1) \/ Goto("idle", 0))
      BY <2>5 DEF CheckStatus, Refuse
    <3>2. CASE Goto("inputs", 1)
      BY <2>0, <3>1, <3>2 DEF Goto, StepsLeft
    <3> QED BY <2>2, <3>1, <3>2 DEF Running
  <2>6. ASSUME HashInput PROVE StepsLeft' < StepsLeft
    <3>1. pc = "inputs" /\ at \in 1..i
      BY <2>0, <2>6 DEF HashInput, TypeOK, Inputs
    <3>2. \/ Goto("idle", 0)
          \/ at < i /\ Goto("inputs", at + 1)
          \/ Goto("component", 1)
      BY <2>0, <2>6 DEF HashInput, Refuse, Inputs
    <3>3. CASE at < i /\ Goto("inputs", at + 1)
      BY <2>0, <3>1, <3>3 DEF Goto, StepsLeft
    <3>4. CASE Goto("component", 1)
      BY <2>0, <3>1, <3>4 DEF Goto, StepsLeft
    <3> QED BY <2>2, <3>1, <3>2, <3>3, <3>4 DEF Running
  <2>7. ASSUME CheckRevision PROVE StepsLeft' < StepsLeft
    <3>1. pc = "component" /\ (Goto("changes", at) \/ Goto("idle", 0))
      BY <2>7 DEF CheckRevision, Refuse
    <3>2. CASE Goto("changes", at)
      BY <2>0, <2>1, <3>1, <3>2 DEF Goto, StepsLeft
    <3> QED BY <2>2, <3>1, <3>2 DEF Running
  <2>8. ASSUME CheckComponent PROVE StepsLeft' < StepsLeft
    <3>1. pc = "changes" /\ at \in 1..c
      BY <2>0, <2>8 DEF CheckComponent, TypeOK, Components
    <3>2. \/ Goto("idle", 0)
          \/ at < c /\ Goto("component", at + 1)
          \/ Goto("append", 1)
      BY <2>0, <2>8 DEF CheckComponent, Refuse, Components
    <3>3. CASE at < c /\ Goto("component", at + 1)
      BY <2>0, <3>1, <3>3 DEF Goto, StepsLeft
    <3>4. CASE Goto("append", 1)
      BY <2>0, <3>1, <3>4 DEF Goto, StepsLeft
    <3> QED BY <2>2, <3>1, <3>2, <3>3, <3>4 DEF Running
  <2>9. ASSUME AppendProfile PROVE StepsLeft' < StepsLeft
    <3>1. pc = "append" /\ (NextProfile \/ Goto("expand", at))
      BY <2>9 DEF AppendProfile
    <3>2. CASE Goto("expand", at)
      BY <2>0, <2>1, <3>1, <3>2 DEF Goto, StepsLeft
    <3> QED BY <2>3, <3>1, <3>2
  <2>10. ASSUME Expand PROVE StepsLeft' < StepsLeft
    BY <2>3, <2>10 DEF Expand
  <2>11. ASSUME Timeout \/ WriteFails \/ Fill \/ Die PROVE StepsLeft' < StepsLeft
    BY <2>2, <2>11 DEF Timeout, WriteFails, Expires, Refuse, Fill, Die, Running
  <2>12. ASSUME Save PROVE StepsLeft' < StepsLeft
    BY <2>12 DEF Save, Goto, StepsLeft
  <2>13. Steps \/ Child \/ Die => StepsLeft' < StepsLeft
    BY <2>4, <2>5, <2>6, <2>7, <2>8, <2>9, <2>10, <2>11, <2>12 DEF Steps, Child
  <2>14. CASE Edit \/ MakeCommit \/ Restore \/ Move
    <3>1. pc' = pc /\ at' = at
      BY <2>14 DEF Edit, MakeCommit, Restore, Move, Disturb
    <3>2. StepsLeft' = StepsLeft
      BY <3>1 DEF StepsLeft
    <3> QED BY <2>1, <2>13, <3>2
  <2> QED BY <2>1, <2>13, <2>14 DEF Next
<1> QED BY <1>1, TypeCorrect, NoRunIsStuck, PTL DEF Spec, RunCountsDown
=============================================================================
