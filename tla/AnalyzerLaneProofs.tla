------------------------- MODULE AnalyzerLaneProofs -------------------------
(* Theorems about the analyzer lane, for any archives, sources, triage       *)
(* fields and numbers of warnings, and any number of replacements and kills. *)
EXTENDS AnalyzerLane, TLAPS

File == {"evidence", "elsewhere"}

(* A report that is begun, or a file that is not there or empty.            *)
LEMMA BlankReports ==
    /\ Blank("absent") \in Report /\ Blank("empty") \in Report /\ Blank("begun") \in Report
  BY DEF Blank, Report, NoTruth, Truth, Word

(* A file given a report is typed, and so are the others.                   *)
LEMMA PutTyped ==
    ASSUME file \in [File -> Report], target \in File, NEW x \in Report, Put(x)
    PROVE  /\ file' \in [File -> Report] /\ file'[target] = x
           /\ \A t \in File : t # target => file'[t] = file[t]
  BY DEF Put, File

LEMMA TriageTyped ==
    ASSUME options \in [Field -> Word]
    PROVE  Triage \in [Field -> Word]
  BY DEF Triage, Word

LEMMA TypeInit == Init => TypeOK
  BY AnalyzerAssumption, BlankReports
     DEF AnalyzerAssumption, Init, TypeOK, Phase, Steps, Word

(* What the except clause and the other error exits make of the report.     *)
LEMMA ErrorsTyped ==
    ASSUME report \in Report
    PROVE  Failed \in Report /\ ToolError \in Report
  BY DEF Failed, ToolError, Report

LEMMA TypeNext == TypeOK /\ [Next]_vars => TypeOK'
<1> SUFFICES ASSUME TypeOK, [Next]_vars PROVE TypeOK'
  OBVIOUS
<1> USE AnalyzerAssumption DEF AnalyzerAssumption, run
<1>a. report \in Report /\ Failed \in Report /\ ToolError \in Report
  BY ErrorsTyped DEF TypeOK
<1>1. CASE Replace
  <2>1. report' \in Report
    BY <1>1 DEF Replace, TypeOK, Report, Truth
  <2> QED
    BY <1>1, <2>1 DEF Replace, TypeOK
<1>2. CASE GateStart \/ OperatorStart
  <2>1. PICK who \in {"gate", "operator"}, where \in File, given \in [Field -> Word] :
          Start(who, where, given)
    BY <1>2 DEF GateStart, OperatorStart, File, Word
  <2>2. file' \in [File -> Report]
    BY <2>1, BlankReports DEF Start, TypeOK, File
  <2> QED
    BY <2>1, <2>2, BlankReports DEF Start, TypeOK, File, Phase, Steps
<1>3. CASE Look
  <2>1. [report EXCEPT !.state = "not-run"] \in Report
    BY <1>a DEF Report
  <2> QED
    BY <1>3, <1>a, <2>1 DEF Look, Go, TypeOK, Phase, Steps
<1>4. CASE HashArchive
  <2>1. archive # Absent => /\ [report EXCEPT !.archive = archive] \in Report
                            /\ [ToolError EXCEPT !.archive = archive] \in Report
    BY <1>a DEF Report, TypeOK
  <2> QED
    BY <1>4, <1>a, <2>1 DEF HashArchive, Go, TypeOK, Phase, Steps
<1>5. CASE Extract
  BY <1>5, <1>a DEF Extract, Unpacks, Go, TypeOK, Phase, Steps
<1>6. CASE HashSource
  <2> DEFINE x == [report EXCEPT !.source = SourceOf[unpacked]]
  <2>1. SourceOf[unpacked] \in Source
    BY <1>6 DEF HashSource, TypeOK
  <2>2. x \in Report /\ [x EXCEPT !.state = "tool-error"] \in Report
    BY <1>a, <2>1 DEF Report
  <2> QED
    BY <1>6, <1>a, <2>2 DEF HashSource, Go, TypeOK, Phase, Steps
<1>7. CASE Version \/ Timeout \/ CleanUp \/ WriteFails
  BY <1>7, <1>a DEF Version, Timeout, Expired, CleanUp, WriteFails, Go, TypeOK, Phase, Steps
<1>8. CASE Compile
  <2>1. CASE Go("open", Failed)
    BY <2>1, <1>a DEF Go, TypeOK, Phase, Steps
  <2>2. ASSUME NEW code \in {0, 1}, NEW warned \in 0..MaxFindings,
               NEW x, x = [report EXCEPT
                 !.state = Concluded(code, warned),
                 !.records = warned, !.triage = Triage,
                 !.summary = IF code # 0 THEN "tool-error"
                             ELSE IF warned > 0 THEN "per-finding" ELSE "no-findings",
                 !.truth.made = IF code = 0 THEN unpacked ELSE Absent,
                 !.truth.warned = warned],
               Go("cleanup", x)
        PROVE  TypeOK'
    <3>1. Triage \in [Field -> Word]
      BY TriageTyped DEF TypeOK
    <3>2. unpacked \in Archive \cup {Absent}
      BY DEF TypeOK
    <3>3. x \in Report
      <4> DEFINE s == IF code # 0 THEN "tool-error"
                      ELSE IF warned > 0 THEN "per-finding" ELSE "no-findings"
                 m == IF code = 0 THEN unpacked ELSE Absent
      <4>1. Concluded(code, warned) \in {"tool-error", "findings", "clean"}
        BY DEF Concluded
      <4>2. s \in {"tool-error", "per-finding", "no-findings"}
        OBVIOUS
      <4>3. m \in Archive \cup {Absent} /\ warned \in Nat
        BY <3>2
      <4>4. [report.truth EXCEPT !.made = m, !.warned = warned] \in Truth
        BY <1>a, <4>3 DEF Report, Truth
      <4>5. x = [report EXCEPT !.state = Concluded(code, warned), !.records = warned,
                   !.triage = Triage, !.summary = s,
                   !.truth = [report.truth EXCEPT !.made = m, !.warned = warned]]
        BY <1>a, <2>2 DEF Report, Truth
      <4> HIDE DEF s, m
      <4> QED
        BY <1>a, <3>1, <4>1, <4>2, <4>3, <4>4, <4>5 DEF Report
    <3> QED
      BY <2>2, <3>3 DEF Go, TypeOK, Phase, Steps
  <2> QED
    BY <1>8, <2>1, <2>2 DEF Compile
<1>9. CASE Open \/ Write
  <2>1. file' \in [File -> Report]
    BY <1>9, <1>a, PutTyped, BlankReports DEF Open, Write, TypeOK, File
  <2> QED
    BY <1>9, <2>1 DEF Open, Write, TypeOK, File, Phase, Steps
<1>10. CASE Judge \/ GateTimeout
  BY <1>10 DEF Judge, GateTimeout, End, TypeOK, Phase, Steps
<1>11. CASE Kill
  BY <1>11 DEF Kill, TypeOK, Phase
<1>12. CASE UNCHANGED vars
  BY <1>12 DEF vars, TypeOK
<1> QED
  BY <1>1, <1>2, <1>3, <1>4, <1>5, <1>6, <1>7, <1>8, <1>9, <1>10, <1>11, <1>12
     DEF Next, Own, Gcc

(* Reports, files and processes stay well typed.                            *)
THEOREM TypeCorrect == Spec => []TypeOK
  BY TypeInit, TypeNext, PTL DEF Spec

-----------------------------------------------------------------------------
(* What the process knows at each of its steps.  The archive that is about  *)
(* to be unpacked is the pinned one unless it was replaced after it was     *)
(* hashed; what was unpacked is then known by its source file.              *)
Early == {"look", "hash", "extract", "source", "version", "compile"}

KnowsReport ==
    /\ Earned(report)
    /\ pc \in Early =>
        /\ report.state = "begun" /\ report.summary = "not-run"
        /\ report.records = 0 /\ report.truth.made = Absent
    /\ report.truth.made # Absent => report.state \in Completed \cup {"tool-error"}

KnowsArchive ==
    /\ pc \in {"extract", "source", "version", "compile"} => report.archive = Pinned
    /\ pc = "extract" => archive = Pinned \/ report.truth.touched
    /\ pc \in {"source", "version", "compile"} =>
        unpacked = Pinned \/ report.truth.touched
    /\ pc \in {"version", "compile"} =>
        report.source = PinnedSource /\ SourceOf[unpacked] = PinnedSource

Judged ==
    /\ pc # "idle" => exit = -1
    /\ pc = "exited" => file[target] = report

LEMMA BlankIsEarned ==
    \A s \in {"absent", "empty", "begun"} : Earned(Blank(s))
  BY DEF Earned, Blank, NoTruth, Completed

(* Setting the state to tool-error claims nothing new.                      *)
LEMMA ErrorsAreEarned ==
    ASSUME report \in Report, Earned(report)
    PROVE  /\ Earned(Failed) /\ Failed.truth = report.truth /\ Failed.state = "tool-error"
           /\ Earned(ToolError) /\ ToolError.truth = report.truth
           /\ ToolError.state = "tool-error"
  BY DEF Failed, ToolError, Earned, Completed, Report

LEMMA KnowsInit == Init => KnowsReport /\ KnowsArchive /\ Judged /\ EvidenceIsEarned
  BY BlankIsEarned DEF Init, KnowsReport, KnowsArchive, Judged, EvidenceIsEarned,
     Early, Blank, NoTruth

LEMMA KnowsReportNext ==
    TypeOK /\ KnowsReport /\ KnowsArchive /\ [Next]_vars => KnowsReport'
<1> SUFFICES ASSUME TypeOK, KnowsReport, KnowsArchive, [Next]_vars PROVE KnowsReport'
  OBVIOUS
<1> USE DEF run, Early
<1>a. report \in Report /\ Earned(report)
  BY DEF TypeOK, KnowsReport
<1>b. /\ Earned(Failed) /\ Failed.truth = report.truth /\ Failed.state = "tool-error"
      /\ Earned(ToolError) /\ ToolError.truth = report.truth
      /\ ToolError.state = "tool-error"
  BY <1>a, ErrorsAreEarned
<1>1. CASE Replace
  <2> DEFINE x == [report EXCEPT !.truth.touched = @ \/ pc = "extract"]
  <2>1. report' = x /\ pc' = pc
    BY <1>1 DEF Replace
  <2>2. /\ x.state = report.state /\ x.summary = report.summary
        /\ x.records = report.records /\ x.archive = report.archive
        /\ x.source = report.source /\ x.truth.made = report.truth.made
        /\ x.truth.warned = report.truth.warned
        /\ report.truth.touched => x.truth.touched
    BY <1>a DEF Report, Truth
  <2> HIDE DEF x
  <2>3. Earned(x)
    BY <1>a, <2>2 DEF Earned
  <2> QED
    BY <2>1, <2>2, <2>3 DEF KnowsReport
<1>2. CASE GateStart \/ OperatorStart
  <2>1. report' = Blank("begun") /\ pc' = "look"
    BY <1>2 DEF GateStart, OperatorStart, Start
  <2>2. /\ report'.state = "begun" /\ report'.summary = "not-run"
        /\ report'.records = 0 /\ report'.truth.made = Absent
    BY <2>1 DEF Blank, NoTruth
  <2>3. Earned(report)'
    BY <2>1, BlankIsEarned
  <2> QED
    BY <2>1, <2>2, <2>3 DEF KnowsReport
<1>3. CASE Look
  <2> DEFINE x == [report EXCEPT !.state = "not-run"]
  <2>1. pc = "look" /\ report.truth.made = Absent
    BY <1>3 DEF Look, KnowsReport
  <2>2. Earned(x) /\ x.truth = report.truth
    BY <1>a, <2>1 DEF Earned, Report, Completed
  <2> QED
    BY <1>3, <1>a, <2>1, <2>2 DEF Look, Go, KnowsReport
<1>4. CASE HashArchive
  <2>1. pc = "hash" /\ report.state = "begun" /\ report.summary = "not-run"
        /\ report.records = 0 /\ report.truth.made = Absent
    BY <1>4 DEF HashArchive, KnowsReport
  <2> DEFINE x == [report EXCEPT !.archive = archive]
             y == [ToolError EXCEPT !.archive = archive]
  <2>2. Earned(x) /\ Earned(y) /\ x.truth = report.truth /\ y.truth = report.truth
        /\ x.state = "begun" /\ x.summary = "not-run" /\ x.records = 0
        /\ y.state = "tool-error"
    BY <1>a, <2>1 DEF ToolError, Earned, Report, Completed
  <2> HIDE DEF x, y
  <2>3. \/ pc' = "died" /\ report' = report
        \/ pc' = "extract" /\ report' = x
        \/ pc' = "open" /\ report' = y
    BY <1>4 DEF HashArchive, Go, x, y
  <2> QED
    BY <1>a, <2>1, <2>2, <2>3 DEF KnowsReport
<1>5. CASE Extract
  <2>1. pc = "extract" /\ ((pc' = "open" /\ report' = Failed)
        \/ (pc' \in {"source", "died"} /\ report' = report))
    BY <1>5 DEF Extract, Go
  <2> QED
    BY <1>a, <1>b, <2>1 DEF KnowsReport
<1>6. CASE HashSource
  <2>1. pc = "source" /\ report.state = "begun" /\ report.summary = "not-run"
        /\ report.records = 0 /\ report.truth.made = Absent
    BY <1>6 DEF HashSource, KnowsReport
  <2> DEFINE x == [report EXCEPT !.source = SourceOf[unpacked]]
             y == [x EXCEPT !.state = "tool-error"]
  <2>2. Earned(x) /\ Earned(y) /\ x.truth = report.truth /\ y.truth = report.truth
        /\ x.state = "begun" /\ x.summary = "not-run" /\ x.records = 0
        /\ y.state = "tool-error"
    BY <1>a, <2>1 DEF Earned, Report, Completed
  <2> HIDE DEF x, y
  <2>3. (pc' = "version" /\ report' = x) \/ (pc' = "open" /\ report' = y)
    BY <1>6 DEF HashSource, Go, x, y
  <2> QED
    BY <2>1, <2>2, <2>3 DEF KnowsReport
<1>7. CASE Version \/ Timeout
  <2>1. pc \in {"version", "compile"} /\ ((pc' = "compile" /\ report' = report)
        \/ (pc' = "cleanup" /\ report' = ToolError) \/ (pc' = "open" /\ report' = Failed))
    BY <1>7 DEF Version, Timeout, Expired, Go
  <2> QED
    BY <1>a, <1>b, <2>1 DEF KnowsReport
<1>8. CASE CleanUp
  <2>1. pc' = "open" /\ report' \in {report, Failed}
    BY <1>8 DEF CleanUp, Go
  <2> QED
    BY <1>a, <1>b, <2>1 DEF KnowsReport
<1>9. CASE Compile
  <2>1. pc = "compile" /\ unpacked \in Sound /\ unpacked \in Archive
        /\ report.archive = Pinned /\ report.source = PinnedSource
        /\ SourceOf[unpacked] = PinnedSource
        /\ (unpacked = Pinned \/ report.truth.touched)
    BY <1>9, AnalyzerAssumption DEF Compile, TypeOK, KnowsArchive, AnalyzerAssumption
  <2>2. CASE Go("open", Failed)
    BY <1>a, <1>b, <2>1, <2>2 DEF Go, KnowsReport
  <2>3. ASSUME NEW code \in {0, 1}, NEW warned \in 0..MaxFindings,
               Go("cleanup",
               [report EXCEPT
                 !.state = Concluded(code, warned),
                 !.records = warned, !.triage = Triage,
                 !.summary = IF code # 0 THEN "tool-error"
                             ELSE IF warned > 0 THEN "per-finding" ELSE "no-findings",
                 !.truth.made = IF code = 0 THEN unpacked ELSE Absent,
                 !.truth.warned = warned])
        PROVE  KnowsReport'
    <3>1. /\ pc' = "cleanup"
          /\ report'.state = Concluded(code, warned) /\ report'.records = warned
          /\ report'.summary = (IF code # 0 THEN "tool-error"
                                ELSE IF warned > 0 THEN "per-finding" ELSE "no-findings")
          /\ report'.archive = report.archive /\ report'.source = report.source
          /\ report'.truth.made = (IF code = 0 THEN unpacked ELSE Absent)
          /\ report'.truth.warned = warned
          /\ report'.truth.touched = report.truth.touched
      BY <1>a, <2>3 DEF Go, Report, Truth
    <3>2. warned \in Nat
      BY AnalyzerAssumption DEF AnalyzerAssumption
    <3>3. CASE code = 0
      <4>1. report'.state \in {"clean", "findings"} /\ (report'.state = "clean" <=> warned = 0)
            /\ (report'.summary = "no-findings" <=> warned = 0)
        BY <3>1, <3>2, <3>3 DEF Concluded
      <4>2. Earned(report)'
        BY <2>1, <3>1, <3>3, <4>1 DEF Earned
      <4> QED
        BY <3>1, <4>1, <4>2 DEF KnowsReport, Completed
    <3>4. CASE code = 1
      BY <3>1, <3>4 DEF KnowsReport, Earned, Completed, Concluded
    <3> QED
      BY <3>3, <3>4
  <2> QED
    BY <1>9, <2>2, <2>3 DEF Compile
<1>10. CASE Open \/ Write \/ WriteFails \/ Judge \/ GateTimeout \/ Kill
  <2>1. report' = report /\ pc' \notin Early
    BY <1>10 DEF Open, Write, WriteFails, Go, Judge, GateTimeout, End, Kill
  <2> QED
    BY <1>a, <2>1 DEF KnowsReport
<1>11. CASE UNCHANGED vars
  BY <1>11 DEF vars, KnowsReport
<1> QED
  BY <1>1, <1>2, <1>3, <1>4, <1>5, <1>6, <1>7, <1>8, <1>9, <1>10, <1>11 DEF Next, Own, Gcc

LEMMA KnowsArchiveNext == TypeOK /\ KnowsArchive /\ [Next]_vars => KnowsArchive'
<1> SUFFICES ASSUME TypeOK, KnowsArchive, [Next]_vars PROVE KnowsArchive'
  OBVIOUS
<1> USE DEF run
<1>a. report \in Report
  BY DEF TypeOK
<1>1. CASE Replace
  <2> DEFINE x == [report EXCEPT !.truth.touched = @ \/ pc = "extract"]
  <2>1. report' = x /\ pc' = pc /\ unpacked' = unpacked
    BY <1>1 DEF Replace
  <2>2. /\ x.archive = report.archive /\ x.source = report.source
        /\ report.truth.touched => x.truth.touched
        /\ pc = "extract" => x.truth.touched
    BY <1>a DEF Report, Truth
  <2> HIDE DEF x
  <2> QED
    BY <2>1, <2>2 DEF KnowsArchive
<1>2. CASE GateStart \/ OperatorStart
  <2>1. pc' = "look"
    BY <1>2 DEF GateStart, OperatorStart, Start
  <2> QED
    BY <2>1 DEF KnowsArchive
<1>3. CASE HashArchive
  <2>1. CASE pc' # "extract"
    BY <1>3, <2>1 DEF HashArchive, Go, KnowsArchive
  <2>2. CASE pc' = "extract"
    <3>1. archive = Pinned /\ archive' = archive
          /\ report' = [report EXCEPT !.archive = archive]
      BY <1>3, <2>2 DEF HashArchive, Identified, Go
    <3> QED
      BY <1>a, <2>2, <3>1 DEF KnowsArchive, Report
  <2> QED
    BY <2>1, <2>2
<1>4. CASE Extract
  <2>1. CASE pc' \in {"open", "died"}
    BY <2>1 DEF KnowsArchive
  <2>2. CASE pc' \notin {"open", "died"}
    <3>1. pc = "extract" /\ pc' = "source" /\ unpacked' = archive /\ report' = report
      BY <1>4, <2>2 DEF Extract, Go
    <3> QED
      BY <3>1 DEF KnowsArchive
  <2> QED
    BY <2>1, <2>2
<1>5. CASE HashSource
  <2> DEFINE x == [report EXCEPT !.source = SourceOf[unpacked]]
  <2>1. CASE pc' = "open"
    BY <2>1 DEF KnowsArchive
  <2>2. CASE pc' # "open"
    <3>1. pc = "source" /\ pc' = "version" /\ report' = x /\ unpacked' = unpacked
          /\ SourceOf[unpacked] = PinnedSource
      BY <1>5, <2>2 DEF HashSource, SourceFits, Go
    <3>2. x.source = SourceOf[unpacked] /\ x.archive = report.archive
          /\ x.truth = report.truth
      BY <1>a DEF Report
    <3> HIDE DEF x
    <3> QED
      BY <3>1, <3>2 DEF KnowsArchive
  <2> QED
    BY <2>1, <2>2
<1>6. CASE Version
  <2>1. pc' \in {"cleanup", "open"}
        \/ (pc = "version" /\ pc' = "compile" /\ UNCHANGED <<report, unpacked>>)
    BY <1>6 DEF Version, Go
  <2> QED
    BY <2>1 DEF KnowsArchive
<1>7. CASE Look \/ Timeout \/ CleanUp \/ Compile \/ Open \/ Write \/ WriteFails \/ Judge
            \/ GateTimeout \/ Kill
  <2>1. pc' \notin {"extract", "source", "version", "compile"}
    BY <1>7 DEF Look, Timeout, CleanUp, Compile, Go, Open, Write, WriteFails, Judge, GateTimeout,
       End, Kill
  <2> QED
    BY <2>1 DEF KnowsArchive
<1>8. CASE UNCHANGED vars
  BY <1>8 DEF vars, KnowsArchive
<1> QED
  BY <1>1, <1>2, <1>3, <1>4, <1>5, <1>6, <1>7, <1>8 DEF Next, Own, Gcc

LEMMA JudgedNext == TypeOK /\ Judged /\ [Next]_vars => Judged'
<1> SUFFICES ASSUME TypeOK, Judged, [Next]_vars PROVE Judged'
  OBVIOUS
<1> USE DEF run
<1>1. CASE Replace
  <2>1. UNCHANGED <<pc, exit, file, target>> /\ (pc = "exited" => report' = report)
    BY <1>1 DEF Replace, TypeOK, Report, Truth
  <2> QED
    BY <2>1 DEF Judged
<1>2. CASE GateStart \/ OperatorStart
  <2>1. exit' = -1 /\ pc' = "look"
    BY <1>2 DEF GateStart, OperatorStart, Start
  <2> QED
    BY <2>1 DEF Judged
<1>3. CASE Look \/ HashArchive \/ Extract \/ HashSource \/ Timeout \/ CleanUp \/ Version
            \/ Compile \/ Open \/ WriteFails
  <2>1. pc # "idle" /\ exit' = exit /\ pc' # "exited"
    BY <1>3 DEF Look, HashArchive, Extract, HashSource, Timeout, Expired, CleanUp, Version,
       Compile, Open, WriteFails, Go
  <2> QED
    BY <2>1 DEF Judged
<1>4. CASE Write
  <2>1. file'[target] = report
    BY <1>4, PutTyped DEF Write, TypeOK, File
  <2> QED
    BY <1>4, <2>1 DEF Write, Judged
<1>5. CASE Judge \/ GateTimeout \/ Kill
  <2>1. pc' = "idle"
    BY <1>5 DEF Judge, GateTimeout, End, Kill
  <2> QED
    BY <2>1 DEF Judged
<1>6. CASE UNCHANGED vars
  BY <1>6 DEF vars, Judged
<1> QED
  BY <1>1, <1>2, <1>3, <1>4, <1>5, <1>6 DEF Next, Own, Gcc

LEMMA EvidenceNext ==
    TypeOK /\ KnowsReport /\ EvidenceIsEarned /\ [Next]_vars => EvidenceIsEarned'
<1> SUFFICES ASSUME TypeOK, KnowsReport, EvidenceIsEarned, [Next]_vars
             PROVE  EvidenceIsEarned'
  OBVIOUS
<1> USE DEF run
<1>a. file \in [File -> Report] /\ target \in File /\ report \in Report
  BY DEF TypeOK, File
<1>b. Earned(report) /\ \A t \in File : Earned(file[t])
  BY <1>a DEF KnowsReport, EvidenceIsEarned
<1>1. CASE Open
  <2>1. Earned(Blank("empty")) /\ Blank("empty") \in Report
    BY BlankIsEarned, BlankReports
  <2>2. \A t \in File : Earned(file'[t])
    BY <1>1, <1>a, <1>b, <2>1, PutTyped DEF Open
  <2> QED
    BY <1>1, <1>a, <2>1, <2>2, PutTyped DEF Open, EvidenceIsEarned
<1>2. CASE Write
  <2>1. \A t \in File : Earned(file'[t])
    BY <1>2, <1>a, <1>b, PutTyped DEF Write
  <2> QED
    BY <1>2, <1>a, <2>1, PutTyped DEF Write, EvidenceIsEarned
<1>3. CASE GateStart \/ OperatorStart
  <2>1. file' = [file EXCEPT !["elsewhere"] = Blank("absent")]
    BY <1>3 DEF GateStart, OperatorStart, Start
  <2>2. DOMAIN file' = File /\ \A t \in File : Earned(file'[t])
    BY <1>a, <1>b, <2>1, BlankIsEarned DEF File
  <2> QED
    BY <2>2 DEF EvidenceIsEarned
<1>4. CASE Replace \/ Look \/ HashArchive \/ Extract \/ HashSource \/ Timeout \/ CleanUp
            \/ WriteFails \/ Gcc \/ Judge \/ GateTimeout \/ Kill
  <2>1. file' = file
    BY <1>4 DEF Replace, Look, HashArchive, Extract, HashSource, Timeout, CleanUp, Gcc,
       WriteFails, Version, Compile, Go, Judge, GateTimeout, End, Kill
  <2> QED
    BY <2>1 DEF EvidenceIsEarned
<1>5. CASE UNCHANGED vars
  BY <1>5 DEF vars, EvidenceIsEarned
<1> QED
  BY <1>1, <1>2, <1>3, <1>4, <1>5 DEF Next, Own

LaneInv == TypeOK /\ KnowsReport /\ KnowsArchive /\ Judged /\ EvidenceIsEarned

LEMMA LaneInvariant == Spec => []LaneInv
<1>1. Init => LaneInv
  BY TypeInit, KnowsInit DEF LaneInv
<1>2. LaneInv /\ [Next]_vars => LaneInv'
  BY TypeNext, KnowsReportNext, KnowsArchiveNext, JudgedNext, EvidenceNext DEF LaneInv
<1> QED
  BY <1>1, <1>2, PTL DEF Spec

(* Wherever a report lies, it claims no more than gcc did on the pinned     *)
(* source, and lists every warning (run, :128-251).                         *)
THEOREM ReportsAreEarned == Spec => []EvidenceIsEarned
  BY LaneInvariant, PTL DEF LaneInv

(* Whoever judges a run has seen what it made of the report.                *)
LEMMA FollowsNext ==
    LaneInv /\ GateFollowsLane /\ [Next]_vars => GateFollowsLane'
<1> SUFFICES ASSUME LaneInv, GateFollowsLane, [Next]_vars PROVE GateFollowsLane'
  OBVIOUS
<1> USE DEF run
<1>1. CASE Replace
  <2>1. UNCHANGED <<caller, pc, exit, core, ended, file, target>>
        /\ (pc = "idle" => report' = report)
    BY <1>1 DEF Replace, LaneInv, TypeOK, Report, Truth
  <2> QED
    BY <2>1 DEF GateFollowsLane
<1>2. CASE Judge
  <2>1. pc \in {"exited", "died"} /\ ended' = pc
        /\ UNCHANGED <<caller, report, file, target>>
    BY <1>2 DEF Judge, End
  <2>2. CASE caller = "operator"
    BY <1>2, <2>1, <2>2 DEF GateFollowsLane
  <2>3. CASE caller = "gate"
    <3>1. core' \in {"passed", "failed"}
          /\ exit' = (IF core' = "passed" /\ Accepted THEN 0 ELSE 1)
      BY <1>2, <2>3 DEF Judge, End
    <3>2. PolicyExit("passed", "passed") = 0 /\ PolicyExit("passed", "failed") = 1
      BY DEF PolicyExit, CoreFailed
    <3>3. Accepted => /\ report.truth.made \in Archive
                      /\ SourceOf[report.truth.made] = PinnedSource
                      /\ file[target].records = report.truth.warned
      BY DEF Accepted, LaneInv, KnowsReport, Earned
    <3>4. pc = "exited" /\ ~Accepted => report.truth.made = Absent \/ report.state = "tool-error"
      BY DEF Accepted, LaneInv, KnowsReport, Judged
    <3> QED
      BY <2>1, <3>1, <3>2, <3>3, <3>4 DEF GateFollowsLane
  <2> QED
    BY <2>2, <2>3 DEF LaneInv, TypeOK
<1>3. CASE GateTimeout
  <2>1. pc # "exited" /\ ended' = pc /\ exit' = 1
    BY <1>3 DEF GateTimeout, End, Steps
  <2> QED
    BY <2>1 DEF GateFollowsLane
<1>4. CASE Kill
  <2>1. exit' = -1
    BY <1>4 DEF Kill, LaneInv, Judged
  <2> QED
    BY <2>1 DEF GateFollowsLane
<1>5. CASE GateStart \/ OperatorStart \/ Own \/ Gcc
  <2>1. pc' # "idle"
    BY <1>5 DEF GateStart, OperatorStart, Start, Own, Gcc, Look, HashArchive, Extract,
       HashSource, Timeout, CleanUp, Version, Compile, Open, Write, WriteFails, Go
  <2> QED
    BY <2>1 DEF GateFollowsLane
<1>6. CASE UNCHANGED vars
  BY <1>6 DEF vars, GateFollowsLane
<1> QED
  BY <1>1, <1>2, <1>3, <1>4, <1>5, <1>6 DEF Next

(* The gate's pass rests on a completed pass over the pinned source in the  *)
(* same run, and no finding alone fails it                                  *)
(* (rapid_hardening_checks.py:213-219, :245-259).                           *)
THEOREM GateIsEarned == Spec => []GateFollowsLane
<1>1. Init => GateFollowsLane
  BY DEF Init, GateFollowsLane
<1> QED
  BY <1>1, FollowsNext, LaneInvariant, PTL DEF Spec

-----------------------------------------------------------------------------
(* Whose words a report has: those of the options of the run that made it,  *)
(* and the gate gives none.                                                 *)
Worded ==
    /\ report.records > 0 =>
         \A f \in Field : report.triage[f] = "decided" => options[f] = "decided"
    /\ pc = "exited" => /\ file[target].records = report.records
                        /\ file[target].triage = report.triage
    /\ caller = "gate" => \A f \in Field : options[f] # "decided"

LEMMA WordedNext == TypeOK /\ Worded /\ [Next]_vars => Worded'
<1> SUFFICES ASSUME TypeOK, Worded, [Next]_vars PROVE Worded'
  OBVIOUS
<1>0. ASSUME report'.records = report.records, report'.triage = report.triage,
             pc' # "exited", UNCHANGED <<caller, options>>
      PROVE  Worded'
  BY <1>0 DEF Worded
<1>1. CASE Replace
  <2>1. report'.records = report.records /\ report'.triage = report.triage
    BY <1>1 DEF Replace, TypeOK, Report
  <2> QED BY <1>1, <2>1 DEF Replace, run, Worded
<1>2. CASE GateStart \/ OperatorStart
  <2>1. report' = Blank("begun") /\ pc' = "look"
    BY <1>2 DEF GateStart, OperatorStart, Start
  <2>2. report'.records = 0
    BY <2>1 DEF Blank
  <2>3. caller' = "gate" => options' = [f \in Field |-> "none"]
    BY <1>2 DEF GateStart, OperatorStart, Start
  <2> QED BY <2>1, <2>2, <2>3 DEF Worded
<1>3. CASE Look \/ HashArchive \/ Extract \/ HashSource \/ Version \/ Timeout \/ CleanUp
           \/ WriteFails
  <2>1. /\ report'.records = report.records /\ report'.triage = report.triage
        /\ UNCHANGED <<caller, options>>
    BY <1>3 DEF Look, HashArchive, Extract, HashSource, Version, Timeout, CleanUp, WriteFails, Go,
       Failed, ToolError, run, TypeOK, Report
  <2>2. pc' # "exited"
    BY <1>3 DEF Look, HashArchive, Extract, HashSource, Version, Timeout, CleanUp, WriteFails, Go
  <2> QED BY <1>0, <2>1, <2>2
<1>4. CASE Compile
  <2>1. CASE Go("open", Failed)
    BY <1>0, <2>1 DEF Go, Failed, run, TypeOK, Report
  <2>2. CASE ~Go("open", Failed)
    <3>1. /\ report'.triage = Triage /\ pc' = "cleanup"
          /\ UNCHANGED <<caller, options>>
      BY <1>4, <2>2 DEF Compile, Go, run, TypeOK, Report
    <3> QED BY <3>1 DEF Worded, Triage
  <2> QED BY <2>1, <2>2
<1>5. CASE Open
  BY <1>0, <1>5 DEF Open, run
<1>6. CASE Write
  <2>1. /\ file'[target] = report
        /\ UNCHANGED <<caller, options, target, report>>
    BY <1>6 DEF Write, Put, run, TypeOK
  <2> QED BY <2>1 DEF Worded
<1>7. CASE Judge \/ GateTimeout \/ Kill
  BY <1>0, <1>7 DEF Judge, GateTimeout, Kill, End, run
<1>8. CASE UNCHANGED vars
  BY <1>8 DEF vars, run, Worded
<1> QED BY <1>1, <1>2, <1>3, <1>4, <1>5, <1>6, <1>7, <1>8 DEF Next, Own, Gcc

(* A report whose findings are all closed comes from an operator who        *)
(* decided every field (triage_record_errors and build_finding_records,     *)
(* run_openssl_gcc_analyzer.py:31-65).                                      *)
THEOREM DecidedByOperator == Spec => []ClosedWasDecided
<1>1. Init => Worded
  BY DEF Init, Worded, Blank
<1>2. TypeOK /\ Worded => ClosedWasDecided
  <2> SUFFICES ASSUME TypeOK, Worded, pc = "exited", file[target].records > 0,
                      TriageErrors(file[target]) = {}
               PROVE  caller = "operator" /\ \A f \in Field : options[f] = "decided"
    BY DEF ClosedWasDecided
  <2>1. \A f \in Field : report.triage[f] = "decided"
    BY DEF TriageErrors, Worded
  <2>2. \A f \in Field : options[f] = "decided"
    BY <2>1 DEF Worded
  <2> QED BY <2>2, AnalyzerAssumption DEF Worded, TypeOK, AnalyzerAssumption
<1> QED BY <1>1, <1>2, WordedNext, TypeCorrect, PTL DEF Spec

-----------------------------------------------------------------------------
(* Why an analysis ends.  The steps that are still before it, the judgement *)
(* of whoever waits for it included.                                        *)
StepsLeft ==
    CASE pc = "idle" -> 0
      [] pc \in {"exited", "died"} -> 1
      [] pc = "write" -> 2
      [] pc = "open" -> 3
      [] pc = "cleanup" -> 4
      [] pc = "compile" -> 5
      [] pc = "version" -> 6
      [] pc = "source" -> 7
      [] pc = "extract" -> 8
      [] pc = "hash" -> 9
      [] pc = "look" -> 10

(* The guards of Own and Judge, none of which waits for gcc: both of its    *)
(* calls may expire (:195-205), and every check has an exit when it fails.  *)
CanGoOn ==
    \/ pc \in {"look", "hash", "extract", "source", "cleanup", "open", "write"}
    \/ Expired
    \/ pc \in {"exited", "died"}

AnalysisIsBounded ==
    /\ StepsLeft \in 0..10
    /\ pc # "idle" => StepsLeft > 0 /\ CanGoOn

AnalysisCountsDown ==
    [][/\ Own \/ Gcc \/ Judge \/ GateTimeout \/ Kill => StepsLeft' < StepsLeft
       /\ StepsLeft' > StepsLeft => GateStart \/ OperatorStart]_vars

(* An analysis under way never waits for what may not come, and has at most *)
(* ten steps before it.                                                     *)
THEOREM NoAnalysisIsStuck == Spec => []AnalysisIsBounded
<1>1. TypeOK => AnalysisIsBounded
  BY DEF TypeOK, Phase, Steps, AnalysisIsBounded, StepsLeft, CanGoOn, Expired
<1> QED BY <1>1, TypeCorrect, PTL

(* Every step of the analyzer, of gcc and of the caller brings it nearer to *)
(* its end, a replaced archive sends it back nowhere, and only a new run    *)
(* starts the count again: no step of run() and main() is repeated.         *)
THEOREM EveryStepCounts == Spec => AnalysisCountsDown
<1>1. AnalysisIsBounded /\ AnalysisIsBounded' /\ [Next]_vars =>
        [/\ Own \/ Gcc \/ Judge \/ GateTimeout \/ Kill => StepsLeft' < StepsLeft
         /\ StepsLeft' > StepsLeft => GateStart \/ OperatorStart]_vars
  <2> SUFFICES ASSUME AnalysisIsBounded, AnalysisIsBounded', Next
               PROVE  /\ Own \/ Gcc \/ Judge \/ GateTimeout \/ Kill => StepsLeft' < StepsLeft
                      /\ StepsLeft' > StepsLeft => GateStart \/ OperatorStart
    OBVIOUS
  <2>1. ASSUME Own PROVE StepsLeft' < StepsLeft
    <3>1. CASE Look
      BY <3>1 DEF Look, Go, StepsLeft
    <3>2. CASE HashArchive
      BY <3>2 DEF HashArchive, Go, StepsLeft
    <3>3. CASE Extract
      BY <3>3 DEF Extract, Go, StepsLeft
    <3>4. CASE HashSource
      BY <3>4 DEF HashSource, Go, StepsLeft
    <3>5. CASE Timeout
      BY <3>5 DEF Timeout, Expired, Go, StepsLeft
    <3>6. CASE CleanUp
      BY <3>6 DEF CleanUp, Go, StepsLeft
    <3>7. CASE Open \/ Write
      BY <3>7 DEF Open, Write, StepsLeft
    <3>8. CASE WriteFails
      BY <3>8 DEF WriteFails, Go, StepsLeft
    <3> QED BY <2>1, <3>1, <3>2, <3>3, <3>4, <3>5, <3>6, <3>7, <3>8 DEF Own
  <2>2. ASSUME Gcc PROVE StepsLeft' < StepsLeft
    <3>1. CASE Version
      BY <3>1 DEF Version, Go, StepsLeft
    <3>2. CASE Compile
      <4>1. pc = "compile" /\ pc' \in {"cleanup", "open"}
        BY <3>2 DEF Compile, Go
      <4> QED BY <4>1 DEF StepsLeft
    <3> QED BY <2>2, <3>1, <3>2 DEF Gcc
  <2>3. ASSUME Judge \/ GateTimeout \/ Kill PROVE StepsLeft' < StepsLeft
    <3>1. pc # "idle" /\ pc' = "idle"
      BY <2>3 DEF Judge, GateTimeout, Kill, End, Steps
    <3>2. StepsLeft' = 0
      BY <3>1 DEF StepsLeft
    <3> QED BY <3>1, <3>2 DEF AnalysisIsBounded
  <2>4. ASSUME Replace PROVE StepsLeft' = StepsLeft
    BY <2>4 DEF Replace, StepsLeft
  <2> QED BY <2>1, <2>2, <2>3, <2>4 DEF Next, AnalysisIsBounded
<1> QED BY <1>1, NoAnalysisIsStuck, PTL DEF Spec, AnalysisCountsDown
=============================================================================
