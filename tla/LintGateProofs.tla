---------------------------- MODULE LintGateProofs ----------------------------
(***************************************************************************)
(* The linter implements LintGate, for any sidecar, any edits and any order *)
(* in which a directory lists its records.  Three invariants carry it: what *)
(* the walk has booked, what no error so far means, and that a sound tree   *)
(* gives none.  Then: a decision a run applied cites what its file held, and*)
(* retiring a record silences nobody else.                                  *)
(***************************************************************************)
EXTENDS TraceabilityLintProofs, FiniteSetTheorems

(* The records the loop is done with.                                       *)
Done == Loaded(records) \ {reading}

(* The root and the document directories have their own states.             *)
Listing ==
    /\ config["root"] \in RootState
    /\ \A d \in Dirs : config[d] \in ConfigState

(* What the walk books: a record is loaded once, in its own document's turn;*)
(* levels are those of the present document, findings those of all.         *)
Booked ==
    running =>
        /\ \A u \in queue : RankOf(u) = at - 1 /\ records[u] = NoFile
        /\ reading # NoUid => RankOf(reading) = at - 1
        /\ \A u \in Loaded(records) : RankOf(u) < at
        /\ levels = {records[u].level : u \in {u \in Done : RankOf(u) = at - 1}}
        /\ findings = {records[u].finding : u \in Done} \cap Finding

(* Two records that may not stand side by side.                             *)
Clash(recs, u, v) ==
    \/ DirOf[u] = DirOf[v] /\ recs[u].level = recs[v].level
    \/ recs[u].finding = recs[v].finding /\ recs[u].finding # NoFinding

(* What no error means while nothing has disturbed the run: so much of the  *)
(* tree as was walked is loaded, as it is, and each record holds.           *)
Walked ==
    running /\ ~dirty /\ errors = {} =>
        /\ config["root"] = "ok"
        /\ \A d \in Dirs : config[d] # "missing" /\ (Rank[d] < at => config[d] = "ok")
        /\ \A u \in queue : items[u] # NoFile
        /\ \A u \in Uid : RankOf(u) < at /\ u \notin queue =>
                records[u] = items[u] /\ items[u] # NotYaml
        /\ \A u \in Done : ItemErrors(u, records[u], content, {}, {}) = {}
        /\ \A u, v \in Done : u # v => ~Clash(records, u, v)

(* What is sound gives no error.                                            *)
Agreed == running /\ ~dirty /\ Gate!Sound => errors = {}

(* Once an undisturbed run is over.                                         *)
AllLoaded ==
    /\ running => exit = -1
    /\ exit \in {0, 2} /\ ~dirty => records = items


-----------------------------------------------------------------------------
LEMMA DirsApart ==
    /\ \A d \in Dirs : d # "root" /\ Rank[d] \in 1..5
    /\ \A d, e \in Dirs : Rank[d] = Rank[e] => d = e
    /\ \A u \in Uid : DirOf[u] \in Dirs /\ RankOf(u) = Rank[DirOf[u]]
  BY DataAssumption DEF Dirs, Rank, RankOf

(* A record's errors are its own and those of what came before it.          *)
LEMMA ErrorsSplit ==
    ASSUME NEW u, NEW i, NEW disk, NEW L, NEW F
    PROVE  ItemErrors(u, i, disk, L, F) = {}
             <=> /\ ItemErrors(u, i, disk, {}, {}) = {}
                 /\ i.level \notin L /\ i.finding \notin F
<1> DEFINE Kind == {"schema", "level", "finding", "reference", "closure"}
<1>1. ASSUME NEW L0, NEW F0
      PROVE  ItemErrors(u, i, disk, L0, F0) = {}
               <=> \A k \in Kind : ~Wrong(u, i, disk, L0, F0)[k]
  <2>1. DOMAIN Wrong(u, i, disk, L0, F0) = Kind
    BY DEF Wrong
  <2> QED BY <2>1 DEF ItemErrors
<1>2. ASSUME NEW L0, NEW F0
      PROVE  (\A k \in Kind : ~Wrong(u, i, disk, L0, F0)[k])
               <=> /\ i.wellFormed /\ i.level \notin L0 /\ i.finding \notin F0
                   /\ \A r \in i.refs : RefHolds(r, disk)
                   /\ \A d \in i.closures : DecisionHolds(u, d, disk)
                   /\ OneDecisionPerCheck(i)
  <2> DEFINE w == Wrong(u, i, disk, L0, F0)
  <2>1. /\ w["schema"] = ~i.wellFormed
        /\ w["level"] = (i.level \in L0)
        /\ w["finding"] = (i.finding \in F0)
        /\ w["reference"] = (\E r \in i.refs : ~RefHolds(r, disk))
        /\ w["closure"] = (\/ \E d \in i.closures : ~DecisionHolds(u, d, disk)
                          \/ ~OneDecisionPerCheck(i))
    BY DEF Wrong
  <2> HIDE DEF w
  <2>2. (\A k \in Kind : ~w[k])
           <=> /\ ~w["schema"] /\ ~w["level"] /\ ~w["finding"]
               /\ ~w["reference"] /\ ~w["closure"]
    OBVIOUS
  <2>3. (\A k \in Kind : ~w[k])
           <=> /\ i.wellFormed /\ i.level \notin L0 /\ i.finding \notin F0
               /\ \A r \in i.refs : RefHolds(r, disk)
               /\ \A d \in i.closures : DecisionHolds(u, d, disk)
               /\ OneDecisionPerCheck(i)
    BY <2>1, <2>2
  <2> QED BY <2>3 DEF w
<1> HIDE DEF Kind
<1>3. ItemErrors(u, i, disk, L, F) = {}
        <=> /\ i.wellFormed /\ i.level \notin L /\ i.finding \notin F
            /\ \A r \in i.refs : RefHolds(r, disk)
            /\ \A d \in i.closures : DecisionHolds(u, d, disk)
            /\ OneDecisionPerCheck(i)
  BY <1>1, <1>2
<1>4. ItemErrors(u, i, disk, {}, {}) = {}
        <=> /\ i.wellFormed /\ \A r \in i.refs : RefHolds(r, disk)
            /\ \A d \in i.closures : DecisionHolds(u, d, disk)
            /\ OneDecisionPerCheck(i)
  BY <1>1, <1>2
<1> QED BY <1>3, <1>4

(* The rules LintGate judges by are the ones the linter applies.            *)
LEMMA SameRules ==
    /\ \A recs : /\ Gate!Loaded(recs) = Loaded(recs)
                 /\ Gate!LinkErrors(recs) = LinkErrors(recs)
                 /\ Gate!Warnings(recs) = Warnings(recs)
    /\ \A u, i, disk :
         Gate!ItemErrors(u, i, disk, {}, {}) = ItemErrors(u, i, disk, {}, {})
<1>1. ASSUME NEW recs
      PROVE  Gate!Loaded(recs) = Loaded(recs) /\ Gate!LinkErrors(recs) = LinkErrors(recs)
  BY DEF Gate!Loaded, Loaded, Gate!LinkErrors, LinkErrors, Gate!RankOf, RankOf,
     Gate!Rank, Rank
<1>2. ASSUME NEW u, NEW i, NEW disk
      PROVE  Gate!ItemErrors(u, i, disk, {}, {}) = ItemErrors(u, i, disk, {}, {})
  <2>1. Gate!Applicable = Applicable
    BY DEF Gate!Applicable, Applicable, Gate!Dirs, Dirs, Gate!StateCheck, StateCheck
  <2>2. \A r : Gate!RefHolds(r, disk) = RefHolds(r, disk)
    BY DEF Gate!RefHolds, RefHolds
  <2>3. \A d : Gate!DecisionHolds(u, d, disk) = DecisionHolds(u, d, disk)
    BY <2>1 DEF Gate!DecisionHolds, DecisionHolds
  <2>4. Gate!OneDecisionPerCheck(i) = OneDecisionPerCheck(i)
    BY DEF Gate!OneDecisionPerCheck, OneDecisionPerCheck
  <2>5. Gate!Wrong(u, i, disk, {}, {}) = Wrong(u, i, disk, {}, {})
    BY <2>2, <2>3, <2>4 DEF Gate!Wrong, Wrong
  <2> QED BY <2>5 DEF Gate!ItemErrors, ItemErrors
<1>3. ASSUME NEW recs
      PROVE  Gate!Warnings(recs) = Warnings(recs)
  <2>1. Gate!ActiveIn(recs) = ActiveIn(recs)
    BY <1>1 DEF Gate!ActiveIn, ActiveIn
  <2>2. \A u : Gate!RankOf(u) = RankOf(u)
    BY DEF Gate!RankOf, RankOf, Gate!Rank, Rank
  <2>3. \A u : Gate!KidsOf(recs, u) = KidsOf(recs, u)
    BY <2>1, <2>2 DEF Gate!KidsOf, KidsOf
  <2>4. \A u, i : Gate!Settled(u, i) = Settled(u, i)
    BY DEF Gate!Settled, Settled, Gate!StrongEvidence, StrongEvidence
  <2>5. Gate!OpenChecks(recs) = OpenChecks(recs)
    BY <2>1, <2>2, <2>3, <2>4 DEF Gate!OpenChecks, OpenChecks, Gate!StateCheck, StateCheck
  <2>6. \A u, c : Gate!Decided(recs, u, c) = Decided(recs, u, c)
    BY DEF Gate!Decided, Decided
  <2> QED BY <2>5, <2>6 DEF Gate!Warnings, Warnings
<1> QED BY <1>1, <1>2, <1>3

(* What the gate calls sound, in the linter's own terms.                    *)
LEMMA SoundMeans ==
    Gate!Sound <=>
        /\ \A d \in DOMAIN config : config[d] = "ok"
        /\ \A u \in Uid : items[u] # NotYaml
        /\ \A u \in Loaded(items) : ItemErrors(u, items[u], content, {}, {}) = {}
        /\ \A u, v \in Loaded(items) : u # v => ~Clash(items, u, v)
        /\ LinkErrors(items) = {}
<1> QED BY SameRules DEF Gate!Sound, Clash

LEMMA SoundConfig ==
    ASSUME TypeOK, Gate!Sound
    PROVE  config["root"] = "ok" /\ \A d \in Dirs : config[d] = "ok"
  BY DEF Gate!Sound, TypeOK

-----------------------------------------------------------------------------
LEMMA WalkInit == Init => Listing /\ Booked /\ Walked /\ Agreed /\ AllLoaded
  BY DEF Init, Listing, Booked, Walked, Agreed, AllLoaded, RootState, ConfigState, Dirs

LEMMA ListingNext ==
    ASSUME TypeOK, Listing, [Next]_vars
    PROVE  Listing'
<1>1. CASE EditConfig
  BY <1>1, DirsApart DEF EditConfig, Listing, TypeOK
<1>2. CASE UNCHANGED config
  BY <1>2 DEF Listing
<1> QED
  BY <1>1, <1>2 DEF Next, Maintain, Lint, EditItem, EditContent, Start, OpenDir,
     ReadItem, ValidateItem, Raise, Conclude, tree, vars

(* A maintainer leaves the linter's process alone.                          *)
LEMMA Apart ==
    ASSUME Maintain
    PROVE  dirty' = TRUE /\ UNCHANGED <<running, strict, scan, result>>
  BY DEF Maintain, EditItem, EditConfig, EditContent, Touch

LEMMA BookedNext ==
    ASSUME TypeOK, Booked, [Next]_vars
    PROVE  Booked'
<1> SUFFICES ASSUME running' PROVE Booked'
  BY DEF Booked
<1>1. CASE Maintain \/ UNCHANGED vars
  <2>1. UNCHANGED <<running, at, queue, reading, records, levels, findings>>
    BY <1>1, Apart DEF scan, vars
  <2> QED BY <2>1 DEF Booked, Done, Loaded
<1>2. CASE Start
  <2>1. /\ queue' = {} /\ reading' = NoUid /\ levels' = {} /\ findings' = {}
        /\ Loaded(records)' = {}
    BY <1>2 DEF Start, Loaded
  <2> QED BY <2>1 DEF Booked, Done
<1>3. CASE OpenDir
  <2>1. PICK d \in Dirs : Rank[d] = at /\ queue' \subseteq {u \in Uid : DirOf[u] = d}
    BY <1>3 DEF OpenDir
  <2>2. /\ running /\ reading = NoUid /\ at' = at + 1 /\ levels' = {}
        /\ UNCHANGED <<reading, records, findings>>
    BY <1>3 DEF OpenDir, LevelsAtOpen
  <2>3. at \in 1..6 /\ \A u \in Uid : RankOf(u) \in 1..5
    BY DirsApart DEF TypeOK
  <2>4. \A u \in queue' : RankOf(u) = at' - 1 /\ records'[u] = NoFile
    BY <2>1, <2>2, <2>3, DirsApart DEF Booked, Loaded
  <2>5. \A u \in Loaded(records)' : RankOf(u) < at' /\ RankOf(u) # at' - 1
    BY <2>2, <2>3 DEF Booked, Loaded
  <2>6. Done' = Done /\ {u \in Done : RankOf(u) = at' - 1} = {}
    BY <2>2, <2>5 DEF Done, Loaded
  <2> QED BY <2>2, <2>4, <2>5, <2>6 DEF Booked
<1>4. CASE ReadItem
  <2>1. PICK u \in queue :
          /\ queue' = queue \ {u}
          /\ IF Unloadable(u) THEN UNCHANGED <<reading, records>>
             ELSE reading' = u /\ records' = [records EXCEPT ![u] = items[u]]
    BY <1>4 DEF ReadItem
  <2>2. /\ running /\ reading = NoUid /\ UNCHANGED <<at, levels, findings>>
    BY <1>4 DEF ReadItem
  <2>3. u \in Uid /\ RankOf(u) = at - 1 /\ at \in 1..6 /\ records[u] = NoFile
    BY <2>2 DEF Booked, TypeOK
  <2>4. NoUid \notin Uid
    BY LintAssumption
  <2>5. CASE Unloadable(u)
    BY <2>1, <2>2, <2>5 DEF Booked, Done, Loaded
  <2>6. CASE ~Unloadable(u)
    <3>1. items[u] # NoFile
      BY <2>6 DEF Unloadable
    <3>2. /\ reading' = u /\ records'[u] = items[u]
          /\ \A v \in Uid : v # u => records'[v] = records[v]
      BY <2>1, <2>6, <2>3 DEF TypeOK
    <3>3. Loaded(records)' = Loaded(records) \cup {u} /\ u \notin Loaded(records)
      BY <2>3, <3>1, <3>2 DEF Loaded
    <3>4. Done' = Done /\ u \notin Done /\ Done \subseteq Uid
      BY <2>2, <2>4, <3>2, <3>3 DEF Done, Loaded
    <3>5. \A v \in queue' : RankOf(v) = at' - 1 /\ records'[v] = NoFile
      BY <2>1, <2>2, <3>2 DEF Booked, TypeOK
    <3>6. \A v \in Done : records'[v] = records[v]
      BY <3>2, <3>4
    <3>7. /\ {records'[v].level : v \in {v \in Done : RankOf(v) = at - 1}}
             = {records[v].level : v \in {v \in Done : RankOf(v) = at - 1}}
          /\ {records'[v].finding : v \in Done} = {records[v].finding : v \in Done}
      BY <3>6
    <3> QED BY <2>2, <2>3, <3>2, <3>3, <3>4, <3>5, <3>7 DEF Booked
  <2> QED BY <2>5, <2>6
<1>5. CASE ValidateItem
  <2> DEFINE i == records[reading]
  <2>1. /\ running /\ reading # NoUid /\ reading' = NoUid
        /\ levels' = levels \cup {i.level} /\ findings' = findings \cup FindingOf(i)
        /\ UNCHANGED <<at, queue, records>>
    BY <1>5 DEF ValidateItem
  <2>2. reading \in Loaded(records) /\ RankOf(reading) = at - 1
    BY <2>1 DEF Booked, TypeOK
  <2>3. NoUid \notin Loaded(records)
    BY LintAssumption DEF Loaded
  <2>4. Done' = Done \cup {reading}
    BY <2>1, <2>2, <2>3 DEF Done, Loaded
  <2>5. FindingOf(i) = {i.finding} \cap Finding
    BY DEF FindingOf
  <2> QED BY <2>1, <2>2, <2>4, <2>5 DEF Booked, Loaded
<1>6. CASE Raise \/ Conclude
  BY <1>6 DEF Raise, Conclude
<1> QED BY <1>1, <1>2, <1>3, <1>4, <1>5, <1>6 DEF Next, Lint

LEMMA WalkedNext ==
    ASSUME TypeOK, Listing, Booked, Walked, [Next]_vars
    PROVE  Walked'
<1> SUFFICES ASSUME running', ~dirty', errors' = {} PROVE Walked'
  BY DEF Walked
<1> USE DataAssumption
<1>1. CASE Maintain
  BY <1>1, Apart
<1>2. CASE UNCHANGED vars
  BY <1>2 DEF vars, tree, scan, Walked, Done, Loaded, Clash
<1>3. CASE Start
  <2>1. /\ queue' = {} /\ reading' = NoUid /\ Loaded(records)' = {} /\ UNCHANGED tree
    BY <1>3 DEF Start, Loaded
  <2>2. config["root"] # "missing" /\ at' = 1
    BY <1>3 DEF Start
  <2>3. config["root"] # "extra" /\ \A d \in Dirs : DirThere(d)
    <3> DEFINE gone == {<<d, "missing">> : d \in {d \in Dirs : ~DirThere(d)}}
               extra == {<<r, "extra">> : r \in {r \in {"root"} : config[r] = "extra"}}
    <3>1. errors' = gone \cup extra
      BY <1>3, <2>2 DEF Start
    <3>2. gone = {} /\ extra = {}
      BY <3>1
    <3>3. ASSUME NEW d \in Dirs, ~DirThere(d) PROVE <<d, "missing">> \in gone
      BY <3>3
    <3>4. ASSUME config["root"] = "extra" PROVE <<"root", "extra">> \in extra
      BY <3>4
    <3> HIDE DEF gone, extra
    <3> QED BY <3>2, <3>3, <3>4
  <2>4. config["root"] = "ok" /\ \A d \in Dirs : config[d] # "missing"
    BY <2>2, <2>3 DEF Listing, RootState, DirThere
  <2>5. \A d \in Dirs : ~(Rank[d] < 1)
    BY DirsApart
  <2> QED BY <2>1, <2>2, <2>4, <2>5, DirsApart DEF Walked, Done, tree
<1>4. CASE OpenDir
  <2>1. PICK d \in Dirs :
          /\ Rank[d] = at
          /\ queue' = IF DirThere(d) /\ config[d] # "unreadable"
                      THEN {u \in Uid : DirOf[u] = d /\ items[u] # NoFile} ELSE {}
          /\ errors' = IF DirThere(d) /\ config[d] # "ok"
                       THEN errors \cup {<<d, "config">>} ELSE errors
    BY <1>4 DEF OpenDir
  <2>2. /\ running /\ ~dirty /\ queue = {} /\ reading = NoUid /\ at' = at + 1
        /\ UNCHANGED <<items, config, content, reading, records>>
    BY <1>4 DEF OpenDir, tree
  <2>3. errors = {}
    BY <2>1
  <2>4. DirThere(d) /\ config[d] = "ok"
    BY <2>1, <2>2, <2>3 DEF Walked, DirThere
  <2>5. queue' = {u \in Uid : DirOf[u] = d /\ items[u] # NoFile}
    BY <2>1, <2>4
  <2>6. at \in 1..6
    BY DEF TypeOK
  <2>7. \A e \in Dirs : config[e] # "missing" /\ (Rank[e] < at' => config[e] = "ok")
    <3>1. \A e \in Dirs : Rank[e] < at + 1 => Rank[e] < at \/ e = d
      BY <2>1, <2>6, DirsApart
    <3> QED BY <2>2, <2>3, <2>4, <3>1 DEF Walked
  <2>8. ASSUME NEW u \in Uid, RankOf(u) < at', u \notin queue'
        PROVE  records[u] = items[u] /\ items[u] # NotYaml
    <3>1. CASE RankOf(u) < at
      BY <2>2, <2>3, <3>1 DEF Walked
    <3>2. CASE ~(RankOf(u) < at)
      <4>1. RankOf(u) = at
        BY <2>2, <2>6, <2>8, <3>2, DirsApart
      <4>2. DirOf[u] = d
        BY <2>1, <4>1, DirsApart
      <4>3. items[u] = NoFile
        BY <2>5, <2>8, <4>2
      <4>4. records[u] = NoFile
        BY <2>2, <3>2 DEF Booked, Loaded
      <4> QED BY <4>3, <4>4
    <3> QED BY <3>1, <3>2
  <2>9. Done' = Done /\ \A u \in queue' : items[u] # NoFile
    BY <2>2, <2>5 DEF Done, Loaded
  <2> QED BY <2>2, <2>3, <2>7, <2>8, <2>9 DEF Walked, Clash
<1>5. CASE ReadItem
  <2>1. PICK u \in queue :
          /\ queue' = queue \ {u} /\ errors' = errors \cup LoadErrors(u)
          /\ IF Unloadable(u) THEN UNCHANGED <<reading, records>>
             ELSE reading' = u /\ records' = [records EXCEPT ![u] = items[u]]
    BY <1>5 DEF ReadItem
  <2>2. /\ running /\ ~dirty /\ reading = NoUid /\ UNCHANGED <<items, config, content, at>>
    BY <1>5 DEF ReadItem, tree
  <2>3. errors = {} /\ ~Unloadable(u)
    BY <2>1 DEF LoadErrors
  <2>4. u \in Uid /\ items[u] \notin {NoFile, NotYaml} /\ records[u] = NoFile
    BY <2>2, <2>3 DEF Unloadable, Booked, TypeOK
  <2>5. /\ reading' = u /\ records'[u] = items[u]
        /\ \A v \in Uid : v # u => records'[v] = records[v]
    BY <2>1, <2>3, <2>4 DEF TypeOK
  <2>6. Done' = Done /\ u \notin Done /\ Done \subseteq Uid
    BY <2>2, <2>4, <2>5, LintAssumption DEF Done, Loaded
  <2>7. \A v \in Done : records'[v] = records[v]
    BY <2>5, <2>6
  <2>8. \A v \in Uid : RankOf(v) < at /\ v \notin queue' =>
                records'[v] = items[v] /\ items[v] # NotYaml
    BY <2>1, <2>2, <2>3, <2>4, <2>5 DEF Walked
  <2>9. \A v \in Done' : ItemErrors(v, records'[v], content, {}, {}) = {}
    BY <2>2, <2>3, <2>6, <2>7 DEF Walked
  <2>10. \A v, w \in Done' : v # w => ~Clash(records', v, w)
    BY <2>2, <2>3, <2>6, <2>7 DEF Walked, Clash
  <2>11. \A v \in queue' : items[v] # NoFile
    BY <2>1, <2>2, <2>3 DEF Walked
  <2> QED BY <2>2, <2>3, <2>8, <2>9, <2>10, <2>11 DEF Walked, Clash
<1>6. CASE ValidateItem
  <2> DEFINE i == records[reading]
  <2>1. /\ running /\ ~dirty /\ reading # NoUid /\ reading' = NoUid
        /\ errors' = errors \cup ItemErrors(reading, i, content, levels, findings)
        /\ UNCHANGED <<items, config, content, at, queue, records>>
    BY <1>6 DEF ValidateItem, tree
  <2>2. errors = {} /\ ItemErrors(reading, i, content, levels, findings) = {}
    BY <2>1
  <2>3. ItemErrors(reading, i, content, {}, {}) = {} /\ i.level \notin levels
        /\ i.finding \notin findings
    BY <2>2, ErrorsSplit
  <2>4. reading \in Loaded(records) /\ RankOf(reading) = at - 1 /\ reading \in Uid
    BY <2>1 DEF Booked, TypeOK, Loaded
  <2>5. Done' = Done \cup {reading} /\ Done \subseteq Uid
    BY <2>1, <2>4, LintAssumption DEF Done, Loaded
  <2>6. i \in Item
    BY <2>4 DEF TypeOK, Loaded
  <2>7. ASSUME NEW v \in Done PROVE ~Clash(records, v, reading) /\ ~Clash(records, reading, v)
    <3>1. DirOf[v] = DirOf[reading] => records[v].level # i.level
      <4> SUFFICES ASSUME DirOf[v] = DirOf[reading] PROVE records[v].level # i.level
        OBVIOUS
      <4>1. RankOf(v) = at - 1
        BY <2>4 DEF RankOf
      <4>2. records[v].level \in levels
        BY <2>1, <4>1 DEF Booked
      <4> QED BY <2>3, <4>2
    <3>2. records[v].finding = i.finding => i.finding = NoFinding
      <4> SUFFICES ASSUME records[v].finding = i.finding, i.finding # NoFinding PROVE FALSE
        OBVIOUS
      <4>1. i.finding \in Finding
        BY <2>6 DEF Item
      <4>2. i.finding \in findings
        BY <2>1, <4>1 DEF Booked
      <4> QED BY <2>3, <4>2
    <3> QED BY <3>1, <3>2 DEF Clash
  <2>8. \A u, v \in Done' : u # v => ~Clash(records, u, v)
    BY <2>1, <2>2, <2>5, <2>7 DEF Walked
  <2>9. \A u \in Done' : ItemErrors(u, records[u], content, {}, {}) = {}
    BY <2>1, <2>2, <2>3, <2>5 DEF Walked
  <2> QED BY <2>1, <2>2, <2>8, <2>9 DEF Walked, Clash
<1>7. CASE Raise \/ Conclude
  BY <1>7 DEF Raise, Conclude
<1> QED BY <1>1, <1>2, <1>3, <1>4, <1>5, <1>6, <1>7 DEF Next, Lint

LEMMA AgreedNext ==
    ASSUME TypeOK, Listing, Booked, Walked, Agreed, [Next]_vars
    PROVE  Agreed'
<1> SUFFICES ASSUME running', ~dirty', Gate!Sound' PROVE errors' = {}
  BY DEF Agreed
<1> USE DataAssumption
<1>0. ASSUME UNCHANGED <<items, config, content>> PROVE Gate!Sound
  BY <1>0 DEF Gate!Sound, Loaded
<1>1. CASE Maintain
  BY <1>1, Apart
<1>2. CASE UNCHANGED vars
  BY <1>0, <1>2 DEF vars, tree, scan, Agreed
<1>3. CASE Start
  <2>1. UNCHANGED <<items, config, content>>
    BY <1>3 DEF Start, tree
  <2>2. config["root"] = "ok" /\ \A d \in Dirs : config[d] = "ok"
    BY <1>0, <2>1, SoundConfig
  <2>3. \A d \in Dirs : DirThere(d)
    BY <2>2 DEF DirThere
  <2> QED BY <1>3, <2>2, <2>3 DEF Start
<1>4. CASE OpenDir
  <2>1. UNCHANGED <<items, config, content>> /\ running /\ ~dirty
    BY <1>4 DEF OpenDir, tree
  <2>2. errors = {} /\ \A d \in Dirs : config[d] = "ok"
    BY <1>0, <2>1, SoundConfig DEF Agreed
  <2> QED BY <1>4, <2>2 DEF OpenDir
<1>5. CASE ReadItem
  <2>1. UNCHANGED <<items, config, content>> /\ running /\ ~dirty
    BY <1>5 DEF ReadItem, tree
  <2>2. errors = {} /\ config["root"] = "ok" /\ \A d \in Dirs : config[d] = "ok"
    BY <1>0, <2>1, SoundConfig DEF Agreed
  <2>3. PICK u \in queue : errors' = errors \cup LoadErrors(u)
    BY <1>5 DEF ReadItem
  <2>4. u \in Uid /\ items[u] # NoFile /\ items[u] # NotYaml
    BY <1>0, <2>1, <2>2 DEF Walked, TypeOK, Gate!Sound
  <2>5. ~Unloadable(u)
    BY <2>2, <2>4, DirsApart DEF Unloadable, DirThere
  <2> QED BY <2>2, <2>3, <2>5 DEF LoadErrors
<1>6. CASE ValidateItem
  <2> DEFINE i == records[reading]
  <2>1. /\ running /\ ~dirty /\ reading # NoUid
        /\ errors' = errors \cup ItemErrors(reading, i, content, levels, findings)
        /\ UNCHANGED <<items, config, content>>
    BY <1>6 DEF ValidateItem, tree
  <2>2. errors = {} /\ Gate!Sound
    BY <1>0, <2>1 DEF Agreed
  <2>3. reading \in Loaded(records) /\ reading \in Uid /\ RankOf(reading) = at - 1 /\ at \in 1..6
    BY <2>1 DEF Booked, TypeOK, Loaded
  <2>4. reading \notin queue
    BY <2>1, <2>3 DEF Booked, Loaded
  <2>5. i = items[reading] /\ reading \in Loaded(items)
    BY <2>1, <2>2, <2>3, <2>4 DEF Walked, Loaded
  <2>6. ASSUME NEW v \in Done
        PROVE  v \in Loaded(items) /\ records[v] = items[v] /\ v # reading
    <3>1. v \in Uid /\ records[v] # NoFile /\ v # reading /\ RankOf(v) < at
      BY <2>1 DEF Done, Loaded, Booked
    <3>2. v \notin queue
      BY <2>1, <3>1 DEF Booked
    <3> QED BY <2>1, <2>2, <3>1, <3>2 DEF Walked, Loaded
  <2>7. ItemErrors(reading, i, content, {}, {}) = {}
    BY <2>2, <2>5, SoundMeans
  <2>8. i.level \notin levels
    <3> SUFFICES ASSUME i.level \in levels PROVE FALSE
      OBVIOUS
    <3>1. PICK v \in Done : RankOf(v) = at - 1 /\ records[v].level = i.level
      BY <2>1 DEF Booked
    <3>2. v \in Uid
      BY DEF Done, Loaded
    <3>3. DirOf[v] = DirOf[reading]
      BY <2>3, <3>1, <3>2, DirsApart
    <3> QED BY <2>2, <2>5, <2>6, <3>1, <3>3, SoundMeans DEF Clash
  <2>9. i.finding \notin findings
    <3> SUFFICES ASSUME i.finding \in findings PROVE FALSE
      OBVIOUS
    <3>1. PICK v \in Done : records[v].finding = i.finding
      BY <2>1 DEF Booked
    <3>2. i.finding \in Finding /\ i.finding # NoFinding
      BY <2>1 DEF Booked
    <3> QED BY <2>2, <2>5, <2>6, <3>1, <3>2, SoundMeans DEF Clash
  <2> QED BY <2>1, <2>2, <2>7, <2>8, <2>9, ErrorsSplit
<1>7. CASE Raise \/ Conclude
  BY <1>7 DEF Raise, Conclude
<1> QED BY <1>1, <1>2, <1>3, <1>4, <1>5, <1>6, <1>7 DEF Next, Lint

(* At its end the walk has all records, as they are.                        *)
LEMMA WalkEnds ==
    ASSUME TypeOK, Booked, Walked, Conclude, ~dirty, errors = {}
    PROVE  /\ records = items /\ Done = Loaded(items)
           /\ \A d \in Dirs \cup {"root"} : config[d] = "ok"
<1>1. running /\ queue = {} /\ reading = NoUid /\ at = 6
  BY DEF Conclude
<1>2. \A u \in Uid : RankOf(u) < at
  BY <1>1, DirsApart
<1>3. \A u \in Uid : records[u] = items[u]
  BY <1>1, <1>2 DEF Walked
<1>4. records = items
  BY <1>3 DEF TypeOK
<1>5. Done = Loaded(items)
  BY <1>1, <1>4, LintAssumption DEF Done, Loaded
<1> QED BY <1>1, <1>4, <1>5, DirsApart DEF Walked

LEMMA AllLoadedNext ==
    ASSUME TypeOK, Booked, Walked, AllLoaded, [Next]_vars
    PROVE  AllLoaded'
<1>1. CASE Maintain
  BY <1>1, Apart DEF AllLoaded, result
<1>2. CASE UNCHANGED vars
  BY <1>2 DEF vars, tree, scan, result, AllLoaded
<1>3. CASE Start
  BY <1>3 DEF Start, AllLoaded
<1>4. CASE OpenDir \/ ReadItem \/ ValidateItem
  BY <1>4 DEF OpenDir, ReadItem, ValidateItem, AllLoaded, result
<1>5. CASE Conclude
  <2>1. /\ running' = FALSE /\ UNCHANGED <<records, items, dirty>>
        /\ exit' \in {0, 2} => errors = {}
    BY <1>5 DEF Conclude, tree
  <2> QED BY <1>5, <2>1, WalkEnds DEF AllLoaded
<1>6. CASE Raise
  BY <1>6 DEF Raise, AllLoaded
<1> QED BY <1>1, <1>2, <1>3, <1>4, <1>5, <1>6 DEF Next, Lint

THEOREM WalkInvariant == Spec => [](Listing /\ Booked /\ Walked /\ Agreed /\ AllLoaded)
<1> DEFINE I == Listing /\ Booked /\ Walked /\ Agreed /\ AllLoaded
<1>1. TypeOK /\ I /\ [Next]_vars => I'
  BY ListingNext, BookedNext, WalkedNext, AgreedNext, AllLoadedNext
<1>2. Init => I
  BY WalkInit
<1> QED BY <1>1, <1>2, TypeCorrect, PTL DEF Spec

(* The records an undisturbed run's warnings are about are those on disk,   *)
(* all of them (main, lint_traceability.py:514-524).                        *)
THEOREM NoneSkipped == Spec => []NothingSkipped
<1>1. AllLoaded => NothingSkipped
  BY DEF AllLoaded, NothingSkipped
<1> QED BY <1>1, WalkInvariant, PTL

-----------------------------------------------------------------------------
(* The verdict of a run nothing disturbed is that on the tree as a whole.   *)
LEMMA VerdictIsJust ==
    ASSUME TypeOK, Booked, Walked, Agreed, Conclude, ~dirty
    PROVE  exit' = Gate!Verdict
<1>1. CASE errors # {}
  <2>1. ~Gate!Sound
    BY <1>1 DEF Agreed, Conclude
  <2> QED BY <1>1, <2>1 DEF Conclude, Gate!Verdict
<1>2. CASE errors = {}
  <2>1. /\ records = items /\ Done = Loaded(items)
        /\ \A d \in Dirs \cup {"root"} : config[d] = "ok"
    BY <1>2, WalkEnds
  <2>2. running /\ queue = {} /\ at = 6
    BY DEF Conclude
  <2>3. \A u \in Uid : items[u] # NotYaml
    BY <1>2, <2>2, DirsApart DEF Walked
  <2>4. DOMAIN config = Dirs \cup {"root"}
    BY DEF TypeOK
  <2>5. Gate!Sound <=> LinkErrors(items) = {}
    BY <1>2, <2>1, <2>2, <2>3, <2>4, SoundMeans DEF Walked, Clash
  <2>6. errors' = LinkErrors(items) /\ warnings' = IF errors' # {} THEN {} ELSE Warnings(items)
    BY <1>2, <2>1 DEF Conclude
  <2>7. exit' = IF errors' # {} THEN 1 ELSE IF strict /\ warnings' # {} THEN 2 ELSE 0
    BY DEF Conclude
  <2> QED BY <2>5, <2>6, <2>7, SameRules DEF Gate!Verdict
<1> QED BY <1>1, <1>2

(* A traceback is a verdict too: what the linter dies of is an error of the *)
(* tree.                                                                    *)
LEMMA RaiseIsJust ==
    ASSUME TypeOK, Raise
    PROVE  Gate!Verdict = 1
<1>1. CASE \E u \in queue : items[u] = NotYaml
  <2>1. \E u \in Uid : items[u] = NotYaml
    BY <1>1 DEF TypeOK
  <2> QED BY <2>1 DEF Gate!Verdict, Gate!Sound
<1>2. CASE \E d \in Dirs : config[d] = "unreadable"
  <2>1. ~Gate!Sound
    BY <1>2, SoundConfig
  <2> QED BY <2>1 DEF Gate!Verdict
<1>3. CASE config["root"] = "missing"
  <2>1. ~Gate!Sound
    BY <1>3, SoundConfig
  <2> QED BY <2>1 DEF Gate!Verdict
<1> QED BY <1>1, <1>2, <1>3 DEF Raise

(* The linter implements the gate's promise: Maintain is its Edit, Start its*)
(* Begin, Conclude and Raise its Judge, and the walk in between a stutter (main,      *)
(* lint_traceability.py:451-697).                                           *)
THEOREM LinterImplementsGate == Spec => ImplementsGate
<1>1. Init => Gate!Init
  BY DEF Init, Gate!Init
<1>2. TypeOK /\ Booked /\ Walked /\ Agreed /\ [Next]_vars => [Gate!Next]_Gate!vars
  <2> SUFFICES ASSUME TypeOK, Booked, Walked, Agreed, [Next]_vars
               PROVE  Gate!Next \/ UNCHANGED Gate!vars
    OBVIOUS
  <2>1. CASE Maintain
    BY <2>1, Apart DEF Gate!Next, Gate!Edit, result
  <2>2. CASE Start
    BY <2>2 DEF Start, tree, Gate!Next, Gate!Begin, Gate!world
  <2>3. CASE OpenDir \/ ReadItem \/ ValidateItem
    BY <2>3 DEF OpenDir, ReadItem, ValidateItem, tree, result, Gate!vars
  <2>4. CASE Conclude
    <3>1. /\ running /\ running' = FALSE /\ exit' \in {0, 1, 2}
          /\ UNCHANGED <<items, config, content, strict, dirty>>
      BY <2>4 DEF Conclude, tree
    <3>2. ~dirty => exit' = Gate!Verdict
      BY <2>4, VerdictIsJust
    <3>3. exit' \in IF dirty THEN {0, 1, 2} ELSE {Gate!Verdict}
      BY <3>1, <3>2
    <3> QED BY <3>1, <3>3 DEF Gate!Next, Gate!Judge
  <2>5. CASE UNCHANGED vars
    BY <2>5 DEF vars, tree, result, Gate!vars
  <2>6. CASE Raise
    <3>1. /\ running /\ running' = FALSE /\ exit' = 1
          /\ UNCHANGED <<items, config, content, strict, dirty>>
      BY <2>6 DEF Raise, tree
    <3>2. exit' \in IF dirty THEN {0, 1, 2} ELSE {Gate!Verdict}
      BY <2>6, <3>1, RaiseIsJust
    <3> QED BY <3>1, <3>2 DEF Gate!Next, Gate!Judge
  <2> QED BY <2>1, <2>2, <2>3, <2>4, <2>5, <2>6 DEF Next, Lint
<1> QED BY <1>1, <1>2, TypeCorrect, WalkInvariant, PTL DEF Spec, ImplementsGate, Gate!Spec

(* What the promise is worth: for as long as nobody touches the tree, the   *)
(* exit code of the last run is the verdict on the tree that is there.      *)
JudgedAsOnDisk == exit # -1 /\ ~dirty => exit = Gate!Verdict

(* Whatever keeps the promise of the gate has it.                           *)
LEMMA GateIsTruthful == Gate!Spec => []JudgedAsOnDisk
<1>1. Gate!Init => JudgedAsOnDisk
  BY DEF Gate!Init, JudgedAsOnDisk
<1>2. JudgedAsOnDisk /\ [Gate!Next]_Gate!vars => JudgedAsOnDisk'
  <2> SUFFICES ASSUME JudgedAsOnDisk, [Gate!Next]_Gate!vars PROVE JudgedAsOnDisk'
    OBVIOUS
  <2>0. ASSUME UNCHANGED <<items, config, content, strict>> PROVE Gate!Verdict' = Gate!Verdict
    BY <2>0 DEF Gate!Verdict, Gate!Sound
  <2>1. CASE Gate!Edit
    BY <2>1 DEF Gate!Edit, JudgedAsOnDisk
  <2>2. CASE Gate!Begin
    BY <2>2 DEF Gate!Begin, JudgedAsOnDisk
  <2>3. CASE Gate!Judge
    <3>1. UNCHANGED <<items, config, content, strict, dirty>>
          /\ (~dirty => exit' = Gate!Verdict)
      BY <2>3 DEF Gate!Judge
    <3> QED BY <2>0, <3>1 DEF JudgedAsOnDisk
  <2>4. CASE UNCHANGED Gate!vars
    <3>1. UNCHANGED <<items, config, content, strict, exit, dirty>>
      BY <2>4 DEF Gate!vars
    <3> QED BY <2>0, <3>1 DEF JudgedAsOnDisk
  <2> QED BY <2>1, <2>2, <2>3, <2>4 DEF Gate!Next
<1> QED BY <1>1, <1>2, PTL DEF Gate!Spec

(* ... so the linter has it: after a run that nothing disturbed, and until  *)
(* the next edit, 0, 1 or 2 is what the tree as a whole deserves (main,     *)
(* lint_traceability.py:451-697).                                           *)
THEOREM ExitIsTheTreesVerdict == Spec => []JudgedAsOnDisk
  BY LinterImplementsGate, GateIsTruthful, PTL DEF ImplementsGate

(* With --strict-completeness and for as long as nobody touches the tree, 0 *)
(* means that on disk, and not only in what was read, every active          *)
(* requirement is traced down the chain or has its gap closed by an owner   *)
(* (:634-671).                                                              *)
TreeIsTraced ==
    exit = 0 /\ strict /\ ~dirty =>
        \A u \in ActiveIn(items) : RankOf(u) = 1 => Traced(items, u)

THEOREM StrictPassIsOfTheTree == Spec => []TreeIsTraced
<1>1. StrictPassIsTraced /\ NothingSkipped => TreeIsTraced
  BY DEF StrictPassIsTraced, NothingSkipped, TreeIsTraced
<1> QED BY <1>1, StrictPass, NoneSkipped, PTL

-----------------------------------------------------------------------------
(* Why a run reports.  The records that are still to be read, those of the  *)
(* documents not yet opened included; each costs at most two steps.         *)
ToRead == {u \in Uid : u \in queue \/ RankOf(u) >= at}

StepsLeft ==
    IF running
    THEN (6 - at) + 2 * Cardinality(ToRead) + (IF reading = NoUid THEN 0 ELSE 1) + 1
    ELSE 0

(* The guards of the linter's own actions.                                  *)
CanGoOn ==
    \/ reading # NoUid
    \/ reading = NoUid /\ queue # {}
    \/ reading = NoUid /\ queue = {} /\ (at = 6 \/ \E d \in Dirs : Rank[d] = at)

LintIsBounded ==
    /\ StepsLeft \in 0..(2 * Cardinality(Uid) + 6)
    /\ running => StepsLeft > 0 /\ CanGoOn

LintCountsDown ==
    [][/\ Lint => StepsLeft' < StepsLeft
       /\ StepsLeft' > StepsLeft => Start]_vars

LEMMA SomeUids ==
    ASSUME NEW S \in SUBSET Uid, NEW T \in SUBSET S
    PROVE  /\ Cardinality(S) \in Nat /\ Cardinality(T) \in Nat
           /\ Cardinality(T) <= Cardinality(S) /\ Cardinality(S) <= Cardinality(Uid)
           /\ Cardinality(Uid) \in Nat /\ IsFiniteSet(S)
<1>1. IsFiniteSet(Uid)
  BY DataAssumption
<1>2. IsFiniteSet(S) /\ Cardinality(S) <= Cardinality(Uid)
  BY <1>1, FS_Subset
<1>3. IsFiniteSet(T) /\ Cardinality(T) <= Cardinality(S)
  BY <1>2, FS_Subset
<1> QED BY <1>1, <1>2, <1>3, FS_CardinalityType

LEMMA StepsType ==
    ASSUME TypeOK PROVE StepsLeft \in Nat /\ (running => StepsLeft > 0)
<1>1. /\ at \in 1..6 /\ Cardinality(ToRead) \in Nat
      /\ (IF reading = NoUid THEN 0 ELSE 1) \in 0..1
  BY SomeUids DEF TypeOK, ToRead
<1> QED BY <1>1 DEF StepsLeft

LEMMA CountStep ==
    ASSUME TypeOK, Booked, Lint
    PROVE  StepsLeft' < StepsLeft
<1> DEFINE r == Cardinality(ToRead)
           s == IF reading = NoUid THEN 0 ELSE 1
<1>0. /\ running /\ at \in 1..6 /\ r \in Nat /\ NoUid \notin Uid /\ queue \subseteq Uid
      /\ IsFiniteSet(ToRead)
  BY SomeUids, LintAssumption DEF TypeOK, Lint, OpenDir, ReadItem, ValidateItem, Raise, Conclude,
     ToRead
<1>1. StepsLeft = (6 - at) + 2 * r + s + 1
  BY <1>0 DEF StepsLeft
<1>2. CASE OpenDir
  <2>1. /\ running' = running /\ at' = at + 1 /\ reading = NoUid /\ reading' = NoUid
        /\ \E d \in Dirs : Rank[d] = at /\ queue' \subseteq {u \in Uid : DirOf[u] = d}
    BY <1>2 DEF OpenDir
  <2>2. ToRead' \subseteq ToRead
    <3>1. \A u \in queue' : u \in Uid /\ RankOf(u) = at
      BY <2>1, DirsApart
    <3>2. \A u \in Uid : RankOf(u) \in 1..5
      BY DirsApart
    <3> QED BY <1>0, <2>1, <3>1, <3>2 DEF ToRead
  <2>3. Cardinality(ToRead)' \in Nat /\ Cardinality(ToRead)' <= r
    BY <2>2, SomeUids DEF ToRead
  <2>4. StepsLeft' = (6 - (at + 1)) + 2 * Cardinality(ToRead)' + 0 + 1
    BY <1>0, <2>1 DEF StepsLeft
  <2>5. s = 0
    BY <2>1
  <2> QED BY <1>0, <1>1, <2>3, <2>4, <2>5
<1>3. CASE ReadItem
  <2>1. PICK u \in queue : queue' = queue \ {u}
    BY <1>3 DEF ReadItem
  <2>2. running' = running /\ at' = at /\ reading = NoUid
    BY <1>3 DEF ReadItem
  <2>3. u \in ToRead /\ RankOf(u) = at - 1
    BY <1>0, <2>1 DEF ToRead, Booked
  <2>4. ToRead' = ToRead \ {u}
    <3>1. u \notin ToRead'
      BY <1>0, <2>1, <2>2, <2>3 DEF ToRead
    <3> QED BY <2>1, <2>2, <3>1 DEF ToRead
  <2>5. Cardinality(ToRead)' = r - 1
    BY <1>0, <2>3, <2>4, FS_RemoveElement
  <2>6. PICK t \in 0..1 : StepsLeft' = (6 - at) + 2 * (r - 1) + t + 1
    BY <1>0, <2>2, <2>5 DEF StepsLeft
  <2>7. s = 0
    BY <2>2
  <2> QED BY <1>0, <1>1, <2>6, <2>7
<1>4. CASE ValidateItem
  <2>1. /\ running' = running /\ at' = at /\ queue' = queue
        /\ reading # NoUid /\ reading' = NoUid
    BY <1>4 DEF ValidateItem
  <2>2. StepsLeft' = (6 - at) + 2 * r + 0 + 1
    BY <1>0, <2>1 DEF StepsLeft, ToRead
  <2>3. s = 1
    BY <2>1
  <2> QED BY <1>0, <1>1, <2>2, <2>3
<1>5. CASE Raise \/ Conclude
  <2>1. StepsLeft' = 0
    BY <1>5 DEF Raise, Conclude, StepsLeft
  <2> QED BY <1>0, <2>1, StepsType
<1> QED BY <1>2, <1>3, <1>4, <1>5 DEF Lint

(* What changes the tree leaves the count alone; a run starts with all its  *)
(* documents, and so all the records there may be, before it.               *)
LEMMA CountRest ==
    ASSUME TypeOK
    PROVE  /\ Maintain \/ UNCHANGED vars => StepsLeft' = StepsLeft
           /\ Start => StepsLeft' \in 0..(2 * Cardinality(Uid) + 6)
<1>1. ASSUME Maintain \/ UNCHANGED vars PROVE StepsLeft' = StepsLeft
  <2>1. UNCHANGED <<running, at, queue, reading>>
    BY <1>1, Apart DEF scan, vars
  <2> QED BY <2>1 DEF StepsLeft, ToRead
<1>2. ASSUME Start PROVE StepsLeft' \in 0..(2 * Cardinality(Uid) + 6)
  <2>1. running' /\ at' \in {1, 6} /\ reading' = NoUid /\ ToRead' \subseteq Uid
    BY <1>2 DEF Start, ToRead
  <2>2. /\ Cardinality(ToRead)' \in Nat /\ Cardinality(ToRead)' <= Cardinality(Uid)
        /\ Cardinality(Uid) \in Nat
    BY <2>1, SomeUids
  <2>3. StepsLeft' = (6 - at') + 2 * Cardinality(ToRead)' + 0 + 1
    BY <2>1 DEF StepsLeft
  <2> QED BY <2>1, <2>2, <2>3
<1> QED BY <1>1, <1>2

(* A run is never stuck, however the tree changes under it, and has at most *)
(* two steps per record and six more before it: there is always a document  *)
(* to open, a record to read or validate, or a verdict to give.             *)
THEOREM NoRunIsStuck == Spec => []LintIsBounded
<1> DEFINE B == StepsLeft \in 0..(2 * Cardinality(Uid) + 6)
           Counted == StepsLeft \in Nat
<1>0. Cardinality(Uid) \in Nat
  BY SomeUids
<1>1. Init => B
  BY <1>0 DEF Init, StepsLeft
<1>c. TypeOK => Counted
  BY StepsType
<1>2. TypeOK /\ Counted' /\ Booked /\ B /\ [Next]_vars => B'
  <2> SUFFICES ASSUME TypeOK, StepsLeft' \in Nat, Booked, B, [Next]_vars PROVE B'
    OBVIOUS
  <2>1. Lint => StepsLeft' < StepsLeft
    BY CountStep
  <2> QED BY <1>0, <2>1, CountRest DEF Next
<1>3. TypeOK /\ running => CanGoOn
  <2>1. at \in 1..6 => at = 6 \/ \E d \in Dirs : Rank[d] = at
    BY DEF Dirs, Rank
  <2> QED BY <2>1 DEF TypeOK, CanGoOn
<1>4. TypeOK /\ B => LintIsBounded
  BY <1>3, StepsType DEF LintIsBounded
<1> HIDE DEF B, Counted
<1> QED BY <1>1, <1>c, <1>2, <1>4, TypeCorrect, WalkInvariant, PTL DEF Spec

(* Every step of the linter brings its run nearer to the verdict, no edit   *)
(* takes it further from it, and only a new run starts the count again:     *)
(* every record is taken from the glob once, whether or not it loads.       *)
THEOREM EveryStepCounts == Spec => LintCountsDown
<1>1. TypeOK /\ Booked /\ LintIsBounded /\ LintIsBounded' /\ [Next]_vars =>
        [/\ Lint => StepsLeft' < StepsLeft
         /\ StepsLeft' > StepsLeft => Start]_vars
  <2> SUFFICES ASSUME TypeOK, Booked, LintIsBounded, LintIsBounded', Next
               PROVE  /\ Lint => StepsLeft' < StepsLeft
                      /\ StepsLeft' > StepsLeft => Start
    OBVIOUS
  <2>1. StepsLeft \in Int /\ StepsLeft' \in Int
    BY DEF LintIsBounded
  <2>2. Lint => StepsLeft' < StepsLeft
    BY CountStep
  <2>3. Maintain => StepsLeft' = StepsLeft
    BY CountRest
  <2> QED BY <2>1, <2>2, <2>3 DEF Next
<1> QED BY <1>1, TypeCorrect, WalkInvariant, NoRunIsStuck, PTL DEF Spec, LintCountsDown

-----------------------------------------------------------------------------
(* A decision that was applied had its file's digest at some moment of the  *)
(* run: when its record was validated, and the run remembers what each file *)
(* held.                                                                    *)
Digested(recs, seen, u) == \A d \in recs[u].closures : d.digest \in seen[d.file]

HeldInv ==
    /\ running => \A f \in File : content[f] \in held[f]
    /\ running /\ errors = {} => \A u \in Done : Digested(records, held, u)
    /\ exit \in {0, 2} =>
         /\ closed \subseteq Closed(records)
         /\ LinkErrors(records) = {}
         /\ \A u \in Loaded(records) : Digested(records, held, u)

LEMMA HeldNext ==
    ASSUME TypeOK, Booked, AllLoaded, HeldInv, [Next]_vars
    PROVE  HeldInv'
<1>1. CASE Maintain
  <2>1. UNCHANGED <<running, scan, result>>
    BY <1>1, Apart
  <2>2. \A f \in File : held[f] \subseteq held'[f]
    BY <1>1 DEF Maintain, EditItem, EditConfig, EditContent, TypeOK
  <2>3. running => \A f \in File : content'[f] \in held'[f]
    BY <1>1 DEF Maintain, EditItem, EditConfig, EditContent, TypeOK, HeldInv
  <2>4. \A u \in Loaded(records) : records[u].closures \subseteq Decision
    BY DEF Loaded, TypeOK, Item
  <2>5. \A u \in Loaded(records) : Digested(records, held, u) => Digested(records, held', u)
    BY <2>2, <2>4 DEF Digested, Decision
  <2> QED BY <2>1, <2>3, <2>5 DEF HeldInv, Done, Loaded, scan, result
<1>2. CASE UNCHANGED vars
  BY <1>2 DEF vars, tree, scan, result, HeldInv, Done, Loaded
<1>3. CASE Start
  <2>1. /\ exit' = -1 /\ Done' = {}
        /\ \A f \in File : content'[f] \in held'[f]
    BY <1>3 DEF Start, tree, Done, Loaded
  <2> QED BY <2>1 DEF HeldInv
<1>4. CASE OpenDir
  <2>1. /\ UNCHANGED <<content, held, records, reading, exit>> /\ running
        /\ errors' = {} => errors = {}
    BY <1>4 DEF OpenDir, tree, result
  <2>2. Done' = Done
    BY <2>1 DEF Done, Loaded
  <2> QED BY <2>1, <2>2 DEF HeldInv, AllLoaded
<1>5. CASE ReadItem
  <2>1. PICK u \in queue :
          /\ errors' = errors \cup LoadErrors(u)
          /\ IF Unloadable(u) THEN UNCHANGED <<reading, records>>
             ELSE reading' = u /\ records' = [records EXCEPT ![u] = items[u]]
    BY <1>5 DEF ReadItem
  <2>2. running /\ reading = NoUid /\ exit' = -1 /\ UNCHANGED <<content, held>>
    BY <1>5 DEF ReadItem, tree, result, AllLoaded
  <2>3. u \in Uid /\ records[u] = NoFile
    BY <2>2 DEF Booked, TypeOK
  <2>4. Done' \subseteq Done /\ \A v \in Done' : records'[v] = records[v]
    BY <2>1, <2>2, <2>3, LintAssumption DEF Done, Loaded, TypeOK
  <2>5. errors' = {} => errors = {}
    BY <2>1
  <2>6. running /\ errors' = {} => \A v \in Done' : Digested(records', held, v)
    BY <2>4, <2>5 DEF HeldInv, Digested
  <2> QED BY <2>2, <2>6 DEF HeldInv
<1>6. CASE ValidateItem
  <2> DEFINE i == records[reading]
  <2>1. /\ running /\ reading # NoUid /\ reading' = NoUid /\ exit' = -1
        /\ errors' = errors \cup ItemErrors(reading, i, content, levels, findings)
        /\ UNCHANGED <<content, held, records>>
    BY <1>6 DEF ValidateItem, tree, result, AllLoaded
  <2>2. reading \in Loaded(records)
    BY <2>1 DEF TypeOK
  <2>3. ASSUME errors' = {} PROVE errors = {} /\ Digested(records, held, reading)
    <3>1. errors = {} /\ ItemErrors(reading, i, content, levels, findings) = {}
      BY <2>1, <2>3
    <3>2. ~Wrong(reading, i, content, levels, findings)["closure"]
      <4>1. "closure" \in DOMAIN Wrong(reading, i, content, levels, findings)
        BY DEF Wrong
      <4> QED BY <3>1, <4>1 DEF ItemErrors
    <3>3. \A d \in i.closures : content[d.file] = d.digest
      BY <3>2 DEF Wrong, DecisionHolds
    <3>4. \A d \in i.closures : d.file \in File
      BY <2>2 DEF Loaded, TypeOK, Item, Decision
    <3>5. \A d \in i.closures : d.digest \in held[d.file]
      BY <2>1, <3>3, <3>4 DEF HeldInv
    <3> QED BY <3>1, <3>5 DEF Digested
  <2>4. Done' \subseteq Done \cup {reading}
    BY <2>1 DEF Done, Loaded
  <2>5. errors' = {} => \A v \in Done' : Digested(records, held, v)
    BY <2>1, <2>3, <2>4 DEF HeldInv
  <2> QED BY <2>1, <2>5 DEF HeldInv
<1>7. CASE Conclude
  <2>1. /\ running /\ reading = NoUid /\ running' = FALSE /\ UNCHANGED <<records, held>>
        /\ errors' = IF errors # {} THEN errors ELSE LinkErrors(records)
        /\ exit' \in {0, 2} => errors' = {}
        /\ closed' = IF errors' # {} THEN {} ELSE Closed(records)
    BY <1>7 DEF Conclude
  <2>2. Done = Loaded(records)
    BY <2>1, LintAssumption DEF Done, Loaded
  <2>3. exit' \in {0, 2} => errors = {} /\ LinkErrors(records) = {} /\ closed' = Closed(records)
    BY <2>1
  <2> QED BY <2>1, <2>2, <2>3 DEF HeldInv
<1>8. CASE Raise
  <2>1. running' = FALSE /\ exit' = 1
    BY <1>8 DEF Raise
  <2> QED BY <2>1 DEF HeldInv
<1> QED BY <1>1, <1>2, <1>3, <1>4, <1>5, <1>6, <1>7, <1>8 DEF Next, Lint

THEOREM HeldInvariant == Spec => []HeldInv
<1>1. Init => HeldInv
  BY DEF Init, HeldInv
<1>2. TypeOK /\ Booked /\ AllLoaded /\ HeldInv /\ [Next]_vars => HeldInv'
  BY HeldNext
<1> QED BY <1>1, <1>2, TypeCorrect, WalkInvariant, PTL DEF Spec

(* Every decision a run applied was the decision of a file with exactly the *)
(* recorded digest, even when the file was edited while the run went on     *)
(* (validate_closures, lint_traceability.py:432-444).                       *)
THEOREM DecisionsWereHeld == Spec => []AppliedDecisionsWereHeld
<1>1. TypeOK /\ HeldInv => AppliedDecisionsWereHeld
  <2> SUFFICES ASSUME TypeOK, HeldInv, exit \in {0, 2}, NEW p \in closed
               PROVE  \E d \in records[p[1]].closures :
                        d.check = p[2] /\ d.digest \in held[d.file]
    BY DEF AppliedDecisionsWereHeld
  <2>1. p \in OpenChecks(records) /\ Decided(records, p[1], p[2])
    BY DEF HeldInv, Closed
  <2>2. p[1] \in Loaded(records)
    BY <2>1 DEF OpenChecks, ActiveIn
  <2> QED BY <2>1, <2>2 DEF HeldInv, Digested, Decided
<1> QED BY <1>1, TypeCorrect, HeldInvariant, PTL

-----------------------------------------------------------------------------
(* What a warning is, and how retiring u changes what it depends on.        *)
LEMMA WarningIs ==
    ASSUME NEW recs
    PROVE  /\ \A p \in Warnings(recs) : p = <<p[1], p[2]>> /\ p[1] \in ActiveIn(recs)
           /\ \A v, c : <<v, c>> \in Warnings(recs) <=>
                /\ v \in ActiveIn(recs) /\ ~Decided(recs, v, c)
                /\ \/ c = "missing-child" /\ RankOf(v) < 5 /\ KidsOf(recs, v) = {}
                   \/ c = StateCheck[DirOf[v]] /\ ~Settled(v, recs[v])
<1>1. \A p \in OpenChecks(recs) : p = <<p[1], p[2]>> /\ p[1] \in ActiveIn(recs)
  BY DEF OpenChecks
<1>2. \A v, c : <<v, c>> \in OpenChecks(recs) <=>
        /\ v \in ActiveIn(recs)
        /\ \/ c = "missing-child" /\ RankOf(v) < 5 /\ KidsOf(recs, v) = {}
           \/ c = StateCheck[DirOf[v]] /\ ~Settled(v, recs[v])
  BY DEF OpenChecks
<1>3. \A v, c : <<v, c>> \in Warnings(recs) <=>
        <<v, c>> \in OpenChecks(recs) /\ ~Decided(recs, v, c)
  BY DEF Warnings
<1> QED BY <1>1, <1>2, <1>3 DEF Warnings

LEMMA RetiredIs ==
    ASSUME NEW recs \in [Uid -> Item \cup {NoFile}], NEW u \in Loaded(recs)
    PROVE  /\ ActiveIn(Retired(recs, u)) = ActiveIn(recs) \ {u}
           /\ \A v : KidsOf(Retired(recs, u), v) = KidsOf(recs, v) \ {u}
           /\ \A v \in ActiveIn(recs) \ {u} : Retired(recs, u)[v] = recs[v]
<1> DEFINE R == Retired(recs, u)
<1>1. /\ u \in Uid /\ recs[u] \in Item /\ R[u] = [recs[u] EXCEPT !.active = FALSE]
      /\ \A v \in Uid : v # u => R[v] = recs[v]
  BY DEF Loaded, Retired
<1>2. R[u] \in Item /\ R[u].active = FALSE /\ R[u].links = recs[u].links
  BY <1>1 DEF Item
<1>3. ActiveIn(R) = ActiveIn(recs) \ {u}
  BY <1>1, <1>2, DataAssumption DEF ActiveIn, Loaded
<1>4. \A k \in ActiveIn(recs) \ {u} : R[k] = recs[k]
  BY <1>1 DEF ActiveIn, Loaded
<1> HIDE DEF R
<1>5. \A v : KidsOf(R, v) = KidsOf(recs, v) \ {u}
  BY <1>3, <1>4 DEF KidsOf
<1> QED BY <1>3, <1>4, <1>5 DEF R

LEMMA RetiringHides ==
    ASSUME NEW recs \in [Uid -> Item \cup {NoFile}], LinkErrors(recs) = {},
           NEW u \in Loaded(recs)
    PROVE  Warnings(Retired(recs, u)) =
             (Warnings(recs) \ ({u} \X Checks)) \cup
                {<<p, "missing-child">> : p \in Bereft(recs, u)}
<1> DEFINE R == Retired(recs, u)
           left == Warnings(recs) \ ({u} \X Checks)
           new == {<<p, "missing-child">> : p \in Bereft(recs, u)}
<1>1. /\ ActiveIn(R) = ActiveIn(recs) \ {u}
      /\ \A v : KidsOf(R, v) = KidsOf(recs, v) \ {u}
      /\ \A v \in ActiveIn(R) : R[v] = recs[v]
  BY RetiredIs
<1> HIDE DEF R
<1>2. \A v \in ActiveIn(R) : \A c : Decided(R, v, c) <=> HasDecision(recs, v, c)
  BY <1>1 DEF Decided, HasDecision
<1>3. \A v, c : Decided(recs, v, c) <=> HasDecision(recs, v, c)
  BY DEF Decided, HasDecision
<1>4. ASSUME NEW k \in Loaded(recs), NEW t \in recs[k].links, t \in Uid
      PROVE  recs[t] # NoFile /\ RankOf(t) = RankOf(k) - 1
  <2>1. <<k, "link">> \notin LinkErrors(recs)
    OBVIOUS
  <2> QED BY <1>4, <2>1 DEF LinkErrors
<1>5. \A k \in Uid : RankOf(k) \in 1..5
  BY RankDir
<1>6. ASSUME NEW v \in Uid PROVE KidsOf(recs, v) = Step(recs, {v})
  BY <1>4, <1>5 DEF KidsOf, Step, ActiveIn, Loaded
<1>7. \A v \in ActiveIn(recs) : v \in Uid
  BY DEF ActiveIn, Loaded
<1>8. ASSUME NEW v, NEW c, <<v, c>> \in Warnings(R)
      PROVE  <<v, c>> \in left \cup new
  <2>1. /\ v \in ActiveIn(R) /\ ~HasDecision(recs, v, c)
        /\ \/ c = "missing-child" /\ RankOf(v) < 5 /\ KidsOf(recs, v) \ {u} = {}
           \/ c = StateCheck[DirOf[v]] /\ ~Settled(v, recs[v])
    BY <1>8, <1>1, <1>2, WarningIs
  <2>2. v \in ActiveIn(recs) /\ v # u /\ v \in Uid
    BY <2>1, <1>1, <1>7
  <2>3. CASE \/ c = "missing-child" /\ RankOf(v) < 5 /\ KidsOf(recs, v) = {}
             \/ c = StateCheck[DirOf[v]] /\ ~Settled(v, recs[v])
    <3>1. <<v, c>> \in Warnings(recs)
      BY <2>1, <2>2, <2>3, <1>3, WarningIs
    <3> QED BY <2>2, <3>1
  <2>4. CASE c = "missing-child" /\ KidsOf(recs, v) # {}
    <3>1. u \in KidsOf(recs, v) /\ Step(recs, {v}) \subseteq {u}
      BY <2>1, <2>2, <2>4, <1>6 DEF StateCheck, Settled
    <3>2. v \in recs[u].links /\ recs[v].active
      BY <2>2, <3>1 DEF KidsOf, ActiveIn
    <3>3. v \in Bereft(recs, u)
      BY <2>1, <2>4, <3>1, <3>2 DEF Bereft
    <3> QED BY <2>4, <3>3
  <2> QED BY <2>1, <2>3, <2>4
<1>9. ASSUME NEW v, NEW c, <<v, c>> \in left
      PROVE  <<v, c>> \in Warnings(R)
  <2>1. /\ v \in ActiveIn(recs) /\ ~HasDecision(recs, v, c)
        /\ \/ c = "missing-child" /\ RankOf(v) < 5 /\ KidsOf(recs, v) = {}
           \/ c = StateCheck[DirOf[v]] /\ ~Settled(v, recs[v])
    BY <1>9, <1>3, WarningIs
  <2>2. c \in Checks
    BY <2>1 DEF Settled, StateCheck, Checks
  <2>3. v # u
    BY <1>9, <2>2
  <2> QED BY <2>1, <2>3, <1>1, <1>2, WarningIs
<1>10. ASSUME NEW v \in Bereft(recs, u)
       PROVE  <<v, "missing-child">> \in Warnings(R)
  <2>1. /\ v \in recs[u].links /\ recs[v].active
        /\ ~HasDecision(recs, v, "missing-child") /\ Step(recs, {v}) \subseteq {u}
    BY DEF Bereft
  <2>2. v \in Uid /\ u \in Uid
    BY <2>1 DEF Loaded, Item
  <2>3. recs[v] # NoFile /\ RankOf(v) = RankOf(u) - 1
    BY <2>1, <2>2, <1>4
  <2>4. v \in ActiveIn(R) /\ RankOf(v) < 5
    BY <2>1, <2>2, <2>3, <1>1, <1>5 DEF ActiveIn, Loaded
  <2>5. KidsOf(R, v) = {}
    BY <2>1, <2>2, <1>1, <1>6
  <2> QED BY <2>1, <2>4, <2>5, <1>2, WarningIs
<1>11. \A p \in Warnings(R) \cup left : p = <<p[1], p[2]>>
  BY WarningIs
<1>12. Warnings(R) \subseteq left \cup new
  BY <1>8, <1>11
<1>13. left \cup new \subseteq Warnings(R)
  BY <1>9, <1>10, <1>11
<1> QED BY <1>12, <1>13 DEF R

(* Retiring a record silences nobody else: its own warnings go, and each    *)
(* active parent it was the last child of gains one (:634).                 *)
THEOREM RetiringIsLocal == Spec => []RetiringHidesOnlyItself
<1>1. TypeOK /\ HeldInv => RetiringHidesOnlyItself
  BY RetiringHides DEF TypeOK, HeldInv, RetiringHidesOnlyItself
<1> QED BY <1>1, TypeCorrect, HeldInvariant, PTL
=============================================================================
