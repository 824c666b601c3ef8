------------------------ MODULE NetworkFixtureProofs ------------------------
(***************************************************************************)
(* Proofs that the verdict of the network fixture can be trusted, for any   *)
(* number of attempts the fetcher may make.                                 *)
(***************************************************************************)
EXTENDS NetworkFixture, FiniteSetTheorems, TLAPS

(* TypeOK without its bound on the counts, which needs a count of its own.  *)
Typed ==
    /\ honours \in BOOLEAN /\ patient \in BOOLEAN
    /\ case \in Case
    /\ pc \in {"setup", "download", "count", "shutdown", "stopping", "validate",
               "passed", "failed"}
    /\ tried \in 0..Tries /\ waiting \in BOOLEAN
    /\ outcome \in [Case -> Outcome]
    /\ counted \in [Case -> Nat]
    /\ requests \in [Case -> SUBSET Attempt]
    /\ current \in Case
    /\ loop \in [Case -> {"unborn", "starting", "serving", "stopped"}]
    /\ stop \in [Case -> BOOLEAN] /\ down \in [Case -> BOOLEAN]
    /\ conn \in [Attempt -> {"none", "queued", "handler", "logged", "answered", "reset"}]

(* The main thread's place: the list bound, the cases behind it, the        *)
(* connections opened so far.                                               *)
Place ==
    /\ pc # "setup" => current = case
    /\ waiting => pc = "download" /\ tried # 0
    /\ case = 2 => Valid(1)
    /\ pc = "passed" => case = 2 /\ Valid(2)
    /\ outcome[1] = "returned" => \E a \in Attempt : a[1] = 1 /\ conn[a] = "answered"

Opened ==
    \A a \in Attempt :
        conn[a] # "none" =>
            a[1] < case \/ (a[1] = case /\ pc # "setup" /\ a[2] <= tried)

(* A patient fetcher makes one attempt per case, and has its answer before  *)
(* the case is over; so no handler is left to log into the other list.      *)
OneAttempt ==
    patient =>
        /\ pc = "download" /\ ~waiting => tried = 0
        /\ \A a \in Attempt : a[1] = case /\ conn[a] # "none" => a[2] = 1 /\ tried = 1

Settled ==
    patient => \A a \in Attempt :
        a[1] < case \/ (a[1] = case /\ pc \notin {"setup", "download"})
            => conn[a] \in {"none", "answered"}

Logged ==
    patient =>
        /\ \A a \in Attempt : conn[a] \in {"logged", "answered"} => a \in requests[a[1]]
        /\ \A c \in Case : \A a \in requests[c] :
               a[1] = c /\ conn[a] \in {"logged", "answered"}

(* A count of 0 in the second case means no connection.                     *)
Offline ==
    patient /\ case = 2 /\ pc \in {"shutdown", "stopping", "validate", "passed"}
        /\ counted[2] = 0
    => \A a \in Attempt : a[1] = 2 => conn[a] = "none"

(* What a fetcher that honours BB_NO_NETWORK does.                          *)
Honoured ==
    honours =>
        /\ \A a \in Attempt : a[1] = 2 => conn[a] = "none"
        /\ case = 2 => ~waiting

Right ==
    patient /\ honours =>
        /\ pc \notin {"setup", "download"} => outcome[case] = Expected[case]
        /\ pc \in {"shutdown", "stopping", "validate"} => counted[case] = 2 - case
        /\ pc # "failed"

IInv == Typed /\ Place /\ Opened /\ OneAttempt /\ Settled /\ Logged /\ Offline
        /\ Honoured /\ Right

-----------------------------------------------------------------------------
LEMMA AttemptPair ==
    /\ \A a \in Attempt : a = <<a[1], a[2]>> /\ a[1] \in Case /\ a[2] \in 1..Tries
    /\ \A c \in Case, n \in 1..Tries :
         <<c, n>> \in Attempt /\ <<c, n>>[1] = c /\ <<c, n>>[2] = n
BY DEF Attempt

LEMMA FiniteRequests ==
    ASSUME NEW S \in SUBSET Attempt
    PROVE  IsFiniteSet(S) /\ Cardinality(S) \in Nat
<1>1. IsFiniteSet(Case)
  <2>1. IsFiniteSet({1}) /\ Case = {1} \cup {2}
    BY FS_Singleton DEF Case
  <2> QED BY <2>1, FS_AddElement
<1>2. IsFiniteSet(1..Tries)
  BY FS_Interval, TriesAssumption DEF TriesAssumption
<1>3. IsFiniteSet(Attempt)
  BY <1>1, <1>2, FS_Product DEF Attempt
<1> QED BY <1>3, FS_Subset, FS_CardinalityType

LEMMA InitInv == Init => IInv
<1> SUFFICES ASSUME Init PROVE IInv
  OBVIOUS
<1> USE TriesAssumption DEF Init, TriesAssumption, Case
<1>1. Typed
  <2>1. \A S, T, x : x \in T => [s \in S |-> x] \in [S -> T]
    OBVIOUS
  <2>2. 0 \in 0..Tries /\ 0 \in Nat /\ "none" \in Outcome
    BY DEF Outcome
  <2>3. {} \in SUBSET Attempt
    OBVIOUS
  <2>4. requests \in [Case -> SUBSET Attempt] /\ counted \in [Case -> Nat]
        /\ outcome \in [Case -> Outcome]
    BY <2>1, <2>2, <2>3
  <2>5. 1 \in Case
    OBVIOUS
  <2> QED BY <2>1, <2>2, <2>4, <2>5 DEF Typed
<1>2. Place /\ Opened
  BY DEF Place, Opened
<1>3. OneAttempt /\ Settled /\ Logged
  BY DEF OneAttempt, Settled, Logged
<1>4. Offline /\ Honoured /\ Right
  BY DEF Offline, Honoured, Right
<1> QED BY <1>1, <1>2, <1>3, <1>4 DEF IInv

(* Steps of the main thread that leave connections and lists alone.         *)
LEMMA SetupInv == IInv /\ Setup => IInv'
<1> SUFFICES ASSUME IInv, Setup PROVE IInv'
  OBVIOUS
<1> USE AttemptPair, TriesAssumption DEF IInv, TriesAssumption, Setup, Rebound, Started, fetcher
<1>1. Typed'
  BY DEF Typed
<1>2. Place' /\ Opened'
  BY DEF Typed, Place, Opened, Valid
<1>3. OneAttempt' /\ Settled' /\ Logged'
  BY DEF Typed, OneAttempt, Settled, Logged, Opened, Case
<1>4. Offline' /\ Honoured' /\ Right'
  BY DEF Typed, Offline, Honoured, Right, Place
<1> QED BY <1>1, <1>2, <1>3, <1>4 DEF IInv

(* download() ends in o, with its connections settled if it was patient.    *)
LEMMA EndsInv ==
    ASSUME IInv, pc = "download", NEW o \in Outcome, Ends(o),
           case = 1 /\ o = "returned" =>
               \E a \in Attempt : a[1] = 1 /\ conn[a] = "answered",
           patient => \A a \in Attempt : a[1] = case => conn[a] \in {"none", "answered"},
           patient /\ honours => o = Expected[case]
    PROVE  IInv'
<1> USE AttemptPair, TriesAssumption DEF IInv, TriesAssumption, Ends, fetcher, server
<1>1. Typed'
  BY DEF Typed
<1>2. Place' /\ Opened'
  BY DEF Typed, Place, Opened, Valid, Case
<1>3. OneAttempt' /\ Settled' /\ Logged'
  BY DEF Typed, OneAttempt, Settled, Logged
<1>4. Offline' /\ Honoured' /\ Right'
  BY DEF Typed, Offline, Honoured, Right
<1> QED BY <1>1, <1>2, <1>3, <1>4 DEF IInv

LEMMA RefuseInv == IInv /\ Refuse => IInv'
<1> SUFFICES ASSUME IInv, Refuse PROVE IInv'
  OBVIOUS
<1>1. Ends("NetworkAccess") /\ pc = "download" /\ case = 2 /\ honours
  BY DEF Refuse
<1>2. \A a \in Attempt : a[1] = case => conn[a] = "none"
  BY <1>1 DEF IInv, Honoured
<1> QED BY <1>1, <1>2, EndsInv DEF Outcome, Expected

LEMMA ReceiveInv == IInv /\ Receive => IInv'
<1> SUFFICES ASSUME IInv, Receive PROVE IInv'
  OBVIOUS
<1> USE AttemptPair DEF IInv
<1>1. PICK o \in {"returned"} \cup (IF case = 2 THEN {"NetworkAccess"} ELSE {}) : Ends(o)
  BY DEF Receive
<1>2. pc = "download" /\ waiting /\ conn[<<case, tried>>] = "answered"
  BY DEF Receive
<1>3. tried \in 1..Tries /\ <<case, tried>> \in Attempt
  BY <1>2 DEF Typed, Place
<1>4. patient => \A a \in Attempt : a[1] = case /\ conn[a] # "none" => a = <<case, tried>>
  BY <1>2, <1>3 DEF OneAttempt, Typed
<1>5. patient => \A a \in Attempt : a[1] = case => conn[a] \in {"none", "answered"}
  BY <1>2, <1>4
<1>6. \E a \in Attempt : a[1] = case /\ conn[a] = "answered"
  BY <1>2, <1>3
<1>7. patient /\ honours => o = Expected[case]
  <2> SUFFICES ASSUME patient, honours PROVE o = Expected[case]
    OBVIOUS
  <2>1. case = 1
    BY <1>2 DEF Honoured, Typed, Case
  <2> QED BY <1>1, <2>1 DEF Expected
<1>8. o \in Outcome
  BY <1>1 DEF Outcome
<1> QED BY <1>1, <1>2, <1>5, <1>6, <1>7, <1>8, EndsInv

LEMMA ConnectInv == IInv /\ Connect => IInv'
<1> SUFFICES ASSUME IInv, Connect PROVE IInv'
  OBVIOUS
<1> USE AttemptPair, TriesAssumption
    DEF IInv, TriesAssumption, Connect, Connects, fetcher, server
<1> DEFINE b == <<case, tried + 1>>
<1>1. b \in Attempt /\ b[1] = case /\ b[2] = tried + 1
  BY DEF Typed
<1>2. /\ conn'[b] = "queued"
      /\ \A a \in Attempt : a # b => conn'[a] = conn[a]
      /\ conn' \in [Attempt -> {"none", "queued", "handler", "logged", "answered", "reset"}]
  BY <1>1 DEF Typed
<1>3. patient => tried = 0
  BY DEF OneAttempt
<1> HIDE DEF b
<1>4. conn[b] = "none"
  <2>1. case \in Nat /\ tried \in Nat
    BY DEF Typed, Case
  <2> QED BY <1>1, <2>1 DEF Opened
<1>5. Typed'
  BY <1>2 DEF Typed
<1>6. Place' /\ Opened'
  BY <1>1, <1>2 DEF Typed, Place, Opened, Valid
<1>7. OneAttempt' /\ Settled'
  <2>1. ASSUME patient, NEW a \in Attempt, a[1] = case, conn'[a] # "none"
        PROVE  a = b
    BY <1>2, <1>3, <2>1 DEF OneAttempt
  <2>2. OneAttempt'
    BY <1>1, <1>3, <2>1 DEF OneAttempt
  <2>3. ASSUME patient, NEW a \in Attempt, a[1] < case
        PROVE  conn'[a] \in {"none", "answered"}
    <3>1. a # b
      BY <1>1, <2>3 DEF Typed, Case
    <3> QED BY <1>2, <2>3, <3>1 DEF Settled
  <2> QED BY <2>2, <2>3 DEF Settled
<1>8. Logged'
  BY <1>2, <1>4 DEF Typed, Logged
<1>9. Offline' /\ Honoured' /\ Right'
  BY <1>1, <1>2 DEF Typed, Offline, Honoured, Right, Case
<1> QED BY <1>5, <1>6, <1>7, <1>8, <1>9 DEF IInv

(* Only an impatient fetcher gives up.                                      *)
LEMMA GiveUpInv == IInv /\ GiveUp => IInv'
<1> SUFFICES ASSUME IInv, GiveUp PROVE IInv'
  OBVIOUS
<1> USE AttemptPair, TriesAssumption
    DEF IInv, TriesAssumption, GiveUp, Ends, fetcher, server
<1>0. ~patient /\ UNCHANGED patient
  OBVIOUS
<1>1. Typed'
  <2>1. CASE tried < Tries
    <3>1. waiting' = FALSE
          /\ UNCHANGED <<fetcher, case, pc, tried, outcome, counted, requests, current,
                         server, conn>>
      BY <2>1
    <3> QED BY <3>1 DEF Typed
  <2>2. CASE ~(tried < Tries)
    <3>1. PICK o \in {"FetchError", "NetworkAccess"} : Ends(o)
      BY <2>2
    <3>2. o \in Outcome
      BY DEF Outcome
    <3> QED BY <3>1, <3>2 DEF Typed
  <2> QED BY <2>1, <2>2
<1>2. Place' /\ Opened'
  BY DEF Typed, Place, Opened, Valid, Case
<1>3. OneAttempt' /\ Settled' /\ Logged' /\ Offline' /\ Right'
  BY <1>0 DEF OneAttempt, Settled, Logged, Offline, Right
<1>4. Honoured'
  BY DEF Honoured, Typed
<1> QED BY <1>1, <1>2, <1>3, <1>4 DEF IInv

LEMMA CountInv == IInv /\ Count => IInv'
<1> SUFFICES ASSUME IInv, Count PROVE IInv'
  OBVIOUS
<1> USE AttemptPair, TriesAssumption DEF IInv, TriesAssumption, Count, fetcher, server
<1> DEFINE n == Cardinality(requests[current])
<1>1. n \in Nat /\ requests[current] \in SUBSET Attempt /\ current = case
  BY FiniteRequests DEF Typed, Place
<1>2. n = 0 => requests[case] = {}
  BY <1>1, FiniteRequests, FS_EmptySet
<1>3. patient /\ honours => n = 2 - case
  <2> SUFFICES ASSUME patient, honours PROVE n = 2 - case
    OBVIOUS
  <2>1. CASE case = 1
    <3>1. PICK a \in Attempt : a[1] = 1 /\ conn[a] = "answered"
      BY <2>1 DEF Right, Expected, Place
    <3>2. a \in requests[1] /\ a[2] = 1
      BY <2>1, <3>1 DEF Logged, OneAttempt
    <3>3. \A x \in requests[1] : x[1] = 1 /\ x[2] = 1
      BY <2>1 DEF Typed, Logged, OneAttempt, Case
    <3>4. requests[1] = {a}
      BY <1>1, <2>1, <3>1, <3>2, <3>3
    <3> QED BY <1>1, <2>1, <3>4, FS_Singleton
  <2>2. CASE case = 2
    <3>1. requests[2] = {}
      BY <1>1, <2>2 DEF Typed, Logged, Honoured, Case
    <3> QED BY <1>1, <2>2, <3>1, FS_EmptySet
  <2> QED BY <2>1, <2>2 DEF Typed, Case
<1> HIDE DEF n
<1>4. counted' = [counted EXCEPT ![case] = n] /\ pc' = "shutdown"
  BY DEF n
<1>5. Typed'
  BY <1>1, <1>4 DEF Typed
<1>6. Place' /\ Opened'
  BY DEF Typed, Place, Opened, Valid, Case
<1>7. OneAttempt' /\ Settled' /\ Logged'
  BY DEF OneAttempt, Settled, Logged
<1>8. Offline'
  BY <1>1, <1>2, <1>4 DEF Typed, Offline, Settled, Logged
<1>9. Honoured' /\ Right'
  BY <1>3, <1>4 DEF Typed, Honoured, Right
<1> QED BY <1>5, <1>6, <1>7, <1>8, <1>9 DEF IInv

LEMMA ShutdownInv == IInv /\ Shutdown => IInv'
<1> SUFFICES ASSUME IInv, Shutdown PROVE IInv'
  OBVIOUS
<1> USE AttemptPair DEF IInv, Shutdown, fetcher
<1>1. Typed'
  BY DEF Typed
<1>2. Place' /\ Opened'
  BY DEF Place, Opened, Valid
<1>3. OneAttempt' /\ Settled' /\ Logged'
  BY DEF OneAttempt, Settled, Logged
<1>4. Offline' /\ Honoured' /\ Right'
  BY DEF Offline, Honoured, Right
<1> QED BY <1>1, <1>2, <1>3, <1>4 DEF IInv

LEMMA CloseInv == IInv /\ Close => IInv'
<1> SUFFICES ASSUME IInv, Close PROVE IInv'
  OBVIOUS
<1> USE AttemptPair DEF IInv, Close, fetcher, server
<1>1. \A a \in Attempt : conn'[a] = conn[a] \/ (conn[a] = "queued" /\ conn'[a] = "reset"
                                                 /\ a[1] = case)
  OBVIOUS
<1>2. patient => \A a \in Attempt : conn'[a] = conn[a]
  BY <1>1 DEF Settled
<1>3. Typed'
  BY DEF Typed
<1>4. Place' /\ Opened'
  BY <1>1 DEF Place, Opened, Valid
<1>5. OneAttempt' /\ Settled' /\ Logged'
  BY <1>2 DEF OneAttempt, Settled, Logged, Typed
<1>6. Offline' /\ Right'
  BY <1>2 DEF Offline, Right
<1>7. Honoured'
  BY <1>1 DEF Honoured
<1> QED BY <1>3, <1>4, <1>5, <1>6, <1>7 DEF IInv

LEMMA ValidateInv == IInv /\ Validate => IInv'
<1> SUFFICES ASSUME IInv, Validate PROVE IInv'
  OBVIOUS
<1> USE AttemptPair DEF IInv, Validate, fetcher, server
<1>1. Typed'
  BY DEF Typed, Case
<1>2. Place' /\ Opened'
  BY DEF Typed, Place, Opened, Valid, Case
<1>3. OneAttempt' /\ Settled' /\ Logged'
  BY DEF Typed, OneAttempt, Settled, Logged, Opened, Case
<1>4. Offline' /\ Honoured'
  BY DEF Typed, Offline, Honoured, Place, Case
<1>5. Right'
  BY DEF Typed, Right, Valid, Expected, Case
<1> QED BY <1>1, <1>2, <1>3, <1>4, <1>5 DEF IInv

(* Steps of the server threads: loop, stop and down are nobody else's.      *)
LEMMA LoopInv ==
    ASSUME IInv, NEW c \in Case, Begin(c) \/ Leave(c)
    PROVE  IInv'
<1> USE DEF IInv, Begin, Leave, fetcher, main
<1>1. Typed'
  BY DEF Typed
<1>2. Place' /\ Opened'
  BY DEF Place, Opened, Valid
<1>3. OneAttempt' /\ Settled' /\ Logged'
  BY DEF OneAttempt, Settled, Logged
<1>4. Offline' /\ Honoured' /\ Right'
  BY DEF Offline, Honoured, Right
<1> QED BY <1>1, <1>2, <1>3, <1>4 DEF IInv

LEMMA AcceptInv ==
    ASSUME IInv, NEW c \in Case, Accept(c)
    PROVE  IInv'
<1> USE AttemptPair DEF IInv, fetcher, main, server
<1>1. PICK a \in Attempt : conn[a] = "queued" /\ conn' = [conn EXCEPT ![a] = "handler"]
  BY DEF Accept
<1>2. UNCHANGED <<fetcher, main, requests, current, server>>
  BY DEF Accept
<1>3. Typed'
  BY <1>1, <1>2 DEF Typed
<1>4. Place' /\ Opened'
  BY <1>1, <1>2 DEF Typed, Place, Opened, Valid
<1>5. OneAttempt' /\ Settled' /\ Logged'
  BY <1>1, <1>2 DEF Typed, OneAttempt, Settled, Logged
<1>6. Offline' /\ Honoured' /\ Right'
  BY <1>1, <1>2 DEF Typed, Offline, Honoured, Right
<1> QED BY <1>3, <1>4, <1>5, <1>6 DEF IInv

(* A patient fetcher's handler logs into the list of its own case.          *)
LEMMA LogInv ==
    ASSUME IInv, NEW a \in Attempt, Log(a)
    PROVE  IInv'
<1> USE AttemptPair DEF IInv, Log, fetcher, main, server
<1>1. patient => a[1] = case /\ current = case /\ pc = "download"
  BY DEF Typed, Opened, Settled, Place
<1>2. Typed'
  BY DEF Typed
<1>3. Place' /\ Opened'
  BY DEF Typed, Place, Opened, Valid
<1>4. OneAttempt' /\ Settled'
  BY DEF Typed, OneAttempt, Settled
<1>5. Logged'
  BY <1>1 DEF Typed, Logged
<1>6. Offline' /\ Honoured' /\ Right'
  BY DEF Typed, Offline, Honoured, Right
<1> QED BY <1>2, <1>3, <1>4, <1>5, <1>6 DEF IInv

LEMMA AnswerInv ==
    ASSUME IInv, NEW a \in Attempt, Answer(a)
    PROVE  IInv'
<1> USE AttemptPair DEF IInv, Answer, BeforeAnswer, fetcher, main, server
<1>1. Typed'
  BY DEF Typed
<1>2. Place' /\ Opened'
  BY DEF Typed, Place, Opened, Valid
<1>3. OneAttempt' /\ Settled' /\ Logged'
  BY DEF Typed, OneAttempt, Settled, Logged
<1>4. Offline' /\ Honoured' /\ Right'
  BY DEF Typed, Offline, Honoured, Right
<1> QED BY <1>1, <1>2, <1>3, <1>4 DEF IInv

LEMMA StutterInv == IInv /\ UNCHANGED vars => IInv'
<1> SUFFICES ASSUME IInv, UNCHANGED vars PROVE IInv'
  OBVIOUS
<1> QED
  BY DEF IInv, vars, fetcher, main, server, Typed, Place, Opened, OneAttempt, Settled,
         Logged, Offline, Honoured, Right, Valid

(* The inductive invariant: where the main thread is, and what a patient    *)
(* fetcher's connections and the two lists look like there.                 *)
THEOREM FixtureInvariant == Spec => []IInv
<1>1. IInv /\ Main => IInv'
  BY SetupInv, RefuseInv, ConnectInv, ReceiveInv, CountInv, ShutdownInv, CloseInv,
     ValidateInv DEF Main
<1>2. IInv /\ (\E c \in Case : Serve(c)) => IInv'
  BY LoopInv, AcceptInv DEF Serve
<1>3. IInv /\ (\E a \in Attempt : Handle(a)) => IInv'
  BY LogInv, AnswerInv DEF Handle
<1>4. IInv /\ [Next]_vars => IInv'
  BY <1>1, <1>2, <1>3, GiveUpInv, StutterInv DEF Next
<1> QED BY <1>4, InitInv, PTL DEF Spec

(* A pass means the reference case was served here and a patient fetcher    *)
(* opened no connection under BB_NO_NETWORK (run_case, validate_case).      *)
THEOREM VerdictIsEarned == Spec => []PassMeansOffline
<1>1. IInv => PassMeansOffline
  <2> SUFFICES ASSUME IInv, pc = "passed"
               PROVE  /\ \E a \in Attempt : a[1] = 1 /\ conn[a] = "answered"
                      /\ patient => \A a \in Attempt : a[1] = 2 => conn[a] = "none"
    BY DEF PassMeansOffline
  <2>1. case = 2 /\ Valid(1) /\ Valid(2)
    BY DEF IInv, Place
  <2>2. outcome[1] = "returned" /\ counted[2] = 0
    BY <2>1 DEF Valid, Expected
  <2> QED BY <2>1, <2>2 DEF IInv, Place, Offline
<1> QED BY <1>1, FixtureInvariant, PTL

(* A patient fetcher that honours BB_NO_NETWORK is never failed (main).     *)
THEOREM NeverAccused == Spec => []NoFalseAlarm
<1>1. IInv => NoFalseAlarm
  BY DEF IInv, Right, NoFalseAlarm
<1> QED BY <1>1, FixtureInvariant, PTL

(* The requests a case counts are its own (FixtureServer.requests, :82).    *)
THEOREM OwnRequests == Spec => []CountsItsOwnCase
<1>1. IInv => CountsItsOwnCase
  BY DEF IInv, Logged, CountsItsOwnCase
<1> QED BY <1>1, FixtureInvariant, PTL

-----------------------------------------------------------------------------
(* The bound on the counts: no request is in both lists, and the second     *)
(* case is only reached when the first list has one.                        *)
Lists ==
    /\ counted \in [Case -> 0..(2*Tries - 1)]
    /\ \A c \in Case : \A a \in requests[c] : conn[a] \in {"logged", "answered"}
    /\ requests[1] \cap requests[2] = {}
    /\ case = 1 => current = 1 /\ requests[2] = {}
    /\ requests[1] = {} => counted[1] = 0
    /\ case = 2 => requests[1] # {}

LEMMA AttemptCount ==
    /\ Cardinality(Attempt) = 2 * Tries
    /\ Cardinality({a \in Attempt : a[1] = 1}) <= Tries
<1> USE TriesAssumption DEF TriesAssumption
<1>1. IsFiniteSet({1}) /\ Cardinality({1}) = 1
  BY FS_Singleton
<1>2. Case = {1} \cup {2} /\ 2 \notin {1}
  BY DEF Case
<1>3. IsFiniteSet(Case) /\ Cardinality(Case) = 2
  BY <1>1, <1>2, FS_AddElement
<1>4. IsFiniteSet(1..Tries) /\ Cardinality(1..Tries) = Tries
  BY FS_Interval
<1>5. Cardinality(Attempt) = 2 * Tries
  <2>1. Cardinality(Case \X (1..Tries)) = Cardinality(Case) * Cardinality(1..Tries)
    BY <1>3, <1>4, FS_Product
  <2> QED BY <2>1, <1>3, <1>4 DEF Attempt
<1>6. {a \in Attempt : a[1] = 1} \subseteq {1} \X (1..Tries)
  BY AttemptPair
<1>7. IsFiniteSet({1} \X (1..Tries)) /\ Cardinality({1} \X (1..Tries)) = 1 * Tries
  <2>1. /\ IsFiniteSet({1} \X (1..Tries))
        /\ Cardinality({1} \X (1..Tries)) = Cardinality({1}) * Cardinality(1..Tries)
    BY <1>1, <1>4, FS_Product
  <2> QED BY <2>1, <1>1, <1>4
<1> QED BY <1>5, <1>6, <1>7, FS_Subset

LEMMA CountBound ==
    ASSUME IInv, Lists, pc = "count"
    PROVE  /\ Cardinality(requests[case]) \in 0..(2*Tries - 1)
           /\ requests[case] = {} => Cardinality(requests[case]) = 0
<1> USE TriesAssumption DEF TriesAssumption
<1>1. requests[1] \in SUBSET Attempt /\ requests[2] \in SUBSET Attempt /\ case \in {1, 2}
  BY DEF IInv, Typed, Case
<1>2. IsFiniteSet(Attempt) /\ Cardinality(requests[case]) \in Nat
  BY <1>1, FiniteRequests
<1>3. Tries \in Nat /\ Tries >= 1 /\ Cardinality(Attempt) = 2 * Tries
  BY AttemptCount
<1>4. CASE case = 1
  <2>1. \A a \in requests[1] : a[1] = 1
    BY <1>1, <1>4, AttemptPair DEF IInv, Opened, Lists, Case
  <2>2. requests[1] \subseteq {a \in Attempt : a[1] = 1}
    BY <1>1, <2>1
  <2>3. Cardinality(requests[1]) <= Cardinality({a \in Attempt : a[1] = 1})
        /\ Cardinality({a \in Attempt : a[1] = 1}) \in Nat
    BY <2>2, FiniteRequests, FS_Subset
  <2>4. Cardinality(requests[1]) <= Tries
    BY <1>2, <1>4, <2>3, AttemptCount
  <2> QED BY <1>2, <1>3, <1>4, <2>4, FS_EmptySet
<1>5. CASE case = 2
  <2>1. PICK a \in Attempt : a \in requests[1]
    BY <1>1, <1>5 DEF Lists
  <2>2. requests[2] \subseteq Attempt \ {a}
    BY <1>1, <2>1 DEF Lists
  <2>3. Cardinality(Attempt \ {a}) = 2 * Tries - 1
    BY <1>2, <1>3, FS_RemoveElement
  <2>4. Cardinality(requests[2]) <= 2 * Tries - 1
    BY <1>2, <2>2, <2>3, FS_Subset, FS_RemoveElement
  <2> QED BY <1>2, <1>3, <1>5, <2>4, FS_EmptySet
<1> QED BY <1>1, <1>4, <1>5

LEMMA ListsNext == IInv /\ Lists /\ [Next]_vars => Lists'
<1> SUFFICES ASSUME IInv, Lists, [Next]_vars PROVE Lists'
  OBVIOUS
<1> USE DEF Lists, Case
<1>0. /\ requests \in [Case -> SUBSET Attempt] /\ current \in Case /\ case \in Case
      /\ conn \in [Attempt -> {"none", "queued", "handler", "logged", "answered", "reset"}]
  BY DEF IInv, Typed
<1>1. CASE UNCHANGED <<case, counted, requests, current, conn>>
  BY <1>1
<1>2. CASE Setup
  BY <1>2 DEF Setup, Rebound, IInv, Typed
<1>3. CASE Connect
  <2> DEFINE a == <<case, tried + 1>>
  <2>1. a \in Attempt /\ a[1] = case /\ a[2] = tried + 1 /\ tried \in Nat
    BY <1>0, <1>3, AttemptPair, TriesAssumption DEF Connect, IInv, Typed, TriesAssumption
  <2>2. conn[a] = "none"
    BY <1>0, <2>1 DEF IInv, Opened
  <2> HIDE DEF a
  <2>3. conn' = [conn EXCEPT ![a] = "queued"] /\ UNCHANGED <<case, counted, requests, current>>
    BY <1>3 DEF Connect, a
  <2>4. \A c \in Case : \A b \in requests[c] : b \in Attempt /\ b # a
    BY <1>0, <2>2
  <2> QED BY <1>0, <2>3, <2>4
<1>4. CASE Count
  <2>1. current = case /\ pc = "count"
    BY <1>4 DEF Count, IInv, Place
  <2> QED BY <1>0, <1>4, <2>1, CountBound DEF Count
<1>5. CASE Close
  <2>1. UNCHANGED <<case, counted, requests, current>>
    BY <1>5 DEF Close
  <2>2. \A b \in Attempt : conn[b] \in {"logged", "answered"} => conn'[b] = conn[b]
    BY <1>5 DEF Close
  <2> QED BY <1>0, <2>1, <2>2
<1>6. CASE Validate
  <2>1. UNCHANGED <<counted, requests, current, conn>>
    BY <1>6 DEF Validate
  <2>2. case' = case \/ (case = 1 /\ case' = 2 /\ Valid(1))
    <3>1. CASE ~Valid(case)
      BY <1>6, <3>1 DEF Validate
    <3>2. CASE Valid(case)
      BY <1>6, <3>2 DEF Validate
    <3> QED BY <3>1, <3>2
  <2>3. Valid(1) => counted[1] = 1
    BY DEF Valid, Expected
  <2> QED BY <1>0, <2>1, <2>2, <2>3
<1>7. ASSUME NEW a \in Attempt, Log(a) PROVE Lists'
  <2>1. /\ conn[a] = "handler" /\ conn' = [conn EXCEPT ![a] = "logged"]
        /\ requests' = [requests EXCEPT ![current] = @ \cup {a}]
        /\ UNCHANGED <<case, counted, current>>
    BY <1>7 DEF Log, main
  <2>2. a \notin requests[1] /\ a \notin requests[2]
    BY <2>1
  <2>3. \A c \in Case : \A b \in requests'[c] : conn'[b] \in {"logged", "answered"}
    BY <1>0, <2>1
  <2> QED BY <1>0, <2>1, <2>2, <2>3
<1>8. ASSUME NEW a \in Attempt, Answer(a) PROVE Lists'
  <2>1. /\ conn' = [conn EXCEPT ![a] = "answered"]
        /\ UNCHANGED <<case, counted, requests, current>>
    BY <1>8 DEF Answer, main
  <2> QED BY <1>0, <2>1
<1>9. ASSUME NEW c \in Case, Accept(c) PROVE Lists'
  <2>1. PICK a \in Attempt : conn[a] = "queued" /\ conn' = [conn EXCEPT ![a] = "handler"]
    BY <1>9 DEF Accept
  <2>2. UNCHANGED <<case, counted, requests, current>>
    BY <1>9 DEF Accept, main
  <2>3. \A d \in Case : \A b \in requests[d] : b \in Attempt /\ b # a
    BY <1>0, <2>1
  <2> QED BY <1>0, <2>1, <2>2, <2>3
<1>10. CASE Refuse \/ Receive \/ GiveUp \/ Shutdown \/ UNCHANGED vars
           \/ \E c \in Case : Begin(c) \/ Leave(c)
  BY <1>1, <1>10 DEF Refuse, Receive, GiveUp, Ends, Shutdown, Begin, Leave, vars, main
<1> QED BY <1>2, <1>3, <1>4, <1>5, <1>6, <1>7, <1>8, <1>9, <1>10 DEF Next, Main, Serve, Handle

(* Threads, lists and connections stay well typed, and a count is at most   *)
(* what the lists can hold (run_case, baseline_network_fixture.py:75-117).  *)
THEOREM TypeCorrect == Spec => []TypeOK
<1>1. Init => Lists
  BY TriesAssumption DEF Init, Lists, Case, TriesAssumption
<1>2. IInv /\ Lists /\ [Next]_vars => Lists'
  BY ListsNext
<1>3. IInv /\ Lists => TypeOK
  BY DEF IInv, Typed, Lists, TypeOK
<1> QED BY <1>1, <1>2, <1>3, FixtureInvariant, PTL DEF Spec

-----------------------------------------------------------------------------
(* Why the fixture ends.  First, that nobody waits for what does not come:  *)
(* the server of a case is born with it, leaves only when it is told to,    *)
(* and then says so; and a fetcher that waits has a connection that some    *)
(* thread has still to serve.                                               *)
ThreadOf(c) ==
    /\ loop[c] = "unborn" <=> c > case \/ (c = case /\ pc = "setup")
    /\ down[c] <=> loop[c] = "stopped"
    /\ stop[c] <=> c = case /\ pc = "stopping" /\ ~down[c]
    /\ down[c] => c < case \/ pc \in {"stopping", "validate", "passed", "failed"}

Client ==
    pc = "download" =>
        /\ ~waiting => tried < Tries
        /\ case = 2 /\ honours => tried = 0
        /\ waiting => conn[<<case, tried>>] \in {"queued", "handler", "logged", "answered"}

Alive == Client /\ \A c \in Case : ThreadOf(c)

(* The guards of Main, Serve and Handle.                                    *)
MainCan ==
    \/ pc \in {"setup", "count", "shutdown", "validate"}
    \/ /\ pc = "download"
       /\ \/ case = 2 /\ tried = 0 /\ honours
          \/ Connects /\ ~waiting /\ tried < Tries
          \/ waiting /\ conn[<<case, tried>>] = "answered"
    \/ pc = "stopping" /\ down[case]

ServeCan(c) ==
    \/ loop[c] = "starting"
    \/ loop[c] = "serving" /\ ~stop[c] /\ \E a \in Attempt : a[1] = c /\ conn[a] = "queued"
    \/ loop[c] = "serving" /\ stop[c]

HandleCan(a) == conn[a] = "handler" \/ conn[a] \in BeforeAnswer

SomebodyCan ==
    ~Over => MainCan \/ (\E c \in Case : ServeCan(c)) \/ (\E a \in Attempt : HandleCan(a))

LEMMA AliveInit == Init => Alive
<1> SUFFICES ASSUME Init PROVE Alive
  OBVIOUS
<1>1. Client
  BY DEF Init, Client
<1>2. ASSUME NEW c \in Case PROVE ThreadOf(c)
  BY <1>2 DEF Init, ThreadOf, Case
<1> QED BY <1>1, <1>2 DEF Alive

LEMMA AliveNext == IInv /\ Alive /\ [Next]_vars => Alive'
<1> SUFFICES ASSUME IInv, Alive, [Next]_vars PROVE Alive'
  OBVIOUS
<1>0. /\ case \in {1, 2} /\ tried \in 0..Tries /\ Tries \in Nat \ {0}
      /\ loop \in [Case -> {"unborn", "starting", "serving", "stopped"}]
      /\ stop \in [Case -> BOOLEAN] /\ down \in [Case -> BOOLEAN]
      /\ conn \in [Attempt -> {"none", "queued", "handler", "logged", "answered", "reset"}]
      /\ (waiting => pc = "download" /\ tried # 0)
  BY TriesAssumption DEF IInv, Typed, Place, Case, TriesAssumption
<1>a. ASSUME UNCHANGED <<case, pc, loop, stop, down>> PROVE \A c \in Case : ThreadOf(c)'
  BY <1>a DEF Alive, ThreadOf
<1>b. ASSUME UNCHANGED <<case, pc, tried, waiting, honours>>,
             \A a \in Attempt : conn[a] \in {"queued", "handler", "logged", "answered"}
                => conn'[a] \in {"queued", "handler", "logged", "answered"}
      PROVE  Client'
  <2> SUFFICES ASSUME pc = "download", waiting
               PROVE  conn'[<<case, tried>>] \in {"queued", "handler", "logged", "answered"}
    BY <1>b DEF Alive, Client
  <2>1. <<case, tried>> \in Attempt
    BY <1>0, AttemptPair DEF Case
  <2> QED BY <1>b, <2>1 DEF Alive, Client
<1>1. CASE Setup
  <2>1. Client'
    BY <1>0, <1>1 DEF Setup, Client, fetcher
  <2>2. ASSUME NEW c \in Case PROVE ThreadOf(c)'
    BY <1>0, <1>1, <2>2 DEF Setup, Started, Alive, ThreadOf, Case
  <2> QED BY <2>1, <2>2 DEF Alive
<1>2. ASSUME NEW o, Ends(o), pc = "download" PROVE Alive'
  <2>1. Client'
    BY <1>2 DEF Ends, Client
  <2>2. ASSUME NEW c \in Case PROVE ThreadOf(c)'
    BY <1>0, <1>2, <2>2 DEF Ends, server, Alive, ThreadOf, Case
  <2> QED BY <2>1, <2>2 DEF Alive
<1>3. CASE Refuse \/ Receive
  BY <1>2, <1>3 DEF Refuse, Receive
<1>4. CASE Connect
  <2>1. /\ UNCHANGED <<case, pc, loop, stop, down, honours>> /\ waiting'
        /\ tried' = tried + 1 /\ (case = 1 \/ ~honours)
        /\ conn' = [conn EXCEPT ![<<case, tried + 1>>] = "queued"]
        /\ tried + 1 \in 1..Tries
    BY <1>0, <1>4 DEF Connect, server, fetcher, Connects
  <2>2. conn'[<<case, tried'>>] = "queued"
    <3>1. <<case, tried + 1>> \in Attempt
      BY <1>0, <2>1, AttemptPair DEF Case
    <3> QED BY <1>0, <2>1, <3>1
  <2>3. Client'
    BY <1>0, <2>1, <2>2 DEF Client
  <2> QED BY <1>a, <2>1, <2>3 DEF Alive
<1>5. CASE GiveUp
  <2>1. CASE tried < Tries
    <3>1. /\ UNCHANGED <<case, pc, tried, loop, stop, down, honours>> /\ ~waiting'
      BY <1>5, <2>1 DEF GiveUp, server, fetcher
    <3> QED BY <1>a, <2>1, <3>1 DEF Alive, Client
  <2>2. CASE ~(tried < Tries)
    BY <1>2, <1>5, <2>2 DEF GiveUp
  <2> QED BY <2>1, <2>2
<1>6. CASE Count \/ Shutdown \/ Close \/ Validate
  <2>1. Client'
    BY <1>6 DEF Count, Shutdown, Close, Validate, Client
  <2>2. ASSUME NEW c \in Case PROVE ThreadOf(c)'
    <3>1. CASE Count
      BY <1>0, <3>1 DEF Count, server, Alive, ThreadOf, Case
    <3>2. CASE Shutdown
      BY <1>0, <3>2 DEF Shutdown, Alive, ThreadOf, Case
    <3>3. CASE Close
      BY <1>0, <3>3 DEF Close, server, Alive, ThreadOf, Case
    <3>4. CASE Validate
      <4>1. UNCHANGED <<loop, stop, down>> /\ pc = "validate"
            /\ \/ case' = case /\ pc' \in {"failed", "passed"}
               \/ case = 1 /\ case' = 2 /\ pc' = "setup"
        BY <3>4 DEF Validate, server
      <4> QED BY <1>0, <4>1 DEF Alive, ThreadOf, Case
    <3> QED BY <1>6, <3>1, <3>2, <3>3, <3>4
  <2> QED BY <2>1, <2>2 DEF Alive
<1>7. ASSUME NEW d \in Case, Begin(d) PROVE Alive'
  <2>1. Client'
    BY <1>7, <1>b DEF Begin, main, fetcher
  <2>2. ASSUME NEW c \in Case PROVE ThreadOf(c)'
    BY <1>0, <1>7, <2>2 DEF Begin, main, Alive, ThreadOf
  <2> QED BY <2>1, <2>2 DEF Alive
<1>8. ASSUME NEW d \in Case, Leave(d) PROVE Alive'
  <2>1. Client'
    BY <1>8, <1>b DEF Leave, main, fetcher
  <2>2. ASSUME NEW c \in Case PROVE ThreadOf(c)'
    BY <1>0, <1>8, <2>2 DEF Leave, main, Alive, ThreadOf
  <2> QED BY <2>1, <2>2 DEF Alive
<1>9. ASSUME NEW a \in Attempt, NEW x \in {"handler", "logged", "answered"},
             conn' = [conn EXCEPT ![a] = x], UNCHANGED <<main, server, fetcher>>
      PROVE  Alive'
  <2>1. UNCHANGED <<case, pc, tried, waiting, honours, loop, stop, down>>
    BY <1>9 DEF main, server, fetcher
  <2> QED BY <1>0, <1>9, <1>a, <1>b, <2>1 DEF Alive
<1>10. ASSUME NEW c \in Case, Accept(c) PROVE Alive'
  BY <1>9, <1>10 DEF Accept
<1>11. ASSUME NEW a \in Attempt, Log(a) \/ Answer(a) PROVE Alive'
  BY <1>9, <1>11 DEF Log, Answer
<1>12. CASE UNCHANGED vars
  BY <1>12 DEF vars, main, server, fetcher, Alive, Client, ThreadOf
<1> QED BY <1>1, <1>3, <1>4, <1>5, <1>6, <1>7, <1>8, <1>10, <1>11, <1>12
        DEF Next, Main, Serve, Handle

(* Until the fixture is over one of its threads can take a step, without    *)
(* the fetcher ever giving up on an attempt: the shutdown of a server that  *)
(* has not run yet, or whose request nobody has read yet, is not missed     *)
(* (run_case, baseline_network_fixture.py:75-117).                          *)
THEOREM NoThreadIsMissed == Spec => []SomebodyCan
<1>1. IInv /\ Alive => SomebodyCan
  <2> SUFFICES ASSUME IInv, Alive, ~Over
               PROVE  MainCan \/ (\E c \in Case : ServeCan(c))
                              \/ (\E a \in Attempt : HandleCan(a))
    BY DEF SomebodyCan
  <2>0. /\ case \in Case /\ case \in {1, 2} /\ Tries \in Nat \ {0}
        /\ tried \in 0..Tries /\ (waiting => tried # 0)
        /\ pc \in {"setup", "download", "count", "shutdown", "stopping", "validate"}
        /\ loop[case] \in {"unborn", "starting", "serving", "stopped"}
        /\ ThreadOf(case)
    BY TriesAssumption DEF IInv, Typed, Place, Alive, Case, Over, TriesAssumption
  <2>1. CASE pc = "stopping"
    <3>1. down[case] \/ (stop[case] /\ loop[case] \in {"starting", "serving"})
      BY <2>0, <2>1 DEF ThreadOf
    <3> QED BY <2>0, <2>1, <3>1 DEF MainCan, ServeCan
  <2>2. CASE pc = "download" /\ waiting
    <3>1. <<case, tried>> \in Attempt /\ <<case, tried>>[1] = case
      BY <2>0, <2>2, AttemptPair
    <3>2. conn[<<case, tried>>] \in {"queued", "handler", "logged", "answered"}
      BY <2>2 DEF Alive, Client
    <3>3. ~stop[case] /\ loop[case] \in {"starting", "serving"}
      BY <2>0, <2>2 DEF ThreadOf
    <3> QED BY <2>0, <2>2, <3>1, <3>2, <3>3
            DEF MainCan, ServeCan, HandleCan, BeforeAnswer
  <2>3. CASE pc = "download" /\ ~waiting
    BY <2>0, <2>3 DEF Alive, Client, MainCan, Connects
  <2> QED BY <2>0, <2>1, <2>2, <2>3 DEF MainCan
<1> QED BY <1>1, AliveInit, AliveNext, FixtureInvariant, PTL DEF Spec

(* Second, that there is an end to the steps.  StepsLeft adds what the main *)
(* thread has before it in this case and the next, what the two server      *)
(* threads have, and what the handlers have with every attempt that is, or  *)
(* may yet be, a connection.                                                *)
CaseLeft ==
    CASE pc = "setup" -> 2 * Tries + 6
      [] pc = "download" -> 2 * (Tries - tried) + (IF waiting THEN 1 ELSE 0) + 5
      [] pc = "count" -> 4
      [] pc = "shutdown" -> 3
      [] pc = "stopping" -> 2
      [] pc = "validate" -> 1
      [] pc \in {"passed", "failed"} -> 0

MainLeft == CaseLeft + (IF case = 1 THEN 2 * Tries + 7 ELSE 0)

LoopLeft(c) ==
    CASE loop[c] = "unborn" -> 3
      [] loop[c] = "starting" -> 2
      [] loop[c] = "serving" -> 1
      [] loop[c] = "stopped" -> 0

Unopened == {a \in Attempt : conn[a] = "none"}
Unserved == {a \in Attempt : conn[a] \in {"none", "queued"}}
Unlogged == {a \in Attempt : conn[a] \in {"none", "queued", "handler"}}
Unanswered == {a \in Attempt : conn[a] \in {"none", "queued", "handler", "logged"}}

ConnLeft == Cardinality(Unopened) + Cardinality(Unserved) + Cardinality(Unlogged)
                + Cardinality(Unanswered)

StepsLeft == MainLeft + LoopLeft(1) + LoopLeft(2) + ConnLeft

FixtureIsBounded == StepsLeft \in 0..(12 * Tries + 19)

FixtureCountsDown == [][StepsLeft' < StepsLeft]_vars

LEMMA Shrinks ==
    ASSUME NEW S \in SUBSET Attempt, NEW T \in SUBSET S
    PROVE  /\ Cardinality(S) \in Nat /\ Cardinality(T) \in Nat
           /\ Cardinality(T) <= Cardinality(S)
           /\ T # S => Cardinality(T) < Cardinality(S)
<1>1. IsFiniteSet(S) /\ Cardinality(S) \in Nat /\ Cardinality(T) \in Nat
  BY FiniteRequests
<1> QED BY <1>1, FS_Subset

LEMMA ConnType == ConnLeft \in Nat
<1>1. /\ Unopened \in SUBSET Attempt /\ Unserved \in SUBSET Attempt
      /\ Unlogged \in SUBSET Attempt /\ Unanswered \in SUBSET Attempt
  BY DEF Unopened, Unserved, Unlogged, Unanswered
<1>2. /\ Cardinality(Unopened) \in Nat /\ Cardinality(Unserved) \in Nat
      /\ Cardinality(Unlogged) \in Nat /\ Cardinality(Unanswered) \in Nat
  BY <1>1, FiniteRequests
<1> QED BY <1>2 DEF ConnLeft

Parts ==
    /\ CaseLeft \in Nat /\ MainLeft \in Nat /\ ConnLeft \in Nat
    /\ LoopLeft(1) \in Nat /\ LoopLeft(2) \in Nat /\ StepsLeft \in Nat

LEMMA PartsType == IInv => Parts
<1> SUFFICES ASSUME IInv PROVE Parts
  OBVIOUS
<1>0. /\ tried \in 0..Tries /\ Tries \in Nat /\ waiting \in BOOLEAN
      /\ pc \in {"setup", "download", "count", "shutdown", "stopping", "validate",
                 "passed", "failed"}
      /\ loop[1] \in {"unborn", "starting", "serving", "stopped"}
      /\ loop[2] \in {"unborn", "starting", "serving", "stopped"}
  BY TriesAssumption DEF IInv, Typed, Case, TriesAssumption
<1>1. CaseLeft \in Nat
  <2>1. CASE pc = "setup"
    BY <1>0, <2>1 DEF CaseLeft
  <2>2. CASE pc = "download"
    <3>1. CaseLeft = 2 * (Tries - tried) + (IF waiting THEN 1 ELSE 0) + 5
      BY <2>2 DEF CaseLeft
    <3> QED BY <1>0, <3>1
  <2>3. CASE pc \in {"count", "shutdown", "stopping", "validate", "passed", "failed"}
    BY <2>3 DEF CaseLeft
  <2> QED BY <1>0, <2>1, <2>2, <2>3
<1>2. MainLeft \in Nat
  BY <1>0, <1>1 DEF MainLeft
<1>3. LoopLeft(1) \in Nat /\ LoopLeft(2) \in Nat
  BY <1>0 DEF LoopLeft
<1> QED BY <1>1, <1>2, <1>3, ConnType DEF Parts, StepsLeft

(* The connections of a step that changes none of them, or only moves some  *)
(* of them on.                                                              *)
LEMMA ConnKept ==
    ASSUME conn' = conn PROVE ConnLeft' = ConnLeft
  BY DEF ConnLeft, Unopened, Unserved, Unlogged, Unanswered

LEMMA ConnMoves ==
    ASSUME NEW a \in Attempt,
           conn \in [Attempt -> {"none", "queued", "handler", "logged", "answered", "reset"}],
           \/ conn[a] = "none" /\ conn' = [conn EXCEPT ![a] = "queued"]
           \/ conn[a] = "queued" /\ conn' = [conn EXCEPT ![a] = "handler"]
           \/ conn[a] = "handler" /\ conn' = [conn EXCEPT ![a] = "logged"]
           \/ conn[a] = "logged" /\ conn' = [conn EXCEPT ![a] = "answered"]
    PROVE  ConnLeft' < ConnLeft
<1>1. /\ Unopened \in SUBSET Attempt /\ Unserved \in SUBSET Attempt
      /\ Unlogged \in SUBSET Attempt /\ Unanswered \in SUBSET Attempt
  BY DEF Unopened, Unserved, Unlogged, Unanswered
<1>2. /\ Unopened' \subseteq Unopened /\ Unserved' \subseteq Unserved
      /\ Unlogged' \subseteq Unlogged /\ Unanswered' \subseteq Unanswered
  BY DEF Unopened, Unserved, Unlogged, Unanswered
<1>3. \/ Unopened' # Unopened \/ Unserved' # Unserved
      \/ Unlogged' # Unlogged \/ Unanswered' # Unanswered
  <2>1. CASE conn[a] = "none" /\ conn' = [conn EXCEPT ![a] = "queued"]
    <3>1. a \in Unopened /\ a \notin Unopened'
      BY <2>1 DEF Unopened
    <3> QED BY <3>1
  <2>2. CASE conn[a] = "queued" /\ conn' = [conn EXCEPT ![a] = "handler"]
    <3>1. a \in Unserved /\ a \notin Unserved'
      BY <2>2 DEF Unserved
    <3> QED BY <3>1
  <2>3. CASE conn[a] = "handler" /\ conn' = [conn EXCEPT ![a] = "logged"]
    <3>1. a \in Unlogged /\ a \notin Unlogged'
      BY <2>3 DEF Unlogged
    <3> QED BY <3>1
  <2>4. CASE conn[a] = "logged" /\ conn' = [conn EXCEPT ![a] = "answered"]
    <3>1. a \in Unanswered /\ a \notin Unanswered'
      BY <2>4 DEF Unanswered
    <3> QED BY <3>1
  <2> QED BY <2>1, <2>2, <2>3, <2>4
<1>4. /\ Cardinality(Unopened) \in Nat /\ Cardinality(Unopened') \in Nat
      /\ Cardinality(Unopened') <= Cardinality(Unopened)
      /\ Unopened' # Unopened => Cardinality(Unopened') < Cardinality(Unopened)
  BY <1>1, <1>2, Shrinks
<1>5. /\ Cardinality(Unserved) \in Nat /\ Cardinality(Unserved') \in Nat
      /\ Cardinality(Unserved') <= Cardinality(Unserved)
      /\ Unserved' # Unserved => Cardinality(Unserved') < Cardinality(Unserved)
  BY <1>1, <1>2, Shrinks
<1>6. /\ Cardinality(Unlogged) \in Nat /\ Cardinality(Unlogged') \in Nat
      /\ Cardinality(Unlogged') <= Cardinality(Unlogged)
      /\ Unlogged' # Unlogged => Cardinality(Unlogged') < Cardinality(Unlogged)
  BY <1>1, <1>2, Shrinks
<1>7. /\ Cardinality(Unanswered) \in Nat /\ Cardinality(Unanswered') \in Nat
      /\ Cardinality(Unanswered') <= Cardinality(Unanswered)
      /\ Unanswered' # Unanswered => Cardinality(Unanswered') < Cardinality(Unanswered)
  BY <1>1, <1>2, Shrinks
<1> QED BY <1>3, <1>4, <1>5, <1>6, <1>7 DEF ConnLeft

(* server_close() resets what is in the backlog.                            *)
LEMMA ConnReset ==
    ASSUME Close PROVE ConnLeft' <= ConnLeft
<1>1. /\ Unopened \in SUBSET Attempt /\ Unserved \in SUBSET Attempt
      /\ Unlogged \in SUBSET Attempt /\ Unanswered \in SUBSET Attempt
  BY DEF Unopened, Unserved, Unlogged, Unanswered
<1>2. /\ Unopened' \subseteq Unopened /\ Unserved' \subseteq Unserved
      /\ Unlogged' \subseteq Unlogged /\ Unanswered' \subseteq Unanswered
  BY DEF Close, Unopened, Unserved, Unlogged, Unanswered
<1>3. /\ Cardinality(Unopened) \in Nat /\ Cardinality(Unopened') \in Nat
      /\ Cardinality(Unopened') <= Cardinality(Unopened)
  BY <1>1, <1>2, Shrinks
<1>4. /\ Cardinality(Unserved) \in Nat /\ Cardinality(Unserved') \in Nat
      /\ Cardinality(Unserved') <= Cardinality(Unserved)
  BY <1>1, <1>2, Shrinks
<1>5. /\ Cardinality(Unlogged) \in Nat /\ Cardinality(Unlogged') \in Nat
      /\ Cardinality(Unlogged') <= Cardinality(Unlogged)
  BY <1>1, <1>2, Shrinks
<1>6. /\ Cardinality(Unanswered) \in Nat /\ Cardinality(Unanswered') \in Nat
      /\ Cardinality(Unanswered') <= Cardinality(Unanswered)
  BY <1>1, <1>2, Shrinks
<1> QED BY <1>3, <1>4, <1>5, <1>6 DEF ConnLeft

(* The three parts of the count, one of which a step makes smaller.         *)
LEMMA CountStep ==
    ASSUME IInv, Alive, Parts, Parts', [Next]_vars
    PROVE  UNCHANGED vars \/ StepsLeft' < StepsLeft
<1>0. /\ case \in {1, 2} /\ tried \in 0..Tries /\ Tries \in Nat \ {0}
      /\ loop \in [Case -> {"unborn", "starting", "serving", "stopped"}]
      /\ conn \in [Attempt -> {"none", "queued", "handler", "logged", "answered", "reset"}]
      /\ 1 \in Case /\ 2 \in Case
  BY TriesAssumption DEF IInv, Typed, Case, TriesAssumption
<1>1. /\ CaseLeft \in Nat /\ CaseLeft' \in Nat /\ MainLeft \in Nat /\ MainLeft' \in Nat
      /\ ConnLeft \in Nat /\ ConnLeft' \in Nat
      /\ LoopLeft(1) \in Nat /\ LoopLeft(1)' \in Nat
      /\ LoopLeft(2) \in Nat /\ LoopLeft(2)' \in Nat
  BY DEF Parts
<1>m. ASSUME UNCHANGED main PROVE MainLeft' = MainLeft
  BY <1>m DEF main, MainLeft, CaseLeft
<1>l. ASSUME UNCHANGED loop PROVE LoopLeft(1)' = LoopLeft(1) /\ LoopLeft(2)' = LoopLeft(2)
  BY <1>l DEF LoopLeft
<1>a. ASSUME MainLeft' < MainLeft, UNCHANGED loop, ConnLeft' <= ConnLeft
      PROVE  StepsLeft' < StepsLeft
  BY <1>1, <1>l, <1>a DEF StepsLeft
<1>b. ASSUME UNCHANGED <<main, conn>>, NEW c \in Case, LoopLeft(c)' < LoopLeft(c),
             \A d \in Case \ {c} : loop'[d] = loop[d]
      PROVE  StepsLeft' < StepsLeft
  <2>1. MainLeft' = MainLeft /\ ConnLeft' = ConnLeft
    BY <1>b, <1>m, ConnKept
  <2>2. \A d \in Case \ {c} : LoopLeft(d)' = LoopLeft(d)
    BY <1>b DEF LoopLeft
  <2>3. CASE c = 1
    <3>1. LoopLeft(1)' < LoopLeft(1) /\ LoopLeft(2)' = LoopLeft(2)
      BY <1>0, <1>b, <2>2, <2>3
    <3> QED BY <1>1, <2>1, <3>1 DEF StepsLeft
  <2>4. CASE c = 2
    <3>1. LoopLeft(2)' < LoopLeft(2) /\ LoopLeft(1)' = LoopLeft(1)
      BY <1>0, <1>b, <2>2, <2>4
    <3> QED BY <1>1, <2>1, <3>1 DEF StepsLeft
  <2> QED BY <2>3, <2>4 DEF Case
<1>c. ASSUME UNCHANGED <<main, server>>, ConnLeft' < ConnLeft PROVE StepsLeft' < StepsLeft
  <2>1. UNCHANGED loop
    BY <1>c DEF server
  <2> QED BY <1>1, <1>m, <1>l, <1>c, <2>1 DEF StepsLeft
<1>d. ASSUME case' = case, CaseLeft' < CaseLeft PROVE MainLeft' < MainLeft
  <2>1. MainLeft = CaseLeft + (IF case = 1 THEN 2 * Tries + 7 ELSE 0)
        /\ MainLeft' = CaseLeft' + (IF case = 1 THEN 2 * Tries + 7 ELSE 0)
    BY <1>d DEF MainLeft
  <2>2. PICK rest \in Nat : MainLeft = CaseLeft + rest /\ MainLeft' = CaseLeft' + rest
    BY <1>0, <2>1
  <2>3. \A m, n, r \in Nat : m < n => m + r < n + r
    OBVIOUS
  <2>4. CaseLeft' + rest < CaseLeft + rest
    BY <1>1, <1>d, <2>3
  <2> QED BY <2>2, <2>4
<1>2. CASE Setup
  <2>1. LoopLeft(case)' < LoopLeft(case) /\ \A d \in Case \ {case} : loop'[d] = loop[d]
    <3>1. loop[case] = "unborn" /\ loop'[case] = "starting"
      BY <1>0, <1>2 DEF Setup, Started, Alive, ThreadOf, Case
    <3>2. \A d \in Case \ {case} : loop'[d] = loop[d]
      BY <1>0, <1>2 DEF Setup
    <3>3. LoopLeft(case) = 3 /\ LoopLeft(case)' = 2
      <4>1. case' = case
        BY <1>2 DEF Setup
      <4> QED BY <3>1, <4>1 DEF LoopLeft
    <3> QED BY <3>2, <3>3
  <2>2. LoopLeft(1)' <= LoopLeft(1) /\ LoopLeft(2)' <= LoopLeft(2)
    <3>1. \A d \in Case : loop'[d] = loop[d] \/ (loop[d] = "unborn" /\ loop'[d] = "starting")
      BY <1>0, <1>2 DEF Setup, Started, Alive, ThreadOf, Case
    <3>2. \A d \in Case : LoopLeft(d)' = LoopLeft(d) \/ (LoopLeft(d) = 3 /\ LoopLeft(d)' = 2)
      BY <3>1 DEF LoopLeft
    <3> QED BY <1>0, <1>1, <3>2
  <2>3. MainLeft' < MainLeft
    <3>1. CaseLeft = 2 * Tries + 6
      BY <1>2 DEF Setup, CaseLeft
    <3>2. CaseLeft' = 2 * Tries + (IF waiting THEN 1 ELSE 0) + 5 /\ ~waiting
      BY <1>0, <1>2 DEF Setup, CaseLeft, IInv, Place
    <3> QED BY <1>0, <1>2, <1>d, <3>1, <3>2 DEF Setup
  <2>4. ConnLeft' = ConnLeft
    BY <1>2, ConnKept DEF Setup
  <2> QED BY <1>1, <2>2, <2>3, <2>4 DEF StepsLeft
<1>3. ASSUME NEW o, Ends(o), pc = "download" PROVE StepsLeft' < StepsLeft
  <2>1. CaseLeft' = 4 /\ CaseLeft >= 5 /\ case' = case
    <3>1. CaseLeft' = 4 /\ case' = case
      BY <1>3 DEF Ends, CaseLeft
    <3>2. CaseLeft = 2 * (Tries - tried) + (IF waiting THEN 1 ELSE 0) + 5
      BY <1>3 DEF CaseLeft
    <3> QED BY <1>0, <3>1, <3>2
  <2>2. UNCHANGED <<loop, conn>>
    BY <1>3 DEF Ends, server
  <2> QED BY <1>1, <1>a, <1>d, <2>1, <2>2, ConnKept
<1>4. CASE Refuse \/ Receive
  BY <1>3, <1>4 DEF Refuse, Receive
<1>5. CASE Connect
  <2> DEFINE a == <<case, tried + 1>>
  <2>1. a \in Attempt /\ a[1] = case /\ a[2] = tried + 1
    BY <1>0, <1>5, AttemptPair DEF Connect, Case
  <2>2. conn[a] = "none"
    BY <1>0, <2>1 DEF IInv, Opened
  <2>3. conn' = [conn EXCEPT ![a] = "queued"] /\ UNCHANGED <<case, loop>>
    BY <1>5 DEF Connect, server
  <2> HIDE DEF a
  <2>4. ConnLeft' < ConnLeft
    BY <1>0, <2>1, <2>2, <2>3, ConnMoves
  <2>5. CaseLeft' < CaseLeft
    <3>1. CaseLeft = 2 * (Tries - tried) + 5 /\ CaseLeft' = 2 * (Tries - (tried + 1)) + 1 + 5
      BY <1>0, <1>5 DEF Connect, CaseLeft
    <3> QED BY <1>0, <3>1
  <2> QED BY <1>1, <1>a, <1>d, <2>3, <2>4, <2>5
<1>6. CASE GiveUp
  <2>1. CASE tried < Tries
    <3>1. CaseLeft = 2 * (Tries - tried) + 1 + 5 /\ CaseLeft' = 2 * (Tries - tried) + 0 + 5
      BY <1>0, <1>6, <2>1 DEF GiveUp, CaseLeft
    <3>2. UNCHANGED <<case, loop, conn>>
      BY <1>6, <2>1 DEF GiveUp, server
    <3> QED BY <1>0, <1>1, <1>a, <1>d, <3>1, <3>2, ConnKept
  <2>2. CASE ~(tried < Tries)
    BY <1>3, <1>6, <2>2 DEF GiveUp
  <2> QED BY <2>1, <2>2
<1>7. CASE Count \/ Shutdown \/ Close
  <2>1. UNCHANGED <<case, loop>> /\ CaseLeft' < CaseLeft
    <3>1. CASE Count
      BY <3>1 DEF Count, CaseLeft, server
    <3>2. CASE Shutdown
      BY <3>2 DEF Shutdown, CaseLeft
    <3>3. CASE Close
      BY <3>3 DEF Close, CaseLeft, server
    <3> QED BY <1>7, <3>1, <3>2, <3>3
  <2>2. ConnLeft' <= ConnLeft
    <3>1. CASE Count \/ Shutdown
      BY <1>1, <3>1, ConnKept DEF Count, Shutdown
    <3> QED BY <1>7, <3>1, ConnReset
  <2> QED BY <1>a, <1>d, <2>1, <2>2
<1>8. CASE Validate
  <2>1. UNCHANGED <<loop, conn>> /\ CaseLeft = 1
    BY <1>8 DEF Validate, server, CaseLeft
  <2>2. MainLeft' < MainLeft
    <3>1. CASE case' = case /\ pc' \in {"failed", "passed"}
      <4>1. CaseLeft' = 0
        BY <3>1 DEF CaseLeft
      <4> QED BY <1>d, <2>1, <3>1, <4>1
    <3>2. CASE case = 1 /\ case' = 2 /\ pc' = "setup"
      <4>1. CaseLeft' = 2 * Tries + 6
        BY <3>2 DEF CaseLeft
      <4> QED BY <1>0, <2>1, <3>2, <4>1 DEF MainLeft
    <3> QED BY <1>8, <3>1, <3>2 DEF Validate
  <2> QED BY <1>1, <1>a, <2>1, <2>2, ConnKept
<1>9. ASSUME NEW c \in Case, Begin(c) \/ Leave(c) PROVE StepsLeft' < StepsLeft
  <2>1. UNCHANGED <<main, conn>> /\ \A d \in Case \ {c} : loop'[d] = loop[d]
    BY <1>0, <1>9 DEF Begin, Leave
  <2>2. LoopLeft(c)' < LoopLeft(c)
    <3>1. \/ loop[c] = "starting" /\ loop'[c] = "serving"
          \/ loop[c] = "serving" /\ loop'[c] = "stopped"
      BY <1>0, <1>9 DEF Begin, Leave
    <3> QED BY <3>1 DEF LoopLeft
  <2> QED BY <1>b, <2>1, <2>2
<1>10. ASSUME NEW c \in Case, Accept(c) PROVE StepsLeft' < StepsLeft
  <2>1. PICK a \in Attempt : conn[a] = "queued" /\ conn' = [conn EXCEPT ![a] = "handler"]
    BY <1>10 DEF Accept
  <2> QED BY <1>0, <1>10, <1>c, <2>1, ConnMoves DEF Accept
<1>11. ASSUME NEW a \in Attempt, Log(a) \/ Answer(a) PROVE StepsLeft' < StepsLeft
  <2>1. \/ conn[a] = "handler" /\ conn' = [conn EXCEPT ![a] = "logged"]
        \/ conn[a] = "logged" /\ conn' = [conn EXCEPT ![a] = "answered"]
    BY <1>11 DEF Log, Answer, BeforeAnswer
  <2>2. ConnLeft' < ConnLeft
    BY <1>0, <2>1, ConnMoves
  <2> QED BY <1>11, <1>c, <2>2 DEF Log, Answer
<1> QED BY <1>2, <1>4, <1>5, <1>6, <1>7, <1>8, <1>9, <1>10, <1>11
        DEF Next, Main, Serve, Handle

LEMMA CountInit == Init => StepsLeft = 12 * Tries + 19
<1> SUFFICES ASSUME Init PROVE StepsLeft = 12 * Tries + 19
  OBVIOUS
<1>0. Tries \in Nat
  BY TriesAssumption DEF TriesAssumption
<1>1. MainLeft = 2 * Tries + 6 + (2 * Tries + 7) /\ LoopLeft(1) = 3 /\ LoopLeft(2) = 3
  BY <1>0 DEF Init, MainLeft, CaseLeft, LoopLeft, Case
<1>2. Unopened = Attempt /\ Unserved = Attempt /\ Unlogged = Attempt /\ Unanswered = Attempt
  BY DEF Init, Unopened, Unserved, Unlogged, Unanswered
<1>3. Cardinality(Attempt) = 2 * Tries
  BY AttemptCount
<1>4. ConnLeft = 2 * Tries + 2 * Tries + 2 * Tries + 2 * Tries
  BY <1>2, <1>3 DEF ConnLeft
<1> QED BY <1>0, <1>1, <1>4 DEF StepsLeft

(* Every step of every thread, and every attempt given up, brings the       *)
(* fixture nearer to its end, so that it has at most 12 Tries + 19 of them: *)
(* with NoThreadIsMissed, it can only stop where it has its verdict.        *)
THEOREM EveryStepCounts == Spec => []FixtureIsBounded /\ FixtureCountsDown
<1>1. Init => FixtureIsBounded
  <2>1. Tries \in Nat
    BY TriesAssumption DEF TriesAssumption
  <2> QED BY <2>1, CountInit DEF FixtureIsBounded
<1>2. IInv /\ Alive /\ Parts /\ Parts' /\ [Next]_vars => [StepsLeft' < StepsLeft]_vars
  BY CountStep
<1>3. IInv /\ Alive /\ Parts /\ Parts' /\ FixtureIsBounded /\ [Next]_vars => FixtureIsBounded'
  <2> SUFFICES ASSUME IInv, Alive, Parts, Parts', FixtureIsBounded, [Next]_vars
               PROVE  FixtureIsBounded'
    OBVIOUS
  <2>1. StepsLeft' \in Nat /\ Tries \in Nat
    BY TriesAssumption DEF Parts, TriesAssumption
  <2>2. CASE UNCHANGED vars
    <3>1. StepsLeft' = StepsLeft
      BY <2>2 DEF vars, main, server, StepsLeft, MainLeft, CaseLeft, LoopLeft, ConnLeft,
         Unopened, Unserved, Unlogged, Unanswered
    <3> QED BY <3>1 DEF FixtureIsBounded
  <2>3. CASE StepsLeft' < StepsLeft
    BY <2>1, <2>3 DEF FixtureIsBounded
  <2> QED BY <2>2, <2>3, CountStep
<1> QED BY <1>1, <1>2, <1>3, AliveInit, AliveNext, PartsType, FixtureInvariant, PTL
        DEF Spec, FixtureCountsDown
=============================================================================
