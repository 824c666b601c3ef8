--------------------------- MODULE NetworkFixture ---------------------------
(***************************************************************************)
(* scripts/baseline_network_fixture.py: two cases, one with the network     *)
(* allowed and one with BB_NO_NETWORK, each with its own loopback server    *)
(* thread, a handler thread per connection and the BitBake fetcher as the   *)
(* client, in the main thread.  The verdict rests on a count of requests    *)
(* kept in a list that the handlers find through a class attribute, which   *)
(* the main thread rebinds at the start of each case.                       *)
(*                                                                         *)
(* The fetcher and Python's socketserver are not in the repository; what is *)
(* assumed of them is kept to what the fixture relies on.  A fetcher may or *)
(* may not honour BB_NO_NETWORK (finding out is what the fixture is for),   *)
(* and may or may not wait for the answer to an attempt before it goes on.  *)
(***************************************************************************)
EXTENDS Integers, FiniteSets

CONSTANT Tries   \* how many connections the fetcher makes before it gives up

ASSUME TriesAssumption == Tries \in Nat \ {0}

Case == {1, 2}   \* 1 "reference", BB_NO_NETWORK=0; 2 "mitigation", BB_NO_NETWORK=1

Expected == <<"returned", "NetworkAccess">>

Attempt == Case \X (1..Tries)

VARIABLES
    honours, patient,  \* what kind of fetcher BitBake has; never change
    case, pc,          \* the main thread
    tried, waiting,    \* the fetcher: attempts of this case, one is unanswered
    outcome, counted,  \* per case: how download() ended; server_requests
    requests,          \* per case: the list bound when the case was set up
    current,           \* the case whose list FixtureServer.requests names
    loop,              \* per case: the thread in serve_forever
    stop, down,        \* per case: __shutdown_request and __is_shut_down
    conn               \* per attempt: its connection and handler thread

fetcher == <<honours, patient>>
main == <<case, pc, tried, waiting, outcome, counted>>
server == <<loop, stop, down>>
vars == <<fetcher, main, requests, current, server, conn>>

Outcome == {"none", "returned", "NetworkAccess", "FetchError"}

TypeOK ==
    /\ honours \in BOOLEAN /\ patient \in BOOLEAN
    /\ case \in Case
    /\ pc \in {"setup", "download", "count", "shutdown", "stopping", "validate",
               "passed", "failed"}
    /\ tried \in 0..Tries /\ waiting \in BOOLEAN
    /\ outcome \in [Case -> Outcome]
    /\ counted \in [Case -> 0..(2*Tries - 1)]   \* one at least went to case 1's list
    /\ requests \in [Case -> SUBSET Attempt]
    /\ current \in Case
    /\ loop \in [Case -> {"unborn", "starting", "serving", "stopped"}]
    /\ stop \in [Case -> BOOLEAN] /\ down \in [Case -> BOOLEAN]
    /\ conn \in [Attempt -> {"none", "queued", "handler", "logged", "answered", "reset"}]

Init ==
    /\ honours \in BOOLEAN /\ patient \in BOOLEAN
    /\ case = 1 /\ pc = "setup" /\ tried = 0 /\ waiting = FALSE
    /\ outcome = [c \in Case |-> "none"] /\ counted = [c \in Case |-> 0]
    /\ requests = [c \in Case |-> {}] /\ current = 1
    /\ loop = [c \in Case |-> "unborn"]
    /\ stop = [c \in Case |-> FALSE] /\ down = [c \in Case |-> FALSE]
    /\ conn = [a \in Attempt |-> "none"]

Over == pc \in {"passed", "failed"}   \* the process is gone, daemon threads too

-----------------------------------------------------------------------------
(* run_case: a fresh list, the server socket, the thread.                   *)
Rebound_Once == current
Rebound == case

Started_Never == "unborn"
Started == "starting"

Setup ==
    /\ pc = "setup"
    /\ current' = Rebound
    /\ loop' = [loop EXCEPT ![case] = Started]
    /\ tried' = 0
    /\ pc' = "download"
    /\ UNCHANGED <<fetcher, case, waiting, outcome, counted, requests, stop, down, conn>>

(* fetcher.download().                                                      *)
Ends(o) ==
    /\ outcome' = [outcome EXCEPT ![case] = o]
    /\ waiting' = FALSE
    /\ pc' = "count"
    /\ UNCHANGED <<fetcher, case, tried, counted, requests, current, server, conn>>

Connects == case = 1 \/ ~honours

Refuse == pc = "download" /\ case = 2 /\ tried = 0 /\ honours /\ Ends("NetworkAccess")

Connect ==
    /\ pc = "download" /\ Connects /\ ~waiting /\ tried < Tries
    /\ tried' = tried + 1 /\ waiting' = TRUE
    /\ conn' = [conn EXCEPT ![<<case, tried + 1>>] = "queued"]
    /\ UNCHANGED <<fetcher, case, pc, outcome, counted, requests, current, server>>

(* The answer arrives.  A fetcher that does not honour the variable may     *)
(* still report that it refused.                                            *)
Receive ==
    /\ pc = "download" /\ waiting /\ conn[<<case, tried>>] = "answered"
    /\ \E o \in {"returned"} \cup (IF case = 2 THEN {"NetworkAccess"} ELSE {}) : Ends(o)

(* The fetcher stops waiting for an attempt, to try again or to fail; the   *)
(* connection stays where it is.                                            *)
GiveUp ==
    /\ pc = "download" /\ waiting /\ ~patient
    /\ IF tried < Tries
       THEN /\ waiting' = FALSE
            /\ UNCHANGED <<fetcher, case, pc, tried, outcome, counted, requests,
                           current, server, conn>>
       ELSE \E o \in {"FetchError"} \cup (IF case = 2 THEN {"NetworkAccess"} ELSE {}) :
                Ends(o)

(* len(FixtureServer.requests), then server.shutdown() waits for the loop.  *)
Count ==
    /\ pc = "count"
    /\ counted' = [counted EXCEPT ![case] = Cardinality(requests[current])]
    /\ pc' = "shutdown"
    /\ UNCHANGED <<fetcher, case, tried, waiting, outcome, requests, current, server, conn>>

Shutdown ==
    /\ pc = "shutdown"
    /\ stop' = [stop EXCEPT ![case] = TRUE]
    /\ pc' = "stopping"
    /\ UNCHANGED <<fetcher, case, tried, waiting, outcome, counted, requests, current,
                   loop, down, conn>>

(* The event is set; server_close() refuses what is still in the backlog.   *)
Close ==
    /\ pc = "stopping" /\ down[case]
    /\ conn' = [a \in Attempt |->
         IF a[1] = case /\ conn[a] = "queued" THEN "reset" ELSE conn[a]]
    /\ pc' = "validate"
    /\ UNCHANGED <<fetcher, case, tried, waiting, outcome, counted, requests, current,
                   server>>

(* validate_case.  The bytes match exactly when download() returned them.   *)
Valid_AnyCount(c) == outcome[c] = Expected[c]

Valid(c) ==
    /\ outcome[c] = Expected[c]
    /\ counted[c] = IF Expected[c] = "returned" THEN 1 ELSE 0

Validate ==
    /\ pc = "validate"
    /\ IF ~Valid(case) THEN pc' = "failed" /\ UNCHANGED case
       ELSE IF case = 1 THEN pc' = "setup" /\ case' = 2
       ELSE pc' = "passed" /\ UNCHANGED case
    /\ UNCHANGED <<fetcher, tried, waiting, outcome, counted, requests, current, server,
                   conn>>

-----------------------------------------------------------------------------
(* socketserver's thread in serve_forever.                                  *)
Begin(c) ==
    /\ ~Over /\ loop[c] = "starting"
    /\ loop' = [loop EXCEPT ![c] = "serving"]
    /\ down' = [down EXCEPT ![c] = FALSE]
    /\ UNCHANGED <<fetcher, main, requests, current, stop, conn>>

Accept(c) ==
    /\ ~Over /\ loop[c] = "serving" /\ ~stop[c]
    /\ \E a \in Attempt :
        /\ a[1] = c /\ conn[a] = "queued"
        /\ conn' = [conn EXCEPT ![a] = "handler"]
    /\ UNCHANGED <<fetcher, main, requests, current, server>>

Leave(c) ==
    /\ ~Over /\ loop[c] = "serving" /\ stop[c]
    /\ loop' = [loop EXCEPT ![c] = "stopped"]
    /\ stop' = [stop EXCEPT ![c] = FALSE]
    /\ down' = [down EXCEPT ![c] = TRUE]
    /\ UNCHANGED <<fetcher, main, requests, current, conn>>

(* FixtureServer.do_GET: append through the class attribute, as it is bound *)
(* now, and only then answer.                                               *)
Log(a) ==
    /\ ~Over /\ conn[a] = "handler"
    /\ requests' = [requests EXCEPT ![current] = @ \cup {a}]
    /\ conn' = [conn EXCEPT ![a] = "logged"]
    /\ UNCHANGED <<fetcher, main, current, server>>

BeforeAnswer_Unlogged == {"handler", "logged"}
BeforeAnswer == {"logged"}

Answer(a) ==
    /\ ~Over /\ conn[a] \in BeforeAnswer
    /\ conn' = [conn EXCEPT ![a] = "answered"]
    /\ UNCHANGED <<fetcher, main, requests, current, server>>

-----------------------------------------------------------------------------
Main == Setup \/ Refuse \/ Connect \/ Receive \/ Count \/ Shutdown \/ Close \/ Validate

Serve(c) == Begin(c) \/ Accept(c) \/ Leave(c)

Handle(a) == Log(a) \/ Answer(a)

Next == Main \/ GiveUp \/ (\E c \in Case : Serve(c)) \/ (\E a \in Attempt : Handle(a))

Spec == Init /\ [][Next]_vars

(* Every thread that can run does; nobody has to give up on an attempt.     *)
FairSpec ==
    /\ Spec
    /\ WF_vars(Main)
    /\ \A c \in Case : WF_vars(Serve(c))
    /\ \A a \in Attempt : WF_vars(Handle(a))

-----------------------------------------------------------------------------
(* What the fixture proves about the fetcher: if it passes, the reference   *)
(* case was really served by this server, and a fetcher that waits for its  *)
(* answers opened no connection at all under BB_NO_NETWORK, however late    *)
(* threads ran and whatever the fetcher said (run_case, validate_case).     *)
PassMeansOffline ==
    pc = "passed" =>
        /\ \E a \in Attempt : a[1] = 1 /\ conn[a] = "answered"
        /\ patient => \A a \in Attempt : a[1] = 2 => conn[a] = "none"

(* It raises no false alarm: a patient fetcher that honours the variable is *)
(* never failed, although the two cases share the class attribute (:82).    *)
NoFalseAlarm == patient /\ honours => pc # "failed"

(* The count of a case only ever holds requests of that case; between the   *)
(* rebinding of the list and the handlers of the case before, a fetcher     *)
(* that waits for its answers leaves nothing that could slip in.            *)
CountsItsOwnCase ==
    patient => \A c \in Case : \A a \in requests[c] : a[1] = c

(* The shutdown handshake cannot be missed, even when the case is over      *)
(* before its server thread has run at all: the fixture ends.               *)
FixtureEnds == <>Over
=============================================================================
