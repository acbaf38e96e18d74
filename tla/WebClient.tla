----------------------------- MODULE WebClient -----------------------------
(***************************************************************************)
(* A page of the web client (packages/web-ui/src/App.vue and its stores)   *)
(* and the server it shows: requests over HTTP, which are answered in any  *)
(* order, and sockets over which the server tells of runs and updates.     *)
(*                                                                         *)
(* The server's graph is its revision, of which AnalysisEngine.tla shows   *)
(* (RevisionExact) that it counts every change; while a run builds it, it  *)
(* has none.  What the page fetches after the graph, the overlays and      *)
(* three counts, is left out.                                              *)
(***************************************************************************)
EXTENDS Naturals, Sequences, FiniteSets

S == INSTANCE SequencesExt

CONSTANTS
    MaxRuns, MaxUpdates,             \* bounds of the model: the server,
    MaxFaults, MaxLogins, \* the network, the user,
    MaxRequests, MaxSockets          \* and the page

ASSUME ClientAssumption ==
    /\ MaxRuns \in Nat /\ MaxUpdates \in Nat /\ MaxFaults \in Nat /\ MaxLogins \in Nat
    /\ MaxRequests \in Nat /\ MaxSockets \in Nat /\ MaxSockets > MaxLogins

VARIABLES
    rev, phase,      \* the engine: the revision of its graph, runAnalysis()
    runs,            \* how many runs were begun, for the bound
    valid,           \* whether the server accepts the token of the page
    link, inbox,     \* each socket of the page, and what is on its way there
    pending,         \* how many requests of each kind and state are under way
    ws,              \* the last socket opened
    status, timers,  \* wsStatus, the timers set by onclose
    analyzing,
    loading,
    shown,           \* the revision of graphData
    authRequired,
    missed,          \* history: what the page cannot know
    inits, faults    \* calls of initApp(), and how much of the bound is used

engineVars  == <<rev, phase, runs>>
netVars     == <<link, inbox, pending, faults>>
storeVars   == <<loading, shown>>
sessionVars == <<valid, authRequired, inits>>
vars == <<engineVars, netVars, storeVars, sessionVars, ws, status, timers, analyzing,
          missed>>

Socket   == 1..MaxSockets
None     == 0
Revision == 1..(1 + MaxRuns + MaxUpdates)
Message  == {"started", "complete", "update"}

(* How far a request has got, and of which revision the answer is.         *)
Request ==
    [what : {"init", "graph", "analyze"},
     at   : {"sent", "running", "answered", "refused"},
     of   : Revision \cup {None}]

ClientTypeOK ==
    /\ rev \in Revision
    /\ phase \in {"idle", "listing", "parsing"}
    /\ runs \in 0..MaxRuns
    /\ valid \in BOOLEAN
    /\ link \in [Socket -> {"none", "connecting", "open", "broken", "closed"}]
    /\ inbox \in [Socket -> Seq(Message)]
    /\ \A s \in Socket : inbox[s] # <<>> => link[s] = "open"
    /\ DOMAIN pending \subseteq Request
    /\ \A r \in DOMAIN pending : pending[r] \in Nat \ {0}
    /\ ws \in Socket \cup {None}
    /\ status \in {"disconnected", "connecting", "connected"}
    /\ timers \in 0..1
    /\ analyzing \in BOOLEAN
    /\ loading \in BOOLEAN
    /\ shown \in Revision \cup {None}
    /\ authRequired \in BOOLEAN
    /\ missed \subseteq {"graph", "end"}
    /\ inits \in 0..(MaxLogins + 1)
    /\ faults \in 0..MaxFaults

Sent(what) == [what |-> what, at |-> "sent", of |-> None]

Count(bag, r) == IF r \in DOMAIN bag THEN bag[r] ELSE 0

Add(bag, r) == [q \in DOMAIN bag \cup {r} |-> IF q = r THEN Count(bag, r) + 1 ELSE bag[q]]

Take(bag, r) ==
    [q \in DOMAIN bag \ (IF bag[r] = 1 THEN {r} ELSE {}) |->
        IF q = r THEN bag[r] - 1 ELSE bag[q]]

Requests == S!FoldFunctionOnSet(+, 0, pending, DOMAIN pending)

Init ==
    /\ rev = 1
    /\ phase = "idle"
    /\ runs = 0
    /\ valid \in BOOLEAN
    /\ link = [s \in Socket |-> "none"]
    /\ inbox = [s \in Socket |-> <<>>]
    /\ pending = IF valid THEN [r \in {Sent("init")} |-> 1] ELSE <<>>
    /\ ws = None
    /\ status = "disconnected"
    /\ timers = 0
    /\ analyzing = FALSE
    /\ loading = valid
    /\ shown = None
    /\ authRequired = ~valid
    /\ missed = {"graph"}
    /\ inits = IF valid THEN 1 ELSE 0
    /\ faults = 0
---------------------------------------------------------------------------
(* The server.                                                             *)

Listening == {s \in Socket : link[s] = "open"}

(* What the page does not learn if the message does not arrive.            *)
Says(m) ==
    CASE m = "started"  -> {}
      [] m = "update"   -> {"graph"}
      [] m = "complete" -> {"graph", "end"}

Broadcast(m) ==
    /\ inbox' = [s \in Socket |-> IF s \in Listening THEN Append(inbox[s], m) ELSE inbox[s]]
    /\ missed' = IF Listening = {} THEN missed \cup Says(m) ELSE missed

Pages == <<sessionVars, storeVars, link, faults, ws, status, timers, analyzing>>

(* The new graph is empty, and nobody is told so.                          *)
Begin ==
    /\ phase = "idle" /\ runs < MaxRuns
    /\ phase' = "listing"
    /\ runs' = runs + 1
    /\ rev' = rev

(* POST /api/analyze of another page.                                      *)
BeginRun ==
    /\ Begin
    /\ UNCHANGED <<Pages, inbox, pending, missed>>

FilesListed ==
    /\ phase = "listing"
    /\ phase' = "parsing"
    /\ Broadcast("started")
    /\ UNCHANGED <<Pages, rev, runs, pending>>

(* The answers to those who asked for the run.                             *)
Released ==
    LET running == [Sent("analyze") EXCEPT !.at = "running"]
        over    == [running EXCEPT !.at = "answered"] IN
    [r \in (DOMAIN pending \ {running}) \cup (IF running \in DOMAIN pending THEN {over} ELSE {})
        |-> IF r = over THEN Count(pending, over) + Count(pending, running) ELSE pending[r]]

EndRun ==
    /\ phase = "parsing"
    /\ phase' = "idle"
    /\ rev' = rev + 1
    /\ pending' = Released
    /\ Broadcast("complete")
    /\ UNCHANGED <<Pages, runs>>

(* It was cancelled, by this page or by another, or it failed.  There is   *)
(* no message for that.                                                    *)
AbortRun ==
    /\ phase # "idle"
    /\ phase' = "idle"
    /\ rev' = rev + 1
    /\ pending' = Released
    /\ missed' = missed \cup {"graph", "end"}
    /\ UNCHANGED <<Pages, runs, inbox>>

(* handleFileChange() and the handler of 'unlink'.                         *)
Updates == rev - 1 - (IF phase = "idle" THEN runs ELSE runs - 1)

Update ==
    /\ Updates < MaxUpdates
    /\ rev' = rev + 1
    /\ Broadcast("update")
    /\ UNCHANGED <<Pages, phase, runs, pending>>

(* A request arrives.  If the bound is reached the run changes nothing.    *)
Handle(r) ==
    /\ r \in DOMAIN pending /\ r.at = "sent"
    /\ \/ /\ ~valid
          /\ pending' = Add(Take(pending, r), [r EXCEPT !.at = "refused"])
          /\ UNCHANGED engineVars
       \/ /\ valid /\ r.what # "analyze"
          /\ pending' = Add(Take(pending, r), [r EXCEPT !.at = "answered", !.of = IF phase = "idle" THEN rev ELSE None])
          /\ UNCHANGED engineVars
       \/ /\ valid /\ r.what = "analyze"
          /\ \/ Begin /\ pending' = Add(Take(pending, r), [r EXCEPT !.at = "running"])
             \/ /\ phase # "idle" \/ runs = MaxRuns
                /\ pending' = Add(Take(pending, r), [r EXCEPT !.at = "answered"])
                /\ UNCHANGED engineVars
    /\ UNCHANGED <<Pages, inbox, missed>>

(* A connection is lost, with what is on its way; to send to it has no     *)
(* effect from then on.                                                    *)
Unread(s) == UNION {Says(m) : m \in S!ToSet(inbox[s])}

Break(s) ==
    /\ faults < MaxFaults
    /\ faults' = faults + 1
    /\ link[s] \in {"connecting", "open"}
    /\ \E how \in {"broken", "closed"} : link' = [link EXCEPT ![s] = how]
    /\ inbox' = [inbox EXCEPT ![s] = <<>>]
    /\ missed' = missed \cup Unread(s)
    /\ UNCHANGED <<engineVars, sessionVars, storeVars, pending, ws, status, timers, analyzing>>

Expire ==
    /\ valid /\ inits <= MaxLogins
    /\ valid' = FALSE
    /\ UNCHANGED <<engineVars, netVars, storeVars, authRequired, inits, ws, status, timers,
                   analyzing, missed>>
---------------------------------------------------------------------------
(* The page: its sockets.                                                  *)

Unused == {s \in Socket : link[s] = "none"}

ConnectWebSocket ==
    \E s \in Unused :
        /\ \A t \in Unused : s <= t
        /\ link' = [link EXCEPT ![s] = "connecting"]
        /\ ws' = s
        /\ status' = "connecting"

OnTimer ==
    /\ timers > 0
    /\ timers' = timers - 1
    /\ ConnectWebSocket
    /\ UNCHANGED <<engineVars, sessionVars, storeVars, inbox, pending, faults, analyzing, missed>>

(* The handler of /ws on the server adds the socket to the clients, or     *)
(* closes it again; the page has onopen called in both cases.              *)
OnOpen(s) ==
    /\ link[s] = "connecting"
    /\ link' = [link EXCEPT ![s] = IF valid THEN "open" ELSE "closed"]
    /\ status' = "connected"
    /\ UNCHANGED <<engineVars, sessionVars, storeVars, inbox, pending, faults, ws, timers,
                   analyzing, missed>>

(* Mutation of OnClose: only the last socket is opened again, and only if  *)
(* it was connected.                                                       *)
OnCloseOnce(s) ==
    /\ link[s] = "closed"
    /\ link' = [link EXCEPT ![s] = "none"]
    /\ status' = "disconnected"
    /\ timers' = IF s = ws /\ status = "connected" THEN 1 ELSE timers
    /\ UNCHANGED <<engineVars, sessionVars, storeVars, inbox, pending, faults, ws, analyzing, missed>>

OnClose(s) ==
    /\ link[s] = "closed"
    /\ link' = [link EXCEPT ![s] = "none"]
    /\ status' = "disconnected"
    /\ timers' = 1
    /\ UNCHANGED <<engineVars, sessionVars, storeVars, inbox, pending, faults, ws, analyzing, missed>>

(* Mutation of OnError: it opens another socket at once, and onclose still *)
(* sets the timer.                                                         *)
OnErrorReconnect(s) ==
    /\ link[s] = "broken"
    /\ \E t \in Unused :
        /\ link' = [link EXCEPT ![s] = "closed", ![t] = "connecting"]
        /\ ws' = t
    /\ status' = "connecting"
    /\ UNCHANGED <<engineVars, sessionVars, storeVars, inbox, pending, faults, timers, analyzing, missed>>

(* The socket that is closed is the last one opened, whichever had the     *)
(* error; a socket with an error is closed anyway.                         *)
OnError(s) ==
    /\ link[s] = "broken"
    /\ LET shut == {s} \cup ({ws} \cap {t \in Socket : link[t] # "none"}) IN
       /\ link' = [t \in Socket |-> IF t \in shut THEN "closed" ELSE link[t]]
       /\ inbox' = [t \in Socket |-> IF t \in shut THEN <<>> ELSE inbox[t]]
       /\ missed' = missed \cup UNION {Unread(t) : t \in shut}
    /\ UNCHANGED <<engineVars, sessionVars, storeVars, pending, faults, ws, status, timers,
                   analyzing>>

(* Mutations of OnMessage: the page fetches when the run begins; the       *)
(* progress display is left to the answer.                                 *)
OnMessageEarly(m) ==
    /\ analyzing' = IF m = "update" THEN analyzing ELSE m = "started"
    /\ IF m = "complete" THEN UNCHANGED <<pending, loading>>
       ELSE pending' = Add(pending, Sent("graph")) /\ loading' = TRUE

OnMessageSticky(m) ==
    /\ analyzing' = (analyzing \/ m = "started")
    /\ IF m = "started" THEN UNCHANGED <<pending, loading>>
       ELSE pending' = Add(pending, Sent("graph")) /\ loading' = TRUE

OnMessage(m) ==
    /\ analyzing' = IF m = "update" THEN analyzing ELSE m = "started"
    /\ IF m = "started" THEN UNCHANGED <<pending, loading>>
       ELSE pending' = Add(pending, Sent("graph")) /\ loading' = TRUE

(* A later run may have begun, whose end the page is yet to miss.          *)
StartedIn(box) == \E s \in Socket : "started" \in S!ToSet(box[s])

Deliver(s) ==
    /\ link[s] = "open" /\ inbox[s] # <<>>
    /\ Requests < MaxRequests
    /\ inbox' = [inbox EXCEPT ![s] = Tail(@)]
    /\ OnMessage(Head(inbox[s]))
    /\ missed' = IF Head(inbox[s]) = "complete" /\ ~StartedIn(inbox')
                 THEN missed \ {"end"} ELSE missed
    /\ UNCHANGED <<engineVars, sessionVars, shown, link, faults, ws, status, timers>>

---------------------------------------------------------------------------
(* The page: its requests.                                                 *)

(* What it still misses when it shows an answer.  While a run goes on its  *)
(* message is to follow; a later answer may have come before, which        *)
(* fetchGraph() does not notice.                                           *)
Missing(of) ==
    IF of = rev /\ phase = "idle" THEN missed \ {"graph"}
    ELSE IF of < shown /\ phase = "idle" THEN missed \cup {"graph"}
    ELSE missed

(* clearAuth().                                                            *)
Refused ==
    /\ valid' = FALSE
    /\ authRequired' = TRUE
    /\ UNCHANGED inits

(* initApp() goes on with the socket, after a failure too.                 *)
Fetched(r) ==
    /\ loading' = FALSE
    /\ pending' = Take(pending, r)
    /\ IF r.what = "init" THEN ConnectWebSocket ELSE UNCHANGED <<link, ws, status>>
    /\ UNCHANGED <<engineVars, inbox, timers, analyzing>>

OnGraph(r) ==
    /\ r.what \in {"init", "graph"} /\ r.at = "answered"
    /\ shown' = r.of
    /\ missed' = Missing(r.of)
    /\ Fetched(r)
    /\ UNCHANGED <<sessionVars, faults>>

(* The request fails, or the server refuses the token.                     *)
OnGraphError(r) ==
    /\ r.what \in {"init", "graph"}
    /\ \/ r.at = "refused" /\ Refused /\ UNCHANGED faults
       \/ /\ faults < MaxFaults /\ faults' = faults + 1
          /\ UNCHANGED sessionVars
    /\ missed' = missed \cup {"graph"}
    /\ Fetched(r)
    /\ UNCHANGED shown

(* triggerReanalyze(): it fetches when the run is over, or was not begun   *)
(* because one is going on.  If its own request is refused it gives up.    *)
Reanalyze ==
    /\ ~loading /\ ~analyzing /\ ~authRequired
    /\ runs < MaxRuns /\ Requests < MaxRequests
    /\ loading' = TRUE
    /\ pending' = Add(pending, Sent("analyze"))
    /\ UNCHANGED <<engineVars, sessionVars, shown, link, inbox, faults, ws, status,
                   timers, analyzing, missed>>

OnAnalyzed(r) ==
    /\ r.what = "analyze"
    /\ \/ /\ r.at = "answered"
          /\ loading' = TRUE
          /\ pending' = Add(Take(pending, r), Sent("graph"))
          /\ UNCHANGED sessionVars
       \/ /\ r.at = "refused"
          /\ loading' = FALSE
          /\ pending' = Take(pending, r)
          /\ Refused
    /\ UNCHANGED <<engineVars, shown, link, inbox, faults, ws, status, timers,
                   analyzing, missed>>

Answer(r) ==
    /\ r \in DOMAIN pending
    /\ OnGraph(r) \/ OnGraphError(r) \/ OnAnalyzed(r)

(* The button of the progress display.  The run may be aborted at any time *)
(* anyway (AbortRun).                                                      *)
CancelAnalysis ==
    /\ analyzing
    /\ analyzing' = FALSE
    /\ UNCHANGED <<engineVars, netVars, storeVars, sessionVars, ws, status, timers, missed>>

(* login(), and initApp() once more, with the sockets there are.           *)
Login ==
    /\ authRequired /\ inits <= MaxLogins
    /\ valid' = TRUE
    /\ authRequired' = FALSE
    /\ inits' = inits + 1
    /\ loading' = TRUE
    /\ pending' = Add(pending, Sent("init"))
    /\ UNCHANGED <<engineVars, shown, link, inbox, faults, ws, status, timers,
                   analyzing, missed>>

Logout ==
    /\ ~authRequired /\ inits <= MaxLogins
    /\ Refused
    /\ UNCHANGED <<engineVars, netVars, storeVars, ws, status, timers, analyzing, missed>>

Next ==
    \/ BeginRun \/ FilesListed \/ EndRun \/ AbortRun \/ Update
    \/ \E r \in DOMAIN pending : Handle(r) \/ Answer(r)
    \/ \E s \in Socket :
          \/ Break(s) \/ OnOpen(s) \/ OnClose(s) \/ OnError(s) \/ Deliver(s)
    \/ OnTimer
    \/ Reanalyze \/ CancelAnalysis
    \/ Expire \/ Login \/ Logout

Spec == Init /\ [][Next]_vars

(* Requests are handled and answered, events of sockets and timers fire,   *)
(* and runs end (RunEnds of AnalysisEngine.tla).  Nothing is asked of the  *)
(* user, the files or the network's faults.                                *)
Fairness ==
    /\ WF_vars(FilesListed)
    /\ WF_vars(EndRun \/ AbortRun)
    /\ WF_vars(\E r \in DOMAIN pending : Handle(r) \/ Answer(r))
    /\ WF_vars(\E s \in Socket : OnOpen(s))
    /\ WF_vars(\E s \in Socket : OnClose(s) \/ OnError(s))
    /\ WF_vars(OnTimer)

FairSpec == Spec /\ Fairness
---------------------------------------------------------------------------
(* Properties.                                                             *)

Settled ==
    /\ phase = "idle"
    /\ pending = <<>>
    /\ \A s \in Socket : inbox[s] = <<>>

(* A page that has missed nothing since it last showed the server's graph  *)
(* shows it again when everything under way has arrived.  What it may miss *)
(* is a message sent while it had no socket or lost with one, the abortion *)
(* of a run, an answer lost, and an answer overtaken by an earlier one: an *)
(* update that is broadcast before the change it tells of, or a run that   *)
(* ends without a fetch, is none of these.                                 *)
ShowsLatest == Settled /\ "graph" \notin missed => shown = rev

(* The progress display is only open while a run goes on or the message of *)
(* its end is on its way, unless that end was announced to nobody.         *)
ProgressEnds ==
    analyzing /\ "end" \notin missed =>
        phase = "parsing" \/ \E s \in Socket : "complete" \in S!ToSet(inbox[s])

(* Sockets do not multiply over reconnections: there are never more, with  *)
(* the ones about to be opened, than initApp() was called.                 *)
SocketsBounded ==
    /\ ClientTypeOK
    /\ Cardinality(Socket \ Unused) + timers
         + Cardinality({r \in DOMAIN pending : r.what = "init"}) <= inits

(* A page whose token is accepted is connected again and stays so, once    *)
(* connections are no longer lost ("WebSocket 연결 끊김 시 3초 후 자동     *)
(* 재연결", docs/user-stories.md:75).                                      *)
Reconnects ==
    <>[]valid => <>[](status = "connected" /\ \E s \in Socket : link[s] = "open")
===========================================================================
