--------------------------- MODULE WebClientProofs ---------------------------
(***************************************************************************)
(* Proofs about a page of the web client (WebClient.tla) for any number of *)
(* runs, updates, faults, logins and sockets.                              *)
(*                                                                         *)
(* SocketsBounded counts the initial fetches under way once each, however  *)
(* many there are of a kind: its invariant counts them all (Tickets).      *)
(* ProgressEnds needs that the message of a run's begin is followed by the *)
(* one of its end (Announced), ShowsLatest that as long as the page has    *)
(* missed nothing, a revision it does not show is on its way to it         *)
(* (Coming) and that no answer is from the future (Known).                 *)
(***************************************************************************)
EXTENDS WebClient, FiniteSetTheorems, TLAPS

(* What covers a finite set is not smaller.                                *)
LEMMA Covers ==
  ASSUME NEW A, NEW B, NEW f \in [A -> B], \A b \in B : \E a \in A : f[a] = b, IsFiniteSet(A)
  PROVE  IsFiniteSet(B) /\ Cardinality(B) <= Cardinality(A)
<1>1. f \in Surjection(A, B)
  BY DEF Surjection
<1> QED
  BY <1>1, FS_Surjection

(* The updates the server made are within their bound.                     *)
RunsCounted ==
    /\ phase # "idle" => runs >= 1
    /\ Updates \in 0..MaxUpdates

(* The calls of initApp() that have not gone on to the socket yet.         *)
Tickets(bag) ==
    {x \in Request \X Nat : /\ x[1] \in DOMAIN bag
                            /\ x[1].what = "init"
                            /\ 1 <= x[2]
                            /\ x[2] <= bag[x[1]]}

Used == Socket \ Unused

CallsCounted ==
    /\ IsFiniteSet(Tickets(pending))
    /\ Cardinality(Used) + timers + Cardinality(Tickets(pending)) <= inits

(* No answer is of a later revision than the server's.                     *)
Known == shown <= rev /\ \A r \in DOMAIN pending : r.of <= rev

(* While no run is reading files, the end of one whose begin is on its way *)
(* follows, unless it was announced to nobody.                             *)
Ended(box) ==
    \A i \in DOMAIN box : box[i] = "started" =>
        \E j \in DOMAIN box : j > i /\ box[j] = "complete"

Announced ==
    "end" \notin missed /\ phase # "parsing" => \A s \in Socket : Ended(inbox[s])

(* If the page has missed nothing and shows another revision, a run goes   *)
(* on, or a message is on its way that makes it fetch, or it fetches.      *)
Told == \E s \in Socket : \E i \in DOMAIN inbox[s] : inbox[s][i] # "started"

Fetches(r) == r.what # "analyze" /\ (r.at \in {"sent", "refused"} \/ r.of = rev)

Coming ==
    "graph" \notin missed =>
        shown = rev \/ phase # "idle" \/ Told \/ \E r \in DOMAIN pending : Fetches(r)

(* ProgressEnds, by the positions of the message.                          *)
EndTold == \E s \in Socket : \E j \in DOMAIN inbox[s] : inbox[s][j] = "complete"

EndComes == analyzing /\ "end" \notin missed => phase = "parsing" \/ EndTold

ClientInv ==
    /\ ClientTypeOK
    /\ RunsCounted
    /\ CallsCounted
    /\ Known
    /\ Coming
    /\ Announced
    /\ EndComes
---------------------------------------------------------------------------
(* The requests under way are a bag.                                       *)

IsBag(bag) ==
    /\ DOMAIN bag \subseteq Request
    /\ \A r \in DOMAIN bag : bag[r] \in Nat \ {0}

LEMMA SentIsRequest ==
  ASSUME NEW what \in {"init", "graph", "analyze"}
  PROVE  Sent(what) \in Request /\ Sent(what).what = what /\ Sent(what).at = "sent"
         /\ Sent(what).of = None
  BY DEF Sent, Request

LEMMA AddBag ==
  ASSUME NEW bag, IsBag(bag), NEW r \in Request
  PROVE  /\ IsBag(Add(bag, r))
         /\ DOMAIN Add(bag, r) = DOMAIN bag \cup {r}
         /\ Add(bag, r)[r] = Count(bag, r) + 1
         /\ Count(bag, r) \in Nat
         /\ \A q \in DOMAIN bag : q # r => Add(bag, r)[q] = bag[q]
<1>1. Count(bag, r) \in Nat
  BY DEF Count, IsBag
<1>2. /\ DOMAIN Add(bag, r) = DOMAIN bag \cup {r}
      /\ Add(bag, r)[r] = Count(bag, r) + 1
      /\ \A q \in DOMAIN bag : q # r => Add(bag, r)[q] = bag[q]
  BY DEF Add
<1>3. IsBag(Add(bag, r))
  BY <1>1, <1>2 DEF IsBag
<1> QED
  BY <1>1, <1>2, <1>3

LEMMA TakeBag ==
  ASSUME NEW bag, IsBag(bag), NEW r \in DOMAIN bag
  PROVE  /\ IsBag(Take(bag, r))
         /\ DOMAIN Take(bag, r) = DOMAIN bag \ (IF bag[r] = 1 THEN {r} ELSE {})
         /\ bag[r] # 1 => Take(bag, r)[r] = bag[r] - 1
         /\ \A q \in DOMAIN bag : q # r => Take(bag, r)[q] = bag[q]
<1>1. /\ DOMAIN Take(bag, r) = DOMAIN bag \ (IF bag[r] = 1 THEN {r} ELSE {})
      /\ bag[r] # 1 => Take(bag, r)[r] = bag[r] - 1
      /\ \A q \in DOMAIN bag : q # r => Take(bag, r)[q] = bag[q]
  BY DEF Take
<1>2. bag[r] \in Nat \ {0}
  BY DEF IsBag
<1>3. \A q \in DOMAIN Take(bag, r) : q \in Request /\ Take(bag, r)[q] \in Nat \ {0}
  BY <1>1, <1>2 DEF IsBag
<1> QED
  BY <1>1, <1>3 DEF IsBag

(* Adding or taking a request changes the tickets by its own, if any.      *)
LEMMA AddTickets ==
  ASSUME NEW bag, IsBag(bag), IsFiniteSet(Tickets(bag)), NEW r \in Request
  PROVE  /\ IsFiniteSet(Tickets(Add(bag, r)))
         /\ Cardinality(Tickets(Add(bag, r))) =
               IF r.what = "init" THEN Cardinality(Tickets(bag)) + 1
               ELSE Cardinality(Tickets(bag))
<1> DEFINE t == <<r, Count(bag, r) + 1>>
<1>1. /\ DOMAIN Add(bag, r) = DOMAIN bag \cup {r}
      /\ Add(bag, r)[r] = Count(bag, r) + 1
      /\ Count(bag, r) \in Nat
      /\ \A q \in DOMAIN bag : q # r => Add(bag, r)[q] = bag[q]
  BY AddBag
<1>2. Count(bag, r) = IF r \in DOMAIN bag THEN bag[r] ELSE 0
  BY DEF Count
<1>3. CASE r.what = "init"
  <2>1. Tickets(Add(bag, r)) = Tickets(bag) \cup {t}
    <3>1. ASSUME NEW q \in Request, NEW i \in Nat
          PROVE  <<q, i>> \in Tickets(Add(bag, r)) <=> <<q, i>> \in Tickets(bag) \cup {t}
      <4>1. CASE q = r
        BY <1>1, <1>2, <1>3, <4>1 DEF Tickets
      <4>2. CASE q # r
        BY <1>1, <4>2 DEF Tickets
      <4> QED
        BY <4>1, <4>2
    <3>2. t \in Request \X Nat
      BY <1>1
    <3> QED
      BY <3>1, <3>2 DEF Tickets
  <2>2. t \notin Tickets(bag)
    BY <1>2, <1>1 DEF Tickets
  <2> HIDE DEF t
  <2> QED
    BY <1>3, <2>1, <2>2, FS_AddElement
<1>4. CASE r.what # "init"
  <2>1. Tickets(Add(bag, r)) = Tickets(bag)
    BY <1>1, <1>4 DEF Tickets
  <2> QED
    BY <1>4, <2>1
<1> QED
  BY <1>3, <1>4

LEMMA TakeTickets ==
  ASSUME NEW bag, IsBag(bag), IsFiniteSet(Tickets(bag)), NEW r \in DOMAIN bag
  PROVE  /\ IsFiniteSet(Tickets(Take(bag, r)))
         /\ Cardinality(Tickets(Take(bag, r))) =
               IF r.what = "init" THEN Cardinality(Tickets(bag)) - 1
               ELSE Cardinality(Tickets(bag))
<1> DEFINE t == <<r, bag[r]>>
<1>1. /\ DOMAIN Take(bag, r) = DOMAIN bag \ (IF bag[r] = 1 THEN {r} ELSE {})
      /\ bag[r] # 1 => Take(bag, r)[r] = bag[r] - 1
      /\ \A q \in DOMAIN bag : q # r => Take(bag, r)[q] = bag[q]
  BY TakeBag
<1>2. bag[r] \in Nat \ {0} /\ r \in Request
  BY DEF IsBag
<1>3. CASE r.what = "init"
  <2>1. Tickets(Take(bag, r)) = Tickets(bag) \ {t}
    <3>1. ASSUME NEW q \in Request, NEW i \in Nat
          PROVE  <<q, i>> \in Tickets(Take(bag, r)) <=> <<q, i>> \in Tickets(bag) \ {t}
      <4>1. CASE q = r
        BY <1>1, <1>2, <1>3, <4>1 DEF Tickets
      <4>2. CASE q # r
        BY <1>1, <4>2 DEF Tickets
      <4> QED
        BY <4>1, <4>2
    <3> QED
      BY <3>1 DEF Tickets
  <2>2. t \in Tickets(bag)
    BY <1>2, <1>3 DEF Tickets
  <2> HIDE DEF t
  <2> QED
    BY <1>3, <2>1, <2>2, FS_RemoveElement
<1>4. CASE r.what # "init"
  <2>1. Tickets(Take(bag, r)) = Tickets(bag)
    BY <1>1, <1>4 DEF Tickets
  <2> QED
    BY <1>4, <2>1
<1> QED
  BY <1>3, <1>4

(* A request that changes its state.                                       *)
LEMMA MoveBag ==
  ASSUME NEW bag, IsBag(bag), IsFiniteSet(Tickets(bag)), NEW r \in DOMAIN bag,
         NEW q \in Request, q.what = r.what
  PROVE  /\ IsBag(Add(Take(bag, r), q))
         /\ DOMAIN Add(Take(bag, r), q) \subseteq DOMAIN bag \cup {q}
         /\ (DOMAIN bag \ {r}) \cup {q} \subseteq DOMAIN Add(Take(bag, r), q)
         /\ IsFiniteSet(Tickets(Add(Take(bag, r), q)))
         /\ Cardinality(Tickets(Add(Take(bag, r), q))) = Cardinality(Tickets(bag))
<1> DEFINE b == Take(bag, r)
<1>1. IsBag(b) /\ DOMAIN b \subseteq DOMAIN bag /\ DOMAIN bag \ {r} \subseteq DOMAIN b
  <2>1. IsBag(b) /\ DOMAIN b = DOMAIN bag \ (IF bag[r] = 1 THEN {r} ELSE {})
    BY TakeBag
  <2> QED
    BY <2>1
<1>2. /\ IsFiniteSet(Tickets(b))
      /\ Cardinality(Tickets(b)) = IF r.what = "init" THEN Cardinality(Tickets(bag)) - 1
                                   ELSE Cardinality(Tickets(bag))
  BY TakeTickets
<1>3. Cardinality(Tickets(bag)) \in Nat
  BY FS_CardinalityType
<1> HIDE DEF b
<1>4. IsBag(Add(b, q)) /\ DOMAIN Add(b, q) = DOMAIN b \cup {q}
  BY <1>1, AddBag
<1>5. /\ IsFiniteSet(Tickets(Add(b, q)))
      /\ Cardinality(Tickets(Add(b, q))) = IF q.what = "init" THEN Cardinality(Tickets(b)) + 1
                                           ELSE Cardinality(Tickets(b))
  BY <1>1, <1>2, AddTickets
<1>6. Cardinality(Tickets(Add(b, q))) = Cardinality(Tickets(bag))
  BY <1>2, <1>3, <1>5
<1> QED
  BY <1>1, <1>4, <1>5, <1>6 DEF b

(* The requests for a run are answered when it is over.                    *)
LEMMA ReleaseBag ==
  ASSUME IsBag(pending)
  PROVE  /\ IsBag(Released)
         /\ \A q \in DOMAIN Released : q \in DOMAIN pending \/ q.of = None
         /\ \A q \in DOMAIN pending : q.what # "analyze" => q \in DOMAIN Released
         /\ Tickets(Released) = Tickets(pending)
<1> DEFINE running == [Sent("analyze") EXCEPT !.at = "running"]
           over == [running EXCEPT !.at = "answered"]
<1>1. /\ running \in Request /\ running.what = "analyze"
      /\ over \in Request /\ over.what = "analyze" /\ over.of = None /\ running # over
  BY DEF Sent, Request
<1>2. Count(pending, over) \in Nat /\ Count(pending, running) \in Nat
      /\ (running \in DOMAIN pending => Count(pending, running) = pending[running])
      /\ (over \in DOMAIN pending => Count(pending, over) = pending[over])
  BY <1>1 DEF Count, IsBag
<1>3. Released = [r \in (DOMAIN pending \ {running})
                          \cup (IF running \in DOMAIN pending THEN {over} ELSE {})
                    |-> IF r = over THEN Count(pending, over) + Count(pending, running)
                        ELSE pending[r]]
  BY DEF Released
<1> HIDE DEF running, over
<1>4. /\ DOMAIN Released = (DOMAIN pending \ {running})
                             \cup (IF running \in DOMAIN pending THEN {over} ELSE {})
      /\ \A r \in DOMAIN Released : r # over => Released[r] = pending[r]
      /\ over \in DOMAIN Released =>
            Released[over] = Count(pending, over) + Count(pending, running)
  BY <1>3
<1>5. \A r \in DOMAIN Released : r \in Request /\ Released[r] \in Nat \ {0}
  <2> SUFFICES ASSUME NEW r \in DOMAIN Released
               PROVE  r \in Request /\ Released[r] \in Nat \ {0}
    OBVIOUS
  <2>1. CASE r = over
    <3>1. Released[over] = Count(pending, over) + Count(pending, running)
      BY <1>4, <2>1
    <3>2. running \in DOMAIN pending \/ over \in DOMAIN pending
      BY <1>4, <2>1
    <3>3. Count(pending, over) # 0 \/ Count(pending, running) # 0
      BY <1>2, <3>2 DEF IsBag
    <3> QED
      BY <1>1, <1>2, <2>1, <3>1, <3>3
  <2>2. CASE r # over
    BY <1>4, <2>2 DEF IsBag
  <2> QED
    BY <2>1, <2>2
<1>6. Tickets(Released) = Tickets(pending)
  BY <1>1, <1>4 DEF Tickets
<1>7. \A q \in DOMAIN Released : q \in DOMAIN pending \/ q.of = None
  BY <1>1, <1>4
<1>8. \A q \in DOMAIN pending : q.what # "analyze" => q \in DOMAIN Released
  BY <1>1, <1>4
<1> QED
  BY <1>5, <1>6, <1>7, <1>8 DEF IsBag

---------------------------------------------------------------------------
(* Types, part by part.                                                    *)

EngineTypes ==
    /\ rev \in Revision
    /\ phase \in {"idle", "listing", "parsing"}
    /\ runs \in 0..MaxRuns

NetTypes ==
    /\ link \in [Socket -> {"none", "connecting", "open", "broken", "closed"}]
    /\ inbox \in [Socket -> Seq(Message)]
    /\ \A s \in Socket : inbox[s] # <<>> => link[s] = "open"
    /\ missed \subseteq {"graph", "end"}

PageTypes ==
    /\ ws \in Socket \cup {None}
    /\ status \in {"disconnected", "connecting", "connected"}
    /\ timers \in 0..1
    /\ analyzing \in BOOLEAN
    /\ loading \in BOOLEAN
    /\ shown \in Revision \cup {None}

SessionTypes ==
    /\ valid \in BOOLEAN
    /\ authRequired \in BOOLEAN
    /\ inits \in 0..(MaxLogins + 1)
    /\ faults \in 0..MaxFaults

TypeParts == EngineTypes /\ NetTypes /\ IsBag(pending) /\ PageTypes /\ SessionTypes

LEMMA TypesSplit == ClientTypeOK <=> TypeParts
  BY DEF ClientTypeOK, TypeParts, EngineTypes, NetTypes, IsBag, PageTypes, SessionTypes

(* The server's revision counts its runs and updates, and never falls.     *)
LEMMA EngineStep ==
  ASSUME EngineTypes, RunsCounted,
         UNCHANGED engineVars \/ Begin \/ FilesListed \/ EndRun \/ AbortRun \/ Update
  PROVE  EngineTypes' /\ RunsCounted' /\ rev' \in {rev, rev + 1}
<1>1. CASE UNCHANGED engineVars
  BY <1>1 DEF EngineTypes, RunsCounted, Updates, engineVars
<1>2. CASE Begin
  BY <1>2, ClientAssumption DEF EngineTypes, RunsCounted, Updates, Begin, Revision
<1>3. CASE FilesListed
  BY <1>3, ClientAssumption DEF EngineTypes, RunsCounted, Updates, FilesListed, Revision
<1>4. CASE EndRun \/ AbortRun
  BY <1>4, ClientAssumption DEF EngineTypes, RunsCounted, Updates, EndRun, AbortRun, Revision, Pages
<1>5. CASE Update
  BY <1>5, ClientAssumption DEF EngineTypes, RunsCounted, Updates, Update, Revision
<1> QED
  BY <1>1, <1>2, <1>3, <1>4, <1>5

LEMMA EngineOnly ==
  ASSUME Next
  PROVE  UNCHANGED engineVars \/ Begin \/ FilesListed \/ EndRun \/ AbortRun \/ Update
<1>1. CASE BeginRun \/ FilesListed \/ EndRun \/ AbortRun \/ Update
  BY <1>1 DEF BeginRun
<1>2. ASSUME NEW r \in DOMAIN pending, Handle(r)
      PROVE  UNCHANGED engineVars \/ Begin
  BY <1>2 DEF Handle
<1>3. ASSUME NEW r \in DOMAIN pending, Answer(r)
      PROVE  UNCHANGED engineVars
  BY <1>3 DEF Answer, OnGraph, OnGraphError, OnAnalyzed, Fetched
<1>4. ASSUME NEW s \in Socket, Break(s) \/ OnOpen(s) \/ OnClose(s) \/ OnError(s) \/ Deliver(s)
      PROVE  UNCHANGED engineVars
  BY <1>4 DEF Break, OnOpen, OnClose, OnError, Deliver
<1>5. CASE OnTimer \/ Reanalyze \/ CancelAnalysis \/ Expire \/ Login \/ Logout
  BY <1>5 DEF OnTimer, Reanalyze, CancelAnalysis, Expire, Login, Logout
<1> QED
  BY <1>1, <1>2, <1>3, <1>4, <1>5 DEF Next

---------------------------------------------------------------------------
(* The types other than the engine's, and the count, action by action.     *)

ClientPart == NetTypes /\ IsBag(pending) /\ PageTypes /\ SessionTypes /\ CallsCounted

LEMMA CountsAreNat ==
  ASSUME CallsCounted
  PROVE  /\ IsFiniteSet(Used) /\ Cardinality(Used) \in Nat
         /\ Cardinality(Tickets(pending)) \in Nat
<1>1. IsFiniteSet(Socket)
  BY ClientAssumption, FS_Interval DEF Socket
<1>2. IsFiniteSet(Used)
  BY <1>1, FS_Subset DEF Used
<1> QED
  BY <1>2, FS_CardinalityType DEF CallsCounted

LEMMA SaysMissed == ASSUME NEW m \in Message PROVE Says(m) \subseteq {"graph", "end"}
  BY DEF Says, Message

LEMMA UnreadMissed ==
  ASSUME NetTypes, NEW s \in Socket
  PROVE  Unread(s) \subseteq {"graph", "end"}
<1>1. \A m \in S!ToSet(inbox[s]) : m \in Message
  BY DEF NetTypes, S!ToSet
<1> QED
  BY <1>1, SaysMissed DEF Unread

LEMMA BroadcastTypes ==
  ASSUME NetTypes, NEW m \in Message, Broadcast(m), UNCHANGED link
  PROVE  NetTypes'
<1>1. inbox' = [s \in Socket |-> IF s \in Listening THEN Append(inbox[s], m) ELSE inbox[s]]
  BY DEF Broadcast
<1>2. \A s \in Socket : inbox[s] \in Seq(Message) /\ Append(inbox[s], m) \in Seq(Message)
  BY DEF NetTypes
<1>3. inbox' \in [Socket -> Seq(Message)]
  BY <1>1, <1>2
<1>4. \A s \in Socket : inbox'[s] # <<>> => link[s] = "open"
  BY <1>1 DEF NetTypes, Listening
<1>5. missed' \subseteq {"graph", "end"}
  BY SaysMissed DEF Broadcast, NetTypes
<1> QED
  BY <1>3, <1>4, <1>5 DEF NetTypes

(* The socket a page opens was not in use.                                 *)
LEMMA ConnectCounts ==
  ASSUME NetTypes, CallsCounted, ConnectWebSocket, UNCHANGED inbox
  PROVE  /\ link' \in [Socket -> {"none", "connecting", "open", "broken", "closed"}]
         /\ \A s \in Socket : inbox'[s] # <<>> => link'[s] = "open"
         /\ ws' \in Socket /\ status' = "connecting"
         /\ Cardinality(Used') = Cardinality(Used) + 1
<1>1. PICK s \in Unused : /\ link' = [link EXCEPT ![s] = "connecting"]
                          /\ ws' = s
                          /\ status' = "connecting"
  BY DEF ConnectWebSocket
<1>2. s \in Socket /\ link[s] = "none" /\ inbox[s] = <<>>
  BY DEF Unused, NetTypes
<1>3. link' \in [Socket -> {"none", "connecting", "open", "broken", "closed"}]
  BY <1>1 DEF NetTypes
<1>4. \A t \in Socket : inbox'[t] # <<>> => link'[t] = "open"
  BY <1>1, <1>2 DEF NetTypes
<1>5. Used' = Used \cup {s} /\ s \notin Used
  BY <1>1, <1>2 DEF Used, Unused, NetTypes
<1>6. Cardinality(Used') = Cardinality(Used) + 1
  BY <1>5, CountsAreNat, FS_AddElement
<1> QED
  BY <1>1, <1>2, <1>3, <1>4, <1>6

LEMMA ServerPart ==
  ASSUME ClientPart, EngineTypes,
         BeginRun \/ FilesListed \/ EndRun \/ AbortRun \/ Update
  PROVE  ClientPart'
<1>1. UNCHANGED <<valid, authRequired, inits, loading, shown, link, faults, ws, status,
                  timers, analyzing>>
  BY DEF BeginRun, FilesListed, EndRun, AbortRun, Update, Pages, sessionVars, storeVars
<1>2. PageTypes' /\ SessionTypes'
  BY <1>1 DEF ClientPart, PageTypes, SessionTypes
<1>3. NetTypes'
  <2>1. CASE UNCHANGED inbox /\ missed' \subseteq missed \cup {"graph", "end"}
    BY <1>1, <2>1 DEF ClientPart, NetTypes
  <2>2. CASE \E m \in Message : Broadcast(m)
    BY <1>1, <2>2, BroadcastTypes DEF ClientPart
  <2> QED
    BY <2>1, <2>2 DEF BeginRun, FilesListed, EndRun, AbortRun, Update, Message
<1>4. /\ IsBag(pending') /\ Tickets(pending') = Tickets(pending)
  <2>1. pending' = pending \/ pending' = Released
    BY DEF BeginRun, FilesListed, EndRun, AbortRun, Update
  <2> QED
    BY <2>1, ReleaseBag DEF ClientPart
<1>5. CallsCounted'
  <2>1. Used' = Used
    BY <1>1 DEF Used, Unused
  <2> QED
    BY <1>1, <1>4, <2>1 DEF ClientPart, CallsCounted
<1> QED
  BY <1>2, <1>3, <1>4, <1>5 DEF ClientPart

(* The answer to a request the server handles.                             *)
LEMMA HandleMoves ==
  ASSUME EngineTypes, NEW r \in Request, Handle(r)
  PROVE  \E q \in Request :
            /\ pending' = Add(Take(pending, r), q)
            /\ q.what = r.what
            /\ r.what # "analyze" =>
                  \/ q.at = "refused" /\ q.of = r.of
                  \/ q.at = "answered" /\ q.of = IF phase = "idle" THEN rev ELSE None
            /\ r.what = "analyze" => q.of = r.of
<1> DEFINE given == [r EXCEPT !.at = "answered",
                              !.of = IF phase = "idle" THEN rev ELSE None]
<1>1. /\ [r EXCEPT !.at = "refused"] \in Request
      /\ [r EXCEPT !.at = "running"] \in Request
      /\ [r EXCEPT !.at = "answered"] \in Request
      /\ given \in Request
  BY DEF Request, EngineTypes
<1>2. \/ pending' = Add(Take(pending, r), [r EXCEPT !.at = "refused"])
      \/ pending' = Add(Take(pending, r), given) /\ r.what # "analyze"
      \/ pending' = Add(Take(pending, r), [r EXCEPT !.at = "running"]) /\ r.what = "analyze"
      \/ pending' = Add(Take(pending, r), [r EXCEPT !.at = "answered"]) /\ r.what = "analyze"
  BY DEF Handle
<1>3. ASSUME NEW how \in {"refused", "running", "answered"}
      PROVE  /\ [r EXCEPT !.at = how].what = r.what
             /\ [r EXCEPT !.at = how].at = how
             /\ [r EXCEPT !.at = how].of = r.of
  BY DEF Request
<1>4. /\ given.what = r.what
      /\ given.at = "answered"
      /\ given.of = IF phase = "idle" THEN rev ELSE None
  BY DEF Request
<1> HIDE DEF given
<1> QED
  BY <1>1, <1>2, <1>3, <1>4

LEMMA HandlePart ==
  ASSUME ClientPart, EngineTypes, NEW r \in DOMAIN pending, Handle(r)
  PROVE  ClientPart'
<1>1. /\ UNCHANGED <<valid, authRequired, inits, loading, shown, link, faults, ws, status,
                     timers, analyzing, inbox, missed>>
  BY DEF Handle, Pages, sessionVars, storeVars
<1>2. PageTypes' /\ SessionTypes' /\ NetTypes'
  BY <1>1 DEF ClientPart, PageTypes, SessionTypes, NetTypes
<1>3. r \in Request
  BY DEF ClientPart, IsBag
<1>4. PICK q \in Request : pending' = Add(Take(pending, r), q) /\ q.what = r.what
  BY <1>3, HandleMoves
<1>5. /\ IsBag(pending')
      /\ IsFiniteSet(Tickets(pending'))
      /\ Cardinality(Tickets(pending')) = Cardinality(Tickets(pending))
  BY <1>4, MoveBag DEF ClientPart, CallsCounted
<1>6. CallsCounted'
  <2>1. Used' = Used
    BY <1>1 DEF Used, Unused
  <2> QED
    BY <1>1, <1>5, <2>1 DEF ClientPart, CallsCounted
<1> QED
  BY <1>2, <1>5, <1>6 DEF ClientPart

LEMMA SocketPart ==
  ASSUME ClientPart, NEW s \in Socket, Break(s) \/ OnOpen(s) \/ OnError(s)
  PROVE  ClientPart'
<1>1. UNCHANGED <<valid, authRequired, inits, loading, shown, pending, ws, timers, analyzing>>
  BY DEF Break, OnOpen, OnError, sessionVars, storeVars
<1>2. PageTypes' /\ SessionTypes'
  <2>1. faults' \in 0..MaxFaults /\ status' \in {status, "connected"}
    BY ClientAssumption DEF ClientPart, SessionTypes, Break, OnOpen, OnError
  <2> QED
    BY <1>1, <2>1 DEF ClientPart, PageTypes, SessionTypes
<1>3. link' \in [Socket -> {"none", "connecting", "open", "broken", "closed"}]
  BY DEF ClientPart, NetTypes, Break, OnOpen, OnError
<1>4. inbox' \in [Socket -> Seq(Message)]
  <2>1. <<>> \in Seq(Message)
    OBVIOUS
  <2> QED
    BY <2>1 DEF ClientPart, NetTypes, Break, OnOpen, OnError
<1>5. \A t \in Socket : inbox'[t] # <<>> => link'[t] = "open"
  <2>1. CASE Break(s)
    BY <2>1 DEF ClientPart, NetTypes, Break
  <2>2. CASE OnOpen(s)
    BY <2>2 DEF ClientPart, NetTypes, OnOpen
  <2>3. CASE OnError(s)
    BY <2>3 DEF ClientPart, NetTypes, OnError
  <2> QED
    BY <2>1, <2>2, <2>3
<1>6. missed' \subseteq {"graph", "end"}
  <2>1. \A t \in Socket : Unread(t) \subseteq {"graph", "end"}
    BY UnreadMissed DEF ClientPart
  <2>2. CASE OnError(s)
    <3> DEFINE shut == {s} \cup ({ws} \cap {t \in Socket : link[t] # "none"})
    <3>1. missed' = missed \cup UNION {Unread(t) : t \in shut} /\ shut \subseteq Socket
      BY <2>2 DEF OnError
    <3> HIDE DEF shut
    <3> QED
      BY <2>1, <3>1 DEF ClientPart, NetTypes
  <2> QED
    BY <2>1, <2>2 DEF Break, OnOpen, ClientPart, NetTypes
<1>7. \A t \in Socket : link'[t] = "none" <=> link[t] = "none"
  <2>1. CASE Break(s)
    BY <2>1 DEF ClientPart, NetTypes, Break
  <2>2. CASE OnOpen(s)
    BY <2>2 DEF ClientPart, NetTypes, OnOpen
  <2>3. CASE OnError(s)
    BY <2>3 DEF ClientPart, NetTypes, OnError
  <2> QED
    BY <2>1, <2>2, <2>3
<1>8. CallsCounted'
  <2>1. Used' = Used
    BY <1>7 DEF Used, Unused
  <2> QED
    BY <1>1, <2>1 DEF ClientPart, CallsCounted
<1> QED
  BY <1>1, <1>2, <1>3, <1>4, <1>5, <1>6, <1>8 DEF ClientPart, NetTypes

(* A timer takes the place of the socket that was closed.                  *)
LEMMA OnClosePart ==
  ASSUME ClientPart, NEW s \in Socket, OnClose(s)
  PROVE  ClientPart'
<1>1. /\ link[s] = "closed"
      /\ link' = [link EXCEPT ![s] = "none"]
      /\ timers' = 1
      /\ status' = "disconnected"
      /\ UNCHANGED <<valid, authRequired, inits, loading, shown, inbox, pending, faults, ws,
                     analyzing, missed>>
  BY DEF OnClose, sessionVars, storeVars
<1>2. NetTypes' /\ PageTypes' /\ SessionTypes'
  BY <1>1 DEF ClientPart, NetTypes, PageTypes, SessionTypes
<1>3. Used' = Used \ {s} /\ s \in Used
  BY <1>1 DEF Used, Unused, ClientPart, NetTypes
<1>4. Cardinality(Used') = Cardinality(Used) - 1
  BY <1>3, CountsAreNat, FS_RemoveElement DEF ClientPart
<1>5. CallsCounted'
  BY <1>1, <1>4, CountsAreNat DEF ClientPart, CallsCounted, PageTypes, SessionTypes
<1> QED
  BY <1>1, <1>2, <1>5 DEF ClientPart

LEMMA OnTimerPart ==
  ASSUME ClientPart, OnTimer
  PROVE  ClientPart'
<1>1. /\ timers > 0 /\ timers' = timers - 1
      /\ ConnectWebSocket
      /\ UNCHANGED <<valid, authRequired, inits, loading, shown, inbox, pending, faults,
                     analyzing, missed>>
  BY DEF OnTimer, sessionVars, storeVars
<1>2. /\ link' \in [Socket -> {"none", "connecting", "open", "broken", "closed"}]
      /\ \A s \in Socket : inbox'[s] # <<>> => link'[s] = "open"
      /\ ws' \in Socket /\ status' = "connecting"
      /\ Cardinality(Used') = Cardinality(Used) + 1
  BY <1>1, ConnectCounts DEF ClientPart
<1>3. NetTypes' /\ SessionTypes'
  BY <1>1, <1>2 DEF ClientPart, NetTypes, SessionTypes
<1>4. PageTypes'
  BY <1>1, <1>2 DEF ClientPart, PageTypes
<1>5. CallsCounted'
  BY <1>1, <1>2, CountsAreNat DEF ClientPart, CallsCounted, PageTypes, SessionTypes
<1> QED
  BY <1>1, <1>3, <1>4, <1>5 DEF ClientPart

LEMMA DeliverPart ==
  ASSUME ClientPart, NEW s \in Socket, Deliver(s)
  PROVE  ClientPart'
<1>1. /\ inbox[s] # <<>> /\ link[s] = "open"
      /\ inbox' = [inbox EXCEPT ![s] = Tail(inbox[s])]
      /\ OnMessage(Head(inbox[s]))
      /\ missed' \subseteq missed
      /\ UNCHANGED <<valid, authRequired, inits, shown, link, faults, ws, status, timers>>
  BY DEF Deliver, sessionVars
<1>2. inbox[s] \in Seq(Message) /\ Tail(inbox[s]) \in Seq(Message)
  BY <1>1 DEF ClientPart, NetTypes
<1>3. NetTypes' /\ SessionTypes'
  BY <1>1, <1>2 DEF ClientPart, NetTypes, SessionTypes
<1>4. PageTypes'
  BY <1>1 DEF ClientPart, PageTypes, OnMessage
<1>5. pending' = pending \/ pending' = Add(pending, Sent("graph"))
  BY <1>1 DEF OnMessage
<1>6. Sent("graph") \in Request /\ Sent("graph").what = "graph"
  BY SentIsRequest
<1>7. /\ IsBag(pending')
      /\ IsFiniteSet(Tickets(pending'))
      /\ Cardinality(Tickets(pending')) = Cardinality(Tickets(pending))
  BY <1>5, <1>6, AddBag, AddTickets DEF ClientPart, CallsCounted
<1>8. CallsCounted'
  <2>1. Used' = Used
    BY <1>1 DEF Used, Unused
  <2> QED
    BY <1>1, <1>7, <2>1 DEF ClientPart, CallsCounted
<1> QED
  BY <1>3, <1>4, <1>7, <1>8 DEF ClientPart

(* The answer to the first fetch is exchanged for a socket.                *)
LEMMA FetchedPart ==
  ASSUME ClientPart, NEW r \in DOMAIN pending, OnGraph(r) \/ OnGraphError(r)
  PROVE  ClientPart'
<1>1. /\ Fetched(r)
      /\ loading' = FALSE
      /\ pending' = Take(pending, r)
      /\ UNCHANGED <<inbox, timers, analyzing, inits>>
  BY DEF OnGraph, OnGraphError, Fetched, Refused, sessionVars
<1>2. r \in Request
  BY DEF ClientPart, IsBag
<1>3. /\ missed' \subseteq {"graph", "end"}
      /\ shown' \in Revision \cup {None}
      /\ faults' \in 0..MaxFaults
      /\ valid' \in BOOLEAN /\ authRequired' \in BOOLEAN
  <2>1. CASE OnGraph(r)
    BY <1>2, <2>1 DEF OnGraph, Missing, Request, ClientPart, NetTypes, PageTypes, SessionTypes,
       sessionVars
  <2>2. CASE OnGraphError(r)
    <3>1. faults' \in 0..MaxFaults
      BY <2>2, ClientAssumption DEF OnGraphError, ClientPart, SessionTypes
    <3>2. valid' \in BOOLEAN /\ authRequired' \in BOOLEAN
      BY <2>2 DEF OnGraphError, Refused, ClientPart, SessionTypes, sessionVars
    <3> QED
      BY <2>2, <3>1, <3>2 DEF OnGraphError, ClientPart, NetTypes, PageTypes
  <2> QED
    BY <2>1, <2>2
<1>4. /\ IsBag(pending')
      /\ IsFiniteSet(Tickets(pending'))
      /\ Cardinality(Tickets(pending')) =
            IF r.what = "init" THEN Cardinality(Tickets(pending)) - 1
            ELSE Cardinality(Tickets(pending))
  BY <1>1, TakeBag, TakeTickets DEF ClientPart, CallsCounted
<1>5. CASE r.what = "init"
  <2>1. ConnectWebSocket
    BY <1>1, <1>5 DEF Fetched
  <2>2. /\ link' \in [Socket -> {"none", "connecting", "open", "broken", "closed"}]
        /\ \A s \in Socket : inbox'[s] # <<>> => link'[s] = "open"
        /\ ws' \in Socket /\ status' = "connecting"
        /\ Cardinality(Used') = Cardinality(Used) + 1
    BY <1>1, <2>1, ConnectCounts DEF ClientPart
  <2>3. NetTypes'
    BY <1>1, <1>3, <2>2 DEF ClientPart, NetTypes
  <2>4. PageTypes' /\ SessionTypes'
    BY <1>1, <1>3, <2>2 DEF ClientPart, PageTypes, SessionTypes
  <2>5. CallsCounted'
    BY <1>1, <1>4, <1>5, <2>2, CountsAreNat DEF ClientPart, CallsCounted, PageTypes, SessionTypes
  <2> QED
    BY <1>4, <2>3, <2>4, <2>5 DEF ClientPart
<1>6. CASE r.what # "init"
  <2>1. UNCHANGED <<link, ws, status>>
    BY <1>1, <1>6 DEF Fetched
  <2>2. NetTypes'
    BY <1>1, <1>3, <2>1 DEF ClientPart, NetTypes
  <2>3. PageTypes' /\ SessionTypes'
    BY <1>1, <1>3, <2>1 DEF ClientPart, PageTypes, SessionTypes
  <2>4. Used' = Used
    BY <2>1 DEF Used, Unused
  <2>5. CallsCounted'
    BY <1>1, <1>4, <1>6, <2>4 DEF ClientPart, CallsCounted
  <2> QED
    BY <1>4, <2>2, <2>3, <2>5 DEF ClientPart
<1> QED
  BY <1>5, <1>6

(* The rest leaves the sockets alone.                                      *)
LEMMA AnalyzedPart ==
  ASSUME ClientPart, NEW r \in DOMAIN pending, OnAnalyzed(r)
  PROVE  ClientPart'
<1>1. /\ r.what = "analyze"
      /\ loading' \in BOOLEAN
      /\ \/ pending' = Take(pending, r)
         \/ pending' = Add(Take(pending, r), Sent("graph"))
      /\ valid' \in BOOLEAN /\ authRequired' \in BOOLEAN
      /\ UNCHANGED <<inits, shown, link, inbox, faults, ws, status, timers, analyzing, missed>>
  BY DEF OnAnalyzed, Refused, sessionVars, ClientPart, SessionTypes
<1>2. NetTypes' /\ PageTypes' /\ SessionTypes'
  BY <1>1 DEF ClientPart, NetTypes, PageTypes, SessionTypes
<1>3. Sent("graph") \in Request /\ Sent("graph").what = "graph"
  BY SentIsRequest
<1>4. /\ IsBag(Take(pending, r))
      /\ IsFiniteSet(Tickets(Take(pending, r)))
      /\ Cardinality(Tickets(Take(pending, r))) = Cardinality(Tickets(pending))
  BY <1>1, TakeBag, TakeTickets DEF ClientPart, CallsCounted
<1>5. /\ IsBag(pending')
      /\ IsFiniteSet(Tickets(pending'))
      /\ Cardinality(Tickets(pending')) = Cardinality(Tickets(pending))
  <2> DEFINE b == Take(pending, r)
  <2> HIDE DEF b
  <2>1. /\ IsBag(Add(b, Sent("graph")))
        /\ IsFiniteSet(Tickets(Add(b, Sent("graph"))))
        /\ Cardinality(Tickets(Add(b, Sent("graph")))) = Cardinality(Tickets(b))
    <3>1. IsBag(b) /\ IsFiniteSet(Tickets(b))
      BY <1>4 DEF b
    <3> QED
      BY <1>3, <3>1, AddBag, AddTickets
  <2> QED
    BY <1>1, <1>4, <2>1 DEF b
<1>6. CallsCounted'
  <2>1. Used' = Used
    BY <1>1 DEF Used, Unused
  <2> QED
    BY <1>1, <1>5, <2>1 DEF ClientPart, CallsCounted
<1> QED
  BY <1>2, <1>5, <1>6 DEF ClientPart

LEMMA UserPart ==
  ASSUME ClientPart, Reanalyze \/ CancelAnalysis \/ Expire \/ Login \/ Logout
  PROVE  ClientPart'
<1>1. UNCHANGED <<link, inbox, missed, faults, ws, status, timers, shown>>
  BY DEF Reanalyze, CancelAnalysis, Expire, Login, Logout, netVars, storeVars
<1>2. /\ analyzing' \in BOOLEAN /\ loading' \in BOOLEAN /\ valid' \in BOOLEAN
      /\ authRequired' \in BOOLEAN
      /\ inits' = inits + (IF Login THEN 1 ELSE 0)
      /\ Login => inits <= MaxLogins
  <2>1. CASE Login
    BY <2>1 DEF Login, ClientPart, PageTypes, SessionTypes
  <2>2. CASE ~Login
    <3>1. inits' = inits
      BY <2>2 DEF Reanalyze, CancelAnalysis, Expire, Logout, Refused, sessionVars
    <3>2. inits' = inits + 0
      BY <3>1 DEF ClientPart, SessionTypes
    <3>3. valid' \in BOOLEAN /\ authRequired' \in BOOLEAN
      BY <2>2 DEF Reanalyze, CancelAnalysis, Expire, Logout, Refused, sessionVars,
                  ClientPart, SessionTypes
    <3>4. analyzing' \in BOOLEAN /\ loading' \in BOOLEAN
      BY <2>2 DEF Reanalyze, CancelAnalysis, Expire, Logout, storeVars, ClientPart, PageTypes
    <3> QED
      BY <2>2, <3>2, <3>3, <3>4
  <2> QED
    BY <2>1, <2>2
<1>3. NetTypes' /\ PageTypes' /\ SessionTypes'
  <2>1. inits' \in 0..(MaxLogins + 1)
    BY <1>2, ClientAssumption DEF ClientPart, SessionTypes
  <2> QED
    BY <1>1, <1>2, <2>1 DEF ClientPart, NetTypes, PageTypes, SessionTypes
<1>4. /\ Sent("analyze") \in Request /\ Sent("analyze").what = "analyze"
      /\ Sent("init") \in Request /\ Sent("init").what = "init"
  BY SentIsRequest
<1>5. /\ Login => pending' = Add(pending, Sent("init"))
      /\ ~Login => pending' \in {pending, Add(pending, Sent("analyze"))}
  BY DEF Reanalyze, CancelAnalysis, Expire, Login, Logout, netVars
<1>6. /\ IsBag(pending')
      /\ IsFiniteSet(Tickets(pending'))
      /\ Cardinality(Tickets(pending')) = Cardinality(Tickets(pending)) + (IF Login THEN 1 ELSE 0)
  <2>1. Cardinality(Tickets(pending)) \in Nat
    BY CountsAreNat DEF ClientPart
  <2>2. IsBag(pending) /\ IsFiniteSet(Tickets(pending))
    BY DEF ClientPart, CallsCounted
  <2>3. ASSUME NEW what \in {"init", "analyze"}
        PROVE  /\ IsBag(Add(pending, Sent(what)))
               /\ IsFiniteSet(Tickets(Add(pending, Sent(what))))
               /\ Cardinality(Tickets(Add(pending, Sent(what)))) =
                     IF what = "init" THEN Cardinality(Tickets(pending)) + 1
                     ELSE Cardinality(Tickets(pending))
    BY <1>4, <2>2, AddBag, AddTickets
  <2>4. CASE Login
    BY <1>5, <2>3, <2>4
  <2>5. CASE ~Login
    BY <1>5, <2>1, <2>2, <2>3, <2>5
  <2> QED
    BY <2>4, <2>5
<1>7. CallsCounted'
  <2>1. Used' = Used
    BY <1>1 DEF Used, Unused
  <2>2. timers \in Nat /\ inits \in Nat
    BY DEF ClientPart, PageTypes, SessionTypes
  <2> QED
    BY <1>1, <1>2, <1>6, <2>1, <2>2, CountsAreNat DEF ClientPart, CallsCounted
<1> QED
  BY <1>3, <1>6, <1>7 DEF ClientPart

LEMMA PartStep ==
  ASSUME ClientPart, EngineTypes, Next
  PROVE  ClientPart'
<1>1. CASE BeginRun \/ FilesListed \/ EndRun \/ AbortRun \/ Update
  BY <1>1, ServerPart
<1>2. ASSUME NEW r \in DOMAIN pending, Handle(r) \/ Answer(r)
      PROVE  ClientPart'
  BY <1>2, HandlePart, FetchedPart, AnalyzedPart DEF Answer
<1>3. ASSUME NEW s \in Socket, Break(s) \/ OnOpen(s) \/ OnClose(s) \/ OnError(s) \/ Deliver(s)
      PROVE  ClientPart'
  BY <1>3, SocketPart, OnClosePart, DeliverPart
<1>4. CASE OnTimer
  BY <1>4, OnTimerPart
<1>5. CASE Reanalyze \/ CancelAnalysis \/ Expire \/ Login \/ Logout
  BY <1>5, UserPart
<1> QED
  BY <1>1, <1>2, <1>3, <1>4, <1>5 DEF Next

---------------------------------------------------------------------------
(* What the page has not missed is on its way.                             *)

LEMMA AppendFacts ==
  ASSUME NEW box \in Seq(Message), NEW m \in Message, NEW longer, longer = Append(box, m)
  PROVE  /\ DOMAIN box \subseteq DOMAIN longer
         /\ \A i \in DOMAIN box : longer[i] = box[i]
         /\ \A i \in DOMAIN longer : longer[i] # m => i \in DOMAIN box
         /\ \E j \in DOMAIN longer : longer[j] = m /\ \A i \in DOMAIN box : i < j
<1>1. /\ Len(box) \in Nat /\ DOMAIN box = 1..Len(box)
      /\ DOMAIN longer = 1..(Len(box) + 1)
      /\ \A i \in 1..Len(box) : longer[i] = box[i]
      /\ longer[Len(box) + 1] = m
  OBVIOUS
<1>2. \A i \in 1..(Len(box) + 1) : i \in 1..Len(box) \/ i = Len(box) + 1
  BY <1>1
<1>3. Len(box) + 1 \in DOMAIN longer /\ \A i \in DOMAIN box : i < Len(box) + 1
  BY <1>1
<1>4. \E j \in DOMAIN longer : longer[j] = m /\ \A i \in DOMAIN box : i < j
  BY <1>1, <1>3
<1> QED
  BY <1>1, <1>2, <1>4

(* A broadcast reaches a socket of the page, or is missed.                 *)
LEMMA BroadcastReaches ==
  ASSUME NetTypes, NEW m \in Message, Broadcast(m)
  PROVE  /\ \/ Says(m) \subseteq missed'
            \/ \E s \in Socket : \E i \in DOMAIN inbox'[s] : inbox'[s][i] = m
         /\ missed \subseteq missed'
         /\ \A s \in Socket : /\ DOMAIN inbox[s] \subseteq DOMAIN inbox'[s]
                              /\ \A i \in DOMAIN inbox[s] : inbox'[s][i] = inbox[s][i]
                              /\ \A i \in DOMAIN inbox'[s] : inbox'[s][i] # m => i \in DOMAIN inbox[s]
         /\ \A s \in Socket : link[s] = "open" =>
               \E j \in DOMAIN inbox'[s] : /\ inbox'[s][j] = m
                                          /\ \A i \in DOMAIN inbox[s] : i < j
<1>1. ASSUME NEW s \in Socket, link[s] # "open"
      PROVE  inbox'[s] = inbox[s]
  BY <1>1 DEF Broadcast, Listening
<1>2. ASSUME NEW s \in Socket, link[s] = "open"
      PROVE  inbox'[s] = Append(inbox[s], m) /\ inbox[s] \in Seq(Message)
  BY <1>2 DEF Broadcast, Listening, NetTypes
<1>3. ASSUME NEW s \in Socket
      PROVE  /\ DOMAIN inbox[s] \subseteq DOMAIN inbox'[s]
             /\ \A i \in DOMAIN inbox[s] : inbox'[s][i] = inbox[s][i]
             /\ \A i \in DOMAIN inbox'[s] : inbox'[s][i] # m => i \in DOMAIN inbox[s]
  <2>1. CASE link[s] = "open"
    BY <1>2, <2>1, AppendFacts
  <2>2. CASE link[s] # "open"
    BY <1>1, <2>2
  <2> QED
    BY <2>1, <2>2
<1>4. ASSUME NEW s \in Socket, link[s] = "open"
      PROVE  \E j \in DOMAIN inbox'[s] : /\ inbox'[s][j] = m
                                        /\ \A i \in DOMAIN inbox[s] : i < j
  BY <1>2, <1>4, AppendFacts
<1>5. CASE Listening = {}
  <2>1. missed' = missed \cup Says(m)
    BY <1>5 DEF Broadcast
  <2> QED
    BY <1>3, <1>4, <2>1
<1>6. CASE Listening # {}
  <2>1. missed' = missed /\ \E s \in Socket : link[s] = "open"
    BY <1>6 DEF Broadcast, Listening
  <2> QED
    BY <1>3, <1>4, <2>1
<1> QED
  BY <1>5, <1>6

(* What is lost with a socket is missed.                                   *)
LEMMA LostIsMissed ==
  ASSUME NetTypes, NEW s \in Socket, Break(s) \/ OnOpen(s) \/ OnError(s)
  PROVE  /\ missed \subseteq missed'
         /\ \A t \in Socket : inbox'[t] \in {inbox[t], <<>>}
         /\ \A t \in Socket : inbox'[t] # inbox[t] => Unread(t) \subseteq missed'
  BY DEF Break, OnOpen, OnError, NetTypes

LEMMA UnreadSays ==
  ASSUME NetTypes, NEW s \in Socket, NEW i \in DOMAIN inbox[s]
  PROVE  Says(inbox[s][i]) \subseteq Unread(s)
  BY DEF Unread, S!ToSet

LEMMA SaysGraph ==
  ASSUME NEW m \in Message, m # "started"
  PROVE  "graph" \in Says(m) /\ (m = "complete" => "end" \in Says(m))
  BY DEF Message, Says

(* A message is delivered from the front.                                  *)
LEMMA DeliverFront ==
  ASSUME NetTypes, NEW s \in Socket, Deliver(s)
  PROVE  /\ 1 \in DOMAIN inbox[s] /\ Head(inbox[s]) = inbox[s][1]
         /\ \A t \in Socket : t # s => inbox'[t] = inbox[t]
         /\ \A i \in DOMAIN inbox[s] : i # 1 =>
               i - 1 \in DOMAIN inbox'[s] /\ inbox'[s][i - 1] = inbox[s][i]
         /\ \A i \in DOMAIN inbox'[s] :
               i + 1 \in DOMAIN inbox[s] /\ inbox'[s][i] = inbox[s][i + 1]
<1>1. /\ inbox[s] # <<>>
      /\ inbox' = [inbox EXCEPT ![s] = Tail(inbox[s])]
      /\ inbox[s] \in Seq(Message)
  BY DEF Deliver, NetTypes
<1>2. inbox'[s] = Tail(inbox[s]) /\ \A t \in Socket : t # s => inbox'[t] = inbox[t]
  BY <1>1 DEF NetTypes
<1>3. /\ Len(inbox[s]) \in Nat /\ Len(inbox[s]) # 0
      /\ DOMAIN inbox[s] = 1..Len(inbox[s])
      /\ DOMAIN Tail(inbox[s]) = 1..(Len(inbox[s]) - 1)
      /\ \A i \in 1..(Len(inbox[s]) - 1) : Tail(inbox[s])[i] = inbox[s][i + 1]
      /\ Head(inbox[s]) = inbox[s][1]
  BY <1>1
<1>4. \A i \in DOMAIN inbox[s] : i # 1 =>
         /\ i - 1 \in 1..(Len(inbox[s]) - 1)
         /\ (i - 1) + 1 = i
  BY <1>3
<1>5. \A i \in 1..(Len(inbox[s]) - 1) : i + 1 \in DOMAIN inbox[s]
  BY <1>3
<1> QED
  BY <1>2, <1>3, <1>4, <1>5

(* What a request under way becomes keeps its revision, or takes the       *)
(* server's.                                                               *)
LEMMA NewRequests ==
  ASSUME TypeParts, Next, NEW q \in DOMAIN pending'
  PROVE  q.of = None \/ q.of = rev \/ \E r \in DOMAIN pending : q.of = r.of
<1>1. CASE EndRun \/ AbortRun
  <2>1. pending' = Released
    BY <1>1 DEF EndRun, AbortRun
  <2> QED
    BY <2>1, ReleaseBag DEF TypeParts
<1>2. ASSUME NEW r \in DOMAIN pending, Handle(r)
      PROVE  q.of = None \/ q.of = rev \/ q.of = r.of \/ q \in DOMAIN pending
  <2>1. r \in Request
    BY DEF TypeParts, IsBag
  <2>2. PICK at \in {"refused", "answered", "running"}, of \in {None, rev, r.of} :
           pending' = Add(Take(pending, r), [r EXCEPT !.at = at, !.of = of])
    BY <1>2, <2>1 DEF Handle, Request
  <2> DEFINE new == [r EXCEPT !.at = at, !.of = of]
             b == Take(pending, r)
  <2>3. new.of = of
    BY <2>1 DEF Request
  <2>4. DOMAIN Add(b, new) = DOMAIN b \cup {new} /\ DOMAIN b \subseteq DOMAIN pending
    BY DEF Add, Take
  <2>5. q = new \/ q \in DOMAIN pending
    BY <2>2, <2>4
  <2> QED
    BY <2>3, <2>5
<1>3. ASSUME NEW r \in DOMAIN pending, Answer(r)
      PROVE  q.of = None \/ q \in DOMAIN pending
  <2> DEFINE b == Take(pending, r)
  <2>1. pending' = b \/ pending' = Add(b, Sent("graph"))
    BY <1>3 DEF Answer, OnGraph, OnGraphError, OnAnalyzed, Fetched
  <2>2. DOMAIN Add(b, Sent("graph")) = DOMAIN b \cup {Sent("graph")}
        /\ DOMAIN b \subseteq DOMAIN pending
    BY DEF Add, Take
  <2> QED
    BY <2>1, <2>2, SentIsRequest
<1>4. CASE BeginRun \/ FilesListed \/ Update \/ OnTimer \/ CancelAnalysis \/ Expire \/ Logout
  BY <1>4 DEF BeginRun, FilesListed, Update, OnTimer, CancelAnalysis, Expire, Logout, netVars
<1>5. ASSUME NEW s \in Socket, Break(s) \/ OnOpen(s) \/ OnClose(s) \/ OnError(s)
      PROVE  q \in DOMAIN pending
  BY <1>5 DEF Break, OnOpen, OnClose, OnError
<1>6. ASSUME NEW what \in {"init", "graph", "analyze"}, pending' = Add(pending, Sent(what))
      PROVE  q.of = None \/ q \in DOMAIN pending
  <2>1. DOMAIN Add(pending, Sent(what)) = DOMAIN pending \cup {Sent(what)}
    BY DEF Add
  <2> QED
    BY <1>6, <2>1, SentIsRequest
<1>7. ASSUME NEW s \in Socket, Deliver(s)
      PROVE  q.of = None \/ q \in DOMAIN pending
  BY <1>6, <1>7 DEF Deliver, OnMessage
<1>8. CASE Reanalyze \/ Login
  BY <1>6, <1>8 DEF Reanalyze, Login
<1> QED
  BY <1>1, <1>2, <1>3, <1>4, <1>5, <1>7, <1>8 DEF Next

LEMMA ShownStep ==
  ASSUME Next
  PROVE  shown' = shown \/ \E r \in DOMAIN pending : shown' = r.of
<1>1. CASE BeginRun \/ FilesListed \/ EndRun \/ AbortRun \/ Update
  BY <1>1 DEF BeginRun, FilesListed, EndRun, AbortRun, Update, Pages, storeVars
<1>2. ASSUME NEW r \in DOMAIN pending, Handle(r)
      PROVE  shown' = shown
  BY <1>2 DEF Handle, Pages, storeVars
<1>3. ASSUME NEW r \in DOMAIN pending, Answer(r)
      PROVE  shown' = shown \/ shown' = r.of
  BY <1>3 DEF Answer, OnGraph, OnGraphError, OnAnalyzed
<1>4. ASSUME NEW s \in Socket, Break(s) \/ OnOpen(s) \/ OnClose(s) \/ OnError(s) \/ Deliver(s)
      PROVE  shown' = shown
  BY <1>4 DEF Break, OnOpen, OnClose, OnError, Deliver, storeVars
<1>5. CASE OnTimer \/ Reanalyze \/ CancelAnalysis \/ Expire \/ Login \/ Logout
  BY <1>5 DEF OnTimer, Reanalyze, CancelAnalysis, Expire, Login, Logout, storeVars
<1> QED
  BY <1>1, <1>2, <1>3, <1>4, <1>5 DEF Next

LEMMA KnownStep ==
  ASSUME TypeParts, RunsCounted, Known, Next
  PROVE  Known'
<1>1. rev \in Nat /\ rev' \in Nat /\ rev <= rev'
  <2>1. rev \in Nat /\ rev' \in {rev, rev + 1}
    BY EngineStep, EngineOnly DEF TypeParts, EngineTypes, Revision
  <2> QED
    BY <2>1
<1>2. \A r \in DOMAIN pending : r.of \in Nat /\ r.of <= rev
  BY DEF TypeParts, IsBag, Request, Revision, None, Known
<1>3. shown \in Nat /\ shown <= rev
  BY DEF TypeParts, PageTypes, Revision, None, Known
<1>4. shown' <= rev'
  BY <1>1, <1>2, <1>3, ShownStep
<1>5. ASSUME NEW q \in DOMAIN pending'
      PROVE  q.of <= rev'
  <2>1. q.of = None \/ q.of = rev \/ \E r \in DOMAIN pending : q.of = r.of
    BY NewRequests
  <2> QED
    BY <1>1, <1>2, <2>1 DEF None
<1> QED
  BY <1>4, <1>5 DEF Known

---------------------------------------------------------------------------
(* Coming, action by action.                                               *)

LEMMA ComingServer ==
  ASSUME NetTypes, BeginRun \/ FilesListed \/ EndRun \/ AbortRun \/ Update
  PROVE  Coming'
<1>1. CASE BeginRun \/ FilesListed
  BY <1>1 DEF BeginRun, Begin, FilesListed, Coming
<1>2. CASE AbortRun
  BY <1>2 DEF AbortRun, Coming
<1>3. ASSUME NEW m \in {"complete", "update"}, Broadcast(m)
      PROVE  Coming'
  <2>1. m \in Message /\ "graph" \in Says(m) /\ m # "started"
    BY SaysGraph DEF Message
  <2>2. "graph" \in missed' \/ \E s \in Socket : \E i \in DOMAIN inbox'[s] : inbox'[s][i] = m
    BY <1>3, <2>1, BroadcastReaches
  <2> QED
    BY <2>1, <2>2 DEF Coming, Told
<1> QED
  BY <1>1, <1>2, <1>3 DEF EndRun, Update

LEMMA ComingHandle ==
  ASSUME TypeParts, CallsCounted, Coming, NEW r \in DOMAIN pending, Handle(r)
  PROVE  Coming'
<1>1. CASE Begin
  BY <1>1 DEF Begin, Coming
<1>2. CASE ~Begin
  <2>1. UNCHANGED <<rev, phase, shown, inbox, missed>>
    BY <1>2 DEF Handle, Pages, storeVars, engineVars
  <2>2. r \in Request /\ r.at = "sent"
    BY DEF Handle, TypeParts, IsBag
  <2>3. PICK q \in Request :
           /\ pending' = Add(Take(pending, r), q) /\ q.what = r.what
           /\ r.what # "analyze" /\ phase = "idle" => q.at = "refused" \/ q.of = rev
    <3> DEFINE turn(at, of) == [r EXCEPT !.at = at, !.of = of]
    <3>1. ASSUME NEW at \in {"refused", "answered"}, NEW of \in {None, rev, r.of}
          PROVE  /\ turn(at, of) \in Request
                 /\ turn(at, of).what = r.what /\ turn(at, of).at = at /\ turn(at, of).of = of
      BY <2>2 DEF Request, TypeParts, EngineTypes
    <3>2. PICK at \in {"refused", "answered"}, of \in {None, rev, r.of} :
             /\ pending' = Add(Take(pending, r), turn(at, of))
             /\ r.what # "analyze" /\ phase = "idle" => at = "refused" \/ of = rev
      BY <1>2, <2>2 DEF Handle, Request
    <3> HIDE DEF turn
    <3> QED
      BY <3>1, <3>2
  <2>4. (DOMAIN pending \ {r}) \cup {q} \subseteq DOMAIN pending'
    <3>1. IsBag(pending) /\ IsFiniteSet(Tickets(pending))
      BY DEF TypeParts, CallsCounted
    <3> QED
      BY <2>3, <3>1, MoveBag
  <2>5. ASSUME NEW w \in DOMAIN pending, Fetches(w), phase = "idle"
        PROVE  \E p \in DOMAIN pending' : Fetches(p)'
    <3>1. CASE w = r
      <4>1. Fetches(q)'
        BY <2>1, <2>3, <2>5, <3>1 DEF Fetches
      <4> QED
        BY <2>4, <4>1
    <3>2. CASE w # r
      <4>1. Fetches(w)'
        BY <2>1, <2>5 DEF Fetches
      <4> QED
        BY <2>4, <3>2, <4>1
    <3> QED
      BY <3>1, <3>2
  <2>6. Told' <=> Told
    BY <2>1 DEF Told
  <2> QED
    BY <2>1, <2>5, <2>6 DEF Coming, TypeParts, EngineTypes
<1> QED
  BY <1>1, <1>2

(* An answer of an earlier revision is only shown where a later one was    *)
(* not, or is missed.                                                      *)
LEMMA ComingGraph ==
  ASSUME TypeParts, Known, Coming, NEW r \in DOMAIN pending, OnGraph(r)
  PROVE  Coming'
<1>1. /\ r.at = "answered" /\ shown' = r.of /\ missed' = Missing(r.of)
      /\ pending' = Take(pending, r)
      /\ UNCHANGED <<rev, phase, inbox>>
  BY DEF OnGraph, Fetched, engineVars
<1>2. r.of \in Nat /\ r.of <= rev /\ rev \in Nat /\ shown \in Nat /\ shown <= rev
  BY DEF TypeParts, IsBag, Request, Revision, None, Known, EngineTypes, PageTypes
<1>3. CASE phase # "idle" \/ r.of = rev
  BY <1>1, <1>3 DEF Coming
<1>4. CASE phase = "idle" /\ r.of # rev /\ r.of < shown
  BY <1>1, <1>4 DEF Coming, Missing
<1>5. CASE phase = "idle" /\ r.of # rev /\ ~(r.of < shown)
  <2>1. missed' = missed /\ shown # rev
    BY <1>1, <1>2, <1>5 DEF Missing
  <2>2. ASSUME NEW w \in DOMAIN pending, Fetches(w)
        PROVE  w \in DOMAIN pending' /\ Fetches(w)'
    <3>1. w # r
      BY <1>1, <1>5, <2>2 DEF Fetches
    <3>2. w \in DOMAIN pending'
      BY <1>1, <3>1 DEF Take
    <3> QED
      BY <1>1, <2>2, <3>2 DEF Fetches
  <2>3. Told' <=> Told
    BY <1>1 DEF Told
  <2> QED
    BY <1>5, <2>1, <2>2, <2>3 DEF Coming
<1> QED
  BY <1>3, <1>4, <1>5

LEMMA ComingAnswer ==
  ASSUME TypeParts, Known, Coming, NEW r \in DOMAIN pending, Answer(r)
  PROVE  Coming'
<1>1. CASE OnGraph(r)
  BY <1>1, ComingGraph
<1>2. CASE OnGraphError(r)
  BY <1>2 DEF OnGraphError, Coming
<1>3. CASE OnAnalyzed(r)
  <2>1. /\ r.what = "analyze"
        /\ pending' = Take(pending, r) \/ pending' = Add(Take(pending, r), Sent("graph"))
        /\ UNCHANGED <<rev, phase, shown, inbox, missed>>
    BY <1>3 DEF OnAnalyzed, engineVars
  <2>2. ASSUME NEW w \in DOMAIN pending, Fetches(w)
        PROVE  w \in DOMAIN pending' /\ Fetches(w)'
    <3>1. w # r
      BY <2>1, <2>2 DEF Fetches
    <3>2. w \in DOMAIN pending'
      BY <2>1, <3>1 DEF Take, Add
    <3> QED
      BY <2>1, <2>2, <3>2 DEF Fetches
  <2>3. Told' <=> Told
    BY <2>1 DEF Told
  <2> QED
    BY <2>1, <2>2, <2>3 DEF Coming
<1> QED
  BY <1>1, <1>2, <1>3 DEF Answer

LEMMA ComingSocket ==
  ASSUME TypeParts, Coming, NEW s \in Socket,
         Break(s) \/ OnOpen(s) \/ OnClose(s) \/ OnError(s)
  PROVE  Coming'
<1>1. UNCHANGED <<rev, phase, shown, pending>>
  BY DEF Break, OnOpen, OnClose, OnError, engineVars, storeVars
<1>2. /\ missed \subseteq missed'
      /\ \A t \in Socket : inbox'[t] # inbox[t] => Unread(t) \subseteq missed'
  <2>1. CASE OnClose(s)
    BY <2>1 DEF OnClose
  <2>2. CASE ~OnClose(s)
    BY <2>2, LostIsMissed DEF TypeParts
  <2> QED
    BY <2>1, <2>2
<1>3. ASSUME NEW t \in Socket, NEW i \in DOMAIN inbox[t], inbox[t][i] # "started"
      PROVE  "graph" \in missed' \/ Told'
  <2>1. CASE inbox'[t] = inbox[t]
    BY <1>3, <2>1 DEF Told
  <2>2. CASE inbox'[t] # inbox[t]
    <3>1. inbox[t][i] \in Message
      BY DEF TypeParts, NetTypes
    <3> QED
      BY <1>2, <1>3, <2>2, <3>1, UnreadSays, SaysGraph DEF TypeParts
  <2> QED
    BY <2>1, <2>2
<1>4. Told => "graph" \in missed' \/ Told'
  BY <1>3 DEF Told
<1>5. \A r : Fetches(r)' <=> Fetches(r)
  BY <1>1 DEF Fetches
<1> QED
  BY <1>1, <1>2, <1>4, <1>5 DEF Coming

LEMMA ComingDeliver ==
  ASSUME TypeParts, Coming, NEW s \in Socket, Deliver(s)
  PROVE  Coming'
<1>1. /\ UNCHANGED <<rev, phase, shown>>
      /\ "graph" \in missed => "graph" \in missed'
      /\ OnMessage(inbox[s][1])
  <2>1. OnMessage(inbox[s][1])
    BY DeliverFront DEF Deliver, TypeParts
  <2> QED
    BY <2>1 DEF Deliver, engineVars
<1>2. CASE inbox[s][1] = "started"
  <2>1. pending' = pending
    BY <1>1, <1>2 DEF OnMessage
  <2>2. ASSUME NEW t \in Socket, NEW i \in DOMAIN inbox[t], inbox[t][i] # "started"
        PROVE  Told'
    <3>1. CASE t = s
      <4>1. i - 1 \in DOMAIN inbox'[s] /\ inbox'[s][i - 1] = inbox[s][i]
        BY <1>2, <2>2, <3>1, DeliverFront DEF TypeParts
      <4> QED
        BY <2>2, <3>1, <4>1 DEF Told
    <3>2. CASE t # s
      <4>1. inbox'[t] = inbox[t]
        BY <3>2, DeliverFront DEF TypeParts
      <4> QED
        BY <2>2, <4>1 DEF Told
    <3> QED
      BY <3>1, <3>2
  <2>3. Told => Told'
    BY <2>2 DEF Told
  <2>4. \A r : Fetches(r)' <=> Fetches(r)
    BY <1>1 DEF Fetches
  <2> QED
    BY <1>1, <2>1, <2>3, <2>4 DEF Coming
<1>3. CASE inbox[s][1] # "started"
  <2>1. pending' = Add(pending, Sent("graph"))
    BY <1>1, <1>3 DEF OnMessage
  <2>2. Sent("graph") \in DOMAIN pending'
    BY <2>1 DEF Add
  <2>3. Fetches(Sent("graph"))'
    BY SentIsRequest DEF Fetches
  <2> QED
    BY <2>2, <2>3 DEF Coming
<1> QED
  BY <1>2, <1>3

LEMMA ComingStep ==
  ASSUME TypeParts, CallsCounted, Known, Coming, Next
  PROVE  Coming'
<1>1. CASE BeginRun \/ FilesListed \/ EndRun \/ AbortRun \/ Update
  BY <1>1, ComingServer DEF TypeParts
<1>2. ASSUME NEW r \in DOMAIN pending, Handle(r) \/ Answer(r)
      PROVE  Coming'
  BY <1>2, ComingHandle, ComingAnswer
<1>3. ASSUME NEW s \in Socket, Break(s) \/ OnOpen(s) \/ OnClose(s) \/ OnError(s) \/ Deliver(s)
      PROVE  Coming'
  BY <1>3, ComingSocket, ComingDeliver
<1>4. CASE OnTimer \/ Reanalyze \/ CancelAnalysis \/ Expire \/ Login \/ Logout
  <2>1. UNCHANGED <<rev, phase, shown, inbox, missed>>
    BY <1>4 DEF OnTimer, Reanalyze, CancelAnalysis, Expire, Login, Logout, engineVars,
                storeVars, netVars
  <2>2. DOMAIN pending \subseteq DOMAIN pending'
    BY <1>4 DEF OnTimer, Reanalyze, CancelAnalysis, Expire, Login, Logout, netVars, Add
  <2>3. /\ Told' <=> Told
        /\ \A r : Fetches(r)' <=> Fetches(r)
    BY <2>1 DEF Told, Fetches
  <2> QED
    BY <2>1, <2>2, <2>3 DEF Coming
<1> QED
  BY <1>1, <1>2, <1>3, <1>4 DEF Next

---------------------------------------------------------------------------
(* The end of a run, action by action.                                     *)

(* Actions that touch neither what was announced nor the display, but to   *)
(* close it.                                                               *)
LEMMA EndKept ==
  ASSUME Announced, EndComes, inbox' = inbox, analyzing' => analyzing,
         "end" \in missed => "end" \in missed', phase = "parsing" <=> phase' = "parsing"
  PROVE  Announced' /\ EndComes'
  BY DEF Announced, EndComes, EndTold

LEMMA EndServer ==
  ASSUME TypeParts, Announced, EndComes,
         BeginRun \/ FilesListed \/ EndRun \/ AbortRun \/ Update
  PROVE  Announced' /\ EndComes'
<1>1. CASE BeginRun
  BY <1>1, EndKept DEF BeginRun, Begin, Pages
<1>2. CASE FilesListed
  BY <1>2 DEF FilesListed, Announced, EndComes
<1>3. CASE EndRun
  <2>1. Broadcast("complete") /\ "complete" \in Message /\ "end" \in Says("complete")
    BY <1>3, SaysGraph DEF EndRun, Message
  <2>2. ASSUME NEW s \in Socket
        PROVE  Ended(inbox'[s])
    <3>1. CASE link[s] = "open"
      BY <2>1, <3>1, BroadcastReaches DEF Ended, TypeParts
    <3>2. CASE link[s] # "open"
      <4>1. inbox'[s] = <<>>
        BY <2>1, <3>2 DEF Broadcast, Listening, TypeParts, NetTypes
      <4> QED
        BY <4>1 DEF Ended
    <3> QED
      BY <3>1, <3>2
  <2>3. "end" \in missed' \/ EndTold'
    BY <2>1, BroadcastReaches DEF TypeParts, EndTold
  <2> QED
    BY <2>2, <2>3 DEF Announced, EndComes
<1>4. CASE AbortRun
  BY <1>4 DEF AbortRun, Announced, EndComes
<1>5. CASE Update
  <2>1. /\ Broadcast("update") /\ "update" \in Message
        /\ UNCHANGED <<phase, analyzing>>
    BY <1>5 DEF Update, Message, Pages
  <2>2. missed \subseteq missed'
    BY <2>1, BroadcastReaches DEF TypeParts
  <2>3. ASSUME NEW s \in Socket, Ended(inbox[s])
        PROVE  Ended(inbox'[s])
    <3>1. /\ DOMAIN inbox[s] \subseteq DOMAIN inbox'[s]
          /\ \A i \in DOMAIN inbox[s] : inbox'[s][i] = inbox[s][i]
          /\ \A i \in DOMAIN inbox'[s] : inbox'[s][i] # "update" => i \in DOMAIN inbox[s]
      BY <2>1, BroadcastReaches DEF TypeParts
    <3> QED
      BY <2>3, <3>1 DEF Ended
  <2>4. EndTold => EndTold'
    BY <2>1, BroadcastReaches DEF EndTold, TypeParts
  <2> QED
    BY <2>1, <2>2, <2>3, <2>4 DEF Announced, EndComes
<1> QED
  BY <1>1, <1>2, <1>3, <1>4, <1>5

LEMMA EndSocket ==
  ASSUME TypeParts, Announced, EndComes, NEW s \in Socket, Break(s) \/ OnOpen(s) \/ OnError(s)
  PROVE  Announced' /\ EndComes'
<1>1. UNCHANGED <<phase, analyzing>>
  BY DEF Break, OnOpen, OnError, engineVars
<1>2. /\ missed \subseteq missed'
      /\ \A t \in Socket : inbox'[t] \in {inbox[t], <<>>}
      /\ \A t \in Socket : inbox'[t] # inbox[t] => Unread(t) \subseteq missed'
  BY LostIsMissed DEF TypeParts
<1>3. Announced'
  <2>1. Ended(<<>>)
    BY DEF Ended
  <2> QED
    BY <1>1, <1>2, <2>1 DEF Announced
<1>4. ASSUME NEW t \in Socket, NEW j \in DOMAIN inbox[t], inbox[t][j] = "complete"
      PROVE  "end" \in missed' \/ EndTold'
  <2>1. CASE inbox'[t] = inbox[t]
    BY <1>4, <2>1 DEF EndTold
  <2>2. CASE inbox'[t] # inbox[t]
    <3>1. "complete" \in Message
      BY DEF Message
    <3> QED
      BY <1>2, <1>4, <2>2, <3>1, UnreadSays, SaysGraph DEF TypeParts
  <2> QED
    BY <2>1, <2>2
<1>5. EndComes'
  BY <1>1, <1>2, <1>4 DEF EndComes, EndTold
<1> QED
  BY <1>3, <1>5

LEMMA EndDeliver ==
  ASSUME TypeParts, Announced, EndComes, NEW s \in Socket, Deliver(s)
  PROVE  Announced' /\ EndComes'
<1>1. /\ OnMessage(inbox[s][1]) /\ phase' = phase
      /\ missed' = missed \/ (inbox[s][1] = "complete" /\ ~StartedIn(inbox'))
  <2>1. Head(inbox[s]) = inbox[s][1]
    BY DeliverFront DEF TypeParts
  <2>2. OnMessage(Head(inbox[s])) /\ phase' = phase
    BY DEF Deliver, engineVars
  <2>3. OnMessage(inbox[s][1])
    BY <2>1, <2>2
  <2>4. missed' = missed \/ (Head(inbox[s]) = "complete" /\ ~StartedIn(inbox'))
    BY DEF Deliver
  <2> QED
    BY <2>1, <2>2, <2>3, <2>4
<1>2. inbox[s][1] \in Message
  BY DeliverFront DEF TypeParts, NetTypes
<1>3. ASSUME NEW t \in Socket, t # s
      PROVE  inbox'[t] = inbox[t]
  BY <1>3, DeliverFront DEF TypeParts
<1>4. /\ 1 \in DOMAIN inbox[s]
      /\ \A i \in DOMAIN inbox[s] : i \in Nat
      /\ \A i \in DOMAIN inbox[s] : i # 1 =>
            i - 1 \in DOMAIN inbox'[s] /\ inbox'[s][i - 1] = inbox[s][i]
      /\ \A i \in DOMAIN inbox'[s] :
            i \in Nat /\ i + 1 \in DOMAIN inbox[s] /\ inbox'[s][i] = inbox[s][i + 1]
  <2>1. inbox[s] \in Seq(Message) /\ inbox'[s] \in Seq(Message)
    BY DEF TypeParts, NetTypes, Deliver
  <2>2. (\A i \in DOMAIN inbox[s] : i \in Nat) /\ \A i \in DOMAIN inbox'[s] : i \in Nat
    BY <2>1
  <2> QED
    BY <2>2, DeliverFront DEF TypeParts
<1>5. ASSUME Ended(inbox[s])
      PROVE  Ended(inbox'[s])
  <2> SUFFICES ASSUME NEW i \in DOMAIN inbox'[s], inbox'[s][i] = "started"
               PROVE  \E j \in DOMAIN inbox'[s] : j > i /\ inbox'[s][j] = "complete"
    BY DEF Ended
  <2>1. PICK j \in DOMAIN inbox[s] : j > i + 1 /\ inbox[s][j] = "complete"
    BY <1>4, <1>5 DEF Ended
  <2>2. j \in Nat /\ i \in Nat
    BY <1>4
  <2>3. j # 1 /\ j - 1 > i
    BY <2>1, <2>2
  <2> QED
    BY <1>4, <2>1, <2>3
<1>6. Announced'
  <2>1. CASE missed' = missed
    BY <1>1, <1>3, <1>5, <2>1 DEF Announced
  <2>2. CASE ~StartedIn(inbox')
    BY <2>2 DEF Announced, Ended, StartedIn, S!ToSet
  <2> QED
    BY <1>1, <2>1, <2>2
<1>7. CASE inbox[s][1] = "complete"
  BY <1>1, <1>6, <1>7 DEF OnMessage, EndComes
<1>8. CASE inbox[s][1] = "started"
  <2>1. missed' = missed
    BY <1>1, <1>8
  <2>2. ASSUME "end" \notin missed, phase # "parsing"
        PROVE  EndTold'
    <3>1. PICK j \in DOMAIN inbox[s] : j > 1 /\ inbox[s][j] = "complete"
      BY <1>4, <1>8, <2>2 DEF Announced, Ended
    <3> QED
      BY <1>4, <3>1 DEF EndTold
  <2> QED
    BY <1>1, <1>6, <2>1, <2>2 DEF EndComes
<1>9. CASE inbox[s][1] = "update"
  <2>1. missed' = missed /\ analyzing' = analyzing
    BY <1>1, <1>9 DEF OnMessage
  <2>2. ASSUME NEW t \in Socket, NEW j \in DOMAIN inbox[t], inbox[t][j] = "complete"
        PROVE  EndTold'
    <3>1. CASE t = s
      <4>1. j - 1 \in DOMAIN inbox'[s] /\ inbox'[s][j - 1] = "complete"
        BY <1>4, <1>9, <2>2, <3>1
      <4> QED
        BY <4>1 DEF EndTold
    <3>2. CASE t # s
      BY <1>3, <2>2, <3>2 DEF EndTold
    <3> QED
      BY <3>1, <3>2
  <2> QED
    BY <1>1, <1>6, <2>1, <2>2 DEF EndComes, EndTold
<1> QED
  BY <1>2, <1>7, <1>8, <1>9 DEF Message

LEMMA EndStep ==
  ASSUME TypeParts, Announced, EndComes, Next
  PROVE  Announced' /\ EndComes'
<1>1. CASE BeginRun \/ FilesListed \/ EndRun \/ AbortRun \/ Update
  BY <1>1, EndServer
<1>2. ASSUME NEW r \in DOMAIN pending, Handle(r)
      PROVE  Announced' /\ EndComes'
  BY <1>2, EndKept DEF Handle, Begin, Pages, engineVars
<1>3. ASSUME NEW r \in DOMAIN pending, Answer(r)
      PROVE  Announced' /\ EndComes'
  <2>1. UNCHANGED <<inbox, analyzing, phase>>
    BY <1>3 DEF Answer, OnGraph, OnGraphError, OnAnalyzed, Fetched, engineVars
  <2>2. "end" \in missed => "end" \in missed'
    BY <1>3 DEF Answer, OnGraph, OnGraphError, OnAnalyzed, Missing
  <2> QED
    BY <2>1, <2>2, EndKept
<1>4. ASSUME NEW s \in Socket, OnClose(s)
      PROVE  Announced' /\ EndComes'
  BY <1>4, EndKept DEF OnClose, engineVars
<1>5. ASSUME NEW s \in Socket, Break(s) \/ OnOpen(s) \/ OnError(s) \/ Deliver(s)
      PROVE  Announced' /\ EndComes'
  BY <1>5, EndSocket, EndDeliver
<1>6. CASE OnTimer \/ Reanalyze \/ CancelAnalysis \/ Expire \/ Login \/ Logout
  <2>1. UNCHANGED <<inbox, phase, missed>> /\ (analyzing' => analyzing)
    BY <1>6 DEF OnTimer, Reanalyze, CancelAnalysis, Expire, Login, Logout, engineVars, netVars
  <2> QED
    BY <2>1, EndKept
<1> QED
  BY <1>1, <1>2, <1>3, <1>4, <1>5, <1>6 DEF Next

---------------------------------------------------------------------------
(* The invariant.                                                          *)

LEMMA ClientInit == Init => ClientInv
<1> SUFFICES ASSUME Init
             PROVE  ClientInv
  OBVIOUS
<1>1. Sent("init") \in Request /\ Sent("init").what = "init" /\ Sent("init").of = None
      /\ Sent("init").at = "sent"
  BY SentIsRequest
<1>2. /\ valid => DOMAIN pending = {Sent("init")} /\ pending[Sent("init")] = 1
      /\ ~valid => pending = <<>>
  BY DEF Init
<1>3. IsBag(pending)
  BY <1>1, <1>2 DEF IsBag
<1>4. TypeParts
  <2>1. EngineTypes
    BY ClientAssumption DEF Init, EngineTypes, Revision
  <2>2. NetTypes
    BY DEF Init, NetTypes
  <2>3. PageTypes
    <3>1. loading = valid /\ valid \in BOOLEAN
      BY DEF Init
    <3>2. loading \in BOOLEAN
      BY <3>1, Zenon
    <3>3. ws \in Socket \cup {None} /\ shown \in Revision \cup {None}
      BY DEF Init
    <3>4. status \in {"disconnected", "connecting", "connected"}
      BY DEF Init
    <3>5. timers = 0 /\ analyzing = FALSE
      BY DEF Init
    <3>6. timers \in 0..1
      BY <3>5
    <3>7. analyzing \in BOOLEAN
      BY <3>5, Zenon
    <3> QED
      BY <3>2, <3>3, <3>4, <3>6, <3>7, Zenon DEF PageTypes
  <2>4. SessionTypes
    BY ClientAssumption DEF Init, SessionTypes
  <2> QED
    BY <1>3, <2>1, <2>2, <2>3, <2>4 DEF TypeParts
<1>5. RunsCounted
  BY ClientAssumption DEF Init, RunsCounted, Updates
<1>6. CallsCounted
  <2>1. Used = {}
    BY DEF Init, Used, Unused
  <2>2. Cardinality(Used) = 0
    BY <2>1, FS_EmptySet
  <2>3. CASE valid
    <3>1. Tickets(pending) = {<<Sent("init"), 1>>}
      BY <1>1, <1>2, <2>3 DEF Tickets
    <3>2. IsFiniteSet(Tickets(pending)) /\ Cardinality(Tickets(pending)) = 1
      BY <3>1, FS_Singleton
    <3> QED
      BY <2>2, <2>3, <3>2 DEF Init, CallsCounted
  <2>4. CASE ~valid
    <3>1. Tickets(pending) = {}
      BY <1>2, <2>4 DEF Tickets
    <3>2. IsFiniteSet(Tickets(pending)) /\ Cardinality(Tickets(pending)) = 0
      BY <3>1, FS_EmptySet
    <3> QED
      BY <2>2, <2>4, <3>2 DEF Init, CallsCounted
  <2> QED
    BY <2>3, <2>4
<1>7. Known
  BY <1>1, <1>2 DEF Init, Known, None
<1>8. Coming /\ Announced /\ EndComes
  BY DEF Init, Coming, Announced, Ended, EndComes
<1> QED
  BY <1>4, <1>5, <1>6, <1>7, <1>8, TypesSplit DEF ClientInv

LEMMA ClientNext == ClientInv /\ [Next]_vars => ClientInv'
<1>1. ASSUME ClientInv, Next
      PROVE  ClientInv'
  <2>1. TypeParts /\ RunsCounted /\ CallsCounted /\ Known /\ Coming /\ Announced /\ EndComes
    BY <1>1, TypesSplit DEF ClientInv
  <2>2. EngineTypes' /\ RunsCounted'
    BY <1>1, <2>1, EngineOnly, EngineStep DEF TypeParts
  <2>3. ClientPart'
    BY <1>1, <2>1, PartStep DEF TypeParts, ClientPart
  <2>4. Known'
    BY <1>1, <2>1, KnownStep
  <2>5. Coming'
    BY <1>1, <2>1, ComingStep
  <2>6. Announced' /\ EndComes'
    BY <1>1, <2>1, EndStep
  <2>7. ClientTypeOK'
    BY <2>2, <2>3 DEF ClientPart, ClientTypeOK, EngineTypes, NetTypes, IsBag, PageTypes,
                      SessionTypes
  <2> QED
    BY <2>2, <2>3, <2>4, <2>5, <2>6, <2>7 DEF ClientInv, ClientPart
<1>2. ASSUME ClientInv, UNCHANGED vars
      PROVE  ClientInv'
  <2>1. UNCHANGED <<rev, phase, runs, link, inbox, pending, faults, loading, shown, valid,
                    authRequired, inits, ws, status, timers, analyzing, missed>>
    BY <1>2 DEF vars, engineVars, netVars, storeVars, sessionVars
  <2>2. ClientTypeOK' /\ Known'
    BY <1>2, <2>1 DEF ClientInv, ClientTypeOK, Known
  <2>3. RunsCounted' /\ CallsCounted'
    BY <1>2, <2>1 DEF ClientInv, RunsCounted, Updates, CallsCounted, Used, Unused
  <2>4. Coming'
    BY <1>2, <2>1 DEF ClientInv, Coming, Told, Fetches
  <2>5. Announced' /\ EndComes'
    BY <1>2, <2>1, EndKept DEF ClientInv
  <2> QED
    BY <2>2, <2>3, <2>4, <2>5 DEF ClientInv
<1> QED
  BY <1>1, <1>2

(* Nothing a page does, and nothing that happens to its requests and       *)
(* sockets, leads out of the invariant (App.vue, useWebSocket.ts).         *)
THEOREM ClientInductive == Spec => []ClientInv
<1> QED
  BY ClientInit, ClientNext, PTL DEF Spec

(* Sockets do not multiply over reconnections and logins: each call of     *)
(* initApp() leads to one, and one that is closed is replaced by a timer.  *)
THEOREM SocketsBoundedAlways == Spec => []SocketsBounded
<1>1. ASSUME ClientInv
      PROVE  SocketsBounded
  <2> DEFINE first == {r \in DOMAIN pending : r.what = "init"}
  <2>1. ClientTypeOK /\ CallsCounted
    BY <1>1 DEF ClientInv
  <2>2. ASSUME NEW r \in first
        PROVE  \E x \in Tickets(pending) : x[1] = r
    <3>1. r \in Request /\ pending[r] \in Nat \ {0}
      BY <2>1 DEF ClientTypeOK
    <3>2. <<r, 1>> \in Tickets(pending)
      BY <3>1 DEF Tickets
    <3> QED
      BY <3>2
  <2>3. \A x \in Tickets(pending) : x[1] \in first
    BY DEF Tickets
  <2> DEFINE tickets == Tickets(pending)
             kind == [x \in tickets |-> x[1]]
  <2>4. kind \in [tickets -> first] /\ \A t \in first : \E x \in tickets : kind[x] = t
    BY <2>2, <2>3
  <2>5. Cardinality(first) <= Cardinality(Tickets(pending)) /\ IsFiniteSet(first)
    <3>1. IsFiniteSet(tickets)
      BY <2>1 DEF CallsCounted
    <3> HIDE DEF first, tickets, kind
    <3>2. Cardinality(first) <= Cardinality(tickets) /\ IsFiniteSet(first)
      BY <2>4, <3>1, Covers
    <3> QED
      BY <3>2 DEF tickets
  <2> HIDE DEF first
  <2>6. Cardinality(first) \in Nat
    BY <2>5, FS_CardinalityType
  <2>7. Cardinality(Used) + timers + Cardinality(first) <= inits
    BY <2>1, <2>5, <2>6, CountsAreNat DEF CallsCounted, ClientTypeOK
  <2> QED
    BY <2>1, <2>7 DEF SocketsBounded, Used, first
<1> QED
  BY <1>1, ClientInductive, PTL

(* The progress display does not stay open after a run whose end the page  *)
(* is told of.                                                             *)
THEOREM ProgressEndsAlways == Spec => []ProgressEnds
<1>1. ASSUME ClientInv
      PROVE  ProgressEnds
  BY <1>1 DEF ClientInv, EndComes, EndTold, ProgressEnds, S!ToSet
<1> QED
  BY <1>1, ClientInductive, PTL

(* A page at rest that has missed nothing shows the server's graph.        *)
THEOREM ShowsLatestAlways == Spec => []ShowsLatest
<1>1. ASSUME ClientInv
      PROVE  ShowsLatest
  BY <1>1 DEF ClientInv, Coming, Told, ShowsLatest, Settled
<1> QED
  BY <1>1, ClientInductive, PTL

===========================================================================
