-------------------------- MODULE ParallelParser --------------------------
(***************************************************************************)
(* ParallelParser.parseAll of core/src/engine/ParallelParser.ts on top of  *)
(* the pool of WorkerPool.tla: the cache phase, the choice between pool    *)
(* and main thread, the fallback, cancellation by a throwing progress      *)
(* callback, and dispose() while a call is running.  The pool outlives a   *)
(* call and is replaced only after it has been given up.                   *)
(*                                                                         *)
(* What parseAll() does between two awaits is one turn of the event loop.  *)
(* It is split here at the branch points of the code; while the turn lasts *)
(* (InTurn) no event of a worker and no other request is handled, and the  *)
(* continuation of a settled await comes before both, as microtasks do.    *)
(***************************************************************************)
EXTENDS WorkerPool

CONSTANTS
    Listings,           \* the sets of files a call may be given
    WORKER_THRESHOLD,   \* fewer uncached files are parsed on the main thread
    MaxCalls            \* bound on the number of parseAll() calls

ASSUME TaskAssumption == IsFiniteSet(Task)
ASSUME ListingsAssumption == Listings \subseteq SUBSET Task
ASSUME ThresholdAssumption == WORKER_THRESHOLD \in Nat \ {0}
ASSUME MaxCallsAssumption == MaxCalls \in Nat

VARIABLES
    hasPool,    \* this.pool is not null
    phase,      \* where the running parseAll() is suspended
    calls,      \* parseAll() calls so far
    kind,       \* what the current call finds about each file
    cancelled,  \* the caller's abort signal, which makes onProgress throw
    nodes,      \* how often a file's parse result was added to the output
    errs,       \* how often a file was reported as unread or unparsed
    fresh,      \* how often a file appears in parsedFileEntries
    processed   \* the progress counter

callVars   == <<phase, calls, kind, cancelled>>
outVars    == <<nodes, errs, fresh, processed>>
parserVars == <<hasPool, callVars, outVars>>
allVars    == <<vars, parserVars>>
Kinds == {"absent", "unread", "cached", "uncached"}

FilesOf(k) == {f \in Task : kind[f] = k}
Files == Task \ FilesOf("absent")

ParserTypeOK ==
    /\ TypeOK
    /\ hasPool \in BOOLEAN
    /\ phase \in {"idle", "parsing", "warming", "running", "returned", "failed"}
    /\ calls \in 0..MaxCalls
    /\ kind \in [Task -> Kinds]
    /\ cancelled \in BOOLEAN
    /\ nodes \in [Task -> Nat]
    /\ errs \in [Task -> Nat]
    /\ fresh \in [Task -> Nat]
    /\ processed \in 0..Cardinality(Task)

ParserInit ==
    /\ Init
    /\ hasPool = FALSE
    /\ phase = "idle"
    /\ calls = 0
    /\ kind = [f \in Task |-> "absent"]
    /\ cancelled = FALSE
    /\ nodes = [f \in Task |-> 0]
    /\ errs = [f \in Task |-> 0]
    /\ fresh = [f \in Task |-> 0]
    /\ processed = 0

Suspended == phase \in {"parsing", "warming", "running"}

(* parseAll() is on the stack or its continuation is the next microtask.   *)
InTurn ==
    \/ phase = "parsing"
    \/ phase = "warming" /\ warmup \in Settled
    \/ phase = "running" /\ \A t \in FilesOf("uncached") : promise[t] \in Settled

---------------------------------------------------------------------------
(* Steps of parseAll().                                                    *)

Ones(S) == [f \in Task |-> IF f \in S THEN 1 ELSE 0]
Plus(n, S) == [f \in Task |-> IF f \in S THEN n[f] + 1 ELSE n[f]]

(* Phase 1: every file is read and looked up in the cache.  The callback   *)
(* is consulted for the files that need no parsing, and throws if the      *)
(* caller cancelled before they were reached.                              *)
Scan ==
    /\ ~Suspended
    /\ calls < MaxCalls
    /\ calls' = calls + 1
    /\ \E files \in Listings : \E found \in [files -> Kinds \ {"absent"}] :
          kind' = [f \in Task |-> IF f \in files THEN found[f] ELSE "absent"]
    /\ cancelled' \in BOOLEAN
    /\ LET Is(k) == {f \in Task : kind'[f] = k}
           settledFiles == Is("unread") \cup Is("cached")
       IN /\ nodes' = Ones(Is("cached"))
          /\ errs' = Ones(Is("unread"))
          /\ fresh' = Ones({})
          /\ processed' = Cardinality(settledFiles)
          /\ phase' = IF cancelled' /\ settledFiles # {} THEN "failed"
                      ELSE IF Is("uncached") = {} THEN "returned"
                      ELSE "parsing"
    /\ promise' = [t \in Task |-> "none"]
    /\ answer' = [t \in Task |-> NoTask]
    /\ UNCHANGED <<poolVars, threadVars, hasPool>>

(* Mutations of ParseOnMainThread: it parses the cached files again; it    *)
(* ignores that the callback throws.                                       *)
ParseAllOnMainThread ==
    /\ UNCHANGED <<calls, kind, cancelled, errs>>
    /\ IF cancelled
       THEN phase' = "failed" /\ UNCHANGED <<nodes, fresh, processed>>
       ELSE /\ phase' = "returned"
            /\ nodes' = Plus(nodes, Files)
            /\ fresh' = Plus(fresh, FilesOf("uncached"))
            /\ processed' = processed + Cardinality(Files)

(* The main thread parses the uncached files; parseFile() catches what a   *)
(* parser throws.  The callback is consulted after each file.              *)
ParseOnMainThread ==
    LET S == FilesOf("uncached") IN
    /\ UNCHANGED <<calls, kind, cancelled, errs>>
    /\ IF cancelled
       THEN phase' = "failed" /\ UNCHANGED <<nodes, fresh, processed>>
       ELSE /\ phase' = "returned"
            /\ nodes' = Plus(nodes, S)
            /\ fresh' = Plus(fresh, S)
            /\ processed' = processed + Cardinality(S)

UseWorkers == Cardinality(FilesOf("uncached")) >= WORKER_THRESHOLD

ParseFew ==
    /\ phase = "parsing"
    /\ ~UseWorkers
    /\ ParseOnMainThread
    /\ UNCHANGED <<vars, hasPool>>

(* new WorkerPool(...): the threads of an earlier, disposed pool no longer *)
(* matter to anyone.                                                       *)
NewPool ==
    /\ phase = "parsing"
    /\ UseWorkers
    /\ ~hasPool
    /\ hasPool' = TRUE
    /\ queue' = <<>>
    /\ workers' = {}
    /\ ready' = [w \in Worker |-> FALSE]
    /\ busy' = [w \in Worker |-> FALSE]
    /\ inflight' = [w \in Worker |-> NoTask]
    /\ warmup' = "cold"
    /\ disposed' = FALSE
    /\ thread' = [w \in Worker |-> "absent"]
    /\ job' = [w \in Worker |-> NoTask]
    /\ hello' = [w \in Worker |-> FALSE]
    /\ done' = [w \in Worker |-> NoTask]
    /\ UNCHANGED <<callerVars, callVars, outVars>>

FirstWarmup ==
    /\ phase = "parsing"
    /\ UseWorkers
    /\ hasPool
    /\ Warmup
    /\ phase' = "warming"
    /\ UNCHANGED <<hasPool, calls, kind, cancelled, outVars>>

(* warmup() of a pool that has been warmed up: it only looks for a worker. *)
SomeReady == \E w \in workers : ready[w]

(* All run() calls are made in one go.                                     *)
RunAll ==
    LET S == FilesOf("uncached") IN
       /\ hasPool
       /\ \/ phase = "parsing" /\ UseWorkers /\ warmup # "cold" /\ SomeReady
          \/ phase = "warming" /\ warmup = "resolved"
       /\ phase' = "running"
       /\ IF workers = {}
          THEN /\ promise' = Rejecting(promise, S)
               /\ UNCHANGED <<queue, busy, inflight, job>>
          ELSE \E files \in Injections(1..Cardinality(S), S) :
               Dispatch(queue \o files, ready, busy, inflight,
                        [t \in Task |-> IF t \in S THEN "pending" ELSE promise[t]],
                        job)
       /\ UNCHANGED <<workers, ready, warmup, disposed, answer, thread, hello, done,
                      hasPool, calls, kind, cancelled, outVars>>

(* disposePool(): dispose() is a no-op on a pool disposed before.          *)
DisposePool ==
    /\ hasPool' = FALSE
    /\ IF hasPool /\ ~disposed THEN Dispose ELSE UNCHANGED vars

(* warmup() rejected or threw: the catch block disposes of the pool, and   *)
(* every uncached file is parsed on the main thread.                       *)
FallBack ==
    /\ \/ phase = "parsing" /\ UseWorkers /\ hasPool /\ warmup # "cold" /\ ~SomeReady
       \/ phase = "warming" /\ warmup = "rejected"
    /\ DisposePool
    /\ ParseOnMainThread

(* All promises are settled.  A worker may have answered with an error or  *)
(* without a result: such a file has an error entry, as one whose promise  *)
(* was rejected.  A cancelled call adds the first outcome,                 *)
(* throws out of the callback, gives up the pool, parses one file again on *)
(* the main thread and throws for good: what it collected is dropped.      *)
Collect ==
    LET S == FilesOf("uncached")
        ok == {t \in S : promise[t] = "resolved"}
    IN /\ phase = "running"
       /\ \A t \in S : promise[t] \in Settled
       /\ IF cancelled
          THEN /\ DisposePool
               /\ phase' = "failed"
               /\ UNCHANGED outVars
          ELSE /\ phase' = "returned"
               /\ \E unparsed \in SUBSET ok :
                     LET parsed == {answer[t] : t \in ok \ unparsed}
                     IN /\ nodes' = Plus(nodes, parsed)
                        /\ fresh' = Plus(fresh, parsed)
                        /\ errs' = Plus(errs, (S \ ok) \cup unparsed)
               /\ processed' = processed + Cardinality(S)
               /\ UNCHANGED <<vars, hasPool>>
       /\ UNCHANGED <<calls, kind, cancelled>>

---------------------------------------------------------------------------
(* The rest of the main thread, which waits for the turn to end.           *)

(* The caller's abort signal (AnalysisEngine.cancelAnalysis).              *)
Cancel ==
    /\ Suspended
    /\ ~cancelled
    /\ cancelled' = TRUE
    /\ UNCHANGED <<vars, hasPool, phase, calls, kind, outVars>>

(* dispose(), at any time.                                                 *)
DisposeParser ==
    /\ hasPool
    /\ DisposePool
    /\ UNCHANGED <<callVars, outVars>>

PoolEvent ==
    /\ \/ WarmupTimeout
       \/ \E w \in Worker : WorkerEvent(w)
    /\ UNCHANGED parserVars

ParseStep == ParseFew \/ NewPool \/ FirstWarmup \/ RunAll \/ FallBack \/ Collect

ParserNext ==
    \/ Scan
    \/ ParseStep
    \/ ~InTurn /\ (Cancel \/ DisposeParser \/ PoolEvent)
    \/ (\E w \in Worker : ThreadStep(w)) /\ UNCHANGED parserVars

(* The event loop keeps turning, a spawned thread comes up or dies, and    *)
(* one with a task finishes it unless it dies first.                       *)
ParserSpec == ParserInit /\ [][ParserNext]_allVars

FairParserSpec ==
    /\ ParserSpec
    /\ WF_allVars(ParseStep)
    /\ WF_allVars(~InTurn /\ WarmupTimeout /\ UNCHANGED parserVars)
    /\ \A w \in Worker :
          /\ WF_allVars(~InTurn /\ WorkerEvent(w) /\ UNCHANGED parserVars)
          /\ WF_allVars(Finish(w) /\ UNCHANGED parserVars)
          /\ WF_allVars(ComesUp(w) /\ UNCHANGED parserVars)

---------------------------------------------------------------------------
(* Properties.                                                             *)

(* What parseAll() returns accounts for every file once: its nodes came    *)
(* from the cache, from a worker or from the main thread, or it has one    *)
(* error entry; only files that were parsed in this call go back to the    *)
(* cache, and the progress counter ends at the number of files.            *)
EachFileOnce ==
    phase = "returned" =>
        /\ \A f \in Files : nodes[f] + errs[f] = 1
        /\ \A f \in Task \ Files : nodes[f] + errs[f] = 0
        /\ \A f \in Task : fresh[f] = IF kind[f] = "uncached" THEN nodes[f] ELSE 0
        /\ processed = Cardinality(Files)

(* When the pool was never usable, no file is lost: only unreadable files  *)
(* have errors ("should fall back to main thread when workers fail").      *)
FallbackLosesNothing ==
    phase = "returned" /\ warmup # "resolved" =>
        \A f \in Task : errs[f] = 1 => kind[f] = "unread"

(* A cancelled call that had files to report never returns a result.       *)
CancelIsSeen ==
    phase = "returned" /\ cancelled => Files = {}

(* With the types, what a caller of parseAll() relies on: every file of the *)
(* listing is in the result once, by its nodes or by an error, also after  *)
(* the pool failed half-way; and a cancelled call has no result.           *)
ResultComplete == ParserTypeOK /\ EachFileOnce /\ FallbackLosesNothing /\ CancelIsSeen

(* parseAll() comes back, unless dispose() takes the pool away from it.    *)
ParseAllReturns == Suspended ~> ~Suspended \/ ~hasPool
===========================================================================
