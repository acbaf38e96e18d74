---------------------------- MODULE WorkerPool ----------------------------
(***************************************************************************)
(* The persistent pool of parser threads of                                *)
(* packages/core/src/engine/ParallelParser.ts (class WorkerPool), together *)
(* with the worker side of the protocol in parseWorker.ts.                 *)
(*                                                                         *)
(* The main thread is one JavaScript event loop: a handler (warmup, run,   *)
(* a 'message' / 'error' / 'exit' callback, dispose) is one action.  The   *)
(* worker threads run beside it: they boot, parse, post messages, raise    *)
(* an uncaught error or exit at any moment.  What a thread has sent and    *)
(* the main thread has not handled yet is kept per worker in hello, done   *)
(* and thread.                                                             *)
(***************************************************************************)
EXTENDS Naturals, Sequences, FiniteSets

CONSTANTS
    Worker,     \* the slots 0 .. size-1 of the pool
    Task,       \* the calls of run(): one file each
    NoTask,     \* null
    ExitCodes   \* codes a thread that ends by itself may report

ASSUME NoTaskAssumption == NoTask \notin Task
ASSUME ExitCodesAssumption == ExitCodes \subseteq Nat

VARIABLES
    queue,      \* queue: the pending tasks, first in first out
    workers,    \* workers: the PooledWorkers that have not been removed
    ready,      \* pw.ready
    busy,       \* pw.busy
    inflight,   \* pw.inflight
    warmup,     \* the promise of the first warmup() call
    disposed,   \* disposed
    promise,    \* the promise run() returned for each task
    answer,     \* the task whose parse result resolved that promise
    thread,     \* the thread behind each slot
    job,        \* the task message the thread has not answered
    hello,      \* its 'ready' message is waiting for the main thread
    done        \* its 'task-done' message, for this task, is waiting

poolVars   == <<queue, workers, ready, busy, inflight, warmup, disposed>>
callerVars == <<promise, answer>>
threadVars == <<thread, job, hello, done>>
vars       == <<poolVars, callerVars, threadVars>>

Settled == {"resolved", "rejected"}
Alive   == {"booting", "up"}

TypeOK ==
    /\ queue \in Seq(Task)
    /\ workers \subseteq Worker
    /\ ready \in [Worker -> BOOLEAN]
    /\ busy \in [Worker -> BOOLEAN]
    /\ inflight \in [Worker -> Task \cup {NoTask}]
    /\ warmup \in {"cold", "waiting"} \cup Settled
    /\ disposed \in BOOLEAN
    /\ promise \in [Task -> {"none", "pending"} \cup Settled]
    /\ answer \in [Task -> Task \cup {NoTask}]
    /\ thread \in [Worker -> {"absent", "raised", "dying", "gone"} \cup Alive]
    /\ job \in [Worker -> Task \cup {NoTask}]
    /\ hello \in [Worker -> BOOLEAN]
    /\ done \in [Worker -> Task \cup {NoTask}]

Init ==
    /\ queue = <<>>
    /\ workers = {}
    /\ ready = [w \in Worker |-> FALSE]
    /\ busy = [w \in Worker |-> FALSE]
    /\ inflight = [w \in Worker |-> NoTask]
    /\ warmup = "cold"
    /\ disposed = FALSE
    /\ promise = [t \in Task |-> "none"]
    /\ answer = [t \in Task |-> NoTask]
    /\ thread = [w \in Worker |-> "absent"]
    /\ job = [w \in Worker |-> NoTask]
    /\ hello = [w \in Worker |-> FALSE]
    /\ done = [w \in Worker |-> NoTask]

---------------------------------------------------------------------------
(* Shared steps of the handlers.                                           *)

Queued == {queue[i] : i \in DOMAIN queue}

(* The promises after reject() was called for the tasks of S.              *)
Rejecting(prom, S) == [t \in Task |-> IF t \in S THEN "rejected" ELSE prom[t]]

SettleWarmup(how) == IF warmup = "waiting" THEN how ELSE warmup

Injections(S, T) == {f \in [S -> T] : \A x, y \in S : f[x] = f[y] => x = y}

(* One pass of dispatch() over the queue q, when the handler that calls it *)
(* has already brought the fields to bsy, infl, prom and jb.  The loop     *)
(* pops the first n tasks; the task at position at[w] goes to the free     *)
(* worker w of G, and for the others postMessage threw, which rejects the  *)
(* task and leaves the worker free.  It pops a task only while a worker is *)
(* free, and stops only for want of one.                                   *)
Pass(free, n, G, at, q, bsy, infl, prom, jb) ==
    /\ n > 0 => {w \in G : at[w] < n} # free
    /\ n < Len(q) => G = free
    /\ queue' = SubSeq(q, n + 1, Len(q))
    /\ busy' = [w \in Worker |-> w \in G \/ bsy[w]]
    /\ inflight' = [w \in Worker |-> IF w \in G THEN q[at[w]] ELSE infl[w]]
    /\ job' = [w \in Worker |-> IF w \in G THEN q[at[w]] ELSE jb[w]]
    /\ promise' = Rejecting(prom, {q[i] : i \in (1..n) \ {at[w] : w \in G}})

(* The workers are interchangeable, so find() may return any free one.     *)
Dispatch(q, rdy, bsy, infl, prom, jb) ==
    LET free == {w \in workers : rdy[w] /\ ~bsy[w]} IN
    \E n \in 0..Len(q) : \E G \in SUBSET free : \E at \in Injections(G, 1..n) :
        Pass(free, n, G, at, q, bsy, infl, prom, jb)

(* dispatch() as every caller sees it: a disposed pool hands out nothing.  *)
DispatchUnlessDisposed(q, rdy, bsy, infl, prom, jb) ==
    IF disposed
    THEN /\ queue' = q
         /\ busy' = bsy
         /\ inflight' = infl
         /\ job' = jb
         /\ promise' = prom
    ELSE Dispatch(q, rdy, bsy, infl, prom, jb)

(* Mutations of RemoveWorker: the queue of a pool without workers is left *)
(* as it is, or rejected without being emptied.                            *)
RemoveOnly(w, prom) ==
    /\ workers' = workers \ {w}
    /\ promise' = prom
    /\ UNCHANGED <<queue, warmup>>

RemoveKeepingQueue(w, prom) ==
    /\ workers' = workers \ {w}
    /\ promise' = IF workers \ {w} = {} THEN Rejecting(prom, Queued) ELSE prom
    /\ UNCHANGED <<queue, warmup>>

(* removeWorker(w): the last worker to go takes the queue with it.         *)
RemoveWorker(w, prom) ==
    /\ workers' = workers \ {w}
    /\ IF workers \ {w} = {}
       THEN /\ queue' = <<>>
            /\ promise' = Rejecting(prom, Queued)
            /\ warmup' = SettleWarmup("rejected")
       ELSE /\ promise' = prom
            /\ UNCHANGED <<queue, warmup>>

---------------------------------------------------------------------------
(* The main thread: calls of the pool's owner.                             *)

(* warmup(), first call: the workers of S spawn; for the other slots the   *)
(* constructor or the init message threw.                                  *)
Warmup ==
    /\ ~disposed
    /\ warmup = "cold"
    /\ \E S \in SUBSET Worker :
         /\ workers' = S
         /\ thread' = [w \in Worker |-> IF w \in S THEN "booting" ELSE "absent"]
         /\ warmup' = IF S = {} THEN "rejected" ELSE "waiting"
    /\ UNCHANGED <<queue, ready, busy, inflight, disposed, callerVars, job, hello, done>>

(* The timer of warmup() fires before any worker was ready.                *)
WarmupTimeout ==
    /\ warmup = "waiting"
    /\ warmup' = "rejected"
    /\ UNCHANGED <<queue, workers, ready, busy, inflight, disposed,
                   callerVars, threadVars>>

(* Mutation of Run: the check of disposed is missing.                      *)
RunWhenDisposed(t) ==
    /\ warmup = "resolved"
    /\ promise[t] = "none"
    /\ promise' = [promise EXCEPT ![t] = "pending"]
    /\ queue' = Append(queue, t)
    /\ UNCHANGED <<workers, ready, busy, inflight, warmup, disposed, answer, threadVars>>

(* run(t): the owner calls it once warmup() has resolved.                  *)
Run(t) ==
    /\ warmup = "resolved"
    /\ promise[t] = "none"
    /\ IF disposed \/ workers = {}
       THEN /\ promise' = Rejecting(promise, {t})
            /\ UNCHANGED <<queue, busy, inflight, job>>
       ELSE Dispatch(Append(queue, t), ready, busy, inflight,
                     [promise EXCEPT ![t] = "pending"], job)
    /\ UNCHANGED <<workers, ready, warmup, disposed, answer, thread, hello, done>>

(* dispose(): idempotent; terminates the threads, rejects what is queued.  *)
Dispose ==
    /\ ~disposed
    /\ disposed' = TRUE
    /\ thread' = [w \in Worker |->
                    IF w \in workers /\ thread[w] \in Alive THEN "dying"
                    ELSE thread[w]]
    /\ workers' = {}
    /\ promise' = Rejecting(promise, Queued)
    /\ queue' = <<>>
    /\ warmup' = SettleWarmup("rejected")
    /\ UNCHANGED <<ready, busy, inflight, answer, job, hello, done>>

---------------------------------------------------------------------------
(* The main thread: events of the workers.                                 *)

(* Mutation of OnReady: dispatch() is not called.                          *)
OnReadyOnly(w) ==
    /\ hello[w]
    /\ hello' = [hello EXCEPT ![w] = FALSE]
    /\ ready' = [ready EXCEPT ![w] = TRUE]
    /\ warmup' = SettleWarmup("resolved")
    /\ UNCHANGED <<queue, workers, busy, inflight, disposed, callerVars, thread, job, done>>

OnReady(w) ==
    /\ hello[w]
    /\ hello' = [hello EXCEPT ![w] = FALSE]
    /\ ready' = [ready EXCEPT ![w] = TRUE]
    /\ warmup' = SettleWarmup("resolved")
    /\ DispatchUnlessDisposed(queue, [ready EXCEPT ![w] = TRUE], busy, inflight,
                              promise, job)
    /\ UNCHANGED <<workers, disposed, answer, thread, done>>

OnTaskDone(w) ==
    LET t == inflight[w] IN
    /\ done[w] # NoTask
    /\ done' = [done EXCEPT ![w] = NoTask]
    /\ answer' = IF t = NoTask THEN answer
                 ELSE [answer EXCEPT ![t] = done[w]]
    /\ DispatchUnlessDisposed(
          queue, ready,
          [busy EXCEPT ![w] = FALSE],
          [inflight EXCEPT ![w] = NoTask],
          IF t = NoTask THEN promise ELSE [promise EXCEPT ![t] = "resolved"],
          job)
    /\ UNCHANGED <<workers, ready, warmup, disposed, thread, hello>>

(* 'error': an uncaught error ended the thread; its 'exit' is still to come. *)
OnError(w) ==
    /\ thread[w] = "raised"
    /\ thread' = [thread EXCEPT ![w] = "dying"]
    /\ inflight' = [inflight EXCEPT ![w] = NoTask]
    /\ busy' = [busy EXCEPT ![w] = FALSE]
    /\ RemoveWorker(w, Rejecting(promise, {inflight[w]}))
    /\ UNCHANGED <<ready, disposed, answer, job, hello, done>>

(* 'exit', with the code the thread reports.  Node delivers it after the   *)
(* thread's messages.  Only a failing code rejects the task in flight.     *)
OnExit(w) ==
    /\ thread[w] = "dying"
    /\ ~hello[w] /\ done[w] = NoTask
    /\ thread' = [thread EXCEPT ![w] = "gone"]
    /\ IF disposed
       THEN UNCHANGED <<queue, workers, inflight, warmup, promise>>
       ELSE \E code \in ExitCodes :
              IF code # 0
              THEN /\ RemoveWorker(w, Rejecting(promise, {inflight[w]}))
                   /\ inflight' = [inflight EXCEPT ![w] = NoTask]
              ELSE /\ RemoveWorker(w, promise)
                   /\ UNCHANGED inflight
    /\ UNCHANGED <<ready, busy, disposed, answer, job, hello, done>>

---------------------------------------------------------------------------
(* The worker threads (parseWorker.ts).                                    *)

(* The init message has been handled: 'ready' is posted.                   *)
Boot(w) ==
    /\ thread[w] = "booting"
    /\ thread' = [thread EXCEPT ![w] = "up"]
    /\ hello' = [hello EXCEPT ![w] = TRUE]
    /\ UNCHANGED <<poolVars, callerVars, job, done>>

(* A task message has been handled: 'task-done' is posted, whether the     *)
(* file parsed or not (the handler catches what parseFile throws).         *)
Finish(w) ==
    /\ thread[w] = "up"
    /\ job[w] # NoTask
    /\ done[w] = NoTask
    /\ done' = [done EXCEPT ![w] = job[w]]
    /\ job' = [job EXCEPT ![w] = NoTask]
    /\ UNCHANGED <<poolVars, callerVars, thread, hello>>

(* An error outside that handler: module load failure, out of memory.      *)
Raise(w) ==
    /\ thread[w] \in Alive
    /\ thread' = [thread EXCEPT ![w] = "raised"]
    /\ UNCHANGED <<poolVars, callerVars, job, hello, done>>

(* The thread ends without an 'error' event.                               *)
Quit(w) ==
    /\ thread[w] \in Alive
    /\ thread' = [thread EXCEPT ![w] = "dying"]
    /\ UNCHANGED <<poolVars, callerVars, job, hello, done>>

---------------------------------------------------------------------------
OwnerCall == Warmup \/ WarmupTimeout \/ Dispose \/ \E t \in Task : Run(t)

WorkerEvent(w) == OnReady(w) \/ OnTaskDone(w) \/ OnError(w) \/ OnExit(w)

ThreadStep(w) == Boot(w) \/ Finish(w) \/ Raise(w) \/ Quit(w)

Next == OwnerCall \/ \E w \in Worker : WorkerEvent(w) \/ ThreadStep(w)

Spec == Init /\ [][Next]_vars

(* The event loop handles what is waiting, and a thread that holds a task  *)
(* finishes it unless it dies first.  No thread is made to die.            *)
Progress ==
    /\ WF_vars(WarmupTimeout)
    /\ \A w \in Worker : /\ WF_vars(OnReady(w))
                         /\ WF_vars(OnTaskDone(w))
                         /\ WF_vars(OnError(w))
                         /\ WF_vars(OnExit(w))
                         /\ WF_vars(Finish(w))

(* A spawned thread comes up or dies: the module loads or it fails to.     *)
ComesUp(w) == thread[w] = "booting" /\ (Boot(w) \/ Raise(w) \/ Quit(w))

Booting == \A w \in Worker : WF_vars(ComesUp(w))

FairSpec == Spec /\ Progress /\ Booting
---------------------------------------------------------------------------
(* Properties.                                                             *)

(* run() promises are accounted for: a promise is pending exactly when its *)
(* task is in the queue or in flight, and no task is held twice, so none   *)
(* can be settled twice or dropped by a handler that settled another.      *)
Held(t) == t \in Queued \/ \E w \in Worker : inflight[w] = t

OneOwner ==
    /\ \A t \in Task : promise[t] = "pending" <=> Held(t)
    /\ \A i, j \in DOMAIN queue : queue[i] = queue[j] => i = j
    /\ \A v, w \in Worker : inflight[v] = inflight[w] /\ inflight[v] # NoTask => v = w
    /\ \A w \in Worker : inflight[w] \notin Queued

(* 'task-done' is matched to a task by pw.inflight, not by its id: still   *)
(* a promise only ever resolves with the parse result of its own file.     *)
OwnAnswer ==
    \A t \in Task : answer[t] = IF promise[t] = "resolved" THEN t ELSE NoTask

(* No free worker beside a waiting task, and no waiting task in a pool     *)
(* without workers: every handler that frees a worker calls dispatch(),    *)
(* and every handler that removes the last one empties the queue.          *)
WorkConserving ==
    queue # <<>> => /\ workers # {}
                    /\ \A w \in workers : ready[w] => busy[w]

(* Until dispose(), a task in flight belongs to a worker of the pool whose *)
(* 'exit' is still to come, so some event will settle it.  It needs that   *)
(* no thread ends by itself with code 0.                                   *)
NoOrphan ==
    0 \notin ExitCodes /\ ~disposed =>
        \A w \in Worker :
            /\ inflight[w] # NoTask => w \in workers
            /\ w \in workers => thread[w] \in Alive \cup {"raised", "dying"}

(* So a promise is settled once, by the answer to its own task or by an    *)
(* error, and no event leaves one behind that nothing will settle.         *)
Accounted == OneOwner /\ OwnAnswer /\ NoOrphan

(* Every pending task is settled, unless the pool is disposed under it.    *)
TaskSettles ==
    \A t \in Task : promise[t] = "pending" ~> promise[t] \in Settled \/ disposed

(* The pool implements the service of ParseService.tla.                    *)
Service == INSTANCE ParseService WITH closed <- disposed

ImplementsService == Service!Spec
===========================================================================
