------------------------- MODULE WorkerPoolProofs -------------------------
(***************************************************************************)
(* Proofs about the worker pool of WorkerPool.tla for any number of        *)
(* workers and tasks, and about parseAll() of ParallelParser.tla, which    *)
(* uses it, for any number of files and calls on top of the pool's         *)
(* invariant.                                                              *)
(*                                                                         *)
(* OneOwner and OwnAnswer are not inductive by themselves: that a worker   *)
(* may be given a task because it is not busy needs Slots (not busy means  *)
(* nothing in flight, nothing posted and no answer under way), that a      *)
(* fresh pool may be filled with workers needs Cold, and that nothing is   *)
(* handed out or queued after dispose() needs Closed.                      *)
(*                                                                         *)
(* ResultComplete speaks of a call that has returned.  What it needs of    *)
(* one that is still suspended: which promises are outstanding             *)
(* (Outstanding), what the scan has put into the output (Scanned), and     *)
(* that a pool that is in use was warmed up with success (PoolState).      *)
(***************************************************************************)
EXTENDS ParallelParser, FiniteSetTheorems, TLAPS

(* What the fields of a worker say about the task it holds.                *)
Slots ==
    \A w \in Worker :
        /\ w \in workers => (busy[w] <=> inflight[w] # NoTask)
        /\ w \in workers /\ inflight[w] = NoTask =>
              job[w] = NoTask /\ done[w] = NoTask
        /\ inflight[w] # NoTask => job[w] \in {NoTask, inflight[w]}
        /\ inflight[w] # NoTask /\ done[w] # NoTask =>
              done[w] = inflight[w] /\ job[w] = NoTask

(* Before warmup() there are neither workers nor threads.                  *)
Cold ==
    warmup = "cold" =>
        /\ queue = <<>>
        /\ workers = {}
        /\ \A w \in Worker :
              /\ ~busy[w]
              /\ inflight[w] = NoTask
              /\ job[w] = NoTask
              /\ done[w] = NoTask
              /\ ~hello[w]
              /\ thread[w] = "absent"

(* After dispose() the pool is empty.                                      *)
Closed == disposed => queue = <<>> /\ workers = {}

(* A worker of the pool has a thread that has not been buried yet.         *)
Threads ==
    \A w \in Worker :
        /\ w \in workers => thread[w] \in Alive \cup {"raised", "dying"}
        /\ 0 \notin ExitCodes /\ ~disposed /\ inflight[w] # NoTask => w \in workers

IInv ==
    /\ TypeOK
    /\ OneOwner
    /\ OwnAnswer
    /\ WorkConserving
    /\ Slots
    /\ Cold
    /\ Closed
    /\ Threads
---------------------------------------------------------------------------
(* OneOwner as a relation between values, to be reused for the queue and   *)
(* the fields a handler has while it is running.                           *)
Owner(q, infl, prom) ==
    /\ \A t \in Task :
          prom[t] = "pending" <=> \/ \E i \in DOMAIN q : q[i] = t
                                  \/ \E w \in Worker : infl[w] = t
    /\ \A i, j \in DOMAIN q : q[i] = q[j] => i = j
    /\ \A v, w \in Worker : infl[v] = infl[w] /\ infl[v] # NoTask => v = w
    /\ \A w \in Worker : \A i \in DOMAIN q : q[i] # infl[w]

LEMMA OwnerIsOneOwner == OneOwner <=> Owner(queue, inflight, promise)
  BY DEF OneOwner, Owner, Held, Queued

States == {"none", "pending"} \cup Settled

---------------------------------------------------------------------------
(* What a handler that calls dispatch() may rely on afterwards: the tasks  *)
(* have one owner each, a worker either keeps its fields or was free and   *)
(* got a task, and if something is left in the queue no worker is free.    *)
Dispatched(q, rdy, bsy, infl, prom, jb) ==
    /\ queue' \in Seq(Task)
    /\ busy' \in [Worker -> BOOLEAN]
    /\ inflight' \in [Worker -> Task \cup {NoTask}]
    /\ job' \in [Worker -> Task \cup {NoTask}]
    /\ promise' \in [Task -> States]
    /\ Owner(queue', inflight', promise')
    /\ \A t \in Task : promise'[t] = "resolved" <=> prom[t] = "resolved"
    /\ \E R \in SUBSET {t \in Task : prom[t] = "pending"} : promise' = Rejecting(prom, R)
    /\ queue' # <<>> => q # <<>> /\ \A w \in workers : rdy[w] => busy'[w]
    /\ \A w \in Worker :
          \/ /\ busy'[w] = bsy[w]
             /\ inflight'[w] = infl[w]
             /\ job'[w] = jb[w]
          \/ /\ w \in workers
             /\ infl[w] = NoTask
             /\ busy'[w]
             /\ inflight'[w] \in Task
             /\ job'[w] = inflight'[w]

LEMMA DispatchStep ==
  ASSUME NEW q \in Seq(Task),
         NEW rdy \in [Worker -> BOOLEAN],
         NEW bsy \in [Worker -> BOOLEAN],
         NEW infl \in [Worker -> Task \cup {NoTask}],
         NEW prom \in [Task -> States],
         NEW jb \in [Worker -> Task \cup {NoTask}],
         workers \subseteq Worker,
         Owner(q, infl, prom),
         \A w \in workers : bsy[w] <=> infl[w] # NoTask,
         Dispatch(q, rdy, bsy, infl, prom, jb)
  PROVE  Dispatched(q, rdy, bsy, infl, prom, jb)
<1> DEFINE free == {w \in workers : rdy[w] /\ ~bsy[w]}
<1>1. PICK n \in 0..Len(q) :
         \E G \in SUBSET free : \E at \in Injections(G, 1..n) :
            Pass(free, n, G, at, q, bsy, infl, prom, jb)
  BY DEF Dispatch
<1>2. PICK G \in SUBSET free : \E at \in Injections(G, 1..n) :
            Pass(free, n, G, at, q, bsy, infl, prom, jb)
  BY <1>1
<1>3. PICK at \in Injections(G, 1..n) : Pass(free, n, G, at, q, bsy, infl, prom, jb)
  BY <1>2
<1>4. /\ n < Len(q) => G = free
      /\ queue' = SubSeq(q, n + 1, Len(q))
      /\ busy' = [w \in Worker |-> w \in G \/ bsy[w]]
      /\ inflight' = [w \in Worker |-> IF w \in G THEN q[at[w]] ELSE infl[w]]
      /\ job' = [w \in Worker |-> IF w \in G THEN q[at[w]] ELSE jb[w]]
      /\ promise' = Rejecting(prom, {q[i] : i \in (1..n) \ {at[w] : w \in G}})
  BY <1>3 DEF Pass
<1>5. G \in SUBSET Worker /\ \A w \in G : w \in workers /\ infl[w] = NoTask
  OBVIOUS
<1>6. \A w \in G : at[w] \in 1..n /\ q[at[w]] \in Task
  <2>1. \A w \in G : at[w] \in 1..n
    BY DEF Injections
  <2> QED
    BY <2>1
<1> DEFINE R == {q[i] : i \in (1..n) \ {at[w] : w \in G}}
<1>7. /\ DOMAIN queue' = 1..(Len(q) - n)
      /\ \A i \in DOMAIN queue' : queue'[i] = q[n + i]
      /\ DOMAIN q = 1..Len(q)
      /\ Len(q) \in Nat
      /\ n \in Nat /\ n <= Len(q)
      /\ \A i \in DOMAIN q : q[i] \in Task
  <2> HIDE DEF free, R
  <2> QED
    BY <1>4
<1>8. /\ \A w \in G : at[w] \in 1..n
      /\ \A v, w \in G : at[v] = at[w] => v = w
  BY DEF Injections
<1>9. \A w \in Worker : inflight'[w] = IF w \in G THEN q[at[w]] ELSE infl[w]
  BY <1>4
<1>10. \A t \in Task : t \in R <=> \E i \in 1..n : q[i] = t /\ \A w \in G : at[w] # i
  OBVIOUS
<1>11. \A t \in Task : promise'[t] = IF t \in R THEN "rejected" ELSE prom[t]
  BY <1>4 DEF Rejecting
<1> HIDE DEF R, free
<1>12. /\ \A t \in Task : prom[t] = "pending" <=> \/ \E i \in DOMAIN q : q[i] = t
                                                  \/ \E w \in Worker : infl[w] = t
       /\ \A i, j \in DOMAIN q : q[i] = q[j] => i = j
       /\ \A v, w \in Worker : infl[v] = infl[w] /\ infl[v] # NoTask => v = w
       /\ \A w \in Worker : \A i \in DOMAIN q : q[i] # infl[w]
  BY DEF Owner
<1>13. \A i \in DOMAIN q : prom[q[i]] = "pending"
  BY <1>7, <1>12
<1>14. \A i \in DOMAIN q : q[i] \in R <=> i <= n /\ \A w \in G : at[w] # i
  <2> SUFFICES ASSUME NEW i \in DOMAIN q
               PROVE  q[i] \in R <=> i <= n /\ \A w \in G : at[w] # i
    OBVIOUS
  <2>1. \A j \in 1..n : j \in DOMAIN q /\ (q[j] = q[i] => j = i)
    <3>1. \A j \in 1..n : j \in DOMAIN q
      BY <1>7
    <3> QED
      BY <1>12, <3>1
  <2>2. i \in 1..n <=> i <= n
    BY <1>7
  <2> QED
    BY <1>7, <1>10, <2>1, <2>2
<1>15. \A t \in Task : t \in R => \E i \in DOMAIN q : q[i] = t
  <2>1. 1..n \subseteq DOMAIN q
    BY <1>7
  <2> QED
    BY <1>10, <2>1
<1>16. \A t \in Task : promise'[t] = "resolved" <=> prom[t] = "resolved"
  BY <1>11, <1>13, <1>15
<1>17. ASSUME NEW t \in Task, promise'[t] = "pending"
       PROVE  \/ \E i \in DOMAIN queue' : queue'[i] = t
              \/ \E w \in Worker : inflight'[w] = t
  <2>1. t \notin R /\ prom[t] = "pending"
    BY <1>11, <1>17
  <2>2. CASE \E w \in Worker : infl[w] = t
    <3>1. PICK w \in Worker : infl[w] = t
      BY <2>2
    <3>2. w \notin G
      BY <1>5, <3>1, NoTaskAssumption
    <3> QED
      BY <1>9, <3>1, <3>2
  <2>3. CASE \E i \in DOMAIN q : q[i] = t
    <3>1. PICK i \in DOMAIN q : q[i] = t
      BY <2>3
    <3>2. CASE i <= n
      <4>1. PICK w \in G : at[w] = i
        BY <1>14, <2>1, <3>1, <3>2
      <4>2. inflight'[w] = t
        BY <1>5, <1>9, <3>1, <4>1
      <4> QED
        BY <1>5, <4>1, <4>2
    <3>3. CASE ~(i <= n)
      <4>1. i - n \in DOMAIN queue' /\ n + (i - n) = i
        BY <1>7, <3>3
      <4>2. queue'[i - n] = t
        BY <1>7, <3>1, <4>1
      <4> QED
        BY <4>1, <4>2
    <3> QED
      BY <3>2, <3>3
  <2> QED
    BY <1>12, <2>1, <2>2, <2>3
<1>18. ASSUME NEW i \in DOMAIN queue'
       PROVE  promise'[queue'[i]] = "pending"
  <2>1. n + i \in DOMAIN q /\ queue'[i] = q[n + i] /\ ~(n + i <= n)
    BY <1>7
  <2> QED
    BY <1>7, <1>11, <1>13, <1>14, <2>1
<1>19. ASSUME NEW w \in Worker, inflight'[w] \in Task
       PROVE  promise'[inflight'[w]] = "pending"
  <2>1. CASE w \in G
    <3>1. at[w] \in DOMAIN q /\ inflight'[w] = q[at[w]]
      BY <1>7, <1>8, <1>9, <2>1
    <3> QED
      BY <1>7, <1>11, <1>13, <1>14, <2>1, <3>1
  <2>2. CASE w \notin G
    <3>1. inflight'[w] = infl[w]
      BY <1>9, <2>2
    <3>2. infl[w] \notin R
      <4> SUFFICES ASSUME infl[w] \in R
                   PROVE  FALSE
        OBVIOUS
      <4>1. PICK i \in DOMAIN q : q[i] = infl[w]
        BY <1>15, <1>19, <3>1
      <4> QED
        BY <1>12, <4>1
    <3> QED
      BY <1>11, <1>12, <1>19, <3>1, <3>2
  <2> QED
    BY <2>1, <2>2
<1>20. \A i, j \in DOMAIN queue' : queue'[i] = queue'[j] => i = j
  <2> SUFFICES ASSUME NEW i \in DOMAIN queue', NEW j \in DOMAIN queue', queue'[i] = queue'[j]
               PROVE  i = j
    OBVIOUS
  <2>1. n + i \in DOMAIN q /\ n + j \in DOMAIN q
    BY <1>7
  <2>2. n + i = n + j
    BY <1>7, <1>12, <2>1
  <2> QED
    BY <1>7, <2>2
<1>21. \A v, w \in Worker : inflight'[v] = inflight'[w] /\ inflight'[v] # NoTask => v = w
  <2> SUFFICES ASSUME NEW v \in Worker, NEW w \in Worker,
                      inflight'[v] = inflight'[w], inflight'[v] # NoTask
               PROVE  v = w
    OBVIOUS
  <2>1. \A u \in G : at[u] \in DOMAIN q
    BY <1>7, <1>8
  <2>2. CASE v \in G /\ w \in G
    <3>1. q[at[v]] = q[at[w]]
      BY <1>9, <2>2
    <3> QED
      BY <1>8, <1>12, <2>1, <2>2, <3>1
  <2>3. CASE v \in G /\ w \notin G
    BY <1>9, <1>12, <2>1, <2>3
  <2>4. CASE v \notin G /\ w \in G
    BY <1>9, <1>12, <2>1, <2>4
  <2>5. CASE v \notin G /\ w \notin G
    BY <1>9, <1>12, <2>5
  <2> QED
    BY <2>2, <2>3, <2>4, <2>5
<1>22. \A w \in Worker : \A i \in DOMAIN queue' : queue'[i] # inflight'[w]
  <2> SUFFICES ASSUME NEW w \in Worker, NEW i \in DOMAIN queue'
               PROVE  queue'[i] # inflight'[w]
    OBVIOUS
  <2>1. n + i \in DOMAIN q /\ queue'[i] = q[n + i] /\ ~(n + i <= n)
    BY <1>7
  <2>2. CASE w \in G
    <3>1. at[w] \in DOMAIN q /\ at[w] <= n
      BY <1>7, <1>8, <2>2
    <3>2. n + i # at[w]
      BY <2>1, <3>1
    <3> QED
      BY <1>9, <1>12, <2>1, <2>2, <3>1, <3>2
  <2>3. CASE w \notin G
    <3>1. inflight'[w] = infl[w]
      BY <1>9, <2>3
    <3> QED
      BY <1>12, <2>1, <3>1
  <2> QED
    BY <2>2, <2>3
<1>23. Owner(queue', inflight', promise')
  <2>1. \A t \in Task : (\/ \E i \in DOMAIN queue' : queue'[i] = t
                         \/ \E w \in Worker : inflight'[w] = t) => promise'[t] = "pending"
    BY <1>18, <1>19
  <2>2. \A t \in Task : promise'[t] = "pending" => \/ \E i \in DOMAIN queue' : queue'[i] = t
                                                \/ \E w \in Worker : inflight'[w] = t
    BY <1>17
  <2> QED
    BY <1>20, <1>21, <1>22, <2>1, <2>2 DEF Owner
<1>24. /\ queue' \in Seq(Task)
       /\ busy' \in [Worker -> BOOLEAN]
       /\ inflight' \in [Worker -> Task \cup {NoTask}]
       /\ job' \in [Worker -> Task \cup {NoTask}]
       /\ promise' \in [Task -> States]
  <2>1. queue' \in Seq(Task)
    <3> QED
      BY <1>4
  <2>2. promise' \in [Task -> States]
    BY <1>4 DEF Rejecting, States, Settled
  <2> QED
    BY <1>4, <1>6, <2>1, <2>2
<1>25. queue' # <<>> => q # <<>> /\ \A w \in workers : rdy[w] => busy'[w]
  <2> SUFFICES ASSUME queue' # <<>>
               PROVE  q # <<>> /\ \A w \in workers : rdy[w] => busy'[w]
    OBVIOUS
  <2>1. n < Len(q) /\ q # <<>>
    <3>1. n = Len(q) => SubSeq(q, n + 1, Len(q)) = <<>>
      OBVIOUS
    <3>2. q = <<>> => n = Len(q)
      OBVIOUS
    <3> QED
      BY <1>4, <3>1, <3>2
  <2> QED
    BY <1>4, <2>1 DEF free
<1>26. ASSUME NEW w \in Worker
      PROVE  \/ /\ busy'[w] = bsy[w]
                /\ inflight'[w] = infl[w]
                /\ job'[w] = jb[w]
             \/ /\ w \in workers
                /\ infl[w] = NoTask
                /\ busy'[w]
                /\ inflight'[w] \in Task
                /\ job'[w] = inflight'[w]
  <2>1. CASE w \in G
    BY <1>4, <1>5, <1>6, <2>1
  <2>2. CASE w \notin G
    BY <1>4, <2>2
  <2> QED
    BY <2>1, <2>2
<1>27. \E S \in SUBSET {t \in Task : prom[t] = "pending"} : promise' = Rejecting(prom, S)
  <2>1. promise' = Rejecting(prom, R)
    BY <1>4 DEF R
  <2>2. R \in SUBSET {t \in Task : prom[t] = "pending"}
    <3>1. 1..n \subseteq DOMAIN q
      BY <1>7
    <3> QED
      BY <1>7, <1>13, <3>1 DEF R
  <2> QED
    BY <2>1, <2>2
<1> QED
  BY <1>16, <1>23, <1>24, <1>25, <1>26, <1>27 DEF Dispatched


---------------------------------------------------------------------------
(* The initial state and every step of Next satisfy the invariant.         *)

LEMMA InitInv == Init => IInv
<1> SUFFICES ASSUME Init PROVE IInv
  OBVIOUS
<1>1. TypeOK
  <2>1. queue \in Seq(Task)
    BY DEF Init
  <2> QED
    BY <2>1 DEF Init, TypeOK, Settled, Alive
<1>2. OneOwner
  BY NoTaskAssumption DEF Init, OneOwner, Held, Queued
<1>3. OwnAnswer /\ WorkConserving /\ Slots /\ Cold /\ Closed /\ Threads
  BY DEF Init, OwnAnswer, WorkConserving, Slots, Cold, Closed, Threads
<1> QED
  BY <1>1, <1>2, <1>3 DEF IInv

LEMMA WarmupInv ==
  ASSUME IInv, Warmup
  PROVE  IInv'
<1>1. TypeOK'
  BY NoTaskAssumption DEF IInv, TypeOK, Warmup, callerVars, Settled, Alive
<1>2. OneOwner'
  BY NoTaskAssumption DEF IInv, TypeOK, Warmup, callerVars, OneOwner, Held, Queued
<1>3. OwnAnswer'
  BY NoTaskAssumption DEF IInv, TypeOK, Warmup, callerVars, OwnAnswer
<1>4. WorkConserving'
  BY NoTaskAssumption DEF IInv, TypeOK, Warmup, callerVars, WorkConserving, Cold
<1>5. Slots'
  BY NoTaskAssumption DEF IInv, TypeOK, Warmup, callerVars, Slots, Cold
<1>6. Cold'
  BY NoTaskAssumption DEF IInv, TypeOK, Warmup, callerVars, Cold
<1>7. Closed'
  BY NoTaskAssumption DEF IInv, TypeOK, Warmup, callerVars, Closed
<1>8. Threads'
  BY NoTaskAssumption DEF IInv, TypeOK, Warmup, callerVars, Threads, Alive, Cold
<1> QED
  BY <1>1, <1>2, <1>3, <1>4, <1>5, <1>6, <1>7, <1>8 DEF IInv

LEMMA WarmupTimeoutInv ==
  ASSUME IInv, WarmupTimeout
  PROVE  IInv'
<1>1. TypeOK'
  BY NoTaskAssumption DEF IInv, TypeOK, WarmupTimeout, callerVars, threadVars, Settled, Alive
<1>2. OneOwner'
  BY NoTaskAssumption DEF IInv, TypeOK, WarmupTimeout, callerVars, threadVars, OneOwner, Held, Queued
<1>3. OwnAnswer'
  BY NoTaskAssumption DEF IInv, TypeOK, WarmupTimeout, callerVars, threadVars, OwnAnswer
<1>4. WorkConserving'
  BY NoTaskAssumption DEF IInv, TypeOK, WarmupTimeout, callerVars, threadVars, WorkConserving
<1>5. Slots'
  BY NoTaskAssumption DEF IInv, TypeOK, WarmupTimeout, callerVars, threadVars, Slots
<1>6. Cold'
  BY NoTaskAssumption DEF IInv, TypeOK, WarmupTimeout, callerVars, threadVars, Cold
<1>7. Closed'
  BY NoTaskAssumption DEF IInv, TypeOK, WarmupTimeout, callerVars, threadVars, Closed
<1>8. Threads'
  BY NoTaskAssumption DEF IInv, TypeOK, WarmupTimeout, callerVars, threadVars, Threads, Alive
<1> QED
  BY <1>1, <1>2, <1>3, <1>4, <1>5, <1>6, <1>7, <1>8 DEF IInv

LEMMA DisposeInv ==
  ASSUME IInv, Dispose
  PROVE  IInv'
<1>1. TypeOK'
  BY NoTaskAssumption DEF IInv, TypeOK, Dispose, Rejecting, SettleWarmup, Settled, Alive, Queued, Settled, Alive
<1>2. OneOwner'
  BY NoTaskAssumption DEF IInv, TypeOK, Dispose, Rejecting, SettleWarmup, Settled, Alive, Queued, OneOwner, Held, Queued
<1>3. OwnAnswer'
  BY NoTaskAssumption DEF IInv, TypeOK, Dispose, Rejecting, SettleWarmup, Settled, Alive, Queued, OwnAnswer, OneOwner, Held
<1>4. WorkConserving'
  BY NoTaskAssumption DEF IInv, TypeOK, Dispose, Rejecting, SettleWarmup, Settled, Alive, Queued, WorkConserving
<1>5. Slots'
  BY NoTaskAssumption DEF IInv, TypeOK, Dispose, Rejecting, SettleWarmup, Settled, Alive, Queued, Slots
<1>6. Cold'
  BY NoTaskAssumption DEF IInv, TypeOK, Dispose, Rejecting, SettleWarmup, Settled, Alive, Queued, Cold
<1>7. Closed'
  BY NoTaskAssumption DEF IInv, TypeOK, Dispose, Rejecting, SettleWarmup, Settled, Alive, Queued, Closed
<1>8. Threads'
  BY NoTaskAssumption DEF IInv, TypeOK, Dispose, Rejecting, SettleWarmup, Settled, Alive, Queued, Threads, Alive
<1> QED
  BY <1>1, <1>2, <1>3, <1>4, <1>5, <1>6, <1>7, <1>8 DEF IInv

LEMMA BootInv ==
  ASSUME IInv, NEW w \in Worker, Boot(w)
  PROVE  IInv'
<1>1. TypeOK'
  BY NoTaskAssumption DEF IInv, TypeOK, Boot, poolVars, callerVars, Settled, Alive
<1>2. OneOwner'
  BY NoTaskAssumption DEF IInv, TypeOK, Boot, poolVars, callerVars, OneOwner, Held, Queued
<1>3. OwnAnswer'
  BY NoTaskAssumption DEF IInv, TypeOK, Boot, poolVars, callerVars, OwnAnswer
<1>4. WorkConserving'
  BY NoTaskAssumption DEF IInv, TypeOK, Boot, poolVars, callerVars, WorkConserving
<1>5. Slots'
  BY NoTaskAssumption DEF IInv, TypeOK, Boot, poolVars, callerVars, Slots
<1>6. Cold'
  BY NoTaskAssumption DEF IInv, TypeOK, Boot, poolVars, callerVars, Cold
<1>7. Closed'
  BY NoTaskAssumption DEF IInv, TypeOK, Boot, poolVars, callerVars, Closed
<1>8. Threads'
  BY NoTaskAssumption DEF IInv, TypeOK, Boot, poolVars, callerVars, Threads, Alive
<1> QED
  BY <1>1, <1>2, <1>3, <1>4, <1>5, <1>6, <1>7, <1>8 DEF IInv

LEMMA FinishInv ==
  ASSUME IInv, NEW w \in Worker, Finish(w)
  PROVE  IInv'
<1>1. TypeOK'
  BY NoTaskAssumption DEF IInv, TypeOK, Finish, poolVars, callerVars, Settled, Alive
<1>2. OneOwner'
  BY NoTaskAssumption DEF IInv, TypeOK, Finish, poolVars, callerVars, OneOwner, Held, Queued
<1>3. OwnAnswer'
  BY NoTaskAssumption DEF IInv, TypeOK, Finish, poolVars, callerVars, OwnAnswer
<1>4. WorkConserving'
  BY NoTaskAssumption DEF IInv, TypeOK, Finish, poolVars, callerVars, WorkConserving
<1>5. Slots'
  BY NoTaskAssumption DEF IInv, TypeOK, Finish, poolVars, callerVars, Slots
<1>6. Cold'
  BY NoTaskAssumption DEF IInv, TypeOK, Finish, poolVars, callerVars, Cold
<1>7. Closed'
  BY NoTaskAssumption DEF IInv, TypeOK, Finish, poolVars, callerVars, Closed
<1>8. Threads'
  BY NoTaskAssumption DEF IInv, TypeOK, Finish, poolVars, callerVars, Threads, Alive
<1> QED
  BY <1>1, <1>2, <1>3, <1>4, <1>5, <1>6, <1>7, <1>8 DEF IInv

LEMMA RaiseInv ==
  ASSUME IInv, NEW w \in Worker, Raise(w)
  PROVE  IInv'
<1>1. TypeOK'
  BY NoTaskAssumption DEF IInv, TypeOK, Raise, poolVars, callerVars, Alive, Settled, Alive
<1>2. OneOwner'
  BY NoTaskAssumption DEF IInv, TypeOK, Raise, poolVars, callerVars, Alive, OneOwner, Held, Queued
<1>3. OwnAnswer'
  BY NoTaskAssumption DEF IInv, TypeOK, Raise, poolVars, callerVars, Alive, OwnAnswer
<1>4. WorkConserving'
  BY NoTaskAssumption DEF IInv, TypeOK, Raise, poolVars, callerVars, Alive, WorkConserving
<1>5. Slots'
  BY NoTaskAssumption DEF IInv, TypeOK, Raise, poolVars, callerVars, Alive, Slots
<1>6. Cold'
  BY NoTaskAssumption DEF IInv, TypeOK, Raise, poolVars, callerVars, Alive, Cold
<1>7. Closed'
  BY NoTaskAssumption DEF IInv, TypeOK, Raise, poolVars, callerVars, Alive, Closed
<1>8. Threads'
  BY NoTaskAssumption DEF IInv, TypeOK, Raise, poolVars, callerVars, Alive, Threads, Alive
<1> QED
  BY <1>1, <1>2, <1>3, <1>4, <1>5, <1>6, <1>7, <1>8 DEF IInv

LEMMA QuitInv ==
  ASSUME IInv, NEW w \in Worker, Quit(w)
  PROVE  IInv'
<1>1. TypeOK'
  BY NoTaskAssumption DEF IInv, TypeOK, Quit, poolVars, callerVars, Alive, Settled, Alive
<1>2. OneOwner'
  BY NoTaskAssumption DEF IInv, TypeOK, Quit, poolVars, callerVars, Alive, OneOwner, Held, Queued
<1>3. OwnAnswer'
  BY NoTaskAssumption DEF IInv, TypeOK, Quit, poolVars, callerVars, Alive, OwnAnswer
<1>4. WorkConserving'
  BY NoTaskAssumption DEF IInv, TypeOK, Quit, poolVars, callerVars, Alive, WorkConserving
<1>5. Slots'
  BY NoTaskAssumption DEF IInv, TypeOK, Quit, poolVars, callerVars, Alive, Slots
<1>6. Cold'
  BY NoTaskAssumption DEF IInv, TypeOK, Quit, poolVars, callerVars, Alive, Cold
<1>7. Closed'
  BY NoTaskAssumption DEF IInv, TypeOK, Quit, poolVars, callerVars, Alive, Closed
<1>8. Threads'
  BY NoTaskAssumption DEF IInv, TypeOK, Quit, poolVars, callerVars, Alive, Threads, Alive
<1> QED
  BY <1>1, <1>2, <1>3, <1>4, <1>5, <1>6, <1>7, <1>8 DEF IInv

LEMMA OnErrorInv ==
  ASSUME IInv, NEW w \in Worker, OnError(w)
  PROVE  IInv'
<1>1. TypeOK'
  <2>1. queue' \in Seq(Task)
    <3>1. <<>> \in Seq(Task)
      OBVIOUS
    <3> QED
      BY <3>1 DEF IInv, TypeOK, OnError, RemoveWorker
  <2>2. warmup' \in {"cold", "waiting"} \cup Settled
    BY DEF IInv, TypeOK, OnError, RemoveWorker, SettleWarmup, Settled
  <2>3. promise' \in [Task -> {"none", "pending"} \cup Settled]
    BY DEF IInv, TypeOK, OnError, RemoveWorker, Rejecting, Settled
  <2> QED
    BY <2>1, <2>2, <2>3 DEF IInv, TypeOK, OnError, RemoveWorker, Alive
<1>2. OneOwner'
  BY NoTaskAssumption DEF IInv, TypeOK, OnError, RemoveWorker, Rejecting, SettleWarmup, Settled, Queued, OneOwner, Held
<1>3. OwnAnswer'
  BY NoTaskAssumption DEF IInv, TypeOK, OnError, RemoveWorker, Rejecting, SettleWarmup, Settled, Queued, OwnAnswer, OneOwner, Held
<1>4. WorkConserving'
  BY NoTaskAssumption DEF IInv, TypeOK, OnError, RemoveWorker, Rejecting, SettleWarmup, Settled, Queued, WorkConserving, Closed
<1>5. Slots'
  BY NoTaskAssumption DEF IInv, TypeOK, OnError, RemoveWorker, Rejecting, SettleWarmup, Settled, Queued, Slots
<1>6. Cold'
  BY NoTaskAssumption DEF IInv, TypeOK, OnError, RemoveWorker, Rejecting, SettleWarmup, Settled, Queued, Cold, Alive
<1>7. Closed'
  BY NoTaskAssumption DEF IInv, TypeOK, OnError, RemoveWorker, Rejecting, SettleWarmup, Settled, Queued, Closed
<1>8. Threads'
  BY NoTaskAssumption DEF IInv, TypeOK, OnError, RemoveWorker, Rejecting, SettleWarmup, Settled, Queued, Threads, Alive, Settled
<1> QED
  BY <1>1, <1>2, <1>3, <1>4, <1>5, <1>6, <1>7, <1>8 DEF IInv

LEMMA OnExitInv ==
  ASSUME IInv, NEW w \in Worker, OnExit(w)
  PROVE  IInv'
<1>1. TypeOK'
  <2>1. queue' \in Seq(Task)
    <3>1. <<>> \in Seq(Task)
      OBVIOUS
    <3> QED
      BY <3>1 DEF IInv, TypeOK, OnExit, RemoveWorker
  <2>2. warmup' \in {"cold", "waiting"} \cup Settled
    BY DEF IInv, TypeOK, OnExit, RemoveWorker, SettleWarmup, Settled
  <2>3. promise' \in [Task -> {"none", "pending"} \cup Settled]
    BY DEF IInv, TypeOK, OnExit, RemoveWorker, Rejecting, Settled
  <2> QED
    BY <2>1, <2>2, <2>3 DEF IInv, TypeOK, OnExit, RemoveWorker, Alive
<1>2. OneOwner' /\ OwnAnswer'
  <2>1. answer' = answer
    BY DEF OnExit
  <2>2. CASE disposed
    <3>1. UNCHANGED <<queue, inflight, promise>>
      BY <2>2 DEF OnExit
    <3> QED
      BY <2>1, <3>1 DEF IInv, OneOwner, OwnAnswer, Held, Queued
  <2>3. CASE /\ RemoveWorker(w, Rejecting(promise, {inflight[w]}))
             /\ inflight' = [inflight EXCEPT ![w] = NoTask]
    <3>1. OneOwner'
      BY <2>3, NoTaskAssumption DEF IInv, TypeOK, RemoveWorker, Rejecting, Queued, OneOwner, Held
    <3>2. OwnAnswer'
      BY <2>1, <2>3, NoTaskAssumption
         DEF IInv, TypeOK, RemoveWorker, Rejecting, Queued, OwnAnswer, OneOwner, Held
    <3> QED
      BY <3>1, <3>2
  <2>4. CASE RemoveWorker(w, promise) /\ UNCHANGED inflight
    <3>1. OneOwner'
      BY <2>4, NoTaskAssumption DEF IInv, TypeOK, RemoveWorker, Rejecting, Queued, OneOwner, Held
    <3>2. OwnAnswer'
      BY <2>1, <2>4, NoTaskAssumption
         DEF IInv, TypeOK, RemoveWorker, Rejecting, Queued, OwnAnswer, OneOwner, Held
    <3> QED
      BY <3>1, <3>2
  <2> QED
    BY <2>2, <2>3, <2>4 DEF OnExit
<1>4. WorkConserving'
  BY NoTaskAssumption DEF IInv, TypeOK, OnExit, RemoveWorker, Rejecting, SettleWarmup, Settled, Queued, WorkConserving, Closed
<1>5. Slots'
  BY NoTaskAssumption DEF IInv, TypeOK, OnExit, RemoveWorker, Rejecting, SettleWarmup, Settled, Queued, Slots, Closed
<1>6. Cold'
  BY NoTaskAssumption DEF IInv, TypeOK, OnExit, RemoveWorker, Rejecting, SettleWarmup, Settled, Queued, Cold, Alive
<1>7. Closed'
  BY NoTaskAssumption DEF IInv, TypeOK, OnExit, RemoveWorker, Rejecting, SettleWarmup, Settled, Queued, Closed
<1>8. Threads'
  BY NoTaskAssumption DEF IInv, TypeOK, OnExit, RemoveWorker, Rejecting, SettleWarmup, Settled, Queued, Threads, Alive, Closed
<1> QED
  BY <1>1, <1>2, <1>4, <1>5, <1>6, <1>7, <1>8 DEF IInv

(* The handlers that call dispatch(): what DispatchStep says of the new    *)
(* fields is all that is used of it.                                       *)
LEMMA OnReadyInv ==
  ASSUME IInv, NEW w \in Worker, OnReady(w)
  PROVE  IInv'
<1> DEFINE rdy == [ready EXCEPT ![w] = TRUE]
<1>1. /\ hello[w]
      /\ hello' = [hello EXCEPT ![w] = FALSE]
      /\ ready' = rdy
      /\ warmup' = SettleWarmup("resolved")
      /\ UNCHANGED <<workers, disposed, answer, thread, done>>
      /\ DispatchUnlessDisposed(queue, rdy, busy, inflight, promise, job)
  BY DEF OnReady
<1>2. rdy \in [Worker -> BOOLEAN] /\ \A v \in Worker : rdy[v] => v = w \/ ready[v]
  BY DEF IInv, TypeOK
<1> HIDE DEF rdy
<1>3. warmup # "cold" /\ warmup' # "cold" /\ warmup' \in {"waiting"} \cup Settled
  BY <1>1 DEF IInv, TypeOK, Cold, SettleWarmup, Settled
<1>4. CASE disposed
  <2>1. UNCHANGED <<queue, busy, inflight, job, promise>>
    BY <1>1, <1>4 DEF DispatchUnlessDisposed
  <2>2. TypeOK'
    BY <1>1, <1>2, <1>3, <2>1 DEF IInv, TypeOK
  <2>3. OneOwner' /\ OwnAnswer' /\ Slots'
    BY <1>1, <2>1 DEF IInv, OneOwner, Held, Queued, OwnAnswer, Slots
  <2>4. WorkConserving' /\ Cold' /\ Closed' /\ Threads'
    BY <1>1, <1>3, <1>4, <2>1 DEF IInv, WorkConserving, Cold, Closed, Threads
  <2> QED
    BY <2>2, <2>3, <2>4 DEF IInv
<1>5. CASE ~disposed
  <2>1. Dispatch(queue, rdy, busy, inflight, promise, job)
    BY <1>1, <1>5 DEF DispatchUnlessDisposed
  <2>2. Dispatched(queue, rdy, busy, inflight, promise, job)
    <3>1. /\ queue \in Seq(Task)
          /\ busy \in [Worker -> BOOLEAN]
          /\ inflight \in [Worker -> Task \cup {NoTask}]
          /\ promise \in [Task -> States]
          /\ job \in [Worker -> Task \cup {NoTask}]
          /\ workers \subseteq Worker
          /\ \A v \in workers : busy[v] <=> inflight[v] # NoTask
      BY DEF IInv, TypeOK, States, Slots
    <3>2. Owner(queue, inflight, promise)
      BY OwnerIsOneOwner DEF IInv
    <3> QED
      BY <1>2, <2>1, <3>1, <3>2, DispatchStep
  <2>3. TypeOK'
    BY <1>1, <1>2, <1>3, <2>2 DEF Dispatched, IInv, TypeOK, States
  <2>4. OneOwner'
    BY <2>2 DEF Dispatched, Owner, OneOwner, Held, Queued
  <2>5. OwnAnswer'
    BY <1>1, <2>2 DEF Dispatched, IInv, OwnAnswer
  <2>6. WorkConserving'
    BY <1>1, <2>2 DEF Dispatched, IInv, WorkConserving
  <2>7. Slots'
    BY <1>1, <2>2, NoTaskAssumption DEF Dispatched, IInv, TypeOK, Slots
  <2>8. Cold' /\ Closed'
    BY <1>1, <1>3, <1>5 DEF Cold, Closed
  <2>9. Threads'
    BY <1>1, <2>2 DEF Dispatched, IInv, Threads
  <2> QED
    BY <2>3, <2>4, <2>5, <2>6, <2>7, <2>8, <2>9 DEF IInv
<1> QED
  BY <1>4, <1>5

LEMMA TaskDoneDispatched ==
  ASSUME IInv, NEW w \in Worker, OnTaskDone(w), ~disposed
  PROVE  Dispatched(queue, ready, [busy EXCEPT ![w] = FALSE],
                    [inflight EXCEPT ![w] = NoTask],
                    IF inflight[w] = NoTask THEN promise
                    ELSE [promise EXCEPT ![inflight[w]] = "resolved"], job)
<1> DEFINE t == inflight[w]
           bsy == [busy EXCEPT ![w] = FALSE]
           infl == [inflight EXCEPT ![w] = NoTask]
           prom == IF t = NoTask THEN promise ELSE [promise EXCEPT ![t] = "resolved"]
<1>1. Dispatch(queue, ready, bsy, infl, prom, job)
  BY DEF OnTaskDone, DispatchUnlessDisposed
<1>2. /\ bsy \in [Worker -> BOOLEAN]
      /\ infl \in [Worker -> Task \cup {NoTask}]
      /\ prom \in [Task -> States]
  BY DEF IInv, TypeOK, States, Settled
<1>3. Owner(queue, infl, prom)
  BY NoTaskAssumption DEF IInv, TypeOK, OneOwner, Held, Queued, Owner
<1>4. \A v \in workers : bsy[v] <=> infl[v] # NoTask
  BY DEF IInv, TypeOK, Slots
<1>5. /\ queue \in Seq(Task)
      /\ ready \in [Worker -> BOOLEAN]
      /\ job \in [Worker -> Task \cup {NoTask}]
      /\ workers \subseteq Worker
  BY DEF IInv, TypeOK
<1> HIDE DEF t, bsy, infl, prom
<1>6. Dispatched(queue, ready, bsy, infl, prom, job)
  BY <1>1, <1>2, <1>3, <1>4, <1>5, DispatchStep
<1> QED
  BY <1>6 DEF t, bsy, infl, prom

LEMMA OnTaskDoneInv ==
  ASSUME IInv, NEW w \in Worker, OnTaskDone(w)
  PROVE  IInv'
<1> DEFINE t == inflight[w]
           bsy == [busy EXCEPT ![w] = FALSE]
           infl == [inflight EXCEPT ![w] = NoTask]
           prom == IF t = NoTask THEN promise ELSE [promise EXCEPT ![t] = "resolved"]
<1>1. /\ done[w] # NoTask
      /\ done' = [done EXCEPT ![w] = NoTask]
      /\ answer' = IF t = NoTask THEN answer ELSE [answer EXCEPT ![t] = done[w]]
      /\ UNCHANGED <<workers, ready, warmup, disposed, thread, hello>>
      /\ DispatchUnlessDisposed(queue, ready, bsy, infl, prom, job)
  BY DEF OnTaskDone
<1>2. /\ bsy \in [Worker -> BOOLEAN]
      /\ infl \in [Worker -> Task \cup {NoTask}]
      /\ prom \in [Task -> States]
      /\ t \in Task \cup {NoTask}
  BY DEF IInv, TypeOK, States, Settled
<1>3. t # NoTask => done[w] = t
  BY <1>1 DEF IInv, Slots
<1>4. warmup # "cold"
  BY <1>1 DEF IInv, Cold
<1>5. Owner(queue, infl, prom)
  BY NoTaskAssumption DEF IInv, TypeOK, OneOwner, Held, Queued, Owner
<1>6. \A v \in workers : bsy[v] <=> infl[v] # NoTask
  BY DEF IInv, TypeOK, Slots
<1>7. \A u \in Task : answer'[u] = IF prom[u] = "resolved" THEN u ELSE NoTask
  BY <1>1, <1>3 DEF IInv, TypeOK, OwnAnswer
<1>8. answer' \in [Task -> Task \cup {NoTask}] /\ done' \in [Worker -> Task \cup {NoTask}]
  BY <1>1 DEF IInv, TypeOK
<1>9. /\ \A v \in Worker : v # w => bsy[v] = busy[v] /\ infl[v] = inflight[v]
      /\ ~bsy[w] /\ infl[w] = NoTask
      /\ \A v \in Worker : v # w => done'[v] = done[v]
      /\ done'[w] = NoTask
  BY <1>1 DEF IInv, TypeOK
(* A thread that has answered holds no further task.                       *)
<1>10. w \in workers => t # NoTask /\ job[w] = NoTask
  BY <1>1, <1>3 DEF IInv, Slots
<1> HIDE DEF t, bsy, infl, prom
<1>11. CASE disposed
  <2>1. queue' = queue /\ busy' = bsy /\ inflight' = infl /\ job' = job /\ promise' = prom
    BY <1>1, <1>11 DEF DispatchUnlessDisposed
  <2>2. TypeOK'
    BY <1>1, <1>2, <1>8, <2>1 DEF IInv, TypeOK, States
  <2>3. OneOwner' /\ OwnAnswer'
    BY <1>5, <1>7, <2>1 DEF Owner, OneOwner, Held, Queued, OwnAnswer
  <2>4. Slots' /\ Closed' /\ Cold' /\ WorkConserving'
    BY <1>1, <1>4, <1>9, <1>11, <2>1 DEF IInv, Slots, Closed, Cold, WorkConserving
  <2>5. Threads'
    BY <1>1, <1>9, <1>11, <2>1 DEF IInv, Threads
  <2> QED
    BY <2>2, <2>3, <2>4, <2>5 DEF IInv
<1>12. CASE ~disposed
  <2>2. Dispatched(queue, ready, bsy, infl, prom, job)
    BY <1>12, TaskDoneDispatched DEF t, bsy, infl, prom
  <2>3. TypeOK'
    BY <1>1, <1>8, <2>2 DEF Dispatched, IInv, TypeOK, States
  <2>4. OneOwner'
    BY <2>2 DEF Dispatched, Owner, OneOwner, Held, Queued
  <2>5. OwnAnswer'
    BY <1>7, <2>2 DEF Dispatched, OwnAnswer
  <2>6. WorkConserving'
    BY <1>1, <2>2 DEF Dispatched, IInv, WorkConserving
  <2>7. Slots'
    <3> SUFFICES ASSUME NEW v \in Worker
                 PROVE  /\ v \in workers => (busy'[v] <=> inflight'[v] # NoTask)
                        /\ v \in workers /\ inflight'[v] = NoTask =>
                              job'[v] = NoTask /\ done'[v] = NoTask
                        /\ inflight'[v] # NoTask => job'[v] \in {NoTask, inflight'[v]}
                        /\ inflight'[v] # NoTask /\ done'[v] # NoTask =>
                              done'[v] = inflight'[v] /\ job'[v] = NoTask
      BY <1>1 DEF Slots
    <3>1. \/ busy'[v] = bsy[v] /\ inflight'[v] = infl[v] /\ job'[v] = job[v]
          \/ /\ v \in workers /\ infl[v] = NoTask /\ busy'[v]
             /\ inflight'[v] \in Task /\ job'[v] = inflight'[v]
      BY <2>2 DEF Dispatched
    <3>2. CASE v = w
      BY <1>6, <1>9, <1>10, <3>1, <3>2, NoTaskAssumption
    <3>3. CASE v # w
      BY <1>9, <3>1, <3>3, NoTaskAssumption DEF IInv, Slots
    <3> QED
      BY <3>2, <3>3
  <2>8. Cold' /\ Closed'
    BY <1>1, <1>4, <1>12 DEF Cold, Closed
  <2>9. Threads'
    BY <1>1, <1>9, <2>2 DEF Dispatched, IInv, Threads
  <2> QED
    BY <2>3, <2>4, <2>5, <2>6, <2>7, <2>8, <2>9 DEF IInv
<1> QED
  BY <1>11, <1>12

LEMMA RunDispatched ==
  ASSUME IInv, NEW t \in Task, Run(t), ~(disposed \/ workers = {})
  PROVE  Dispatched(Append(queue, t), ready, busy, inflight,
                    [promise EXCEPT ![t] = "pending"], job)
<1> DEFINE q == Append(queue, t)
           prom == [promise EXCEPT ![t] = "pending"]
<1>1. Dispatch(q, ready, busy, inflight, prom, job)
  BY DEF Run
<1>2. /\ queue \in Seq(Task)
      /\ q \in Seq(Task)
      /\ DOMAIN queue = 1..Len(queue)
      /\ DOMAIN q = 1..(Len(queue) + 1)
      /\ Len(queue) \in Nat
      /\ \A i \in DOMAIN queue : q[i] = queue[i]
      /\ q[Len(queue) + 1] = t
  BY DEF IInv, TypeOK
<1>3. prom \in [Task -> States] /\ \A u \in Task : prom[u] = IF u = t THEN "pending" ELSE promise[u]
  BY DEF IInv, TypeOK, States, Settled
<1>4. /\ \A i \in DOMAIN queue : queue[i] # t
      /\ \A w \in Worker : inflight[w] # t
  BY DEF Run, IInv, OneOwner, Held, Queued
<1> HIDE DEF q, prom
<1>5. Owner(q, inflight, prom)
  <2>1. Owner(queue, inflight, promise)
    BY OwnerIsOneOwner DEF IInv
  <2>2. \A i \in DOMAIN q : i \in DOMAIN queue \/ i = Len(queue) + 1
    BY <1>2
  <2>3. DOMAIN queue \subseteq DOMAIN q /\ Len(queue) + 1 \in DOMAIN q
    BY <1>2
  <2>4. \A i, j \in DOMAIN q : q[i] = q[j] => i = j
    BY <1>2, <1>4, <2>1, <2>2 DEF Owner
  <2>5. \A w \in Worker : \A i \in DOMAIN q : q[i] # inflight[w]
    BY <1>2, <1>4, <2>1, <2>2 DEF Owner
  <2>6. \A u \in Task : (\E i \in DOMAIN q : q[i] = u)
                          <=> u = t \/ \E i \in DOMAIN queue : queue[i] = u
    BY <1>2, <2>2, <2>3
  <2>7. \A u \in Task : prom[u] = "pending" <=> \/ \E i \in DOMAIN q : q[i] = u
                                                \/ \E w \in Worker : inflight[w] = u
    BY <1>3, <1>4, <2>1, <2>6 DEF Owner
  <2> QED
    BY <2>1, <2>4, <2>5, <2>7 DEF Owner
<1>6. Dispatched(q, ready, busy, inflight, prom, job)
  <2>1. /\ ready \in [Worker -> BOOLEAN]
        /\ busy \in [Worker -> BOOLEAN]
        /\ inflight \in [Worker -> Task \cup {NoTask}]
        /\ job \in [Worker -> Task \cup {NoTask}]
        /\ workers \subseteq Worker
        /\ \A w \in workers : busy[w] <=> inflight[w] # NoTask
    BY DEF IInv, TypeOK, Slots
  <2> QED
    BY <1>1, <1>2, <1>3, <1>5, <2>1, DispatchStep
<1> QED
  BY <1>6 DEF q, prom


LEMMA RunInv ==
  ASSUME IInv, NEW t \in Task, Run(t)
  PROVE  IInv'
<1> DEFINE q == Append(queue, t)
           prom == [promise EXCEPT ![t] = "pending"]
<1>1. /\ warmup = "resolved"
      /\ promise[t] = "none"
      /\ UNCHANGED <<workers, ready, warmup, disposed, answer, thread, hello, done>>
  BY DEF Run
<1>2. CASE disposed \/ workers = {}
  <2>1. promise' = Rejecting(promise, {t}) /\ UNCHANGED <<queue, busy, inflight, job>>
    BY <1>2 DEF Run
  <2>2. TypeOK'
    BY <1>1, <2>1 DEF IInv, TypeOK, Rejecting, Settled
  <2>3. OneOwner' /\ OwnAnswer'
    BY <1>1, <2>1 DEF IInv, TypeOK, OneOwner, Held, Queued, OwnAnswer, Rejecting
  <2>4. WorkConserving' /\ Slots' /\ Cold' /\ Closed' /\ Threads'
    BY <1>1, <2>1 DEF IInv, WorkConserving, Slots, Cold, Closed, Threads
  <2> QED
    BY <2>2, <2>3, <2>4 DEF IInv
<1>3. CASE ~(disposed \/ workers = {})
  <2>3. \A u \in Task : prom[u] = IF u = t THEN "pending" ELSE promise[u]
    BY DEF IInv, TypeOK, States, Settled
  <2>6. Dispatched(q, ready, busy, inflight, prom, job)
    BY <1>3, RunDispatched
  <2> HIDE DEF q, prom
  <2>7. TypeOK'
    BY <1>1, <2>6 DEF Dispatched, IInv, TypeOK, States
  <2>8. OneOwner'
    BY <2>6 DEF Dispatched, Owner, OneOwner, Held, Queued
  <2>9. OwnAnswer'
    BY <1>1, <2>3, <2>6 DEF Dispatched, IInv, OwnAnswer
  <2>10. WorkConserving'
    BY <1>1, <1>3, <2>6 DEF Dispatched, WorkConserving
  <2>11. Slots'
    BY <1>1, <2>6, NoTaskAssumption DEF Dispatched, IInv, TypeOK, Slots
  <2>12. Cold' /\ Closed'
    BY <1>1, <1>3 DEF Cold, Closed
  <2>13. Threads'
    BY <1>1, <2>6 DEF Dispatched, IInv, Threads
  <2> QED
    BY <2>7, <2>8, <2>9, <2>10, <2>11, <2>12, <2>13 DEF IInv
<1> QED
  BY <1>2, <1>3


---------------------------------------------------------------------------
(* The theorems.                                                           *)

LEMMA NextInv == IInv /\ [Next]_vars => IInv'
<1> SUFFICES ASSUME IInv, [Next]_vars PROVE IInv'
  OBVIOUS
<1>1. CASE Warmup
  BY <1>1, WarmupInv
<1>2. CASE WarmupTimeout
  BY <1>2, WarmupTimeoutInv
<1>3. CASE Dispose
  BY <1>3, DisposeInv
<1>4. CASE \E t \in Task : Run(t)
  BY <1>4, RunInv
<1>5. CASE \E w \in Worker : WorkerEvent(w)
  BY <1>5, OnReadyInv, OnTaskDoneInv, OnErrorInv, OnExitInv DEF WorkerEvent
<1>6. CASE \E w \in Worker : ThreadStep(w)
  BY <1>6, BootInv, FinishInv, RaiseInv, QuitInv DEF ThreadStep
<1>7. CASE UNCHANGED vars
  BY <1>7 DEF vars, poolVars, callerVars, threadVars, IInv, TypeOK, OneOwner,
       Held, Queued, OwnAnswer, WorkConserving, Slots, Cold, Closed, Threads
<1> QED
  BY <1>1, <1>2, <1>3, <1>4, <1>5, <1>6, <1>7 DEF Next, OwnerCall

THEOREM Inductive == Spec => []IInv
  BY InitInv, NextInv, PTL DEF Spec

(* Every variable keeps its type.                                          *)
THEOREM TypeCorrect == Spec => []TypeOK
  BY Inductive, PTL DEF IInv

(* Each pending promise of run() has exactly one owner, the queue or one   *)
(* worker, whatever the workers do: no handler settles one twice or drops  *)
(* one it is responsible for.                                              *)
THEOREM OneOwnerAlways == Spec => []OneOwner
  BY Inductive, PTL DEF IInv

(* A promise only resolves with the parse result of its own file.          *)
THEOREM OwnAnswerAlways == Spec => []OwnAnswer
  BY Inductive, PTL DEF IInv

(* No task waits beside a free worker or in a pool without workers.        *)
THEOREM WorkConservingAlways == Spec => []WorkConserving
  BY Inductive, PTL DEF IInv

(* If no thread exits by itself with code 0, a task in flight stays with a *)
(* worker of the pool whose 'exit' is still to come.                       *)
THEOREM NoOrphanAlways == Spec => []NoOrphan
<1>1. IInv => NoOrphan
  BY DEF IInv, Threads, NoOrphan
<1> QED
  BY <1>1, Inductive, PTL

(* The three together: what is said of run() to its caller.                *)
THEOREM AccountedAlways == Spec => []Accounted
<1>1. OneOwner /\ OwnAnswer /\ NoOrphan => Accounted
  BY DEF Accounted
<1> QED
  BY <1>1, OneOwnerAlways, OwnAnswerAlways, NoOrphanAlways, PTL

---------------------------------------------------------------------------
(* Refinement of ParseService: every step of the pool is a step of the     *)
(* service on promise, answer and disposed, or leaves them alone.          *)

PendingTasks == {t \in Task : promise[t] = "pending"}

LEMMA DispatchRejects ==
  ASSUME IInv,
         NEW rdy \in [Worker -> BOOLEAN],
         Dispatch(queue, rdy, busy, inflight, promise, job)
  PROVE  \E R \in SUBSET PendingTasks : promise' = Rejecting(promise, R)
<1>1. /\ queue \in Seq(Task)
      /\ busy \in [Worker -> BOOLEAN]
      /\ inflight \in [Worker -> Task \cup {NoTask}]
      /\ promise \in [Task -> States]
      /\ job \in [Worker -> Task \cup {NoTask}]
      /\ workers \subseteq Worker
      /\ \A v \in workers : busy[v] <=> inflight[v] # NoTask
  BY DEF IInv, TypeOK, States, Slots
<1>2. Owner(queue, inflight, promise)
  BY OwnerIsOneOwner DEF IInv
<1>3. Dispatched(queue, rdy, busy, inflight, promise, job)
  BY <1>1, <1>2, DispatchStep
<1> QED
  BY <1>3 DEF Dispatched, PendingTasks

(* A step that only rejects pending promises is a step of the service.     *)
LEMMA RejectingIsFail ==
  ASSUME NEW R \in SUBSET PendingTasks,
         promise' = Rejecting(promise, R),
         UNCHANGED <<answer, disposed>>
  PROVE  Service!Next
  BY DEF Service!Next, Service!Fail, Service!Pending, Service!Reject,
         PendingTasks, Rejecting

LEMMA RemoveRejects ==
  ASSUME IInv, NEW w \in Worker, NEW prom, NEW S \in SUBSET PendingTasks,
         prom = Rejecting(promise, S), RemoveWorker(w, prom)
  PROVE  \E R \in SUBSET PendingTasks : promise' = Rejecting(promise, R)
<1>1. Queued \in SUBSET PendingTasks
  BY DEF IInv, TypeOK, OneOwner, Held, Queued, PendingTasks
<1>2. CASE workers \ {w} = {}
  <2>1. promise' = Rejecting(promise, S \cup Queued)
    BY <1>2 DEF RemoveWorker, Rejecting
  <2>2. S \cup Queued \in SUBSET PendingTasks
    BY <1>1
  <2> QED
    BY <2>1, <2>2
<1>3. CASE workers \ {w} # {}
  BY <1>3 DEF RemoveWorker
<1> QED
  BY <1>2, <1>3

LEMMA RejectNone == ASSUME TypeOK PROVE promise = Rejecting(promise, {})
  BY DEF TypeOK, Rejecting

LEMMA StepRefines ==
  IInv /\ [Next]_vars => [Service!Next]_(Service!vars)
<1> SUFFICES ASSUME IInv, [Next]_vars PROVE [Service!Next]_(Service!vars)
  OBVIOUS
<1> USE DEF Service!vars
<1>1. ASSUME UNCHANGED <<promise, answer, disposed>>
      PROVE  [Service!Next]_(Service!vars)
  BY <1>1
<1>2. CASE Warmup \/ WarmupTimeout \/ UNCHANGED vars
  BY <1>1, <1>2 DEF Warmup, WarmupTimeout, vars, poolVars, callerVars
<1>3. CASE Dispose
  <2>1. Queued \in SUBSET Service!Pending
    BY DEF IInv, TypeOK, OneOwner, Held, Queued, Service!Pending
  <2>2. Service!Close
    BY <1>3, <2>1 DEF Dispose, Rejecting, Service!Close, Service!Reject
  <2> QED
    BY <2>2 DEF Service!Next
<1>4. ASSUME NEW t \in Task, Run(t)
      PROVE  Service!Next
  <2> DEFINE prom == [promise EXCEPT ![t] = "pending"]
  <2>1. promise[t] = "none" /\ UNCHANGED <<answer, disposed>>
    BY <1>4 DEF Run
  <2>2. \E R \in SUBSET (Service!Pending \cup {t}) :
           /\ disposed => t \in R
           /\ promise' = Service!Reject(prom, R)
    <3>1. CASE disposed \/ workers = {}
      <4>1. promise' = Rejecting(promise, {t})
        BY <1>4, <3>1 DEF Run
      <4>2. promise' = Service!Reject(prom, {t})
        BY <4>1 DEF IInv, TypeOK, Rejecting, Service!Reject
      <4> QED
        BY <4>2
    <3>2. CASE ~(disposed \/ workers = {})
      <4>1. Dispatched(Append(queue, t), ready, busy, inflight, prom, job)
        BY <1>4, <3>2, RunDispatched
      <4>2. PICK R \in SUBSET {u \in Task : prom[u] = "pending"} :
               promise' = Rejecting(prom, R)
        BY <4>1 DEF Dispatched
      <4>3. R \in SUBSET (Service!Pending \cup {t})
        BY <4>2 DEF IInv, TypeOK, Service!Pending
      <4> QED
        BY <3>2, <4>2, <4>3 DEF Rejecting, Service!Reject
    <3> QED
      BY <3>1, <3>2
  <2>3. Service!Submit(t)
    BY <2>1, <2>2 DEF Service!Submit
  <2> QED
    BY <2>3 DEF Service!Next
<1>5. ASSUME NEW w \in Worker, OnReady(w)
      PROVE  [Service!Next]_(Service!vars)
  <2> DEFINE rdy == [ready EXCEPT ![w] = TRUE]
  <2>1. /\ UNCHANGED <<answer, disposed>>
        /\ DispatchUnlessDisposed(queue, rdy, busy, inflight, promise, job)
    BY <1>5 DEF OnReady
  <2>2. rdy \in [Worker -> BOOLEAN]
    BY DEF IInv, TypeOK
  <2> HIDE DEF rdy
  <2>3. CASE disposed
    BY <1>1, <2>1, <2>3 DEF DispatchUnlessDisposed
  <2>4. CASE ~disposed
    <3>1. Dispatch(queue, rdy, busy, inflight, promise, job)
      BY <2>1, <2>4 DEF DispatchUnlessDisposed
    <3>2. \E R \in SUBSET PendingTasks : promise' = Rejecting(promise, R)
      BY <2>2, <3>1, DispatchRejects
    <3> QED
      BY <2>1, <3>2, RejectingIsFail
  <2> QED
    BY <2>3, <2>4
<1>6. ASSUME NEW w \in Worker, OnTaskDone(w)
      PROVE  [Service!Next]_(Service!vars)
  <2> DEFINE t == inflight[w]
             bsy == [busy EXCEPT ![w] = FALSE]
             infl == [inflight EXCEPT ![w] = NoTask]
             prom == IF t = NoTask THEN promise ELSE [promise EXCEPT ![t] = "resolved"]
  <2>1. /\ answer' = IF t = NoTask THEN answer ELSE [answer EXCEPT ![t] = done[w]]
        /\ done[w] # NoTask
        /\ UNCHANGED disposed
    BY <1>6 DEF OnTaskDone
  <2>2. t # NoTask => done[w] = t /\ t \in Task /\ promise[t] = "pending"
    BY <2>1 DEF IInv, TypeOK, Slots, OneOwner, Held
  <2>3. \E R \in SUBSET {u \in Task : prom[u] = "pending"} : promise' = Rejecting(prom, R)
    <3>1. DispatchUnlessDisposed(queue, ready, bsy, infl, prom, job)
      BY <1>6 DEF OnTaskDone
    <3>2. CASE disposed
      <4>1. promise' = prom
        BY <3>1, <3>2 DEF DispatchUnlessDisposed
      <4>2. prom = Rejecting(prom, {})
        BY DEF IInv, TypeOK, Rejecting
      <4> QED
        BY <4>1, <4>2
    <3>3. CASE ~disposed
      <4>1. Dispatched(queue, ready, bsy, infl, prom, job)
        BY <1>6, <3>3, TaskDoneDispatched
      <4> QED
        BY <4>1 DEF Dispatched
    <3> QED
      BY <3>2, <3>3
  <2>4. PICK R \in SUBSET {u \in Task : prom[u] = "pending"} : promise' = Rejecting(prom, R)
    BY <2>3
  <2>5. CASE t = NoTask
    <3>1. R \in SUBSET PendingTasks /\ promise' = Rejecting(promise, R)
      BY <2>4, <2>5 DEF PendingTasks
    <3>2. UNCHANGED <<answer, disposed>>
      BY <2>1, <2>5
    <3> QED
      BY <3>1, <3>2, RejectingIsFail
  <2>6. CASE t # NoTask
    <3>1. R \in SUBSET (Service!Pending \ {t})
      BY <2>2, <2>4, <2>6 DEF IInv, TypeOK, Service!Pending
    <3>2. promise' = Service!Reject([promise EXCEPT ![t] = "resolved"], R)
      BY <2>4, <2>6 DEF Rejecting, Service!Reject
    <3>3. Service!Resolve(t)
      BY <2>1, <2>2, <2>6, <3>1, <3>2 DEF Service!Resolve
    <3> QED
      BY <2>2, <2>6, <3>3 DEF Service!Next
  <2> QED
    BY <2>5, <2>6
<1>7. ASSUME NEW w \in Worker, OnError(w) \/ OnExit(w)
      PROVE  [Service!Next]_(Service!vars)
  <2> DEFINE S == IF inflight[w] = NoTask THEN {} ELSE {inflight[w]}
  <2>1. S \in SUBSET PendingTasks
    BY DEF IInv, TypeOK, OneOwner, Held, PendingTasks
  <2>2. {} \in SUBSET PendingTasks /\ promise = Rejecting(promise, {})
    BY RejectNone DEF IInv
  <2>3. Rejecting(promise, {inflight[w]}) = Rejecting(promise, S)
    BY NoTaskAssumption DEF Rejecting
  <2> HIDE DEF S
  <2>4. UNCHANGED <<answer, disposed>>
    BY <1>7 DEF OnError, OnExit
  <2>5. \/ UNCHANGED promise
        \/ RemoveWorker(w, Rejecting(promise, S))
        \/ RemoveWorker(w, Rejecting(promise, {}))
    BY <1>7, <2>2, <2>3 DEF OnError, OnExit
  <2>6. CASE UNCHANGED promise
    BY <1>1, <2>4, <2>6
  <2>7. ASSUME NEW T \in SUBSET PendingTasks, RemoveWorker(w, Rejecting(promise, T))
        PROVE  Service!Next
    <3>1. \E R \in SUBSET PendingTasks : promise' = Rejecting(promise, R)
      BY <2>7, RemoveRejects
    <3> QED
      BY <2>4, <3>1, RejectingIsFail
  <2> QED
    BY <2>1, <2>2, <2>5, <2>6, <2>7
<1>8. CASE \E w \in Worker : ThreadStep(w)
  BY <1>1, <1>8 DEF ThreadStep, Boot, Finish, Raise, Quit, poolVars, callerVars
<1> QED
  BY <1>2, <1>3, <1>4, <1>5, <1>6, <1>7, <1>8 DEF Next, OwnerCall, WorkerEvent

(* The pool implements the service its caller relies on.                   *)
THEOREM Refinement == Spec => ImplementsService
<1>1. Init => Service!Init
  BY DEF Init, Service!Init
<1> QED
  BY <1>1, StepRefines, Inductive, PTL DEF Spec, ImplementsService, Service!Spec
---------------------------------------------------------------------------
(* parseAll().                                                             *)

(* A pool in use is not disposed of, and no call waits for run() promises  *)
(* of a pool whose warmup() failed.                                        *)
PoolState ==
    /\ hasPool => ~disposed
    /\ hasPool /\ phase # "warming" => warmup \in {"cold", "resolved"}
    /\ phase = "running" => warmup = "resolved"

(* Only the running call waits for tasks, its own uncached files.          *)
Outstanding ==
    /\ \A t \in Task : promise[t] = "pending" => phase = "running" /\ kind[t] = "uncached"
    /\ phase \in {"parsing", "warming"} => \A t \in Task : promise[t] = "none"

(* While the call is suspended its output is what the scan found.          *)
Scanned ==
    Suspended =>
        /\ nodes = Ones(FilesOf("cached"))
        /\ errs = Ones(FilesOf("unread"))
        /\ fresh = Ones({})
        /\ processed = Cardinality(FilesOf("unread") \cup FilesOf("cached"))

ParserInv ==
    /\ IInv
    /\ ParserTypeOK
    /\ PoolState
    /\ Outstanding
    /\ Scanned
    /\ EachFileOnce
    /\ FallbackLosesNothing
    /\ CancelIsSeen

Phases == {"idle", "parsing", "warming", "running", "returned", "failed"}
---------------------------------------------------------------------------
(* Lemmas about the files of a call.                                       *)

(* The calls of run() are made for every uncached file.                    *)
LEMMA InjectionsCover ==
  ASSUME NEW S, IsFiniteSet(S), NEW f \in Injections(1..Cardinality(S), S)
  PROVE  \A s \in S : \E i \in 1..Cardinality(S) : f[i] = s
<1>1. Cardinality(S) \in Nat
  BY FS_CardinalityType
<1>2. f \in Injection(1..Cardinality(S), S)
  BY DEF Injections, Injection, IsInjective
<1>3. Cardinality(1..Cardinality(S)) = Cardinality(S)
  BY <1>1, FS_Interval
<1>4. f \in Surjection(1..Cardinality(S), S)
  BY <1>2, <1>3, FS_Injection
<1> QED
  BY <1>4 DEF Surjection

(* The scanned files and the uncached ones are all the files of the call.  *)
LEMMA FilesCount ==
  ASSUME kind \in [Task -> Kinds]
  PROVE  /\ Cardinality(FilesOf("uncached")) \in Nat
         /\ IsFiniteSet(FilesOf("uncached"))
         /\ Cardinality(FilesOf("unread") \cup FilesOf("cached")) \in Nat
         /\ Cardinality(FilesOf("unread") \cup FilesOf("cached"))
               + Cardinality(FilesOf("uncached")) = Cardinality(Files)
         /\ Cardinality(Files) \in 0..Cardinality(Task)
<1> DEFINE S == FilesOf("unread") \cup FilesOf("cached")
           U == FilesOf("uncached")
<1>1. S \subseteq Task /\ U \subseteq Task /\ Files \subseteq Task
  BY DEF FilesOf, Files
<1>2. S \cup U = Files /\ S \cap U = {}
  BY DEF FilesOf, Files, Kinds
<1> HIDE DEF S, U
<1>3. IsFiniteSet(S) /\ IsFiniteSet(U) /\ IsFiniteSet(Files)
  BY <1>1, TaskAssumption, FS_Subset
<1>4. /\ Cardinality(S) \in Nat
      /\ Cardinality(U) \in Nat
      /\ Cardinality(Files) \in Nat
      /\ Cardinality(Task) \in Nat
  BY <1>3, TaskAssumption, FS_CardinalityType
<1>5. Cardinality(Files) <= Cardinality(Task)
  BY <1>1, TaskAssumption, FS_Subset
<1>6. Cardinality(S \cup U) = Cardinality(S) + Cardinality(U) - Cardinality(S \cap U)
  BY <1>3, FS_Union
<1>7. Cardinality(S \cap U) = 0
  BY <1>2, FS_EmptySet
<1>8. Cardinality(S) + Cardinality(U) = Cardinality(Files)
  BY <1>2, <1>4, <1>6, <1>7
<1> QED
  BY <1>3, <1>4, <1>5, <1>8 DEF S, U

---------------------------------------------------------------------------
(* The steps of parseAll() keep the invariant of the pool.                 *)

LEMMA PoolUnchanged == ASSUME IInv, UNCHANGED vars PROVE IInv'
  BY DEF vars, poolVars, callerVars, threadVars, IInv, TypeOK, OneOwner,
     Held, Queued, OwnAnswer, WorkConserving, Slots, Cold, Closed, Threads

(* Without outstanding promises the pool holds no task.                    *)
LEMMA NothingHeld ==
  ASSUME IInv, \A t \in Task : promise[t] # "pending"
  PROVE  queue = <<>> /\ \A w \in Worker : inflight[w] = NoTask
<1>1. \A t \in Task : ~Held(t)
  BY DEF IInv, OneOwner
<1>2. \A w \in Worker : inflight[w] = NoTask
  BY <1>1 DEF IInv, TypeOK, Held
<1>3. Len(queue) \in Nat /\ DOMAIN queue = 1..Len(queue) /\ queue \in Seq(Task)
  BY DEF IInv, TypeOK
<1>4. \A i \in DOMAIN queue : queue[i] \in Task
  BY <1>3
<1>5. DOMAIN queue = {}
  BY <1>1, <1>4 DEF Held, Queued
<1>6. queue = <<>>
  BY <1>3, <1>5
<1> QED
  BY <1>2, <1>6

LEMMA ScanPool ==
  ASSUME IInv, Outstanding, Scan
  PROVE  IInv'
<1>1. \A t \in Task : promise[t] # "pending"
  BY DEF Outstanding, Scan, Suspended
<1>2. queue = <<>> /\ \A w \in Worker : inflight[w] = NoTask
  BY <1>1, NothingHeld
<1>3. /\ promise' = [t \in Task |-> "none"]
      /\ answer' = [t \in Task |-> NoTask]
      /\ UNCHANGED <<queue, workers, ready, busy, inflight, warmup, disposed,
                     thread, job, hello, done>>
  BY DEF Scan, poolVars, threadVars
<1>4. TypeOK'
  BY <1>3 DEF IInv, TypeOK, Settled
<1>5. OneOwner' /\ OwnAnswer'
  BY <1>2, <1>3, NoTaskAssumption DEF OneOwner, Held, Queued, OwnAnswer
<1>6. WorkConserving' /\ Slots' /\ Cold' /\ Closed' /\ Threads'
  BY <1>3 DEF IInv, WorkConserving, Slots, Cold, Closed, Threads
<1> QED
  BY <1>4, <1>5, <1>6 DEF IInv

LEMMA NewPoolPool ==
  ASSUME IInv, Outstanding, NewPool
  PROVE  IInv'
<1>1. \A t \in Task : promise[t] = "none"
  BY DEF Outstanding, NewPool
<1>2. /\ queue' = <<>>
      /\ workers' = {}
      /\ ready' = [w \in Worker |-> FALSE]
      /\ busy' = [w \in Worker |-> FALSE]
      /\ inflight' = [w \in Worker |-> NoTask]
      /\ warmup' = "cold"
      /\ disposed' = FALSE
      /\ thread' = [w \in Worker |-> "absent"]
      /\ job' = [w \in Worker |-> NoTask]
      /\ hello' = [w \in Worker |-> FALSE]
      /\ done' = [w \in Worker |-> NoTask]
      /\ UNCHANGED <<promise, answer>>
  BY DEF NewPool, callerVars
<1>3. TypeOK'
  <2>1. <<>> \in Seq(Task)
    OBVIOUS
  <2> QED
    BY <1>2, <2>1 DEF IInv, TypeOK, Settled, Alive
<1>4. OneOwner' /\ OwnAnswer'
  BY <1>1, <1>2, NoTaskAssumption DEF IInv, OneOwner, Held, Queued, OwnAnswer
<1>5. WorkConserving' /\ Slots' /\ Cold' /\ Closed' /\ Threads'
  BY <1>2 DEF WorkConserving, Slots, Cold, Closed, Threads
<1> QED
  BY <1>3, <1>4, <1>5 DEF IInv

LEMMA RunAllPool ==
  ASSUME ParserInv, RunAll
  PROVE  IInv'
<1> DEFINE S == FilesOf("uncached")
           N == Cardinality(S)
           prom == [t \in Task |-> IF t \in S THEN "pending" ELSE promise[t]]
<1>1. /\ \A t \in Task : promise[t] = "none"
      /\ ~disposed
      /\ warmup # "cold"
      /\ UNCHANGED <<workers, ready, warmup, disposed, answer, thread, hello, done>>
  BY DEF ParserInv, Outstanding, PoolState, RunAll
<1>2. queue = <<>> /\ \A w \in Worker : inflight[w] = NoTask
  BY <1>1, NothingHeld DEF ParserInv
<1>3. /\ N \in Nat
      /\ IsFiniteSet(S)
      /\ S \subseteq Task
  BY FilesCount DEF ParserInv, ParserTypeOK, FilesOf
<1>4. prom \in [Task -> States] /\ \A t \in Task : prom[t] = IF t \in S THEN "pending" ELSE "none"
  BY <1>1 DEF States, Settled
<1>5. CASE workers = {}
  <2>1. promise' = Rejecting(promise, S) /\ UNCHANGED <<queue, busy, inflight, job>>
    BY <1>5 DEF RunAll
  <2>2. TypeOK'
    BY <1>1, <2>1 DEF ParserInv, IInv, TypeOK, Rejecting, Settled
  <2>3. OneOwner' /\ OwnAnswer'
    BY <1>1, <1>2, <2>1, NoTaskAssumption
       DEF ParserInv, IInv, OneOwner, Held, Queued, OwnAnswer, Rejecting
  <2>4. WorkConserving' /\ Slots' /\ Cold' /\ Closed' /\ Threads'
    BY <1>1, <2>1 DEF ParserInv, IInv, WorkConserving, Slots, Cold, Closed, Threads
  <2> QED
    BY <2>2, <2>3, <2>4 DEF IInv
<1>6. CASE workers # {}
  <2>1. PICK files \in Injections(1..N, S) :
           Dispatch(queue \o files, ready, busy, inflight, prom, job)
    BY <1>6 DEF RunAll
  <2>2. /\ files \in [1..N -> S]
        /\ \A i, j \in 1..N : files[i] = files[j] => i = j
    BY DEF Injections
  <2>3. \A s \in S : \E i \in 1..N : files[i] = s
    BY <1>3, InjectionsCover
  <2> HIDE DEF S, N, prom
  <2>4. files \in Seq(Task) /\ DOMAIN files = 1..N
    <3>1. files \in [1..N -> Task]
      BY <1>3, <2>2
    <3> QED
      BY <1>3, <3>1
  <2>5. queue \o files = files
    BY <1>2, <2>4
  <2>6. Owner(files, inflight, prom)
    <3>1. \A t \in Task : prom[t] = "pending" <=> \/ \E i \in DOMAIN files : files[i] = t
                                                  \/ \E w \in Worker : inflight[w] = t
      BY <1>2, <1>4, <2>2, <2>3, <2>4, NoTaskAssumption
    <3>2. \A w \in Worker : \A i \in DOMAIN files : files[i] # inflight[w]
      BY <1>2, <1>3, <2>2, <2>4, NoTaskAssumption
    <3> QED
      BY <1>2, <2>2, <2>4, <3>1, <3>2 DEF Owner
  <2>7. Dispatched(files, ready, busy, inflight, prom, job)
    <3>1. /\ ready \in [Worker -> BOOLEAN]
          /\ busy \in [Worker -> BOOLEAN]
          /\ inflight \in [Worker -> Task \cup {NoTask}]
          /\ job \in [Worker -> Task \cup {NoTask}]
          /\ workers \subseteq Worker
          /\ \A w \in workers : busy[w] <=> inflight[w] # NoTask
      BY DEF ParserInv, IInv, TypeOK, Slots
    <3> QED
      BY <1>4, <2>1, <2>4, <2>5, <2>6, <3>1, DispatchStep
  <2>8. TypeOK'
    BY <1>1, <2>7 DEF Dispatched, ParserInv, IInv, TypeOK, States
  <2>9. OneOwner'
    BY <2>7 DEF Dispatched, Owner, OneOwner, Held, Queued
  <2>10. OwnAnswer'
    BY <1>1, <1>4, <2>7 DEF Dispatched, ParserInv, IInv, OwnAnswer
  <2>11. WorkConserving'
    BY <1>1, <1>6, <2>7 DEF Dispatched, WorkConserving
  <2>12. Slots'
    BY <1>1, <2>7, NoTaskAssumption DEF Dispatched, ParserInv, IInv, TypeOK, Slots
  <2>13. Cold' /\ Closed'
    BY <1>1 DEF Cold, Closed
  <2>14. Threads'
    BY <1>1, <2>7 DEF Dispatched, ParserInv, IInv, Threads
  <2> QED
    BY <2>8, <2>9, <2>10, <2>11, <2>12, <2>13, <2>14 DEF IInv
<1> QED
  BY <1>5, <1>6

---------------------------------------------------------------------------
(* The events of the pool settle promises that are pending, and change no  *)
(* other; a warmup that succeeded stays so.                                *)

SettlesPending ==
    \A t \in Task : promise'[t] # promise[t] =>
        promise[t] = "pending" /\ promise'[t] \in Settled

(* What the steps of the pool between two steps of parseAll() leave alone. *)
Behind ==
    /\ SettlesPending
    /\ warmup = "resolved" => warmup' = "resolved"
    /\ warmup' \in {warmup, "resolved"} \/ warmup = "waiting"
    /\ disposed' => disposed

LEMMA RejectingSettles ==
  ASSUME TypeOK, NEW R \in SUBSET PendingTasks, promise' = Rejecting(promise, R)
  PROVE  SettlesPending
  BY DEF TypeOK, PendingTasks, Rejecting, SettlesPending, Settled

LEMMA RemoveSettles ==
  ASSUME IInv, NEW w \in Worker, OnError(w) \/ OnExit(w)
  PROVE  SettlesPending
<1> DEFINE S == IF inflight[w] = NoTask THEN {} ELSE {inflight[w]}
<1>1. S \in SUBSET PendingTasks
  BY DEF IInv, TypeOK, OneOwner, Held, PendingTasks
<1>2. {} \in SUBSET PendingTasks /\ promise = Rejecting(promise, {})
  BY RejectNone DEF IInv
<1>3. Rejecting(promise, {inflight[w]}) = Rejecting(promise, S)
  BY NoTaskAssumption DEF Rejecting
<1> HIDE DEF S
<1>4. \/ UNCHANGED promise
      \/ RemoveWorker(w, Rejecting(promise, S))
      \/ RemoveWorker(w, Rejecting(promise, {}))
  BY <1>2, <1>3 DEF OnError, OnExit
<1>5. \E R \in SUBSET PendingTasks : promise' = Rejecting(promise, R)
  <2>1. ASSUME NEW T \in SUBSET PendingTasks, RemoveWorker(w, Rejecting(promise, T))
        PROVE  \E R \in SUBSET PendingTasks : promise' = Rejecting(promise, R)
    BY <2>1, RemoveRejects
  <2> QED
    BY <1>1, <1>2, <1>4, <2>1
<1> QED
  BY <1>5, RejectingSettles DEF IInv

LEMMA EventBehind ==
  ASSUME IInv, NEW w \in Worker, WorkerEvent(w)
  PROVE  Behind
<1>1. CASE OnReady(w)
  <2> DEFINE rdy == [ready EXCEPT ![w] = TRUE]
  <2>1. /\ warmup' = SettleWarmup("resolved")
        /\ UNCHANGED disposed
        /\ DispatchUnlessDisposed(queue, rdy, busy, inflight, promise, job)
    BY <1>1 DEF OnReady
  <2>2. rdy \in [Worker -> BOOLEAN]
    BY DEF IInv, TypeOK
  <2> HIDE DEF rdy
  <2>3. SettlesPending
    <3>1. CASE disposed
      BY <2>1, <3>1 DEF DispatchUnlessDisposed, SettlesPending
    <3>2. CASE ~disposed
      <4>1. Dispatch(queue, rdy, busy, inflight, promise, job)
        BY <2>1, <3>2 DEF DispatchUnlessDisposed
      <4>2. \E R \in SUBSET PendingTasks : promise' = Rejecting(promise, R)
        BY <2>2, <4>1, DispatchRejects
      <4> QED
        BY <4>2, RejectingSettles DEF IInv
    <3> QED
      BY <3>1, <3>2
  <2> QED
    BY <2>1, <2>3 DEF Behind, SettleWarmup
<1>2. CASE OnTaskDone(w)
  <2> DEFINE t == inflight[w]
             prom == IF t = NoTask THEN promise ELSE [promise EXCEPT ![t] = "resolved"]
  <2>1. UNCHANGED <<warmup, disposed>> /\ done[w] # NoTask
    BY <1>2 DEF OnTaskDone
  <2>2. t # NoTask => t \in Task /\ promise[t] = "pending"
    BY DEF IInv, TypeOK, OneOwner, Held
  <2>3. \E R \in SUBSET {u \in Task : prom[u] = "pending"} : promise' = Rejecting(prom, R)
    <3>1. CASE disposed
      <4>1. promise' = prom
        BY <1>2, <3>1 DEF OnTaskDone, DispatchUnlessDisposed
      <4>2. prom = Rejecting(prom, {})
        BY DEF IInv, TypeOK, Rejecting
      <4> QED
        BY <4>1, <4>2
    <3>2. CASE ~disposed
      BY <1>2, <3>2, TaskDoneDispatched DEF Dispatched
    <3> QED
      BY <3>1, <3>2
  <2>4. \A u \in Task : prom[u] = IF u = t /\ t # NoTask THEN "resolved" ELSE promise[u]
    BY NoTaskAssumption DEF IInv, TypeOK
  <2> HIDE DEF prom
  <2>5. SettlesPending
    BY <2>2, <2>3, <2>4 DEF SettlesPending, Rejecting, Settled
  <2> QED
    BY <2>1, <2>5 DEF Behind
<1>3. CASE OnError(w) \/ OnExit(w)
  <2>1. SettlesPending
    BY <1>3, RemoveSettles
  <2>2. UNCHANGED disposed
    BY <1>3 DEF OnError, OnExit
  <2>3. warmup' \in {warmup, SettleWarmup("rejected")}
    BY <1>3 DEF OnError, OnExit, RemoveWorker
  <2> QED
    BY <2>1, <2>2, <2>3 DEF Behind, SettleWarmup
<1> QED
  BY <1>1, <1>2, <1>3 DEF WorkerEvent

LEMMA DisposeBehind ==
  ASSUME IInv, Dispose
  PROVE  /\ SettlesPending
         /\ warmup = "resolved" => warmup' = "resolved"
<1>1. Queued \in SUBSET PendingTasks
  BY DEF IInv, TypeOK, OneOwner, Held, Queued, PendingTasks
<1>2. promise' = Rejecting(promise, Queued) /\ warmup' = SettleWarmup("rejected")
  BY DEF Dispose
<1> QED
  BY <1>1, <1>2, RejectingSettles DEF IInv, SettleWarmup

---------------------------------------------------------------------------
(* The steps of parseAll() keep the invariant of the call.                 *)

(* The conjuncts of ParserInv that speak of the call and its output.       *)
Output ==
    /\ Scanned
    /\ EachFileOnce
    /\ FallbackLosesNothing
    /\ CancelIsSeen

LEMMA InitParser == ParserInit => ParserInv
<1> SUFFICES ASSUME ParserInit PROVE ParserInv
  OBVIOUS
<1>1. IInv
  BY InitInv DEF ParserInit
<1>2. ParserTypeOK
  <2>1. Cardinality(Task) \in Nat
    BY TaskAssumption, FS_CardinalityType
  <2>2. /\ kind \in [Task -> Kinds]
        /\ nodes \in [Task -> Nat]
        /\ errs \in [Task -> Nat]
        /\ fresh \in [Task -> Nat]
    BY DEF ParserInit, Kinds
  <2>3. calls \in 0..MaxCalls /\ processed \in 0..Cardinality(Task)
    BY <2>1, MaxCallsAssumption DEF ParserInit
  <2>4. hasPool = FALSE /\ cancelled = FALSE /\ phase = "idle"
    BY DEF ParserInit
  <2> QED
    BY <1>1, <2>2, <2>3, <2>4 DEF IInv, ParserTypeOK
<1>3. PoolState /\ Outstanding
  BY DEF ParserInit, Init, PoolState, Outstanding
<1>4. Scanned /\ EachFileOnce /\ FallbackLosesNothing /\ CancelIsSeen
  BY DEF ParserInit, Scanned, Suspended, EachFileOnce, FallbackLosesNothing, CancelIsSeen
<1> QED
  BY <1>1, <1>2, <1>3, <1>4 DEF ParserInv

(* A step of the pool that leaves parseAll() alone.                        *)
LEMMA OutputUnchanged ==
  ASSUME ParserInv, UNCHANGED <<phase, kind, cancelled, outVars>>,
         warmup = "resolved" => warmup' = "resolved"
  PROVE  Output'
  BY DEF ParserInv, Output, outVars, Scanned, Suspended, FilesOf, Files, Ones,
         EachFileOnce, FallbackLosesNothing, CancelIsSeen

LEMMA ScanParser ==
  ASSUME ParserInv, Scan
  PROVE  ParserInv'
<1> DEFINE Is(k) == {f \in Task : kind'[f] = k}
<1>1. IInv'
  BY ScanPool DEF ParserInv
<1>2. kind' \in [Task -> Kinds]
  <2>1. PICK files \in Listings : \E found \in [files -> Kinds \ {"absent"}] :
           kind' = [f \in Task |-> IF f \in files THEN found[f] ELSE "absent"]
    BY DEF Scan
  <2>2. PICK found \in [files -> Kinds \ {"absent"}] :
           kind' = [f \in Task |-> IF f \in files THEN found[f] ELSE "absent"]
    BY <2>1
  <2> QED
    BY <2>2 DEF Kinds
<1>3. /\ \A k : FilesOf(k)' = Is(k)
      /\ Files' = Task \ Is("absent")
  BY DEF FilesOf, Files
<1>4. /\ cancelled' \in BOOLEAN
      /\ calls' \in 0..MaxCalls
      /\ nodes' = Ones(Is("cached"))
      /\ errs' = Ones(Is("unread"))
      /\ fresh' = Ones({})
      /\ processed' = Cardinality(Is("unread") \cup Is("cached"))
      /\ phase' = IF cancelled' /\ Is("unread") \cup Is("cached") # {} THEN "failed"
                  ELSE IF Is("uncached") = {} THEN "returned"
                  ELSE "parsing"
  BY MaxCallsAssumption DEF Scan, ParserInv, ParserTypeOK
<1>5. /\ promise' = [t \in Task |-> "none"]
      /\ UNCHANGED <<hasPool, warmup, disposed>>
      /\ ~Suspended
  BY DEF Scan, poolVars
<1>6. /\ Cardinality(Is("unread") \cup Is("cached")) \in 0..Cardinality(Task)
      /\ Is("uncached") = {} => Is("unread") \cup Is("cached") = Task \ Is("absent")
  <2>1. Cardinality(Task) \in Nat /\ IsFiniteSet(Task)
    BY TaskAssumption, FS_CardinalityType
  <2>2. IsFiniteSet(Is("unread") \cup Is("cached"))
        /\ Cardinality(Is("unread") \cup Is("cached")) <= Cardinality(Task)
    BY <2>1, FS_Subset
  <2>3. Cardinality(Is("unread") \cup Is("cached")) \in Nat
    BY <2>2, FS_CardinalityType
  <2>4. Is("uncached") = {} => Is("unread") \cup Is("cached") = Task \ Is("absent")
    BY <1>2 DEF Kinds
  <2> QED
    BY <2>1, <2>2, <2>3, <2>4
<1> HIDE DEF Is
<1>7. ParserTypeOK'
  BY <1>1, <1>2, <1>4, <1>5, <1>6 DEF IInv, ParserInv, ParserTypeOK, Ones
<1>8. PoolState'
  BY <1>4, <1>5 DEF ParserInv, PoolState, Suspended
<1>9. Outstanding'
  BY <1>5 DEF Outstanding
<1>10. Scanned'
  BY <1>3, <1>4 DEF Scanned, Ones
<1>11. EachFileOnce'
  <2> SUFFICES ASSUME phase' = "returned" PROVE EachFileOnce'
    BY DEF EachFileOnce
  <2>1. /\ Is("uncached") = {}
        /\ processed' = Cardinality(Files')
    BY <1>3, <1>4, <1>6
  <2>2. \A f \in Task : nodes'[f] = (IF f \in Is("cached") THEN 1 ELSE 0)
                      /\ errs'[f] = (IF f \in Is("unread") THEN 1 ELSE 0)
                      /\ fresh'[f] = 0
    BY <1>4 DEF Ones
  <2>3. \A f \in Task : \A k : f \in Is(k) <=> kind'[f] = k
    BY DEF Is
  <2>4. \A f \in Task : kind'[f] \in {"absent", "unread", "cached"}
    BY <1>2, <2>1, <2>3 DEF Kinds
  <2> QED
    BY <1>3, <2>1, <2>2, <2>3, <2>4 DEF EachFileOnce
<1>12. FallbackLosesNothing'
  <2>1. \A f \in Task : errs'[f] = 1 => kind'[f] = "unread"
    BY <1>4 DEF Ones, Is
  <2> QED
    BY <2>1 DEF FallbackLosesNothing
<1>13. CancelIsSeen'
  BY <1>3, <1>4, <1>6 DEF CancelIsSeen
<1> QED
  BY <1>1, <1>7, <1>8, <1>9, <1>10, <1>11, <1>12, <1>13 DEF ParserInv

(* The fields of the call, with their types.                               *)
CallTypes ==
    /\ phase \in Phases
    /\ calls \in 0..MaxCalls
    /\ kind \in [Task -> Kinds]
    /\ cancelled \in BOOLEAN
    /\ nodes \in [Task -> Nat]
    /\ errs \in [Task -> Nat]
    /\ fresh \in [Task -> Nat]
    /\ processed \in 0..Cardinality(Task)

LEMMA Types == ParserTypeOK <=> TypeOK /\ hasPool \in BOOLEAN /\ CallTypes
  BY DEF ParserTypeOK, CallTypes, Phases

(* A call that comes to its end with the files of P parsed, and those of E *)
(* reported, of the uncached ones.                                         *)
LEMMA EndOfCall ==
  ASSUME ParserInv, Suspended,
         NEW P \in SUBSET FilesOf("uncached"),
         NEW E, E = FilesOf("uncached") \ P,
         E # {} => warmup' = "resolved",
         UNCHANGED <<calls, kind, cancelled>>,
         ~cancelled, phase' = "returned",
         nodes' = Plus(nodes, P),
         fresh' = Plus(fresh, P),
         errs' = Plus(errs, E),
         processed' = processed + Cardinality(FilesOf("uncached"))
  PROVE  Output' /\ CallTypes'
<1>1. /\ nodes = Ones(FilesOf("cached"))
      /\ errs = Ones(FilesOf("unread"))
      /\ fresh = Ones({})
      /\ processed = Cardinality(FilesOf("unread") \cup FilesOf("cached"))
  BY DEF ParserInv, Scanned
<1>2. CallTypes
  BY Types DEF ParserInv
<1>3. ASSUME NEW f \in Task
      PROVE  /\ nodes'[f] + errs'[f] = IF kind[f] = "absent" THEN 0 ELSE 1
             /\ fresh'[f] = IF kind[f] = "uncached" THEN nodes'[f] ELSE 0
             /\ errs'[f] = 1 /\ kind[f] # "unread" => E # {}
  <2>1. /\ nodes[f] = IF kind[f] = "cached" THEN 1 ELSE 0
        /\ errs[f] = IF kind[f] = "unread" THEN 1 ELSE 0
        /\ fresh[f] = 0
    BY <1>1 DEF Ones, FilesOf
  <2>2. /\ nodes'[f] = IF f \in P THEN nodes[f] + 1 ELSE nodes[f]
        /\ errs'[f] = IF f \in E THEN errs[f] + 1 ELSE errs[f]
        /\ fresh'[f] = IF f \in P THEN fresh[f] + 1 ELSE fresh[f]
    BY DEF Plus
  <2>3. CASE kind[f] = "uncached" /\ f \in P
    <3>1. f \notin E
      BY <2>3
    <3> QED
      BY <2>1, <2>2, <2>3, <3>1
  <2>4. CASE kind[f] = "uncached" /\ f \notin P
    <3>1. f \in E
      BY <2>4 DEF FilesOf
    <3> QED
      BY <2>1, <2>2, <2>4, <3>1
  <2>5. CASE kind[f] \in {"absent", "unread", "cached"}
    <3>1. f \notin P /\ f \notin E
      BY <2>5 DEF FilesOf
    <3> QED
      BY <2>1, <2>2, <2>5, <3>1
  <2> QED
    BY <1>2, <2>3, <2>4, <2>5 DEF CallTypes, Kinds
<1>5. processed' = Cardinality(Files) /\ processed' \in 0..Cardinality(Task)
  BY <1>1, <1>2, FilesCount DEF CallTypes
<1>6. Files' = Files /\ Files = {f \in Task : kind[f] # "absent"}
  BY DEF Files, FilesOf
<1>7. EachFileOnce'
  BY <1>3, <1>5, <1>6 DEF EachFileOnce
<1>8. FallbackLosesNothing'
  BY <1>3 DEF FallbackLosesNothing
<1>9. CancelIsSeen' /\ Scanned'
  BY DEF CancelIsSeen, Scanned, Suspended
<1>10. CallTypes'
  <2>1. /\ nodes' \in [Task -> Nat]
        /\ errs' \in [Task -> Nat]
        /\ fresh' \in [Task -> Nat]
    BY <1>2 DEF CallTypes, Plus
  <2> QED
    BY <1>2, <1>5, <2>1 DEF CallTypes, Phases
<1> QED
  BY <1>7, <1>8, <1>9, <1>10 DEF Output

(* A call that throws has no output.                                       *)
LEMMA FailedCall ==
  ASSUME ParserInv, UNCHANGED <<calls, kind, cancelled, outVars>>, phase' = "failed"
  PROVE  Output' /\ CallTypes'
<1>1. CallTypes
  BY Types DEF ParserInv
<1>2. CallTypes'
  BY <1>1 DEF CallTypes, outVars, Phases
<1>3. Output'
  BY DEF Output, Scanned, Suspended, EachFileOnce, FallbackLosesNothing, CancelIsSeen
<1> QED
  BY <1>2, <1>3

LEMMA MainThreadEnds ==
  ASSUME ParserInv, Suspended, ParseOnMainThread
  PROVE  Output' /\ CallTypes' /\ phase' \in {"failed", "returned"}
<1> DEFINE U == FilesOf("uncached")
<1>1. UNCHANGED <<calls, kind, cancelled, errs>>
  BY DEF ParseOnMainThread
<1>2. CASE cancelled
  <2>1. phase' = "failed" /\ UNCHANGED outVars
    BY <1>1, <1>2 DEF ParseOnMainThread, outVars
  <2> QED
    BY <1>1, <2>1, FailedCall
<1>3. CASE ~cancelled
  <2>1. /\ phase' = "returned"
        /\ nodes' = Plus(nodes, U)
        /\ fresh' = Plus(fresh, U)
        /\ processed' = processed + Cardinality(U)
    BY <1>3 DEF ParseOnMainThread
  <2>2. errs' = Plus(errs, {})
    BY <1>1 DEF ParserInv, ParserTypeOK, Plus
  <2>3. {} = U \ U /\ U \in SUBSET U
    OBVIOUS
  <2> HIDE DEF U
  <2> QED
    BY <1>1, <1>3, <2>1, <2>2, <2>3, EndOfCall DEF U
<1> QED
  BY <1>2, <1>3

LEMMA ParseFewParser ==
  ASSUME ParserInv, ParseFew
  PROVE  ParserInv'
<1>1. Output' /\ CallTypes' /\ phase' \in {"failed", "returned"}
  BY MainThreadEnds DEF ParseFew, Suspended
<1>2. IInv' /\ UNCHANGED <<vars, hasPool>>
  BY PoolUnchanged DEF ParseFew, ParserInv
<1>3. ParserTypeOK'
  BY <1>1, <1>2 DEF ParserInv, ParserTypeOK, IInv, CallTypes, Phases
<1>4. PoolState' /\ Outstanding'
  BY <1>1, <1>2 DEF ParseFew, ParserInv, PoolState, Outstanding, vars, poolVars, callerVars
<1> QED
  BY <1>1, <1>2, <1>3, <1>4 DEF ParserInv, Output

LEMMA NewPoolParser ==
  ASSUME ParserInv, NewPool
  PROVE  ParserInv'
<1>1. IInv'
  BY NewPoolPool DEF ParserInv
<1>2. /\ phase = "parsing"
      /\ warmup' = "cold"
      /\ disposed' = FALSE
      /\ hasPool' = TRUE
      /\ UNCHANGED <<promise, phase, calls, kind, cancelled, nodes, errs, fresh, processed>>
  BY DEF NewPool, callerVars, callVars, outVars
<1>3. ParserTypeOK'
  BY <1>1, <1>2 DEF ParserInv, ParserTypeOK, IInv
<1>4. PoolState' /\ Outstanding'
  BY <1>2 DEF ParserInv, PoolState, Outstanding
<1>5. Scanned' /\ EachFileOnce' /\ FallbackLosesNothing' /\ CancelIsSeen'
  BY <1>2 DEF ParserInv, Scanned, Suspended, FilesOf, Ones, EachFileOnce,
              FallbackLosesNothing, CancelIsSeen
<1> QED
  BY <1>1, <1>3, <1>4, <1>5 DEF ParserInv

LEMMA FirstWarmupParser ==
  ASSUME ParserInv, FirstWarmup
  PROVE  ParserInv'
<1>1. IInv'
  BY WarmupInv DEF FirstWarmup, ParserInv
<1>2. /\ phase = "parsing" /\ phase' = "warming"
      /\ UNCHANGED <<hasPool, promise, disposed, calls, kind, cancelled,
                     nodes, errs, fresh, processed>>
  BY DEF FirstWarmup, Warmup, callerVars, outVars
<1>3. ParserTypeOK'
  BY <1>1, <1>2 DEF ParserInv, ParserTypeOK, IInv
<1>4. PoolState' /\ Outstanding'
  BY <1>2 DEF ParserInv, PoolState, Outstanding
<1>5. Scanned' /\ EachFileOnce' /\ FallbackLosesNothing' /\ CancelIsSeen'
  BY <1>2 DEF ParserInv, Scanned, Suspended, FilesOf, Ones, EachFileOnce,
              FallbackLosesNothing, CancelIsSeen
<1> QED
  BY <1>1, <1>3, <1>4, <1>5 DEF ParserInv

LEMMA RunAllParser ==
  ASSUME ParserInv, RunAll
  PROVE  ParserInv'
<1> DEFINE S == FilesOf("uncached")
           prom == [t \in Task |-> IF t \in S THEN "pending" ELSE promise[t]]
<1>1. IInv'
  BY RunAllPool
<1>2. /\ phase \in {"parsing", "warming"} /\ phase' = "running"
      /\ hasPool
      /\ warmup = "resolved"
      /\ UNCHANGED <<hasPool, warmup, disposed, calls, kind, cancelled,
                     nodes, errs, fresh, processed>>
  BY DEF RunAll, ParserInv, PoolState, outVars
<1>3. \A t \in Task : promise[t] = "none"
  BY <1>2 DEF ParserInv, Outstanding
<1>4. \A t \in Task : promise'[t] = "pending" => t \in S
  <2>1. CASE workers = {}
    <3>1. promise' = Rejecting(promise, S)
      BY <2>1 DEF RunAll
    <3> QED
      BY <1>3, <3>1 DEF Rejecting
  <2>2. CASE workers # {}
    <3>1. PICK q, n, G, at :
             Pass({w \in workers : ready[w] /\ ~busy[w]}, n, G, at,
                  q, busy, inflight, prom, job)
      BY <2>2 DEF RunAll, Dispatch
    <3>2. \E R : promise' = Rejecting(prom, R)
      BY <3>1 DEF Pass
    <3>3. \A t \in Task : prom[t] = IF t \in S THEN "pending" ELSE "none"
      BY <1>3
    <3> HIDE DEF prom
    <3> QED
      BY <3>2, <3>3 DEF Rejecting
  <2> QED
    BY <2>1, <2>2
<1>5. ParserTypeOK'
  BY <1>1, <1>2 DEF ParserInv, ParserTypeOK, IInv
<1>6. PoolState'
  BY <1>2 DEF ParserInv, PoolState
<1>7. Outstanding'
  BY <1>2, <1>4 DEF Outstanding, FilesOf
<1>8. Scanned' /\ EachFileOnce' /\ FallbackLosesNothing' /\ CancelIsSeen'
  BY <1>2 DEF ParserInv, Scanned, Suspended, FilesOf, Ones, EachFileOnce,
              FallbackLosesNothing, CancelIsSeen
<1> QED
  BY <1>1, <1>5, <1>6, <1>7, <1>8 DEF ParserInv

(* The pool is given up: its promises are settled, and it is not used.     *)
LEMMA DisposePoolStep ==
  ASSUME ParserInv, DisposePool
  PROVE  /\ IInv'
         /\ hasPool' = FALSE
         /\ SettlesPending
         /\ warmup = "resolved" => warmup' = "resolved"
<1>1. CASE Dispose
  BY <1>1, DisposeInv, DisposeBehind DEF DisposePool, ParserInv
<1>2. CASE UNCHANGED vars
  BY <1>2, PoolUnchanged DEF DisposePool, ParserInv, SettlesPending, vars, poolVars, callerVars
<1> QED
  BY <1>1, <1>2 DEF DisposePool

LEMMA FallBackParser ==
  ASSUME ParserInv, FallBack
  PROVE  ParserInv'
<1>1. phase \in {"parsing", "warming"} /\ DisposePool /\ ParseOnMainThread
  BY DEF FallBack
<1>2. Output' /\ CallTypes' /\ phase' \in {"failed", "returned"}
  BY <1>1, MainThreadEnds DEF Suspended
<1>3. IInv' /\ hasPool' = FALSE /\ SettlesPending
  BY <1>1, DisposePoolStep
<1>4. ParserTypeOK'
  BY <1>2, <1>3 DEF ParserTypeOK, IInv, CallTypes, Phases
<1>5. \A t \in Task : promise[t] = "none"
  BY <1>1 DEF ParserInv, Outstanding
<1>6. PoolState' /\ Outstanding'
  BY <1>2, <1>3, <1>5 DEF PoolState, Outstanding, SettlesPending
<1> QED
  BY <1>2, <1>3, <1>4, <1>6 DEF ParserInv, Output

LEMMA CollectParser ==
  ASSUME ParserInv, Collect
  PROVE  ParserInv'
<1> DEFINE S == FilesOf("uncached")
           ok == {t \in S : promise[t] = "resolved"}
<1>1. /\ phase = "running"
      /\ \A t \in S : promise[t] \in Settled
      /\ UNCHANGED <<calls, kind, cancelled>>
  BY DEF Collect
<1>2. \A t \in Task : promise[t] # "pending"
  BY <1>1 DEF ParserInv, Outstanding, FilesOf, Settled
<1>3. warmup = "resolved"
  BY <1>1 DEF ParserInv, PoolState
<1>4. CASE cancelled
  <2>1. DisposePool /\ phase' = "failed" /\ UNCHANGED outVars
    BY <1>4 DEF Collect
  <2>2. Output' /\ CallTypes'
    BY <1>1, <2>1, FailedCall
  <2>3. IInv' /\ hasPool' = FALSE /\ SettlesPending
    BY <2>1, DisposePoolStep
  <2>4. ParserTypeOK'
    BY <2>2, <2>3 DEF ParserTypeOK, IInv, CallTypes, Phases
  <2>5. PoolState' /\ Outstanding'
    BY <1>2, <2>1, <2>3 DEF PoolState, Outstanding, SettlesPending
  <2> QED
    BY <2>2, <2>3, <2>4, <2>5 DEF ParserInv, Output
<1>5. CASE ~cancelled
  <2>0. PICK unparsed \in SUBSET ok :
           LET parsed == {answer[t] : t \in ok \ unparsed}
           IN /\ phase' = "returned"
              /\ nodes' = Plus(nodes, parsed)
              /\ fresh' = Plus(fresh, parsed)
              /\ errs' = Plus(errs, (S \ ok) \cup unparsed)
              /\ processed' = processed + Cardinality(S)
              /\ UNCHANGED <<vars, hasPool>>
    BY <1>5 DEF Collect
  <2> DEFINE parsed == {answer[t] : t \in ok \ unparsed}
  <2>1. /\ phase' = "returned"
        /\ nodes' = Plus(nodes, parsed)
        /\ fresh' = Plus(fresh, parsed)
        /\ errs' = Plus(errs, (S \ ok) \cup unparsed)
        /\ processed' = processed + Cardinality(S)
        /\ UNCHANGED <<vars, hasPool>>
    BY <2>0
  <2>2. parsed = ok \ unparsed
    <3>1. \A t \in ok : answer[t] = t
      BY DEF ParserInv, IInv, OwnAnswer, FilesOf
    <3> QED
      BY <3>1
  <2>3. (S \ ok) \cup unparsed = S \ parsed /\ parsed \in SUBSET S
    BY <2>2
  <2>4. UNCHANGED <<warmup, disposed, promise>>
    BY <2>1 DEF vars, poolVars, callerVars
  <2> HIDE DEF S, ok, parsed
  <2>5. Output' /\ CallTypes'
    <3>1. errs' = Plus(errs, S \ parsed)
      BY <2>1, <2>3
    <3> QED
      BY <1>1, <1>3, <1>5, <2>1, <2>3, <2>4, <3>1, EndOfCall DEF S, Suspended
  <2>6. IInv'
    BY <2>1, PoolUnchanged DEF ParserInv
  <2>7. ParserTypeOK'
    BY <2>1, <2>5, <2>6 DEF ParserInv, ParserTypeOK, IInv, CallTypes, Phases
  <2>8. PoolState' /\ Outstanding'
    BY <1>1, <1>2, <1>3, <2>1, <2>4 DEF ParserInv, PoolState, Outstanding
  <2> QED
    BY <2>5, <2>6, <2>7, <2>8 DEF ParserInv, Output
<1> QED
  BY <1>4, <1>5

(* A step of the pool while parseAll() is suspended or not running at all. *)
LEMMA BehindParser ==
  ASSUME ParserInv, IInv', Behind, UNCHANGED parserVars
  PROVE  ParserInv'
<1>1. UNCHANGED <<hasPool, phase, calls, kind, cancelled, nodes, errs, fresh, processed>>
  BY DEF parserVars, callVars, outVars
<1>2. ParserTypeOK'
  BY <1>1 DEF ParserInv, ParserTypeOK, IInv
<1>3. PoolState'
  BY <1>1 DEF ParserInv, PoolState, Behind
<1>4. Outstanding'
  BY <1>1 DEF ParserInv, Outstanding, Behind, SettlesPending, Settled
<1>5. Output'
  BY <1>1, OutputUnchanged DEF Behind, outVars
<1> QED
  BY <1>2, <1>3, <1>4, <1>5 DEF ParserInv, Output

LEMMA PoolEventParser ==
  ASSUME ParserInv, PoolEvent
  PROVE  ParserInv'
<1>1. IInv /\ UNCHANGED parserVars
  BY DEF PoolEvent, ParserInv
<1>2. CASE WarmupTimeout
  <2>1. IInv'
    BY <1>1, <1>2, WarmupTimeoutInv
  <2>2. Behind
    BY <1>2 DEF WarmupTimeout, Behind, SettlesPending, callerVars
  <2> QED
    BY <1>1, <2>1, <2>2, BehindParser
<1>3. ASSUME NEW w \in Worker, WorkerEvent(w)
      PROVE  ParserInv'
  <2>1. IInv'
    BY <1>1, <1>3, OnReadyInv, OnTaskDoneInv, OnErrorInv, OnExitInv DEF WorkerEvent
  <2>2. Behind
    BY <1>1, <1>3, EventBehind
  <2> QED
    BY <1>1, <2>1, <2>2, BehindParser
<1> QED
  BY <1>2, <1>3 DEF PoolEvent

LEMMA ThreadParser ==
  ASSUME ParserInv, NEW w \in Worker, ThreadStep(w), UNCHANGED parserVars
  PROVE  ParserInv'
<1>1. IInv'
  BY BootInv, FinishInv, RaiseInv, QuitInv DEF ThreadStep, ParserInv
<1>2. Behind
  BY DEF ThreadStep, Boot, Finish, Raise, Quit, poolVars, callerVars, Behind, SettlesPending
<1> QED
  BY <1>1, <1>2, BehindParser

LEMMA CancelParser ==
  ASSUME ParserInv, Cancel
  PROVE  ParserInv'
<1>1. /\ Suspended /\ cancelled' = TRUE
      /\ UNCHANGED <<vars, hasPool, phase, calls, kind, nodes, errs, fresh, processed>>
  BY DEF Cancel, outVars
<1>2. UNCHANGED <<warmup, disposed, promise>>
  BY <1>1 DEF vars, poolVars, callerVars
<1>3. IInv'
  BY <1>1, PoolUnchanged DEF ParserInv
<1>4. ParserTypeOK'
  BY <1>1, <1>3 DEF ParserInv, ParserTypeOK, IInv
<1>5. PoolState' /\ Outstanding'
  BY <1>1, <1>2 DEF ParserInv, PoolState, Outstanding
<1>6. Scanned' /\ EachFileOnce' /\ FallbackLosesNothing' /\ CancelIsSeen'
  BY <1>1 DEF ParserInv, Scanned, Suspended, FilesOf, Ones, EachFileOnce,
              FallbackLosesNothing, CancelIsSeen
<1> QED
  BY <1>3, <1>4, <1>5, <1>6 DEF ParserInv

LEMMA DisposeParserInv ==
  ASSUME ParserInv, DisposeParser
  PROVE  ParserInv'
<1>1. /\ IInv' /\ hasPool' = FALSE /\ SettlesPending
      /\ warmup = "resolved" => warmup' = "resolved"
      /\ UNCHANGED <<phase, calls, kind, cancelled, outVars>>
  BY DisposePoolStep DEF DisposeParser, callVars
<1>2. ParserTypeOK'
  BY <1>1 DEF ParserInv, ParserTypeOK, IInv, outVars
<1>3. PoolState' /\ Outstanding'
  BY <1>1 DEF ParserInv, PoolState, Outstanding, SettlesPending, Settled
<1>4. Output'
  BY <1>1, OutputUnchanged
<1> QED
  BY <1>1, <1>2, <1>3, <1>4 DEF ParserInv, Output

---------------------------------------------------------------------------
(* The theorems.                                                           *)

LEMMA ParserNextInv == ParserInv /\ [ParserNext]_allVars => ParserInv'
<1> SUFFICES ASSUME ParserInv, [ParserNext]_allVars PROVE ParserInv'
  OBVIOUS
<1>1. CASE Scan
  BY <1>1, ScanParser
<1>2. CASE ParseStep
  BY <1>2, ParseFewParser, NewPoolParser, FirstWarmupParser, RunAllParser,
     FallBackParser, CollectParser DEF ParseStep
<1>3. CASE Cancel \/ DisposeParser \/ PoolEvent
  BY <1>3, CancelParser, DisposeParserInv, PoolEventParser
<1>4. CASE (\E w \in Worker : ThreadStep(w)) /\ UNCHANGED parserVars
  BY <1>4, ThreadParser
<1>5. CASE UNCHANGED allVars
  <2>1. UNCHANGED vars /\ UNCHANGED parserVars
    BY <1>5 DEF allVars
  <2>2. IInv'
    BY <2>1, PoolUnchanged DEF ParserInv
  <2>3. Behind
    BY <2>1 DEF vars, poolVars, callerVars, Behind, SettlesPending
  <2> QED
    BY <2>1, <2>2, <2>3, BehindParser
<1> QED
  BY <1>1, <1>2, <1>3, <1>4, <1>5 DEF ParserNext

THEOREM ParserInductive == ParserSpec => []ParserInv
  BY InitParser, ParserNextInv, PTL DEF ParserSpec

(* What a caller of parseAll() relies on: every file of the listing is in  *)
(* the result once, as nodes or as an error, also when the pool failed     *)
(* half-way or was taken away, and a cancelled call has no result.         *)
THEOREM ResultCompleteAlways == ParserSpec => []ResultComplete
<1>1. ParserInv => ResultComplete
  BY DEF ParserInv, ResultComplete
<1> QED
  BY <1>1, ParserInductive, PTL

(* The pool keeps its promises across calls, also when it is replaced      *)
(* while threads of the one before are still ending.                       *)
THEOREM AccountedAcrossCalls == ParserSpec => []Accounted
<1>1. ParserInv => Accounted
  BY DEF ParserInv, IInv, Threads, NoOrphan, Accounted
<1> QED
  BY <1>1, ParserInductive, PTL
===========================================================================
