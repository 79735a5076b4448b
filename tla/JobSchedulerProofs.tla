-------------------------- MODULE JobSchedulerProofs --------------------------
(***************************************************************************)
(* The safety of JobScheduler for any jobs, lanes and bounds: its types,   *)
(* that a stop leaves no child behind, and that queue, flags and threads   *)
(* implement JobRequests step by step.                                     *)
(*                                                                         *)
(* A job is served once because its queued flag and its place go together: *)
(* QueueInv says that a job waits in its own lane's queue at most once and *)
(* has the flag, WorkerInv that the one a worker has taken out still has   *)
(* the flag and is in no queue.                                            *)
(***************************************************************************)
EXTENDS JobScheduler, FiniteSetTheorems, TLAPS

\* What waits in a lane's queue has its flag, and waits once.
WaitsOnce(q, l, flags) ==
    /\ \A i \in 1..Len(q) : q[i] # Poison => q[i] \in flags /\ LaneOf[q[i]] = l
    /\ \A i, k \in 1..Len(q) : q[i] = q[k] /\ q[i] # Poison => i = k

QueueInv == \A l \in Lanes : WaitsOnce(queue[l], l, queued)

\* A worker has a job of its lane, and takes its flag when it decides.
WorkerInv ==
    \A l \in Lanes :
      /\ worker[l].pc \in {"decide", "launch", "working"} =>
            worker[l].job \in Jobs /\ LaneOf[worker[l].job] = l
      /\ worker[l].pc = "launch" => worker[l].job \in Isolated
      /\ worker[l].pc = "decide" => /\ worker[l].job \in queued
                                    /\ \A i \in 1..Len(queue[l]) : queue[l][i] # worker[l].job

\* No child is added behind the back of stop().
ChildrenInv ==
    /\ life = "closed" => children \subseteq doomed
    /\ life \in {"cleared", "poisoned", "stopped"} => children = {}

Waiting == Jobs \cup {Poison}

-----------------------------------------------------------------------------
(* Queues *)

\* What an enqueue brings to a lane: jobs of the set, in their lane, each once.
LEMMA ArrivalsInLane ==
    ASSUME NEW S \in SUBSET Jobs, NEW new \in Arrivals(S), NEW l \in Lanes
    PROVE  /\ new[l] \in Seq(Jobs)
           /\ \A i \in 1..Len(new[l]) : new[l][i] \in S /\ LaneOf[new[l][i]] = l
           /\ \A i, k \in 1..Len(new[l]) : new[l][i] = new[l][k] => i = k
<1>. DEFINE T == InLane(S, l)  n == Cardinality(T)
<1>1. T \subseteq S /\ \A j \in T : LaneOf[j] = l
  BY DEF InLane
<1>2. IsFiniteSet(T)
  BY <1>1, SchedulerAssumption, FS_Subset
<1>3. n \in Nat
  BY <1>2, FS_CardinalityType
<1>4. new[l] \in [1..n -> T] /\ \A i, k \in 1..n : new[l][i] = new[l][k] => i = k
  BY DEF Arrivals, Orders
<1>. HIDE DEF n, T
<1>5. new[l] \in Seq(Jobs) /\ Len(new[l]) = n
  <2>1. new[l] \in [1..n -> Jobs]
    BY <1>1, <1>4
  <2>. QED BY <2>1, <1>3
<1>. QED BY <1>1, <1>4, <1>5

\* An element of a concatenation comes from one of the two.
LEMMA Concatenated ==
    ASSUME NEW T, NEW q \in Seq(T), NEW new \in Seq(T), NEW i \in 1..Len(q \o new)
    PROVE  \/ i \in 1..Len(q) /\ (q \o new)[i] = q[i]
           \/ i - Len(q) \in 1..Len(new) /\ (q \o new)[i] = new[i - Len(q)]
<1>1. Len(q \o new) = Len(q) + Len(new) /\ Len(q) \in Nat /\ Len(new) \in Nat
  OBVIOUS
<1>. QED BY <1>1

\* Behind what waits, jobs without the flag still wait once.
LEMMA Enqueued ==
    ASSUME NEW l \in Lanes, NEW q \in Seq(Waiting), NEW flags \in SUBSET Jobs,
           WaitsOnce(q, l, flags), NEW S \in SUBSET Jobs, NEW new \in Seq(Jobs),
           \A i \in 1..Len(new) : new[i] \in S \ flags /\ LaneOf[new[i]] = l,
           \A i, k \in 1..Len(new) : new[i] = new[k] => i = k
    PROVE  q \o new \in Seq(Waiting) /\ WaitsOnce(q \o new, l, flags \cup S)
<1>. DEFINE r == q \o new
<1>1. new \in Seq(Waiting)
  BY DEF Waiting
<1>2. r \in Seq(Waiting) /\ Len(r) = Len(q) + Len(new)
  BY <1>1
<1>3. \A i \in 1..Len(r) : \/ i \in 1..Len(q) /\ r[i] = q[i]
                           \/ i - Len(q) \in 1..Len(new) /\ r[i] = new[i - Len(q)]
  BY <1>1, <1>2
<1>4. ASSUME NEW i \in 1..Len(r), r[i] # Poison
      PROVE  r[i] \in flags \cup S /\ LaneOf[r[i]] = l
  BY <1>3, <1>4 DEF WaitsOnce
<1>5. ASSUME NEW i \in 1..Len(r), NEW k \in 1..Len(r), r[i] = r[k], r[i] # Poison
      PROVE  i = k
  <2>1. CASE i \in 1..Len(q) /\ r[i] = q[i] /\ k \in 1..Len(q) /\ r[k] = q[k]
    BY <2>1, <1>5 DEF WaitsOnce
  <2>2. ASSUME NEW a \in 1..Len(q), NEW b \in 1..Len(new), q[a] # Poison, q[a] = new[b]
        PROVE  FALSE
    BY <2>2 DEF WaitsOnce
  <2>3. CASE /\ i - Len(q) \in 1..Len(new) /\ r[i] = new[i - Len(q)]
             /\ k - Len(q) \in 1..Len(new) /\ r[k] = new[k - Len(q)]
    <3>1. i - Len(q) = k - Len(q)
      BY <2>3, <1>5
    <3>. QED BY <3>1, <1>2
  <2>. QED BY <2>1, <2>2, <2>3, <1>3, <1>5
<1>. HIDE DEF r
<1>6. WaitsOnce(r, l, flags \cup S)
  BY <1>4, <1>5, <1>2 DEF WaitsOnce
<1>. QED BY <1>2, <1>6 DEF r

\* Enqueue keeps the queues in order.
LEMMA EnqueueKeeps ==
    ASSUME SchedTypeOK, QueueInv, WorkerInv, NEW S \in SUBSET Jobs, Enqueue(S), UNCHANGED worker
    PROVE  /\ queue' \in [Lanes -> Seq(Waiting)] /\ queued' \in SUBSET Jobs
           /\ QueueInv' /\ WorkerInv'
<1>1. PICK new \in Arrivals(Fresh(S)) : queue' = [l \in Lanes |-> queue[l] \o new[l]]
  BY DEF Enqueue
<1>2. queued' = queued \cup S /\ Fresh(S) = S \ queued /\ Fresh(S) \in SUBSET Jobs
  BY DEF Enqueue, Fresh
<1>3. ASSUME NEW l \in Lanes
      PROVE  /\ queue'[l] = queue[l] \o new[l] /\ queue'[l] \in Seq(Waiting)
             /\ WaitsOnce(queue'[l], l, queued')
             /\ new[l] \in Seq(Jobs) /\ \A i \in 1..Len(new[l]) : new[l][i] \notin queued
  <2>1. /\ new[l] \in Seq(Jobs)
        /\ \A i \in 1..Len(new[l]) : new[l][i] \in S \ queued /\ LaneOf[new[l][i]] = l
        /\ \A i, k \in 1..Len(new[l]) : new[l][i] = new[l][k] => i = k
    BY <1>2, ArrivalsInLane
  <2>2. queue[l] \in Seq(Waiting) /\ queued \in SUBSET Jobs /\ WaitsOnce(queue[l], l, queued)
    BY DEF SchedTypeOK, Waiting, QueueInv
  <2>3. queue[l] \o new[l] \in Seq(Waiting) /\ WaitsOnce(queue[l] \o new[l], l, queued \cup S)
    BY <2>1, <2>2, Enqueued
  <2>. QED BY <1>1, <1>2, <2>1, <2>3
<1>4. ASSUME NEW l \in Lanes, worker[l].pc = "decide"
      PROVE  /\ worker[l].job \in queued'
             /\ \A i \in 1..Len(queue'[l]) : queue'[l][i] # worker[l].job
  <2>1. worker[l].job \in queued /\ \A i \in 1..Len(queue[l]) : queue[l][i] # worker[l].job
    BY <1>4 DEF WorkerInv
  <2>2. queue[l] \in Seq(Waiting) /\ new[l] \in Seq(Waiting)
    BY <1>3 DEF SchedTypeOK, Waiting
  <2>3. ASSUME NEW i \in 1..Len(queue'[l])
        PROVE  \/ i \in 1..Len(queue[l]) /\ queue'[l][i] = queue[l][i]
               \/ /\ i - Len(queue[l]) \in 1..Len(new[l])
                  /\ queue'[l][i] = new[l][i - Len(queue[l])]
    <3>1. queue'[l] = queue[l] \o new[l]
      BY <1>3
    <3>2. i \in 1..Len(queue[l] \o new[l])
      BY <3>1
    <3>3. \/ i \in 1..Len(queue[l]) /\ (queue[l] \o new[l])[i] = queue[l][i]
          \/ /\ i - Len(queue[l]) \in 1..Len(new[l])
             /\ (queue[l] \o new[l])[i] = new[l][i - Len(queue[l])]
      BY <2>2, <3>2, Concatenated, Zenon
    <3>. QED BY <3>1, <3>3
  <2>. QED BY <1>2, <1>3, <2>1, <2>3
<1>5. queue' \in [Lanes -> Seq(Waiting)]
  BY <1>1, <1>3
<1>. QED BY <1>2, <1>3, <1>4, <1>5 DEF QueueInv, WorkerInv, SchedTypeOK

\* The head goes to the worker: it is in its lane, has its flag and waits no more.
LEMMA TakesHead ==
    ASSUME NEW l \in Lanes, NEW q \in Seq(Waiting), NEW flags, WaitsOnce(q, l, flags), q # <<>>
    PROVE  /\ Tail(q) \in Seq(Waiting) /\ WaitsOnce(Tail(q), l, flags)
           /\ Head(q) # Poison =>
                 /\ Head(q) \in Jobs \cap flags /\ LaneOf[Head(q)] = l
                 /\ \A i \in 1..Len(Tail(q)) : Tail(q)[i] # Head(q)
<1>1. /\ Len(Tail(q)) = Len(q) - 1 /\ Tail(q) \in Seq(Waiting) /\ Len(q) \in Nat \ {0}
      /\ \A i \in 1..Len(Tail(q)) : Tail(q)[i] = q[i + 1] /\ i + 1 \in 1..Len(q)
      /\ Head(q) = q[1] /\ 1 \in 1..Len(q) /\ q[1] \in Waiting
  OBVIOUS
<1>2. WaitsOnce(Tail(q), l, flags)
  <2>1. \A i, k \in 1..Len(Tail(q)) : i + 1 = k + 1 => i = k
    BY <1>1
  <2>. QED BY <1>1, <2>1 DEF WaitsOnce
<1>3. ASSUME Head(q) # Poison
      PROVE  /\ Head(q) \in Jobs \cap flags /\ LaneOf[Head(q)] = l
             /\ \A i \in 1..Len(Tail(q)) : Tail(q)[i] # Head(q)
  <2>1. Head(q) \in Jobs \cap flags /\ LaneOf[Head(q)] = l
    BY <1>1, <1>3 DEF WaitsOnce, Waiting
  <2>2. \A i \in 1..Len(Tail(q)) : i + 1 # 1
    BY <1>1
  <2>. QED BY <1>1, <1>3, <2>1, <2>2 DEF WaitsOnce
<1>. QED BY <1>1, <1>2, <1>3

\* A sentinel behind what waits changes nothing for the jobs.
LEMMA TakesPoison ==
    ASSUME NEW l \in Lanes, NEW q \in Seq(Waiting), NEW flags, WaitsOnce(q, l, flags)
    PROVE  /\ Append(q, Poison) \in Seq(Waiting) /\ WaitsOnce(Append(q, Poison), l, flags)
           /\ \A i \in 1..Len(Append(q, Poison)) : Append(q, Poison)[i] # Poison =>
                 i \in 1..Len(q) /\ Append(q, Poison)[i] = q[i]
<1>. DEFINE r == Append(q, Poison)
<1>1. Poison \in Waiting /\ Len(q) \in Nat
  BY DEF Waiting
<1>2. r \in Seq(Waiting) /\ Len(r) = Len(q) + 1 /\ r[Len(q) + 1] = Poison
      /\ \A i \in 1..Len(q) : r[i] = q[i]
  BY <1>1
<1>. HIDE DEF r
<1>3. \A i \in 1..Len(r) : r[i] # Poison => i \in 1..Len(q) /\ r[i] = q[i]
  BY <1>1, <1>2
<1>4. WaitsOnce(r, l, flags)
  BY <1>3 DEF WaitsOnce
<1>. QED BY <1>2, <1>3, <1>4 DEF r

-----------------------------------------------------------------------------
(* Frames *)

\* What is kept when neither queues, flags nor workers change.
LEMMA QueuesKept ==
    ASSUME QueueInv, WorkerInv, UNCHANGED <<queue, queued, worker>>
    PROVE  QueueInv' /\ WorkerInv'
BY DEF QueueInv, WorkerInv

\* The steps of stop() that leave the queues alone, time, and the owner's calls
\* about pauses and flags.
QuietStep ==
    \/ StopBegins \/ StopClosesChildren \/ StopTerminates \/ StopReturns
    \/ TickerLooks \/ TickerClears \/ TimePasses \/ Pause \/ Resume
    \/ \E j \in Jobs : (\E on \in BOOLEAN : SetEnabled(j, on)) \/ ChildEnds(j)

\* Such a step leaves queues, flags and workers alone.
LEMMA QuietFrame ==
    ASSUME QuietStep
    PROVE  UNCHANGED <<queue, queued, worker>>
BY DEF QuietStep, StopBegins, StopClosesChildren, StopTerminates, StopReturns, Stage,
       TickerLooks, TickerClears, TickerMoves, TimePasses, Pause, Resume, SetEnabled, ChildEnds,
       memory, threads

\* SchedNext, with the steps that touch no queue taken together.
LEMMA StepCases ==
    ASSUME [SchedNext]_schedVars
    PROVE  \/ Start \/ Exit \/ QuietStep \/ StopPoisons \/ TickerEnqueues
           \/ \E j \in Jobs : RunNow(j)
           \/ \E l \in Lanes : WorkerStep(l)
           \/ UNCHANGED schedVars
BY DEF SchedNext, StopStep, TickerStep, OwnerCalls, QuietStep

-----------------------------------------------------------------------------
(* Types *)

\* Every step keeps the types.
LEMMA TypeStep ==
    ASSUME SchedTypeOK, QueueInv, WorkerInv, [SchedNext]_schedVars
    PROVE  SchedTypeOK'
<1>. USE SchedulerAssumption
<1>1. CASE Start
  <2>. DEFINE dueNow == IF IsPaused(saved.pause) THEN {} ELSE OnStart \cap saved.enabled
  <2>1. dueNow \in SUBSET Jobs /\ saved.pause \in Pauses /\ saved.enabled \in SUBSET Jobs
    BY DEF SchedTypeOK
  <2>2. queue' \in [Lanes -> Seq(Waiting)]
    <3>. HIDE DEF dueNow
    <3>1. queue' \in Arrivals(dueNow)
      BY <1>1 DEF Start, dueNow
    <3>2. \A l \in Lanes : queue'[l] \in Seq(Jobs)
      BY <2>1, <3>1, ArrivalsInLane
    <3>3. \A l \in Lanes : queue'[l] \in Seq(Waiting)
      BY <3>2 DEF Waiting
    <3>4. DOMAIN queue' = Lanes /\ queue' = [l \in Lanes |-> queue'[l]]
      BY <3>1 DEF Arrivals
    <3>. QED BY <3>3, <3>4
  <2>3. pausedUntil' \in Pauses /\ due' \in [Jobs -> 0..Cadence] /\ queued' = dueNow
    BY <1>1, <2>1 DEF Start, AfterCheck, Pauses, NotPaused
  <2>4. worker' \in [Lanes -> [pc : {"top", "get", "decide", "launch", "working", "done"},
                               job : Jobs \cup {NoJob}]]
    BY <1>1 DEF Start, FreshWorker
  <2>. QED BY <1>1, <2>1, <2>2, <2>3, <2>4 DEF Start, SchedTypeOK, Stages, Waiting
<1>2. CASE Exit
  <2>1. queue' \in [Lanes -> Seq(Waiting)] /\ pausedUntil' \in Pauses
    BY <1>2 DEF Exit, Pauses, NotPaused
  <2>2. worker' \in [Lanes -> [pc : {"top", "get", "decide", "launch", "working", "done"},
                               job : Jobs \cup {NoJob}]]
    BY <1>2 DEF Exit, IdleWorker
  <2>. QED BY <1>2, <2>1, <2>2 DEF Exit, SchedTypeOK, Waiting
<1>3. CASE QuietStep
  <2>. USE DEF SchedTypeOK, memory, threads, history, Stages
  <2>1. CASE StopBegins
    BY <2>1 DEF StopBegins, Stage
  <2>2. CASE StopClosesChildren
    BY <2>2 DEF StopClosesChildren, Stage
  <2>3. CASE StopTerminates
    BY <2>3 DEF StopTerminates, Stage
  <2>4. CASE StopReturns
    BY <2>4 DEF StopReturns, Stage
  <2>5. CASE TickerLooks
    BY <2>5 DEF TickerLooks
  <2>6. CASE TickerClears
    BY <2>6, SMTT(20) DEF TickerClears, TickerMoves, Pauses, NotPaused
  <2>7. CASE TimePasses
    <3>1. \A n \in Pauses : Less(n) \in Pauses
      BY DEF Less, Pauses, NotPaused
    <3>2. \A n \in Nat : \A m \in 0..n : Less(m) \in 0..n
      BY DEF Less
    <3>. QED BY <2>7, <3>1, <3>2 DEF TimePasses
  <2>8. CASE Pause
    <3>1. calls' \in 0..MaxCalls /\ pauses' \in 0..MaxPauses
      BY <2>8 DEF Pause, Call
    <3>2. PauseTicks \in Pauses /\ PauseTicks \in 0..PauseTicks
      BY DEF Pauses, NotPaused
    <3>. QED BY <2>8, <3>1, <3>2 DEF Pause
  <2>9. CASE Resume
    BY <2>9, SMTT(20) DEF Resume, Call, Pauses, NotPaused
  <2>10. ASSUME NEW j \in Jobs, NEW on \in BOOLEAN, SetEnabled(j, on)
         PROVE  SchedTypeOK'
    BY <2>10, SMTT(20) DEF SetEnabled, Call
  <2>11. ASSUME NEW j \in Jobs, ChildEnds(j)
         PROVE  SchedTypeOK'
    BY <2>11 DEF ChildEnds
  <2>. HIDE DEF SchedTypeOK
  <2>. QED BY <1>3, <2>1, <2>2, <2>3, <2>4, <2>5, <2>6, <2>7, <2>8, <2>9, <2>10, <2>11
           DEF QuietStep
<1>4. CASE StopPoisons
  <2>1. \A l \in Lanes : Append(queue[l], Poison) \in Seq(Waiting)
    BY DEF SchedTypeOK, Waiting
  <2>2. queue' \in [Lanes -> Seq(Waiting)]
    BY <1>4, <2>1 DEF StopPoisons, Poisoned
  <2>. QED BY <1>4, <2>2 DEF StopPoisons, Stage, SchedTypeOK, Stages, Waiting, threads, history
<1>5. CASE TickerEnqueues
  <2>1. DueJobs \in SUBSET Jobs
    BY DEF DueJobs, SchedTypeOK
  <2>2. queue' \in [Lanes -> Seq(Waiting)] /\ queued' \in SUBSET Jobs
    BY <1>5, <2>1, EnqueueKeeps DEF TickerEnqueues
  <2>. QED BY <1>5, <2>2 DEF TickerEnqueues, TickerMoves, SchedTypeOK, Waiting, history
<1>6. ASSUME NEW j \in Jobs, RunNow(j)
      PROVE  SchedTypeOK'
  <2>1. queue' \in [Lanes -> Seq(Waiting)] /\ queued' \in SUBSET Jobs
    BY <1>6, EnqueueKeeps DEF RunNow, threads
  <2>2. calls' \in 0..MaxCalls
    BY <1>6 DEF RunNow, Call, SchedTypeOK
  <2>3. forced' \in SUBSET Jobs /\ requested' \in SUBSET Jobs
    BY <1>6 DEF RunNow, Forced, SchedTypeOK
  <2>. QED BY <1>6, <2>1, <2>2, <2>3, SMTT(20) DEF RunNow, SchedTypeOK, Waiting, threads
<1>7. ASSUME NEW l \in Lanes, WorkerStep(l)
      PROVE  SchedTypeOK'
  <2>. USE DEF SchedTypeOK, memory, history
  <2>0. \A pc \in {"top", "get", "decide", "launch", "working", "done"},
          job \in Jobs \cup {NoJob} :
          WorkerAt(l, pc, job) =>
            worker' \in [Lanes -> [pc : {"top", "get", "decide", "launch", "working", "done"},
                                   job : Jobs \cup {NoJob}]]
    BY DEF WorkerAt
  <2>1. CASE WorkerLoops(l)
    BY <2>0, <2>1 DEF WorkerLoops
  <2>2. CASE WorkerGets(l)
    <3>1. queue[l] \in Seq(Waiting) /\ WaitsOnce(queue[l], l, queued) /\ queue[l] # <<>>
      BY <2>2 DEF WorkerGets, QueueInv, Waiting
    <3>2. Tail(queue[l]) \in Seq(Waiting) /\ (Head(queue[l]) # Poison => Head(queue[l]) \in Jobs)
      BY <3>1, TakesHead
    <3>3. queue' \in [Lanes -> Seq(Waiting)]
      BY <2>2, <3>2 DEF WorkerGets, Waiting
    <3>4. worker' \in [Lanes -> [pc : {"top", "get", "decide", "launch", "working", "done"},
                                 job : Jobs \cup {NoJob}]]
      BY <2>0, <2>2, <3>2 DEF WorkerGets
    <3>. QED BY <2>2, <3>3, <3>4 DEF WorkerGets, Waiting
  <2>3. CASE WorkerDecides(l)
    <3>1. worker[l].job \in Jobs
      BY <2>3 DEF WorkerDecides, WorkerInv
    <3>2. pausedUntil' \in Pauses
      BY <2>3 DEF WorkerDecides, AfterCheck, Pauses, NotPaused
    <3>3. /\ worker' \in [Lanes -> [pc : {"top", "get", "decide", "launch", "working", "done"},
                                    job : Jobs \cup {NoJob}]]
          /\ running' \in SUBSET Jobs
      BY <2>0, <2>3, <3>1 DEF WorkerDecides
    <3>. QED BY <2>3, <3>2, <3>3 DEF WorkerDecides, Dropped
  <2>4. CASE WorkerLaunches(l)
    BY <2>0, <2>4, SMTT(20) DEF WorkerLaunches, WorkerInv
  <2>5. CASE WorkerFinishes(l)
    <3>1. due' \in [Jobs -> 0..Cadence]
      <4>1. Cadence \in 0..Cadence
        OBVIOUS
      <4>. QED BY <2>5, <4>1 DEF WorkerFinishes, NextDue
    <3>2. worker' \in [Lanes -> [pc : {"top", "get", "decide", "launch", "working", "done"},
                                 job : Jobs \cup {NoJob}]]
      BY <2>0, <2>5 DEF WorkerFinishes
    <3>3. running' \in SUBSET Jobs
      BY <2>5 DEF WorkerFinishes
    <3>4. UNCHANGED <<life, enabled, queued, forced, queue, pausedUntil, saved, ticker, children,
                      doomed, owed, wanted, requested, calls, pauses, ends>>
      BY <2>5 DEF WorkerFinishes
    <3>. QED BY <3>1, <3>2, <3>3, <3>4, SMTT(20)
  <2>. QED BY <1>7, <2>1, <2>2, <2>3, <2>4, <2>5 DEF WorkerStep
<1>8. CASE UNCHANGED schedVars
  BY <1>8 DEF schedVars, memory, threads, history, SchedTypeOK
<1>. QED BY <1>1, <1>2, <1>3, <1>4, <1>5, <1>6, <1>7, <1>8, StepCases

-----------------------------------------------------------------------------
(* Queues and workers *)

\* Every step keeps each job's flag and place together.
LEMMA QueueStep ==
    ASSUME SchedTypeOK, QueueInv, WorkerInv, [SchedNext]_schedVars
    PROVE  QueueInv' /\ WorkerInv'
<1>. USE SchedulerAssumption
<1>1. CASE Start
  <2>. DEFINE dueNow == IF IsPaused(saved.pause) THEN {} ELSE OnStart \cap saved.enabled
  <2>1. dueNow \in SUBSET Jobs /\ queued' = dueNow /\ queue' \in Arrivals(dueNow)
    BY <1>1 DEF Start, SchedTypeOK
  <2>. HIDE DEF dueNow
  <2>2. QueueInv'
    BY <2>1, ArrivalsInLane DEF QueueInv, WaitsOnce
  <2>3. WorkerInv'
    BY <1>1 DEF Start, FreshWorker, WorkerInv
  <2>. QED BY <2>2, <2>3
<1>2. CASE Exit
  BY <1>2 DEF Exit, IdleWorker, QueueInv, WorkerInv, WaitsOnce
<1>3. CASE QuietStep
  BY <1>3, QuietFrame, QueuesKept
<1>4. CASE StopPoisons
  <2>1. UNCHANGED <<queued, worker>>
    BY <1>4 DEF StopPoisons, threads
  <2>2. ASSUME NEW l \in Lanes
        PROVE  /\ queue'[l] = Append(queue[l], Poison)
               /\ queue[l] \in Seq(Waiting) /\ WaitsOnce(queue[l], l, queued)
    BY <1>4 DEF StopPoisons, Poisoned, SchedTypeOK, QueueInv, Waiting
  <2>3. ASSUME NEW l \in Lanes
        PROVE  /\ WaitsOnce(queue'[l], l, queued)
               /\ \A i \in 1..Len(queue'[l]) : queue'[l][i] # Poison =>
                     i \in 1..Len(queue[l]) /\ queue'[l][i] = queue[l][i]
    <3>1. /\ WaitsOnce(Append(queue[l], Poison), l, queued)
          /\ \A i \in 1..Len(Append(queue[l], Poison)) : Append(queue[l], Poison)[i] # Poison =>
                i \in 1..Len(queue[l]) /\ Append(queue[l], Poison)[i] = queue[l][i]
      BY <2>2, TakesPoison
    <3>. QED BY <2>2, <3>1
  <2>4. QueueInv'
    BY <2>1, <2>3 DEF QueueInv
  <2>5. WorkerInv'
    BY <2>1, <2>3 DEF WorkerInv
  <2>. QED BY <2>4, <2>5
<1>5. CASE TickerEnqueues
  <2>1. DueJobs \in SUBSET Jobs
    BY DEF DueJobs, SchedTypeOK
  <2>. QED BY <1>5, <2>1, EnqueueKeeps DEF TickerEnqueues
<1>6. ASSUME NEW j \in Jobs, RunNow(j)
      PROVE  QueueInv' /\ WorkerInv'
  BY <1>6, EnqueueKeeps DEF RunNow, threads
<1>7. ASSUME NEW l \in Lanes, WorkerStep(l)
      PROVE  QueueInv' /\ WorkerInv'
  <2>. USE DEF SchedTypeOK, memory
  <2>1. CASE WorkerLoops(l)
    BY <2>1 DEF WorkerLoops, WorkerAt, QueueInv, WorkerInv
  <2>2. CASE WorkerGets(l)
    <3>1. queue[l] \in Seq(Waiting) /\ WaitsOnce(queue[l], l, queued) /\ queue[l] # <<>>
      BY <2>2 DEF WorkerGets, QueueInv, Waiting
    <3>2. /\ WaitsOnce(Tail(queue[l]), l, queued)
          /\ Head(queue[l]) # Poison =>
                /\ Head(queue[l]) \in Jobs \cap queued /\ LaneOf[Head(queue[l])] = l
                /\ \A i \in 1..Len(Tail(queue[l])) : Tail(queue[l])[i] # Head(queue[l])
      BY <3>1, TakesHead
    <3>3. /\ UNCHANGED queued /\ queue' = [queue EXCEPT ![l] = Tail(@)]
          /\ worker' = [worker EXCEPT ![l] =
                IF Head(queue[l]) = Poison THEN [pc |-> "done", job |-> NoJob]
                ELSE [pc |-> "decide", job |-> Head(queue[l])]]
      BY <2>2 DEF WorkerGets, WorkerAt
    <3>4. /\ queue'[l] = Tail(queue[l])
          /\ \A m \in Lanes : m # l => queue'[m] = queue[m] /\ worker'[m] = worker[m]
      BY <3>3
    <3>5. worker'[l] = IF Head(queue[l]) = Poison THEN [pc |-> "done", job |-> NoJob]
                       ELSE [pc |-> "decide", job |-> Head(queue[l])]
      BY <3>3
    <3>6. QueueInv'
      BY <3>2, <3>3, <3>4 DEF QueueInv
    <3>7. WorkerInv'
      BY <3>2, <3>3, <3>4, <3>5 DEF WorkerInv
    <3>. QED BY <3>6, <3>7
  <2>3. CASE WorkerDecides(l)
    <3>. DEFINE j == worker[l].job
    <3>1. /\ j \in Jobs /\ LaneOf[j] = l /\ j \in queued
          /\ \A i \in 1..Len(queue[l]) : queue[l][i] # j
      BY <2>3 DEF WorkerDecides, WorkerInv
    <3>2. UNCHANGED queue /\ queued' = queued \ {j}
      BY <2>3 DEF WorkerDecides, Dropped
    <3>3. QueueInv'
      <4>. SUFFICES ASSUME NEW m \in Lanes PROVE WaitsOnce(queue[m], m, queued \ {j})
        BY <3>2 DEF QueueInv
      <4>1. WaitsOnce(queue[m], m, queued)
        BY DEF QueueInv
      <4>2. \A i \in 1..Len(queue[m]) : queue[m][i] # Poison => queue[m][i] # j
        BY <3>1, <4>1 DEF WaitsOnce
      <4>. QED BY <4>1, <4>2 DEF WaitsOnce
    <3>4. \/ worker'[l].job = j /\ worker'[l].pc \in {"launch", "working"}
          \/ worker'[l].pc = "top"
      BY <2>3 DEF WorkerDecides, WorkerAt
    <3>5. worker'[l].pc = "launch" => j \in Isolated
      BY <2>3 DEF WorkerDecides, WorkerAt
    <3>6. \A m \in Lanes : m # l => worker'[m] = worker[m]
      BY <2>3 DEF WorkerDecides, WorkerAt
    <3>. DEFINE Right(w, m, waits) ==
                  /\ w.pc \in {"decide", "launch", "working"} => w.job \in Jobs /\ LaneOf[w.job] = m
                  /\ w.pc = "launch" => w.job \in Isolated
                  /\ w.pc = "decide" => /\ w.job \in waits
                                        /\ \A i \in 1..Len(queue[m]) : queue[m][i] # w.job
    <3>7. WorkerInv'
      <4>1. Right(worker'[l], l, queued')
        BY <3>1, <3>4, <3>5
      <4>2. ASSUME NEW m \in Lanes, m # l PROVE Right(worker'[m], m, queued')
        <5>1. Right(worker[m], m, queued)
          BY DEF WorkerInv
        <5>2. worker[m].pc = "decide" => worker[m].job # j
          BY <3>1, <4>2, <5>1
        <5>. QED BY <3>2, <3>6, <4>2, <5>1, <5>2
      <4>. QED BY <3>2, <4>1, <4>2 DEF WorkerInv
    <3>. QED BY <3>3, <3>7
  <2>4. CASE WorkerLaunches(l)
    BY <2>4 DEF WorkerLaunches, WorkerAt, QueueInv, WorkerInv
  <2>5. CASE WorkerFinishes(l)
    BY <2>5 DEF WorkerFinishes, WorkerAt, QueueInv, WorkerInv
  <2>. QED BY <1>7, <2>1, <2>2, <2>3, <2>4, <2>5 DEF WorkerStep
<1>8. CASE UNCHANGED schedVars
  BY <1>8, QueuesKept DEF schedVars, memory, threads
<1>. QED BY <1>1, <1>2, <1>3, <1>4, <1>5, <1>6, <1>7, <1>8, StepCases

-----------------------------------------------------------------------------
(* Children *)

\* Once stop() has closed the door, the children it has not seen are none.
LEMMA ChildrenStep ==
    ASSUME SchedTypeOK, ChildrenInv, [SchedNext]_schedVars
    PROVE  ChildrenInv'
<1>. USE DEF ChildrenInv
<1>1. ASSUME UNCHANGED <<life, doomed>>, children' \subseteq children
      PROVE  ChildrenInv'
  BY <1>1
<1>2. CASE Start \/ Exit
  BY <1>2 DEF Start, Exit
<1>3. CASE StopBegins \/ StopClosesChildren \/ StopTerminates \/ StopPoisons \/ StopReturns
  BY <1>3 DEF StopBegins, StopClosesChildren, StopTerminates, StopPoisons, StopReturns, Stage,
              threads
<1>4. CASE TickerStep \/ OwnerCalls \/ TimePasses \/ UNCHANGED schedVars
  BY <1>4, <1>1 DEF TickerStep, TickerLooks, TickerClears, TickerEnqueues, OwnerCalls, Pause,
              Resume, RunNow, SetEnabled, TimePasses, schedVars, threads
<1>5. ASSUME NEW l \in Lanes, WorkerStep(l)
      PROVE  ChildrenInv'
  <2>1. CASE WorkerLaunches(l)
    BY <2>1 DEF WorkerLaunches, MayLaunch, AcceptChildren, Stopping
  <2>2. CASE ~WorkerLaunches(l)
    BY <1>5, <2>2, <1>1 DEF WorkerStep, WorkerLoops, WorkerGets, WorkerDecides, WorkerFinishes
  <2>. QED BY <2>1, <2>2
<1>6. ASSUME NEW j \in Jobs, ChildEnds(j)
      PROVE  ChildrenInv'
  BY <1>6, <1>1 DEF ChildEnds
<1>. QED BY <1>2, <1>3, <1>4, <1>5, <1>6 DEF SchedNext, StopStep

-----------------------------------------------------------------------------
(* The theorems *)

SchedInv == SchedTypeOK /\ QueueInv /\ WorkerInv /\ ChildrenInv

\* Before start() nothing waits.
LEMMA InitInv == SchedInit => SchedInv
<1>. SUFFICES ASSUME SchedInit PROVE SchedInv
  OBVIOUS
<1>. USE SchedulerAssumption DEF SchedInit, IdleWorker
<1>1. SchedTypeOK
  <2>1. /\ pausedUntil \in Pauses /\ saved \in [pause : Pauses, enabled : SUBSET Jobs]
        /\ due \in [Jobs -> 0..Cadence] /\ queue \in [Lanes -> Seq(Jobs \cup {Poison})]
    BY DEF Pauses, NotPaused
  <2>2. worker \in [Lanes -> [pc : {"top", "get", "decide", "launch", "working", "done"},
                              job : Jobs \cup {NoJob}]]
    OBVIOUS
  <2>3. calls \in 0..MaxCalls /\ pauses \in 0..MaxPauses /\ ends \in 0..MaxEnds
    OBVIOUS
  <2>. QED BY <2>1, <2>2, <2>3 DEF SchedTypeOK
<1>2. QueueInv /\ WorkerInv /\ ChildrenInv
  BY DEF QueueInv, WaitsOnce, WorkerInv, ChildrenInv
<1>. QED BY <1>1, <1>2 DEF SchedInv

\* The invariant of queues, flags, workers and children.
THEOREM SchedulerSafety == SchedSpec => []SchedInv
<1>1. SchedInv /\ [SchedNext]_schedVars => SchedInv'
  BY TypeStep, QueueStep, ChildrenStep DEF SchedInv
<1>. QED BY InitInv, <1>1, PTL DEF SchedSpec

\* The types of what the scheduler keeps in memory and on disk.
THEOREM SchedTypeCorrect == SchedSpec => []SchedTypeOK
<1>1. SchedInv => SchedTypeOK
  BY DEF SchedInv
<1>. QED BY <1>1, SchedulerSafety, PTL

\* stop(): when it returns, no child of this scheduler is alive.
THEOREM StopLeavesNoChild == SchedSpec => []StoppedIsQuiet
<1>1. SchedInv => StoppedIsQuiet
  BY DEF SchedInv, ChildrenInv, StoppedIsQuiet
<1>. QED BY <1>1, SchedulerSafety, PTL

\* Every step of the threads, the owner and the process is one of JobRequests or
\* leaves it alone: a job is asked for, served once by its lane, and ended.
THEOREM SchedulerImplementsRequests == SchedSpec => Requests!RequestsSpec
<1>. USE SchedulerAssumption
<1>1. SchedInit => Requests!RequestsInit
  BY DEF SchedInit, IdleWorker, Requests!RequestsInit, Requests!Idle
<1>2. SchedInv /\ [SchedNext]_schedVars => [Requests!RequestsNext]_Requests!requestVars
  <2>. SUFFICES ASSUME SchedInv, [SchedNext]_schedVars
                PROVE  Requests!RequestsNext \/ UNCHANGED Requests!requestVars
    OBVIOUS
  <2>. USE DEF SchedInv
  <2>1. CASE Start
    <3>1. queued' \in SUBSET Jobs
      BY <2>1 DEF Start, SchedTypeOK
    <3>. QED BY <2>1, <3>1 DEF Start, FreshWorker, Requests!RequestsNext, Requests!Open, Requests!Idle
  <2>2. CASE Exit
    BY <2>2 DEF Exit, IdleWorker, Requests!RequestsNext, Requests!Gone, Requests!Idle
  <2>3. CASE QuietStep
    <3>1. UNCHANGED <<queued, worker>>
      BY <2>3, QuietFrame
    <3>2. CASE StopBegins
      BY <3>1, <3>2 DEF StopBegins, Stage, Requests!RequestsNext, Requests!Close
    <3>3. CASE ~StopBegins
      <4>1. (life = "up") <=> (life' = "up")
        BY <2>3, <3>3 DEF QuietStep, StopClosesChildren, StopTerminates, StopReturns, Stage,
             TickerLooks, TickerClears, TimePasses, Pause, Resume, SetEnabled, ChildEnds
      <4>. QED BY <3>1, <4>1 DEF Requests!requestVars
    <3>. QED BY <3>2, <3>3
  <2>4. CASE StopPoisons
    BY <2>4 DEF StopPoisons, Stage, threads, Requests!requestVars
  <2>5. ASSUME NEW S \in SUBSET Jobs, Enqueue(S), UNCHANGED <<life, worker>>
        PROVE  Requests!RequestsNext
    BY <2>5 DEF Enqueue, Requests!RequestsNext, Requests!Ask
  <2>6. CASE TickerEnqueues
    <3>1. DueJobs \in SUBSET Jobs
      BY DEF DueJobs, SchedTypeOK
    <3>. QED BY <2>5, <2>6, <3>1 DEF TickerEnqueues
  <2>7. ASSUME NEW j \in Jobs, RunNow(j)
        PROVE  Requests!RequestsNext
    BY <2>5, <2>7 DEF RunNow, threads
  <2>8. ASSUME NEW l \in Lanes, WorkerStep(l)
        PROVE  Requests!RequestsNext \/ UNCHANGED Requests!requestVars
    <3>. USE DEF WorkerAt, SchedTypeOK
    <3>0. UNCHANGED life
      BY <2>8 DEF WorkerStep, WorkerLoops, WorkerGets, WorkerDecides, WorkerLaunches,
                  WorkerFinishes
    <3>1. CASE WorkerLoops(l)
      BY <3>0, <3>1 DEF WorkerLoops, memory, Requests!requestVars
    <3>2. CASE WorkerGets(l)
      <4>1. UNCHANGED queued /\ \A m \in Lanes :
               /\ worker'[m].pc \in {"launch", "working"} <=> worker[m].pc \in {"launch", "working"}
               /\ worker[m].pc \in {"launch", "working"} => worker'[m] = worker[m]
        BY <3>2 DEF WorkerGets
      <4>. QED BY <3>0, <4>1 DEF Requests!requestVars
    <3>3. CASE WorkerDecides(l)
      <4>1. PICK j \in Jobs : j = worker[l].job /\ LaneOf[j] = l /\ j \in queued
        BY <3>3 DEF WorkerDecides, WorkerInv
      <4>. DEFINE active == [m \in Lanes |-> IF worker[m].pc \in {"launch", "working"}
                                            THEN worker[m].job ELSE NoJob]
      <4>2. active[l] = NoJob
        BY <3>3 DEF WorkerDecides
      <4>3. active' \in {active, [active EXCEPT ![l] = j]}
        <5>1. \/ worker' = [worker EXCEPT ![l] = [pc |-> "top", job |-> NoJob]]
              \/ worker' = [worker EXCEPT ![l] = [pc |-> "launch", job |-> j]]
              \/ worker' = [worker EXCEPT ![l] = [pc |-> "working", job |-> j]]
          BY <3>3, <4>1 DEF WorkerDecides
        <5>2. \A m \in Lanes : m # l => active'[m] = active[m]
          BY <5>1
        <5>3. active'[l] = NoJob \/ active'[l] = j
          BY <5>1
        <5>4. CASE active'[l] = NoJob
          <6>1. \A m \in Lanes : active'[m] = active[m]
            BY <4>2, <5>2, <5>4
          <6>. QED BY <6>1
        <5>5. CASE active'[l] = j
          <6>1. \A m \in Lanes : active'[m] = [active EXCEPT ![l] = j][m]
            BY <5>2, <5>5
          <6>. QED BY <6>1
        <5>. QED BY <5>3, <5>4, <5>5
      <4>4. queued' = queued \ {j}
        BY <3>3, <4>1 DEF WorkerDecides, Dropped
      <4>5. Requests!Serve(j)
        BY <3>0, <4>1, <4>2, <4>3, <4>4 DEF Requests!Serve
      <4>. QED BY <4>5 DEF Requests!RequestsNext
    <3>4. CASE WorkerLaunches(l)
      BY <3>0, <3>4 DEF WorkerLaunches, memory, Requests!requestVars
    <3>5. CASE WorkerFinishes(l)
      <4>1. worker[l].job \in Jobs
        BY <3>5 DEF WorkerFinishes, WorkerInv
      <4>2. Requests!End(l)
        BY <3>0, <3>5, <4>1 DEF WorkerFinishes, Requests!End
      <4>. QED BY <4>2 DEF Requests!RequestsNext
    <3>. QED BY <2>8, <3>1, <3>2, <3>3, <3>4, <3>5 DEF WorkerStep
  <2>9. CASE UNCHANGED schedVars
    BY <2>9 DEF schedVars, memory, threads, Requests!requestVars
  <2>. QED BY <2>1, <2>2, <2>3, <2>4, <2>6, <2>7, <2>8, <2>9, StepCases
<1>. QED BY <1>1, <1>2, SchedulerSafety, PTL DEF SchedSpec, Requests!RequestsSpec
=============================================================================
