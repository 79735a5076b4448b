----------------------------- MODULE JobScheduler -----------------------------
(***************************************************************************)
(* SerialJobScheduler (daemon.py): one daemon process with a ticker        *)
(* thread, one worker thread and one FIFO queue per lane, the threads of   *)
(* the HTTP server that serve the owner's calls, and the thread that stops *)
(* it.  All of them share flags under one lock, except where the code      *)
(* reads or writes the pause outside of it.                                *)
(*                                                                         *)
(* A job in Isolated runs in a child process, any other in the worker      *)
(* thread.  What a job does, and the processes behind a child, are not     *)
(* part of this module; DaemonProcesses has them.  Times are countdowns.   *)
(***************************************************************************)
EXTENDS Integers, Sequences, FiniteSets

CONSTANTS
    Jobs, Lanes, LaneOf, NoJob,
    Isolated,      \* jobs with isolated_job
    OnStart,       \* jobs with run_on_start
    Cadence,       \* ticks from the end of a run to the next one
    PauseTicks,    \* length of a pause
    Poison,        \* the None that ends a worker
    MaxCalls,      \* bound: calls of the owner
    MaxPauses,     \* bound: pauses among them
    MaxEnds        \* bound: times the daemon is stopped or killed

ASSUME SchedulerAssumption ==
    /\ LaneOf \in [Jobs -> Lanes] /\ IsFiniteSet(Jobs)
    /\ Isolated \subseteq Jobs /\ OnStart \subseteq Jobs
    /\ {NoJob, Poison} \cap Jobs = {} /\ NoJob # Poison
    /\ {Cadence, PauseTicks} \subseteq Nat \ {0}
    /\ {MaxCalls, MaxPauses, MaxEnds} \subseteq Nat

\* A countdown that is not running.
NotPaused == -1
Pauses == NotPaused..PauseTicks

VARIABLES
    life,         \* start() to the process's end, and how far stop() is
    enabled,      \* jobs with enabled
    due,          \* next_due_at
    queued,       \* _queued
    forced,       \* _force_run
    queue,        \* _queues
    running,      \* jobs with running
    pausedUntil,  \* _config.paused_until in memory; 0 is in the past
    saved,        \* scheduler.yaml
    ticker,       \* where the ticker thread is
    worker,       \* where each worker thread is, and its job
    children,     \* _active_children that are alive
    doomed,       \* the children stop() has seen
    \* history: what the owner asked for, and how much of the bounds is used
    owed,         \* the pause the owner may still count on
    wanted,       \* jobs the owner left enabled
    requested,    \* jobs the owner asked to run, not served since
    calls, pauses, ends

memory == <<enabled, due, queued, forced, queue, running, pausedUntil>>
threads == <<ticker, worker, children, doomed>>
history == <<owed, wanted, requested, calls, pauses, ends>>
schedVars == <<life, memory, saved, threads, history>>

\* stop() sets _stop, then refuses children and looks at the active ones, ends
\* those, wakes the workers and joins them for a bounded time.
Stages == {"up", "flagged", "closed", "cleared", "poisoned", "stopped"}
Stopping == life # "up"
AcceptChildren == life \in {"up", "flagged"}

IdleWorker == [pc |-> "done", job |-> NoJob]
FreshWorker == [pc |-> "top", job |-> NoJob]

SchedTypeOK ==
    /\ life \in {"down"} \cup Stages
    /\ {enabled, queued, forced, running, wanted, requested} \subseteq SUBSET Jobs
    /\ due \in [Jobs -> 0..Cadence]
    /\ queue \in [Lanes -> Seq(Jobs \cup {Poison})]
    /\ pausedUntil \in Pauses /\ owed \in 0..PauseTicks
    /\ saved \in [pause : Pauses, enabled : SUBSET Jobs]
    /\ ticker \in {"wait", "clear", "enqueue", "done"}
    /\ worker \in [Lanes -> [pc : {"top", "get", "decide", "launch", "working", "done"},
                             job : Jobs \cup {NoJob}]]
    /\ children \subseteq Isolated /\ doomed \subseteq Isolated
    /\ calls \in 0..MaxCalls /\ pauses \in 0..MaxPauses /\ ends \in 0..MaxEnds

SchedInit ==
    /\ life = "down"
    /\ enabled = Jobs /\ due = [j \in Jobs |-> Cadence]
    /\ queued = {} /\ forced = {} /\ running = {}
    /\ queue = [l \in Lanes |-> <<>>]
    /\ pausedUntil = NotPaused
    /\ saved = [pause |-> NotPaused, enabled |-> Jobs]
    /\ ticker = "done" /\ worker = [l \in Lanes |-> IdleWorker]
    /\ children = {} /\ doomed = {}
    /\ owed = 0 /\ wanted = Jobs /\ requested = {}
    /\ calls = 0 /\ pauses = 0 /\ ends = 0

-----------------------------------------------------------------------------
(* The queue *)

\* A set of jobs in any order, each once.
Orders(S) == {s \in [1..Cardinality(S) -> S] :
                \A i, k \in 1..Cardinality(S) : s[i] = s[k] => i = k}

InLane(S, l) == {j \in S : LaneOf[j] = l}

\* _enqueue_locked for a set of jobs: what each lane's queue gets.
Arrivals(S) == {new \in [Lanes -> UNION {Orders(T) : T \in SUBSET S}] :
                  \A l \in Lanes : new[l] \in Orders(InLane(S, l))}

\* Mutant of Fresh: a job that waits is put again.
FreshAll(S) == S

Fresh(S) == S \ queued

Enqueue(S) ==
    /\ queued' = queued \cup S
    /\ \E new \in Arrivals(Fresh(S)) : queue' = [l \in Lanes |-> queue[l] \o new[l]]

\* The jobs enqueue_due_jobs picks.
DueJobs == {j \in enabled \ (running \cup queued) : due[j] = 0}

\* _is_paused, where nothing else can change the pause meanwhile.
IsPaused(p) == p > 0
AfterCheck(p) == IF p = 0 THEN NotPaused ELSE p

-----------------------------------------------------------------------------
(* The process *)

\* __init__ and start(): the configuration comes from disk, everything else is
\* new; the jobs that are due go to the queues before a worker gets the lock.
Start ==
    LET dueNow == IF IsPaused(saved.pause) THEN {} ELSE OnStart \cap saved.enabled
    IN /\ life = "down" /\ life' = "up"
       /\ enabled' = saved.enabled
       /\ due' = [j \in Jobs |-> IF j \in OnStart THEN 0 ELSE Cadence]
       /\ pausedUntil' = AfterCheck(saved.pause)
       /\ forced' = {} /\ running' = {}
       /\ queued' = dueNow
       /\ queue' \in Arrivals(dueNow)
       /\ ticker' = "wait" /\ worker' = [l \in Lanes |-> FreshWorker]
       /\ children' = {} /\ doomed' = {} /\ requested' = {}
       /\ UNCHANGED <<saved, owed, wanted, calls, pauses, ends>>

\* The process is gone, killed or after stop(): its threads and memory with it.
\* (A killed daemon's children are ended by their guardians.)
Exit ==
    /\ life # "down"
    /\ life = "stopped" \/ ends < MaxEnds
    /\ ends' = IF life = "stopped" THEN ends ELSE ends + 1
    /\ life' = "down"
    /\ enabled' = saved.enabled /\ due' = [j \in Jobs |-> Cadence]
    /\ queued' = {} /\ forced' = {} /\ running' = {} /\ requested' = {}
    /\ queue' = [l \in Lanes |-> <<>>]
    /\ pausedUntil' = NotPaused
    /\ ticker' = "done" /\ worker' = [l \in Lanes |-> IdleWorker]
    /\ children' = {} /\ doomed' = {}
    /\ UNCHANGED <<saved, owed, wanted, calls, pauses>>

Stage(from, to) == life = from /\ life' = to

StopBegins == /\ ends < MaxEnds /\ ends' = ends + 1
              /\ Stage("up", "flagged")
              /\ UNCHANGED <<memory, saved, threads, owed, wanted, requested, calls, pauses>>

\* Under _children_lock: no more children, and a look at the active ones.
StopClosesChildren == /\ Stage("flagged", "closed")
                      /\ doomed' = children
                      /\ UNCHANGED <<memory, saved, ticker, worker, children, history>>

\* _terminate_children: SIGTERM, a bounded wait, SIGKILL.
StopTerminates == /\ Stage("closed", "cleared")
                  /\ children' = children \ doomed
                  /\ UNCHANGED <<memory, saved, ticker, worker, doomed, history>>

\* Mutant of Poisoned: the sentinel is put only behind jobs.
PoisonedBehindJobs == [l \in Lanes |-> IF queue[l] = <<>> THEN <<>>
                                       ELSE Append(queue[l], Poison)]

Poisoned == [l \in Lanes |-> Append(queue[l], Poison)]

StopPoisons == /\ Stage("cleared", "poisoned")
               /\ queue' = Poisoned
               /\ UNCHANGED <<enabled, due, queued, forced, running, pausedUntil, saved,
                              threads, history>>

\* The joins: each returns when its thread is done or after its timeout.
StopReturns == /\ Stage("poisoned", "stopped")
               /\ UNCHANGED <<memory, saved, threads, history>>

StopStep == StopClosesChildren \/ StopTerminates \/ StopPoisons \/ StopReturns

-----------------------------------------------------------------------------
(* The ticker *)

TickerMoves(from, to) == ticker = from /\ ticker' = to

\* _stop.wait(), then _is_paused() without the lock: a pause that is over is
\* cleared by a write of its own.
TickerLooks ==
    /\ ticker = "wait"
    /\ ticker' = IF Stopping THEN "done"
                 ELSE IF IsPaused(pausedUntil) THEN "wait"
                 ELSE IF pausedUntil = 0 THEN "clear" ELSE "enqueue"
    /\ UNCHANGED <<life, memory, saved, worker, children, doomed, history>>

TickerClears ==
    /\ TickerMoves("clear", "enqueue")
    /\ pausedUntil' = NotPaused
    /\ UNCHANGED <<life, enabled, due, queued, forced, queue, running, saved,
                   worker, children, doomed, history>>

TickerEnqueues ==
    /\ TickerMoves("enqueue", "wait")
    /\ Enqueue(DueJobs)
    /\ UNCHANGED <<life, enabled, due, forced, running, pausedUntil, saved,
                   worker, children, doomed, history>>

TickerStep == TickerLooks \/ TickerClears \/ TickerEnqueues

-----------------------------------------------------------------------------
(* A worker *)

WorkerAt(l, pc, job) == worker' = [worker EXCEPT ![l] = [pc |-> pc, job |-> job]]

\* while not self._stop.is_set()
WorkerLoops(l) ==
    /\ worker[l].pc = "top"
    /\ WorkerAt(l, IF Stopping THEN "done" ELSE "get", NoJob)
    /\ UNCHANGED <<life, memory, saved, ticker, children, doomed, history>>

WorkerGets(l) ==
    /\ worker[l].pc = "get" /\ queue[l] # <<>>
    /\ queue' = [queue EXCEPT ![l] = Tail(@)]
    /\ IF Head(queue[l]) = Poison THEN WorkerAt(l, "done", NoJob)
       ELSE WorkerAt(l, "decide", Head(queue[l]))
    /\ UNCHANGED <<life, enabled, due, queued, forced, running, pausedUntil, saved,
                   ticker, children, doomed, history>>

\* Mutant of Dropped: the forced flag outlives the dequeue.
DroppedKeepingForce(j) == queued' = queued \ {j} /\ forced' = forced

\* Mutant of Dropped: a job that is skipped keeps its queued flag.
DroppedIfRun(j) ==
    /\ queued' = IF IsPaused(pausedUntil) THEN queued ELSE queued \ {j}
    /\ forced' = forced \ {j}

\* Under the lock, both flags are taken back.
Dropped(j) == queued' = queued \ {j} /\ forced' = forced \ {j}

\* Under the lock: skip the job, or mark it running.
WorkerDecides(l) ==
    LET j == worker[l].job
    IN /\ worker[l].pc = "decide"
       /\ Dropped(j)
       /\ requested' = requested \ {j}
       /\ pausedUntil' = IF j \in enabled THEN AfterCheck(pausedUntil) ELSE pausedUntil
       /\ IF j \notin enabled \/ (IsPaused(pausedUntil) /\ j \notin forced)
          THEN WorkerAt(l, "top", NoJob) /\ running' = running
          ELSE /\ running' = running \cup {j}
               /\ WorkerAt(l, IF j \in Isolated THEN "launch" ELSE "working", j)
       /\ UNCHANGED <<life, enabled, due, queue, saved, ticker, children, doomed,
                      owed, wanted, calls, pauses, ends>>

\* Mutant of MayLaunch: only the stop flag is looked at, before the lock.
MayLaunchLate == life \in {"up", "flagged", "closed"}

MayLaunch == AcceptChildren /\ ~Stopping

\* _run_isolated_job up to the wait: under _children_lock the child is started
\* and registered, or cancelled.
WorkerLaunches(l) ==
    LET j == worker[l].job
    IN /\ worker[l].pc = "launch"
       /\ children' = IF MayLaunch THEN children \cup {j} ELSE children
       /\ WorkerAt(l, "working", j)
       /\ UNCHANGED <<life, memory, saved, ticker, doomed, history>>

\* A child ends, by itself or with a crash; its group is cleaned up.
ChildEnds(j) ==
    /\ j \in children
    /\ children' = children \ {j}
    /\ UNCHANGED <<life, memory, saved, ticker, worker, doomed, history>>

\* Mutant of NextDue: a tick late.
NextDueLate == Cadence + 1

NextDue == Cadence

\* The handler returned or raised, or the child is gone.
WorkerFinishes(l) ==
    LET j == worker[l].job
    IN /\ worker[l].pc = "working" /\ j \notin children
       /\ running' = running \ {j}
       /\ due' = [due EXCEPT ![j] = NextDue]
       /\ WorkerAt(l, "top", NoJob)
       /\ UNCHANGED <<life, enabled, queued, forced, queue, pausedUntil, saved,
                      ticker, children, doomed, history>>

WorkerStep(l) == WorkerLoops(l) \/ WorkerGets(l) \/ WorkerDecides(l)
                 \/ WorkerLaunches(l) \/ WorkerFinishes(l)

-----------------------------------------------------------------------------
(* The owner *)

Call == life # "down" /\ calls < MaxCalls /\ calls' = calls + 1

\* Mutant of Forced: a job that waits already keeps its unforced place.
ForcedIfNew(j) == IF j \in queued THEN forced ELSE forced \cup {j}

Forced(j) == forced \cup {j}

RunNow(j) ==
    /\ Call
    /\ Enqueue({j}) /\ forced' = Forced(j)
    /\ requested' = requested \cup {j}
    /\ UNCHANGED <<life, enabled, due, running, pausedUntil, saved, threads,
                   owed, wanted, pauses, ends>>

\* _save_config writes the pause and every job's flag as they are in memory.
Pause ==
    /\ Call /\ pauses < MaxPauses /\ pauses' = pauses + 1
    /\ pausedUntil' = PauseTicks /\ owed' = PauseTicks
    /\ saved' = [pause |-> PauseTicks, enabled |-> enabled]
    /\ UNCHANGED <<life, enabled, due, queued, forced, queue, running, threads,
                   wanted, requested, ends>>

Resume ==
    /\ Call
    /\ pausedUntil' = NotPaused /\ owed' = 0
    /\ saved' = [pause |-> NotPaused, enabled |-> enabled]
    /\ UNCHANGED <<life, enabled, due, queued, forced, queue, running, threads,
                   wanted, requested, pauses, ends>>

SetEnabled(j, on) ==
    /\ Call
    /\ enabled' = IF on THEN enabled \cup {j} ELSE enabled \ {j}
    /\ wanted' = IF on THEN wanted \cup {j} ELSE wanted \ {j}
    /\ saved' = [pause |-> pausedUntil, enabled |-> enabled']
    /\ UNCHANGED <<life, due, queued, forced, queue, running, pausedUntil, threads,
                   owed, requested, pauses, ends>>

OwnerCalls == \/ Pause \/ Resume
              \/ \E j \in Jobs : RunNow(j) \/ \E on \in BOOLEAN : SetEnabled(j, on)

-----------------------------------------------------------------------------

Less(n) == IF n > 0 THEN n - 1 ELSE n

TimePasses ==
    /\ due' = [j \in Jobs |-> IF life = "down" THEN due[j] ELSE Less(due[j])]
    /\ pausedUntil' = Less(pausedUntil) /\ owed' = Less(owed)
    /\ saved' = [saved EXCEPT !.pause = Less(@)]
    /\ UNCHANGED <<life, enabled, queued, forced, queue, running, threads,
                   wanted, requested, calls, pauses, ends>>

SchedNext ==
    \/ Start \/ Exit \/ StopBegins \/ StopStep \/ TickerStep \/ OwnerCalls \/ TimePasses
    \/ \E l \in Lanes : WorkerStep(l)
    \/ \E j \in Jobs : ChildEnds(j)

SchedSpec == SchedInit /\ [][SchedNext]_schedVars

\* Threads that can go on do, and jobs end; nothing makes the owner call, the
\* daemon start or end, or time pass.
FairSchedSpec ==
    /\ SchedSpec
    /\ WF_schedVars(TickerStep) /\ WF_schedVars(StopStep)
    /\ \A l \in Lanes : WF_schedVars(WorkerStep(l))
    /\ \A j \in Jobs : WF_schedVars(ChildEnds(j))

-----------------------------------------------------------------------------
(* Properties *)

\* Queue, flags and threads implement JobRequests: a job asked for by the
\* ticker or the owner is neither lost nor doubled between its flag, its queue
\* and the worker that holds it, runs in its own lane after the one before, and
\* is served in the end.
Requests == INSTANCE JobRequests WITH
    open <- life = "up", asked <- queued,
    active <- [l \in Lanes |-> IF worker[l].pc \in {"launch", "working"}
                               THEN worker[l].job ELSE NoJob]

ImplementsRequests == Requests!FairRequestsSpec

\* What the owner switched off stays off, across restarts: no job starts that
\* is disabled, and none during a pause unless it was asked for by run-now
\* since it was last served.
QuietIsKept ==
    [][\A j \in running' \ running :
         j \in wanted /\ (owed > 0 => j \in requested)]_schedVars

\* Once stop() has returned no child process of this scheduler is alive, also
\* when a worker was about to start one: the daemon releases its lease next.
StoppedIsQuiet == life = "stopped" => children = {}

\* A run the owner asked for starts, whether the job was idle, queued, running
\* or paused, unless the owner disables it or the daemon ends.
RequestedRuns ==
    \A j \in Jobs : j \in requested ~> (j \in running \/ j \notin enabled \/ Stopping)

\* A job that is due runs, unless it is disabled, paused or the daemon ends.
DueJobRuns ==
    \A j \in Jobs : (life = "up" /\ due[j] = 0) ~>
        (j \in running \/ j \notin enabled \/ IsPaused(pausedUntil) \/ Stopping)

\* A stop ends every worker thread, however its queue was filled and wherever
\* the thread was: none is left waiting on its queue.
WorkersEnd ==
    (life = "flagged") ~> (life = "down" \/ \A l \in Lanes : worker[l].pc = "done")
=============================================================================
