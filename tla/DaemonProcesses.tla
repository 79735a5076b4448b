---------------------------- MODULE DaemonProcesses ----------------------------
(***************************************************************************)
(* The daemon as a process among others: BrainDaemon's writer lease and    *)
(* handshake file (daemon.py), the mutations its threads make through      *)
(* OperationalService (operational_service.py), and the guardian and       *)
(* executor processes of an isolated job (scheduler_worker.py).            *)
(*                                                                         *)
(* Daemons are incarnations, each started at most once: by launchd, the    *)
(* app or a shell, also while another one runs or has just been killed.    *)
(* Locks are flock locks on open files, so a process that dies frees them, *)
(* and a lock file that is deleted and made again is another file.         *)
(***************************************************************************)
EXTENDS Naturals, FiniteSets

CONSTANTS
    Daemons,
    Writers,      \* threads of a daemon that mutate the operational store
    Main, None,   \* the closing thread; nobody
    MaxFiles,     \* bound: daemon.lock files that exist one after the other
    MaxKills      \* bound: processes killed

ASSUME DaemonAssumption ==
    /\ Main \notin Writers /\ None \notin Writers \cup {Main} \cup Daemons
    /\ MaxFiles \in Nat \ {0} /\ MaxKills \in Nat

VARIABLES
    proc,         \* where each daemon's main thread is
    file,         \* the daemon.lock file each daemon has open, 0 if none
    held,         \* whether it has the flock on it
    path,         \* the file daemon.lock names now
    handshake,    \* the daemon daemon.json names
    writer,       \* where each writer thread is in its mutation_lease
    homeLock,     \* each process's _HOME_LOCKS entry
    storeLock,    \* the daemon with the flock on the operational writer lock
    authority,    \* operational_authority_status().can_write
    guardian,     \* each daemon's child: the leader of its process group
    executor,     \* whether the group's executor is alive
    \* history: order of the leases, lease of the last commit, commits since the
    \* authority was withdrawn, and how much of the bounds is used
    epoch, lastEpoch, late, kills

leaseVars == <<proc, file, held, path, handshake>>
writeVars == <<writer, homeLock, storeLock, lastEpoch, late>>
childVars == <<guardian, executor>>
daemonVars == <<leaseVars, writeVars, childVars, authority, epoch, kills>>

Alive(d) == proc[d] \notin {"absent", "dead"}

DaemonTypeOK ==
    /\ proc \in [Daemons -> {"absent", "opened", "locked", "leased", "written", "up",
                             "stopping", "draining", "quiet", "named", "releasing",
                             "failing", "found", "failed", "released", "dead"}]
    /\ file \in [Daemons -> 0..MaxFiles] /\ held \in [Daemons -> BOOLEAN]
    /\ path \in 1..MaxFiles /\ handshake \in Daemons \cup {None}
    /\ writer \in [Daemons -> [Writers -> {"idle", "admitted", "home", "waiting", "store",
                                           "body"}]]
    /\ homeLock \in [Daemons -> Writers \cup {Main, None}]
    /\ storeLock \in Daemons \cup {None} /\ authority \in BOOLEAN
    /\ guardian \in [Daemons -> {"none", "new", "checked", "watching", "gone"}]
    /\ executor \in [Daemons -> BOOLEAN]
    /\ epoch \in [Daemons -> Nat] /\ lastEpoch \in Nat /\ late \in Nat
    /\ kills \in 0..MaxKills
    \* Who holds a lock is who is past it.
    /\ \A d \in Daemons, w \in Writers :
         /\ homeLock[d] = w <=> writer[d][w] \in {"home", "waiting", "store", "body"}
         /\ writer[d][w] \in {"store", "body"} => storeLock = d
    /\ storeLock # None => \E w \in Writers : writer[storeLock][w] \in {"store", "body"}

DaemonInit ==
    /\ proc = [d \in Daemons |-> "absent"]
    /\ file = [d \in Daemons |-> 0] /\ held = [d \in Daemons |-> FALSE]
    /\ path = 1 /\ handshake = None
    /\ writer = [d \in Daemons |-> [w \in Writers |-> "idle"]]
    /\ homeLock = [d \in Daemons |-> None] /\ storeLock = None /\ authority = TRUE
    /\ guardian = [d \in Daemons |-> "none"]
    /\ executor = [d \in Daemons |-> FALSE]
    /\ epoch = [d \in Daemons |-> 0] /\ lastEpoch = 0 /\ late = 0 /\ kills = 0

-----------------------------------------------------------------------------
(* The process and its lease *)

\* Everything a process has goes with it: locks, threads, an open transaction.
\* Its children do not.
Dies(d) ==
    /\ proc' = [proc EXCEPT ![d] = "dead"]
    /\ file' = [file EXCEPT ![d] = 0] /\ held' = [held EXCEPT ![d] = FALSE]
    /\ writer' = [writer EXCEPT ![d] = [w \in Writers |-> "idle"]]
    /\ homeLock' = [homeLock EXCEPT ![d] = None]
    /\ storeLock' = IF storeLock = d THEN None ELSE storeLock
    /\ UNCHANGED <<path, handshake, lastEpoch, late, childVars, authority, epoch>>

Goes(d, from, to) == proc[d] = from /\ proc' = [proc EXCEPT ![d] = to]

\* _acquire_lock: open or create the file, try its lock, and look whether the
\* path still names it.
OpensLock(d) ==
    /\ Goes(d, "absent", "opened")
    /\ file' = [file EXCEPT ![d] = path]
    /\ UNCHANGED <<held, path, handshake, writeVars, childVars, authority, epoch, kills>>

TriesLock(d) ==
    /\ proc[d] = "opened"
    /\ IF \E e \in Daemons : held[e] /\ file[e] = file[d]
       THEN Dies(d) /\ UNCHANGED kills
       ELSE /\ Goes(d, "opened", "locked")
            /\ held' = [held EXCEPT ![d] = TRUE]
            /\ UNCHANGED <<file, path, handshake, writeVars, childVars, authority,
                           epoch, kills>>

\* _assert_writer_lease.
LeaseHeld(d) == held[d] /\ file[d] = path

\* The last look of _acquire_lock: the path still names the file that is locked.
ConfirmsLock(d) ==
    /\ proc[d] = "locked"
    /\ IF ~LeaseHeld(d) THEN Dies(d) /\ UNCHANGED kills
       ELSE /\ Goes(d, "locked", "leased")
            /\ epoch' = [epoch EXCEPT ![d] = Cardinality({e \in Daemons : epoch[e] > 0}) + 1]
            /\ UNCHANGED <<file, held, path, handshake, writeVars, childVars, authority, kills>>

\* start() once initialize(), a mutation of its own, has returned or raised.
Undisturbed(d) == \A w \in Writers : writer[d][w] = "idle"

WritesHandshake(d) ==
    /\ Goes(d, "leased", "written") /\ Undisturbed(d)
    /\ handshake' = d
    /\ UNCHANGED <<file, held, path, writeVars, childVars, authority, epoch, kills>>

\* The scheduler's threads and the server run.
Starts(d) ==
    /\ Goes(d, "written", "up")
    /\ UNCHANGED <<file, held, path, handshake, writeVars, childVars, authority, epoch, kills>>

\* Something in start() raises, before its scheduler runs: the cleanup is that of
\* close(), without children to end or mutations to wait for.
StartFails(d) ==
    /\ proc[d] \in {"leased", "written"} /\ Undisturbed(d)
    /\ proc' = [proc EXCEPT ![d] = "failing"]
    /\ UNCHANGED <<file, held, path, handshake, writeVars, childVars, authority, epoch, kills>>

\* close(): scheduler.stop() first refuses new children ...
Closes(d) ==
    /\ Goes(d, "up", "stopping")
    /\ UNCHANGED <<file, held, path, handshake, writeVars, childVars, authority, epoch, kills>>

\* Mutant of Ended: only the leader of the group is ended.
EndedLeader(d) ==
    /\ guardian' = [guardian EXCEPT ![d] = "gone"]
    /\ executor' = executor

\* killpg on a child's group: the guardian and the executor in it.
Ended(d) ==
    /\ guardian' = [guardian EXCEPT ![d] = IF @ = "none" THEN @ ELSE "gone"]
    /\ executor' = [executor EXCEPT ![d] = FALSE]

\* ... then ends the active one, and the server closes.
EndsChildren(d) ==
    /\ Goes(d, "stopping", "draining")
    /\ Ended(d)
    /\ UNCHANGED <<file, held, path, handshake, writeVars, authority, epoch, kills>>

\* Mutant of Drains: the lease is given up without waiting for mutations.
DrainsNothing(d) == homeLock' = homeLock

Drains(d) == homeLock[d] = None /\ homeLock' = [homeLock EXCEPT ![d] = Main]

\* Mutant of Quiesces: the lock is given up before the handshake is removed.
QuiescesReleasing(d) ==
    /\ Goes(d, "draining", "quiet")
    /\ Drains(d)
    /\ held' = [held EXCEPT ![d] = FALSE]
    /\ UNCHANGED <<file, path, handshake, writer, storeLock, lastEpoch, late,
                   childVars, authority, epoch, kills>>

\* quiesce_mutations: no mutation is under way, none gets past the home lock.
Quiesces(d) ==
    /\ Goes(d, "draining", "quiet")
    /\ Drains(d)
    /\ UNCHANGED <<file, held, path, handshake, writer, storeLock, lastEpoch, late,
                   childVars, authority, epoch, kills>>

\* A mutation that takes too long: close() raises, and the process ends.
QuiesceTimesOut(d) ==
    /\ proc[d] = "draining" /\ homeLock[d] # None
    /\ Dies(d) /\ UNCHANGED kills

\* _remove_handshake reads the file, and unlinks it if it names this process.
ReadsHandshake(d, from, named, done) ==
    /\ proc[d] = from
    /\ proc' = [proc EXCEPT ![d] = IF handshake = d THEN named ELSE done]
    /\ UNCHANGED <<file, held, path, handshake, writeVars, childVars, authority, epoch, kills>>

RemovesHandshake(d, named, done) ==
    /\ Goes(d, named, done)
    /\ handshake' = None
    /\ UNCHANGED <<file, held, path, writeVars, childVars, authority, epoch, kills>>

ReleasesLock(d, done) ==
    /\ Goes(d, done, "released")
    /\ held' = [held EXCEPT ![d] = FALSE] /\ file' = [file EXCEPT ![d] = 0]
    /\ homeLock' = [homeLock EXCEPT ![d] = IF @ = Main THEN None ELSE @]
    /\ UNCHANGED <<path, handshake, writer, storeLock, lastEpoch, late, childVars,
                   authority, epoch, kills>>

\* With the mutations quiesced, or in the cleanup of start().
Withdraws(d) == \/ ReadsHandshake(d, "quiet", "named", "releasing")
                \/ ReadsHandshake(d, "failing", "found", "failed")
                \/ RemovesHandshake(d, "named", "releasing")
                \/ RemovesHandshake(d, "found", "failed")
                \/ ReleasesLock(d, "releasing") \/ ReleasesLock(d, "failed")

Exits(d) == proc[d] = "released" /\ Dies(d) /\ UNCHANGED kills

Killed(d) == Alive(d) /\ kills < MaxKills /\ kills' = kills + 1 /\ Dies(d)

\* daemon.lock is deleted or restored from elsewhere.
LockReplaced ==
    /\ path < MaxFiles /\ path' = path + 1
    /\ UNCHANGED <<proc, file, held, handshake, writeVars, childVars, authority, epoch, kills>>

\* The node becomes a secondary, or its home a quarantined restore.
AuthorityWithdrawn ==
    /\ authority /\ authority' = FALSE
    /\ UNCHANGED <<leaseVars, writeVars, childVars, epoch, kills>>

-----------------------------------------------------------------------------
(* A mutation *)

Steps(d, w, from, to) ==
    writer[d][w] = from /\ writer' = [writer EXCEPT ![d][w] = to]

StillThere == UNCHANGED <<leaseVars, childVars, authority, epoch, kills>>

\* mutation_lease up to the home lock: the lease and the authority.
Asks(d, w) ==
    /\ proc[d] \in {"leased", "up", "stopping", "draining", "quiet", "named", "releasing",
                    "released"}
    /\ LeaseHeld(d) /\ authority
    /\ Steps(d, w, "idle", "admitted")
    /\ UNCHANGED <<homeLock, storeLock, lastEpoch, late>> /\ StillThere

TakesHomeLock(d, w) ==
    /\ homeLock[d] = None
    /\ Steps(d, w, "admitted", "home")
    /\ homeLock' = [homeLock EXCEPT ![d] = w]
    /\ UNCHANGED <<storeLock, lastEpoch, late>> /\ StillThere

\* The lease is checked again with the home lock, before the wait for the other.
ChecksAgain(d, w) ==
    /\ LeaseHeld(d)
    /\ Steps(d, w, "home", "waiting")
    /\ UNCHANGED <<homeLock, storeLock, lastEpoch, late>> /\ StillThere

TakesStoreLock(d, w) ==
    /\ storeLock = None
    /\ Steps(d, w, "waiting", "store")
    /\ storeLock' = d
    /\ UNCHANGED <<homeLock, lastEpoch, late>> /\ StillThere

\* Mutant of MayWrite: what was checked before the locks is taken as true.
MayWriteUnchecked(d) == TRUE

\* Mutant of MayWrite: the authority is not read again.
MayWriteWithLease(d) == LeaseHeld(d)

MayWrite(d) == LeaseHeld(d) /\ authority

\* With both locks, lease and authority are checked a last time.
Enters(d, w) ==
    /\ MayWrite(d)
    /\ Steps(d, w, "store", "body")
    /\ UNCHANGED <<homeLock, storeLock, lastEpoch, late>> /\ StillThere

\* Mutant of StoreLockAfter: a failed check leaves the store lock taken.
StoreLockKept(d, w) == IF writer[d][w] = "body" THEN None ELSE storeLock

StoreLockAfter(d, w) == IF writer[d][w] \in {"store", "body"} THEN None ELSE storeLock

\* The end of a lease gives back what locks the thread has.
Leaves(d, w) ==
    /\ writer' = [writer EXCEPT ![d][w] = "idle"]
    /\ homeLock' = IF homeLock[d] = w THEN [homeLock EXCEPT ![d] = None] ELSE homeLock
    /\ storeLock' = StoreLockAfter(d, w)
    /\ StillThere

\* The transaction of the body commits.
Commits(d, w) ==
    /\ writer[d][w] = "body"
    /\ lastEpoch' = epoch[d] /\ late' = late + (IF authority THEN 0 ELSE 1)
    /\ Leaves(d, w)

\* A check that fails, a lock that is not free in time, an exception of the body.
Fails(d, w) ==
    /\ writer[d][w] # "idle"
    /\ UNCHANGED <<lastEpoch, late>>
    /\ Leaves(d, w)

MutationStep(d, w) == \/ Asks(d, w) \/ TakesHomeLock(d, w) \/ ChecksAgain(d, w)
                      \/ TakesStoreLock(d, w) \/ Enters(d, w) \/ Commits(d, w)
                      \/ Fails(d, w)

-----------------------------------------------------------------------------
(* An isolated job *)

ChildMoves == UNCHANGED <<leaseVars, writeVars, authority, epoch, kills>>

\* _run_isolated_job: refused once stop() closed the door.
Launches(d) ==
    /\ proc[d] = "up" /\ guardian[d] = "none"
    /\ guardian' = [guardian EXCEPT ![d] = "new"]
    /\ UNCHANGED executor /\ ChildMoves

\* The guardian asks for its parent before it starts the executor.
GuardianChecks(d) ==
    /\ guardian[d] = "new"
    /\ guardian' = [guardian EXCEPT ![d] = IF Alive(d) THEN "checked" ELSE "gone"]
    /\ UNCHANGED executor /\ ChildMoves

GuardianStartsExecutor(d) ==
    /\ guardian[d] = "checked"
    /\ guardian' = [guardian EXCEPT ![d] = "watching"]
    /\ executor' = [executor EXCEPT ![d] = TRUE]
    /\ ChildMoves

\* Mutant of ParentGone: only the parent's regular end is noticed.
ParentReleased(d) == proc[d] = "released"

ParentGone(d) == ~Alive(d)

\* ... after it has started it, and then every 0.1 seconds: the parent is gone.
GuardianKillsGroup(d) ==
    /\ guardian[d] = "watching" /\ ParentGone(d)
    /\ Ended(d) /\ ChildMoves

\* The executor returns, and the guardian with its return code.
JobEnds(d) ==
    /\ guardian[d] = "watching"
    /\ Ended(d) /\ ChildMoves

\* The guardian alone is killed; the executor goes on in its group.
GuardianCrashes(d) ==
    /\ guardian[d] \in {"new", "checked", "watching"} /\ kills < MaxKills
    /\ kills' = kills + 1
    /\ guardian' = [guardian EXCEPT ![d] = "gone"]
    /\ UNCHANGED <<executor, leaseVars, writeVars, authority, epoch>>

\* wait() returned: the daemon ends what is left of the group.
Reaps(d) ==
    /\ guardian[d] = "gone" /\ Alive(d)
    /\ guardian' = [guardian EXCEPT ![d] = "none"]
    /\ executor' = [executor EXCEPT ![d] = FALSE]
    /\ ChildMoves

ChildStep(d) == GuardianChecks(d) \/ GuardianStartsExecutor(d) \/ GuardianKillsGroup(d)

-----------------------------------------------------------------------------

ProcessStep(d) == \/ OpensLock(d) \/ TriesLock(d) \/ ConfirmsLock(d)
                  \/ WritesHandshake(d) \/ Starts(d) \/ StartFails(d)
                  \/ Closes(d) \/ EndsChildren(d) \/ Quiesces(d) \/ QuiesceTimesOut(d)
                  \/ Withdraws(d) \/ Exits(d)

DaemonNext ==
    \/ \E d \in Daemons : \/ ProcessStep(d) \/ Killed(d) \/ Launches(d) \/ ChildStep(d)
                          \/ JobEnds(d) \/ GuardianCrashes(d) \/ Reaps(d)
                          \/ \E w \in Writers : MutationStep(d, w)
    \/ LockReplaced \/ AuthorityWithdrawn

DaemonSpec == DaemonInit /\ [][DaemonNext]_daemonVars

\* Guardians and the worker that waits for a child go on; nothing else has to.
FairDaemonSpec ==
    DaemonSpec /\ \A d \in Daemons : WF_daemonVars(ChildStep(d)) /\ WF_daemonVars(Reaps(d))

-----------------------------------------------------------------------------
(* Properties *)

\* Once a newer daemon has written, an older one never does, also if the lock
\* file was replaced under it while its mutation waited for a lock.
WritersAreFenced == [][lastEpoch' >= lastEpoch]_daemonVars

\* No mutation is under way in a daemon that gave up its lease in an orderly
\* way, whatever its threads were waiting for.
ReleasedWritesNothing ==
    \A d \in Daemons, w \in Writers : writer[d][w] = "body" => held[d]

\* After the authority is withdrawn only the mutation that was admitted with
\* both locks may still commit.
OneLateCommit == late <= 1

\* A daemon that serves under a lock file never replaced can be found: the end
\* of the one before has not taken its handshake away.
ServerIsFindable ==
    \A d \in Daemons : proc[d] = "up" /\ path = 1 => handshake = d

\* No executor of a daemon that ended in order is alive when the next may start.
ReleasedIsQuiet == \A d \in Daemons : proc[d] \in {"draining", "released"} => ~executor[d]

\* An executor does not outlive its daemon, however that died, unless its
\* guardian was killed too.
OrphansEnd ==
    \A d \in Daemons : (proc[d] = "dead" /\ executor[d]) ~>
                          (~executor[d] \/ guardian[d] = "gone")
=============================================================================
