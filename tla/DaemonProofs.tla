----------------------------- MODULE DaemonProofs -----------------------------
(***************************************************************************)
(* The safety of DaemonProcesses for any daemons, writer threads and       *)
(* bounds: its type invariant, the fencing of writers, the one late        *)
(* commit, a server that can be found, and the quiet after a release.      *)
(*                                                                         *)
(* Five inductive invariants carry the proofs.  LeaseInv: a lock file has  *)
(* one holder, who has it from _acquire_lock to _release_lock.  EpochInv:  *)
(* a daemon that passes _assert_writer_lease is the youngest that ever     *)
(* took the lease.  WriteInv: a mutation in its body belongs to a daemon   *)
(* that has its lease and is as young as the last commit; HomeInv keeps    *)
(* mutations out of the end of a daemon and of a start that failed.        *)
(* ChildInv: a daemon without a scheduler has no guardian that could start *)
(* an executor.                                                            *)
(***************************************************************************)
EXTENDS DaemonProcesses, FiniteSetTheorems, TLAPS

\* Between _acquire_lock and _release_lock; with the threads of start().
Holding == {"locked", "leased", "written", "up", "stopping", "draining", "quiet", "named",
            "releasing", "failing", "found", "failed"}
Leased == (Holding \ {"locked"}) \cup {"released"}
Quiesced == {"quiet", "named", "releasing"}
\* From a handshake written, or a start that failed, no mutation runs.
Idle == {"written", "failing", "found", "failed"}
\* Before the scheduler runs, and after stop() ended the children it saw.
Childless == {"absent", "opened", "locked", "leased", "draining", "released"}
                \cup Idle \cup Quiesced
Named == {"written", "up"}

Started == {d \in Daemons : epoch[d] > 0}

LeaseInv ==
    /\ \A d \in Daemons : held[d] <=> proc[d] \in Holding
    /\ \A d \in Daemons : proc[d] \in Holding \cup {"opened"} => file[d] \in 1..path
    /\ \A d, e \in Daemons : held[d] /\ held[e] /\ file[d] = file[e] => d = e

EpochInv ==
    /\ IsFiniteSet(Started)
    /\ \A d \in Daemons : epoch[d] <= Cardinality(Started)
    /\ \A d \in Daemons : proc[d] \in {"absent", "opened", "locked"} => epoch[d] = 0
    /\ \A d \in Daemons : proc[d] \in Leased => epoch[d] > 0
    /\ \A d \in Daemons : LeaseHeld(d) /\ epoch[d] > 0 =>
                             \A e \in Daemons : epoch[e] <= epoch[d]
    /\ lastEpoch = 0 \/ \E e \in Daemons : lastEpoch = epoch[e]

HomeInv ==
    /\ \A d \in Daemons : proc[d] \in Quiesced => homeLock[d] = Main
    /\ \A d \in Daemons : proc[d] \in Idle => Undisturbed(d)

WriteInv ==
    /\ \A d \in Daemons, w \in Writers : writer[d][w] # "idle" => epoch[d] > 0
    /\ \A d \in Daemons, w \in Writers :
         writer[d][w] = "body" => held[d] /\ lastEpoch <= epoch[d]

LateInv ==
    \/ late = 0
    \/ /\ late = 1 /\ ~authority
       /\ \A d \in Daemons, w \in Writers : writer[d][w] # "body"

ChildInv ==
    \A d \in Daemons : proc[d] \in Childless => ~executor[d] /\ guardian[d] \in {"none", "gone"}

FindableInv == \A d \in Daemons : proc[d] \in Named /\ path = 1 => handshake = d

-----------------------------------------------------------------------------
(* Frames *)

\* What the guardian and the executor do leaves lease and mutations alone.
ChildrenStep(d) == \/ Launches(d) \/ ChildStep(d) \/ JobEnds(d) \/ GuardianCrashes(d)
                   \/ Reaps(d)

LEMMA ChildFrame ==
    ASSUME NEW d \in Daemons, ChildrenStep(d)
    PROVE  UNCHANGED <<leaseVars, writeVars, authority, epoch>>
BY DEF ChildrenStep, ChildStep, Launches, GuardianChecks, GuardianStartsExecutor,
       GuardianKillsGroup, JobEnds, GuardianCrashes, Reaps, ChildMoves, leaseVars, writeVars

\* A mutation leaves lease, children and authority alone.
LEMMA MutationFrame ==
    ASSUME NEW d \in Daemons, NEW w \in Writers, MutationStep(d, w)
    PROVE  UNCHANGED <<leaseVars, childVars, authority, epoch, kills>>
BY DEF MutationStep, Asks, TakesHomeLock, ChecksAgain, TakesStoreLock, Enters, Commits,
       Fails, Leaves, StillThere

\* The daemon's own steps: the only ones that move its lease.
OwnStep(d) == ProcessStep(d) \/ Killed(d)

\* DaemonNext, by who takes the step.
LEMMA StepCases ==
    ASSUME [DaemonNext]_daemonVars
    PROVE  \/ \E d \in Daemons : OwnStep(d)
           \/ \E d \in Daemons : ChildrenStep(d)
           \/ \E d \in Daemons, w \in Writers : MutationStep(d, w)
           \/ LockReplaced \/ AuthorityWithdrawn \/ UNCHANGED daemonVars
BY DEF DaemonNext, OwnStep, ChildrenStep

\* The steps of Withdraws, in close() and in start().
Reads(d) == \/ ReadsHandshake(d, "quiet", "named", "releasing")
            \/ ReadsHandshake(d, "failing", "found", "failed")
Removes(d) == \/ RemovesHandshake(d, "named", "releasing")
              \/ RemovesHandshake(d, "found", "failed")
Releases(d) == ReleasesLock(d, "releasing") \/ ReleasesLock(d, "failed")

\* What they change, for both.
LEMMA WithdrawalSteps ==
    ASSUME NEW d \in Daemons
    PROVE  /\ Reads(d) =>
                \E from \in {"quiet", "failing"},
                   to \in {"named", "releasing", "found", "failed"} :
                  /\ Goes(d, from, to)
                  /\ from = "failing" <=> to \in {"found", "failed"}
                  /\ UNCHANGED <<file, held, path, handshake, writeVars, childVars, authority,
                                 epoch, kills>>
           /\ Removes(d) =>
                \E from \in {"named", "found"}, to \in {"releasing", "failed"} :
                  /\ Goes(d, from, to)
                  /\ from = "found" <=> to = "failed"
                  /\ handshake' = None
                  /\ UNCHANGED <<file, held, path, writeVars, childVars, authority, epoch, kills>>
           /\ Releases(d) =>
                \E from \in {"releasing", "failed"} :
                  /\ Goes(d, from, "released")
                  /\ held' = [held EXCEPT ![d] = FALSE] /\ file' = [file EXCEPT ![d] = 0]
                  /\ homeLock' = [homeLock EXCEPT ![d] = IF @ = Main THEN None ELSE @]
                  /\ UNCHANGED <<path, handshake, writer, storeLock, lastEpoch, late, childVars,
                                 authority, epoch, kills>>
<1>1. ASSUME NEW from, NEW named, NEW done, ReadsHandshake(d, from, named, done)
      PROVE  /\ Goes(d, from, named) \/ Goes(d, from, done)
             /\ UNCHANGED <<file, held, path, handshake, writeVars, childVars, authority,
                            epoch, kills>>
  BY <1>1 DEF ReadsHandshake, Goes
<1>. QED BY <1>1 DEF Reads, Removes, Releases, RemovesHandshake, ReleasesLock

\* The ways a daemon ends are one step.
LEMMA Ends ==
    ASSUME NEW d \in Daemons, OwnStep(d)
    PROVE  \/ OpensLock(d)
           \/ TriesLock(d) /\ ~(\E e \in Daemons : held[e] /\ file[e] = file[d])
           \/ ConfirmsLock(d) /\ LeaseHeld(d)
           \/ WritesHandshake(d) \/ Starts(d) \/ StartFails(d)
           \/ Closes(d) \/ EndsChildren(d) \/ Quiesces(d)
           \/ Reads(d) \/ Removes(d) \/ Releases(d)
           \/ Dies(d) /\ Alive(d) /\ (UNCHANGED kills \/ (kills < MaxKills /\ kills' = kills + 1))
BY DEF OwnStep, ProcessStep, Killed, TriesLock, ConfirmsLock, QuiesceTimesOut, Exits, Alive,
       Withdraws, Reads, Removes, Releases

-----------------------------------------------------------------------------
(* Types, and who has which lock *)

\* Every step keeps the types; a released home lock was the closing thread's.
LEMMA TypeStep ==
    ASSUME DaemonTypeOK, HomeInv, IsFiniteSet(Started), [DaemonNext]_daemonVars
    PROVE  DaemonTypeOK'
<1>. USE DaemonAssumption
<1>1. ASSUME NEW d \in Daemons, OwnStep(d)
      PROVE  DaemonTypeOK'
  <2>1. CASE Dies(d) /\ (UNCHANGED kills \/ (kills < MaxKills /\ kills' = kills + 1))
    BY <2>1 DEF Dies, DaemonTypeOK, childVars
  <2>2. CASE OpensLock(d)
    BY <2>2 DEF OpensLock, Goes, DaemonTypeOK, writeVars, childVars
  <2>3. CASE TriesLock(d) /\ ~(\E e \in Daemons : held[e] /\ file[e] = file[d])
    <3>1. /\ proc' = [proc EXCEPT ![d] = "locked"] /\ held' = [held EXCEPT ![d] = TRUE]
          /\ UNCHANGED <<file, path, handshake, writeVars, childVars, authority, epoch, kills>>
      BY <2>3 DEF TriesLock, Goes
    <3>. QED BY <3>1 DEF DaemonTypeOK, writeVars, childVars
  <2>4. CASE ConfirmsLock(d) /\ LeaseHeld(d)
    <3>1. Cardinality(Started) + 1 \in Nat
      BY FS_CardinalityType
    <3>2. epoch' \in [Daemons -> Nat]
      <4>1. epoch' = [epoch EXCEPT ![d] = Cardinality(Started) + 1]
        BY <2>4 DEF ConfirmsLock, Started
      <4>. QED BY <3>1, <4>1 DEF DaemonTypeOK
    <3>3. /\ proc' = [proc EXCEPT ![d] = "leased"]
          /\ UNCHANGED <<file, held, path, handshake, writeVars, childVars, authority, kills>>
      BY <2>4 DEF ConfirmsLock, Goes
    <3>. QED BY <3>2, <3>3 DEF DaemonTypeOK, writeVars, childVars
  <2>5. CASE Closes(d)
    BY <2>5 DEF Closes, Goes, DaemonTypeOK, writeVars, childVars
  <2>6. CASE EndsChildren(d)
    BY <2>6 DEF EndsChildren, Ended, Goes, DaemonTypeOK, writeVars
  <2>7. CASE Quiesces(d)
    BY <2>7 DEF Quiesces, Drains, Goes, DaemonTypeOK, childVars
  <2>8. CASE Reads(d)
    <3>1. PICK to \in {"named", "releasing", "found", "failed"} :
             /\ proc' = [proc EXCEPT ![d] = to]
             /\ UNCHANGED <<file, held, path, handshake, writeVars, childVars, authority,
                            epoch, kills>>
      BY <2>8, WithdrawalSteps DEF Goes
    <3>. QED BY <3>1 DEF DaemonTypeOK, writeVars, childVars
  <2>9. CASE Removes(d)
    <3>1. PICK to \in {"releasing", "failed"} :
             /\ proc' = [proc EXCEPT ![d] = to] /\ handshake' = None
             /\ UNCHANGED <<file, held, path, writeVars, childVars, authority, epoch, kills>>
      BY <2>9, WithdrawalSteps DEF Goes
    <3>. QED BY <3>1 DEF DaemonTypeOK, writeVars, childVars
  <2>10. CASE Releases(d)
    <3>1. PICK from \in {"releasing", "failed"} : Goes(d, from, "released")
      BY <2>10, WithdrawalSteps
    <3>2. \A e \in Daemons :
             homeLock'[e] = IF e = d /\ homeLock[d] = Main THEN None ELSE homeLock[e]
      BY <2>10, WithdrawalSteps DEF DaemonTypeOK
    <3>3. homeLock' \in [Daemons -> Writers \cup {Main, None}]
      <4>1. homeLock' = [homeLock EXCEPT ![d] = IF @ = Main THEN None ELSE @]
        BY <2>10, WithdrawalSteps
      <4>. QED BY <4>1 DEF DaemonTypeOK
    <3>4. /\ held' = [held EXCEPT ![d] = FALSE] /\ file' = [file EXCEPT ![d] = 0]
          /\ UNCHANGED <<path, handshake, writer, storeLock, lastEpoch, late, childVars,
                         authority, epoch, kills>>
      BY <2>10, WithdrawalSteps
    <3>. QED BY <3>1, <3>2, <3>3, <3>4 DEF Goes, DaemonTypeOK, childVars
  <2>11. CASE WritesHandshake(d)
    BY <2>11 DEF WritesHandshake, Goes, DaemonTypeOK, writeVars, childVars
  <2>12. CASE Starts(d) \/ StartFails(d)
    BY <2>12 DEF Starts, StartFails, Goes, DaemonTypeOK, writeVars, childVars
  <2>. QED BY <1>1, <2>1, <2>2, <2>3, <2>4, <2>5, <2>6, <2>7, <2>8, <2>9, <2>10, <2>11, <2>12,
           Ends
<1>2. ASSUME NEW d \in Daemons, ChildrenStep(d)
      PROVE  DaemonTypeOK'
  <2>1. UNCHANGED <<leaseVars, writeVars, authority, epoch>>
    BY <1>2, ChildFrame
  <2>2. /\ guardian' \in [Daemons -> {"none", "new", "checked", "watching", "gone"}]
        /\ executor' \in [Daemons -> BOOLEAN] /\ kills' \in 0..MaxKills
    <3>. USE DEF DaemonTypeOK, ChildMoves
    <3>1. CASE Launches(d)
      BY <3>1 DEF Launches
    <3>2. CASE GuardianChecks(d)
      BY <3>2 DEF GuardianChecks
    <3>3. CASE GuardianStartsExecutor(d)
      BY <3>3 DEF GuardianStartsExecutor
    <3>4. CASE GuardianKillsGroup(d) \/ JobEnds(d)
      <4>1. guardian[d] = "watching" /\ Ended(d) /\ ChildMoves
        BY <3>4 DEF GuardianKillsGroup, JobEnds
      <4>. QED BY <4>1 DEF Ended
    <3>5. CASE GuardianCrashes(d)
      BY <3>5, DaemonAssumption DEF GuardianCrashes
    <3>6. CASE Reaps(d)
      BY <3>6 DEF Reaps
    <3>. QED BY <1>2, <3>1, <3>2, <3>3, <3>4, <3>5, <3>6 DEF ChildrenStep, ChildStep
  <2>. QED BY <2>1, <2>2 DEF DaemonTypeOK, leaseVars, writeVars
<1>3. ASSUME NEW d \in Daemons, NEW w \in Writers, MutationStep(d, w)
      PROVE  DaemonTypeOK'
  <2>. USE DEF DaemonTypeOK, Steps, StillThere, leaseVars, childVars
  <2>1. CASE Asks(d, w)
    BY <2>1 DEF Asks
  <2>2. CASE TakesHomeLock(d, w)
    BY <2>2 DEF TakesHomeLock
  <2>3. CASE ChecksAgain(d, w)
    BY <2>3 DEF ChecksAgain
  <2>4. CASE TakesStoreLock(d, w)
    BY <2>4 DEF TakesStoreLock
  <2>5. CASE Enters(d, w)
    BY <2>5 DEF Enters
  <2>6. CASE Commits(d, w)
    BY <2>6 DEF Commits, Leaves, StoreLockAfter
  <2>7. CASE Fails(d, w)
    BY <2>7 DEF Fails, Leaves, StoreLockAfter
  <2>. QED BY <1>3, <2>1, <2>2, <2>3, <2>4, <2>5, <2>6, <2>7 DEF MutationStep
<1>4. CASE LockReplaced
  BY <1>4 DEF LockReplaced, DaemonTypeOK, writeVars, childVars
<1>5. CASE AuthorityWithdrawn
  BY <1>5 DEF AuthorityWithdrawn, DaemonTypeOK, leaseVars, writeVars, childVars
<1>6. CASE UNCHANGED daemonVars
  BY <1>6 DEF daemonVars, DaemonTypeOK, leaseVars, writeVars, childVars
<1>. QED BY <1>1, <1>2, <1>3, <1>4, <1>5, <1>6, StepCases

\* From quiesce_mutations to the release, the closing thread has the home lock.
LEMMA HomeStep ==
    ASSUME DaemonTypeOK, HomeInv, [DaemonNext]_daemonVars
    PROVE  HomeInv'
<1>. USE DaemonAssumption DEF HomeInv, Quiesced, Idle, Undisturbed, DaemonTypeOK
<1>1. ASSUME NEW d \in Daemons, OwnStep(d)
      PROVE  HomeInv'
  <2>1. CASE Dies(d)
    BY <2>1 DEF Dies
  <2>2. CASE OpensLock(d) \/ Closes(d)
    BY <2>2 DEF OpensLock, Closes, Goes, writeVars
  <2>3. CASE TriesLock(d) /\ ~(\E e \in Daemons : held[e] /\ file[e] = file[d])
    <3>1. proc' = [proc EXCEPT ![d] = "locked"] /\ UNCHANGED <<writer, homeLock>>
      BY <2>3 DEF TriesLock, Goes, writeVars
    <3>. QED BY <3>1
  <2>4. CASE ConfirmsLock(d) /\ LeaseHeld(d)
    <3>1. proc' = [proc EXCEPT ![d] = "leased"] /\ UNCHANGED <<writer, homeLock>>
      BY <2>4 DEF ConfirmsLock, Goes, writeVars
    <3>. QED BY <3>1
  <2>5. CASE EndsChildren(d)
    BY <2>5 DEF EndsChildren, Goes, writeVars
  <2>6. CASE Quiesces(d)
    BY <2>6 DEF Quiesces, Drains, Goes
  <2>7. CASE Reads(d) \/ Removes(d)
    <3>1. PICK from \in {"quiet", "failing", "named", "found"},
                to \in {"named", "releasing", "found", "failed"} :
             /\ Goes(d, from, to) /\ UNCHANGED <<writer, homeLock>>
             /\ from \in {"failing", "found"} <=> to \in {"found", "failed"}
      BY <2>7, WithdrawalSteps DEF writeVars
    <3>. QED BY <3>1 DEF Goes
  <2>8. CASE Releases(d)
    <3>1. PICK from \in {"releasing", "failed"} : Goes(d, from, "released")
      BY <2>8, WithdrawalSteps
    <3>2. UNCHANGED writer /\ \A e \in Daemons : e # d => homeLock'[e] = homeLock[e]
      BY <2>8, WithdrawalSteps
    <3>. QED BY <3>1, <3>2 DEF Goes
  <2>9. CASE WritesHandshake(d) \/ Starts(d) \/ StartFails(d)
    BY <2>9 DEF WritesHandshake, Starts, StartFails, Goes, writeVars
  <2>. QED BY <1>1, <2>1, <2>2, <2>3, <2>4, <2>5, <2>6, <2>7, <2>8, <2>9, Ends
<1>2. ASSUME NEW d \in Daemons, ChildrenStep(d)
      PROVE  HomeInv'
  BY <1>2, ChildFrame DEF leaseVars, writeVars
<1>3. ASSUME NEW d \in Daemons, NEW w \in Writers, MutationStep(d, w)
      PROVE  HomeInv'
  <2>1. \A e \in Daemons : homeLock[e] = Main => homeLock'[e] = Main
    BY <1>3 DEF MutationStep, Asks, TakesHomeLock, ChecksAgain, TakesStoreLock, Enters,
                Commits, Fails, Leaves, StillThere
  <2>2. \A e \in Daemons : proc[e] \in Idle => e # d \/ ~Asks(d, w)
    BY DEF Asks
  <2>3. ASSUME NEW e \in Daemons, proc[e] \in Idle, Undisturbed(e)
        PROVE  Undisturbed(e)'
    <3>1. CASE e # d
      BY <1>3, <2>3, <3>1 DEF MutationStep, Asks, TakesHomeLock, ChecksAgain, TakesStoreLock,
                              Enters, Commits, Fails, Leaves, Steps
    <3>2. CASE e = d
      BY <1>3, <2>2, <2>3, <3>2 DEF MutationStep, TakesHomeLock, ChecksAgain, TakesStoreLock,
                                    Enters, Commits, Fails, Steps
    <3>. QED BY <3>1, <3>2
  <2>. QED BY <1>3, <2>1, <2>3, MutationFrame DEF leaseVars
<1>4. CASE LockReplaced \/ AuthorityWithdrawn \/ UNCHANGED daemonVars
  BY <1>4 DEF LockReplaced, AuthorityWithdrawn, daemonVars, leaseVars, writeVars
<1>. QED BY <1>1, <1>2, <1>3, <1>4, StepCases

-----------------------------------------------------------------------------
(* The lease *)

\* One holder per file: a daemon takes the lock when nobody has it, and what it
\* opened is the file the path named then.
LEMMA LeaseStep ==
    ASSUME DaemonTypeOK, LeaseInv, [DaemonNext]_daemonVars
    PROVE  LeaseInv'
<1>. USE DaemonAssumption DEF LeaseInv, Holding, DaemonTypeOK
<1>1. ASSUME NEW d \in Daemons, OwnStep(d)
      PROVE  LeaseInv'
  <2>1. CASE Dies(d)
    BY <2>1 DEF Dies
  <2>2. CASE OpensLock(d)
    BY <2>2 DEF OpensLock, Goes
  <2>3. CASE TriesLock(d) /\ ~(\E e \in Daemons : held[e] /\ file[e] = file[d])
    <3>1. /\ proc' = [proc EXCEPT ![d] = "locked"] /\ held' = [held EXCEPT ![d] = TRUE]
          /\ UNCHANGED <<file, path>> /\ proc[d] = "opened"
      BY <2>3 DEF TriesLock, Goes
    <3>2. \A e \in Daemons : held[e] => file[e] # file[d]
      BY <2>3
    <3>. QED BY <3>1, <3>2
  <2>4. CASE ConfirmsLock(d) /\ LeaseHeld(d)
    <3>1. Goes(d, "locked", "leased") /\ UNCHANGED <<file, held, path>>
      BY <2>4 DEF ConfirmsLock
    <3>. QED BY <3>1 DEF Goes
  <2>5. CASE \/ Closes(d) \/ EndsChildren(d) \/ Quiesces(d)
             \/ WritesHandshake(d) \/ Starts(d)
    <3>1. PICK from, to \in Holding : Goes(d, from, to) /\ UNCHANGED <<file, held, path>>
      BY <2>5 DEF Closes, EndsChildren, Quiesces, WritesHandshake, Starts
    <3>. QED BY <3>1 DEF Goes
  <2>6. CASE Reads(d) \/ Removes(d) \/ StartFails(d)
    <3>1. PICK from, to \in Holding : Goes(d, from, to) /\ UNCHANGED <<file, held, path>>
      BY <2>6, WithdrawalSteps DEF StartFails, Goes
    <3>. QED BY <3>1 DEF Goes
  <2>7. CASE Releases(d)
    <3>1. PICK from \in Holding : Goes(d, from, "released")
      BY <2>7, WithdrawalSteps
    <3>2. /\ held' = [held EXCEPT ![d] = FALSE] /\ file' = [file EXCEPT ![d] = 0]
          /\ UNCHANGED path
      BY <2>7, WithdrawalSteps
    <3>. QED BY <3>1, <3>2 DEF Goes
  <2>. QED BY <1>1, <2>1, <2>2, <2>3, <2>4, <2>5, <2>6, <2>7, Ends
<1>2. ASSUME NEW d \in Daemons, ChildrenStep(d)
      PROVE  LeaseInv'
  BY <1>2, ChildFrame DEF leaseVars
<1>3. ASSUME NEW d \in Daemons, NEW w \in Writers, MutationStep(d, w)
      PROVE  LeaseInv'
  BY <1>3, MutationFrame DEF leaseVars
<1>4. CASE LockReplaced \/ AuthorityWithdrawn \/ UNCHANGED daemonVars
  BY <1>4 DEF LockReplaced, AuthorityWithdrawn, daemonVars, leaseVars
<1>. QED BY <1>1, <1>2, <1>3, <1>4, StepCases

-----------------------------------------------------------------------------
(* The order of the leases *)

\* A confirmed lease gives the next number: the one count above all.
LEMMA StartedNext ==
    ASSUME DaemonTypeOK, EpochInv, NEW d \in Daemons, ConfirmsLock(d), LeaseHeld(d)
    PROVE  /\ epoch[d] = 0 /\ Started' = Started \cup {d}
           /\ IsFiniteSet(Started') /\ Cardinality(Started') = Cardinality(Started) + 1
           /\ Cardinality(Started) \in Nat
           /\ epoch' = [epoch EXCEPT ![d] = Cardinality(Started) + 1]
<1>1. epoch' = [epoch EXCEPT ![d] = Cardinality(Started) + 1] /\ epoch[d] = 0
  BY DEF ConfirmsLock, Goes, EpochInv, Started
<1>2. Cardinality(Started) \in Nat /\ IsFiniteSet(Started)
  BY FS_CardinalityType DEF EpochInv
<1>3. Started' = Started \cup {d} /\ d \notin Started
  <2>1. \A e \in Daemons : epoch'[e] = IF e = d THEN Cardinality(Started) + 1 ELSE epoch[e]
    BY <1>1 DEF DaemonTypeOK
  <2>2. Cardinality(Started) + 1 > 0
    BY <1>2
  <2>. QED BY <1>1, <2>1, <2>2 DEF Started
<1>4. IsFiniteSet(Started') /\ Cardinality(Started') = Cardinality(Started) + 1
  BY <1>2, <1>3, FS_AddElement
<1>. QED BY <1>1, <1>2, <1>3, <1>4

\* Who holds the lock of the file the path names is the youngest: an older one
\* that still runs has the lock of a file that was replaced.
LEMMA EpochStep ==
    ASSUME DaemonTypeOK, LeaseInv, EpochInv, WriteInv, [DaemonNext]_daemonVars
    PROVE  EpochInv'
<1>. USE DaemonAssumption
<1>1. ASSUME NEW d \in Daemons, ConfirmsLock(d), LeaseHeld(d)
      PROVE  EpochInv'
  <2>. DEFINE n == Cardinality(Started)
  <2>1. /\ epoch[d] = 0 /\ IsFiniteSet(Started') /\ Cardinality(Started)' = n + 1 /\ n \in Nat
        /\ epoch' = [epoch EXCEPT ![d] = n + 1]
    BY <1>1, StartedNext
  <2>2. /\ proc' = [proc EXCEPT ![d] = "leased"] /\ proc[d] = "locked"
        /\ UNCHANGED <<file, held, path, lastEpoch>>
    BY <1>1 DEF ConfirmsLock, Goes, writeVars
  <2>3. \A e \in Daemons : epoch[e] <= n /\ epoch[e] \in Nat
    BY DEF EpochInv, DaemonTypeOK
  <2>4. \A e \in Daemons : epoch'[e] = IF e = d THEN n + 1 ELSE epoch[e]
    BY <2>1 DEF DaemonTypeOK
  <2>5. \A e \in Daemons : epoch'[e] <= n + 1
    BY <2>1, <2>3, <2>4
  <2>6. \A e \in Daemons : LeaseHeld(e) => e = d
    BY <1>1 DEF LeaseHeld, LeaseInv
  <2>7. \A e \in Daemons : LeaseHeld(e)' <=> LeaseHeld(e)
    BY <2>2 DEF LeaseHeld
  <2>8. lastEpoch' = 0 \/ \E e \in Daemons : lastEpoch' = epoch'[e]
    <3>1. CASE lastEpoch = 0
      BY <3>1, <2>2
    <3>2. CASE lastEpoch # 0
      <4>1. PICK e \in Daemons : lastEpoch = epoch[e]
        BY <3>2 DEF EpochInv
      <4>. QED BY <4>1, <3>2, <2>1, <2>2, <2>4
    <3>. QED BY <3>1, <3>2
  <2>9. /\ \A e \in Daemons : proc'[e] \in {"absent", "opened", "locked"} => epoch'[e] = 0
        /\ \A e \in Daemons : proc'[e] \in Leased => epoch'[e] > 0
    BY <2>1, <2>2, <2>4 DEF EpochInv, DaemonTypeOK, Leased, Holding
  <2>. QED BY <2>1, <2>4, <2>5, <2>6, <2>7, <2>8, <2>9 DEF EpochInv
<1>2. ASSUME UNCHANGED <<epoch, lastEpoch>>,
             \A e \in Daemons : LeaseHeld(e)' /\ epoch[e] > 0 => LeaseHeld(e),
             \A e \in Daemons : proc'[e] \in {"absent", "opened", "locked"} =>
                                   proc[e] \in {"absent", "opened", "locked"},
             \A e \in Daemons : proc'[e] \in Leased => proc[e] \in Leased
      PROVE  EpochInv'
  BY <1>2 DEF EpochInv, Started
<1>3. ASSUME NEW d \in Daemons, OwnStep(d)
      PROVE  EpochInv'
  <2>. USE DEF DaemonTypeOK, LeaseHeld, Leased, Holding, writeVars
  <2>1. CASE Dies(d)
    BY <2>1, <1>2 DEF Dies
  <2>2. CASE OpensLock(d)
    BY <2>2, <1>2 DEF OpensLock, Goes, LeaseInv, Holding
  <2>3. CASE TriesLock(d) /\ ~(\E e \in Daemons : held[e] /\ file[e] = file[d])
    <3>1. /\ proc' = [proc EXCEPT ![d] = "locked"] /\ held' = [held EXCEPT ![d] = TRUE]
          /\ UNCHANGED <<file, path, epoch, lastEpoch>> /\ proc[d] = "opened"
      BY <2>3 DEF TriesLock, Goes
    <3>2. epoch[d] = 0
      BY <3>1 DEF EpochInv
    <3>. QED BY <3>1, <3>2, <1>2
  <2>4. CASE ConfirmsLock(d) /\ LeaseHeld(d)
    BY <2>4, <1>1
  <2>5. CASE Closes(d)
    BY <2>5, <1>2 DEF Closes, Goes
  <2>6. CASE EndsChildren(d)
    BY <2>6, <1>2 DEF EndsChildren, Goes
  <2>7. CASE Quiesces(d)
    BY <2>7, <1>2 DEF Quiesces, Goes
  <2>8. CASE Reads(d)
    BY <2>8, <1>2 DEF Reads, ReadsHandshake
  <2>9. CASE Removes(d)
    BY <2>9, <1>2 DEF Removes, RemovesHandshake, Goes
  <2>10. CASE Releases(d)
    BY <2>10, <1>2 DEF Releases, ReleasesLock, Goes
  <2>11. CASE WritesHandshake(d) \/ Starts(d) \/ StartFails(d)
    BY <2>11, <1>2 DEF WritesHandshake, Starts, StartFails, Goes
  <2>. QED BY <1>3, <2>1, <2>2, <2>3, <2>4, <2>5, <2>6, <2>7, <2>8, <2>9, <2>10, <2>11, Ends
<1>4. ASSUME NEW d \in Daemons, ChildrenStep(d)
      PROVE  EpochInv'
  BY <1>2, <1>4, ChildFrame DEF leaseVars, writeVars, LeaseHeld
<1>5. ASSUME NEW d \in Daemons, NEW w \in Writers, MutationStep(d, w)
      PROVE  EpochInv'
  <2>1. UNCHANGED <<proc, file, held, path, epoch>>
    BY <1>5, MutationFrame DEF leaseVars
  <2>2. lastEpoch' = lastEpoch \/ lastEpoch' = epoch[d]
    BY <1>5 DEF MutationStep, Asks, TakesHomeLock, ChecksAgain, TakesStoreLock, Enters,
                Commits, Fails
  <2>. QED BY <2>1, <2>2 DEF EpochInv, Started, LeaseHeld
<1>6. CASE LockReplaced
  <2>1. \A e \in Daemons : ~LeaseHeld(e)'
    <3>1. path' = path + 1 /\ UNCHANGED <<file, held>>
      BY <1>6 DEF LockReplaced
    <3>2. \A e \in Daemons : held[e] => file[e] \in 1..path
      BY DEF LeaseInv, Holding
    <3>. QED BY <3>1, <3>2 DEF LeaseHeld, DaemonTypeOK
  <2>. QED BY <1>2, <1>6, <2>1 DEF LockReplaced, writeVars
<1>7. CASE AuthorityWithdrawn \/ UNCHANGED daemonVars
  BY <1>2, <1>7 DEF AuthorityWithdrawn, daemonVars, leaseVars, writeVars, LeaseHeld
<1>. QED BY <1>3, <1>4, <1>5, <1>6, <1>7, StepCases

-----------------------------------------------------------------------------
(* Mutations *)

\* The two locks admit one body at a time, in any daemon.
LEMMA OneBody ==
    ASSUME DaemonTypeOK, NEW d \in Daemons, NEW w \in Writers, writer[d][w] = "body",
           NEW e \in Daemons, NEW v \in Writers, writer[e][v] = "body"
    PROVE  e = d /\ v = w
BY DEF DaemonTypeOK

\* Only a daemon that passes the last check of the lease begins a body, and then
\* it is as young as whoever committed before; a commit ends the only body.
LEMMA WriteStep ==
    ASSUME DaemonTypeOK, HomeInv, LeaseInv, EpochInv, WriteInv, [DaemonNext]_daemonVars
    PROVE  WriteInv'
<1>. USE DaemonAssumption
<1>1. ASSUME UNCHANGED <<writer, lastEpoch>>,
             \A e \in Daemons : epoch[e] > 0 => epoch'[e] = epoch[e],
             \A e \in Daemons, v \in Writers : writer[e][v] = "body" /\ held[e] => held'[e]
      PROVE  WriteInv'
  BY <1>1 DEF WriteInv
<1>2. ASSUME NEW d \in Daemons, OwnStep(d)
      PROVE  WriteInv'
  <2>. USE DEF DaemonTypeOK, writeVars
  <2>1. CASE Dies(d)
    BY <2>1 DEF Dies, WriteInv
  <2>2. CASE OpensLock(d)
    BY <2>2, <1>1 DEF OpensLock
  <2>3. CASE TriesLock(d) /\ ~(\E e \in Daemons : held[e] /\ file[e] = file[d])
    BY <2>3, <1>1 DEF TriesLock
  <2>4. CASE ConfirmsLock(d) /\ LeaseHeld(d)
    <3>1. epoch[d] = 0 /\ UNCHANGED <<writer, lastEpoch, held>>
      BY <2>4 DEF ConfirmsLock, EpochInv
    <3>2. \A e \in Daemons : e # d => epoch'[e] = epoch[e]
      BY <2>4 DEF ConfirmsLock
    <3>. QED BY <3>1, <3>2, <1>1
  <2>5. CASE Closes(d)
    BY <2>5, <1>1 DEF Closes
  <2>6. CASE EndsChildren(d)
    BY <2>6, <1>1 DEF EndsChildren
  <2>7. CASE Quiesces(d)
    BY <2>7, <1>1 DEF Quiesces
  <2>8. CASE Reads(d)
    BY <2>8, <1>1 DEF Reads, ReadsHandshake
  <2>9. CASE Removes(d)
    BY <2>9, <1>1 DEF Removes, RemovesHandshake
  <2>10. CASE Releases(d)
    <3>1. homeLock[d] = Main \/ Undisturbed(d)
      BY <2>10 DEF Releases, ReleasesLock, Goes, HomeInv, Quiesced, Idle
    <3>2. \A v \in Writers : writer[d][v] # "body"
      BY <3>1 DEF Undisturbed
    <3>3. \A e \in Daemons : e # d => held'[e] = held[e]
      BY <2>10 DEF Releases, ReleasesLock
    <3>4. UNCHANGED <<writer, lastEpoch, epoch>>
      BY <2>10 DEF Releases, ReleasesLock
    <3>. QED BY <3>2, <3>3, <3>4, <1>1
  <2>11. CASE WritesHandshake(d) \/ Starts(d) \/ StartFails(d)
    BY <2>11, <1>1 DEF WritesHandshake, Starts, StartFails
  <2>. QED BY <1>2, <2>1, <2>2, <2>3, <2>4, <2>5, <2>6, <2>7, <2>8, <2>9, <2>10, <2>11, Ends
<1>3. ASSUME NEW d \in Daemons, ChildrenStep(d)
      PROVE  WriteInv'
  BY <1>1, <1>3, ChildFrame DEF leaseVars, writeVars
<1>4. ASSUME NEW d \in Daemons, NEW w \in Writers, MutationStep(d, w)
      PROVE  WriteInv'
  <2>1. UNCHANGED <<held, epoch>>
    BY <1>4, MutationFrame DEF leaseVars
  <2>2. CASE Asks(d, w)
    <3>1. epoch[d] > 0
      BY <2>2 DEF Asks, EpochInv, Leased, Holding
    <3>. QED BY <2>1, <2>2, <3>1 DEF Asks, Steps, WriteInv, DaemonTypeOK
  <2>3. CASE TakesHomeLock(d, w) \/ ChecksAgain(d, w) \/ TakesStoreLock(d, w)
    <3>1. PICK from, to \in {"admitted", "home", "waiting", "store"} :
             Steps(d, w, from, to) /\ UNCHANGED lastEpoch
      BY <2>3 DEF TakesHomeLock, ChecksAgain, TakesStoreLock
    <3>. QED BY <2>1, <3>1 DEF Steps, WriteInv, DaemonTypeOK
  <2>4. CASE Enters(d, w)
    <3>1. /\ held[d] /\ LeaseHeld(d) /\ UNCHANGED lastEpoch /\ epoch[d] > 0
          /\ Steps(d, w, "store", "body")
      BY <2>4 DEF Enters, MayWrite, LeaseHeld, Steps, WriteInv
    <3>2. \A e \in Daemons : epoch[e] <= epoch[d]
      BY <3>1 DEF EpochInv
    <3>3. lastEpoch <= epoch[d]
      BY <3>1, <3>2 DEF EpochInv, DaemonTypeOK
    <3>. QED BY <2>1, <3>1, <3>3 DEF Steps, WriteInv, DaemonTypeOK
  <2>5. CASE Commits(d, w)
    <3>1. writer[d][w] = "body" /\ writer' = [writer EXCEPT ![d][w] = "idle"]
      BY <2>5 DEF Commits, Leaves
    <3>2. \A e \in Daemons, v \in Writers : writer'[e][v] # "body"
      BY <3>1, OneBody DEF DaemonTypeOK
    <3>3. \A e \in Daemons, v \in Writers : writer'[e][v] # "idle" => writer[e][v] # "idle"
      BY <3>1 DEF DaemonTypeOK
    <3>. QED BY <2>1, <3>2, <3>3 DEF WriteInv
  <2>6. CASE Fails(d, w)
    <3>1. writer' = [writer EXCEPT ![d][w] = "idle"] /\ UNCHANGED lastEpoch
      BY <2>6 DEF Fails, Leaves
    <3>. QED BY <2>1, <3>1 DEF WriteInv, DaemonTypeOK
  <2>. QED BY <1>4, <2>2, <2>3, <2>4, <2>5, <2>6 DEF MutationStep
<1>5. CASE LockReplaced \/ AuthorityWithdrawn \/ UNCHANGED daemonVars
  BY <1>1, <1>5 DEF LockReplaced, AuthorityWithdrawn, daemonVars, leaseVars, writeVars
<1>. QED BY <1>2, <1>3, <1>4, <1>5, StepCases

\* Without the authority no body begins, so the one under way is the last.
LEMMA LateStep ==
    ASSUME DaemonTypeOK, LateInv, [DaemonNext]_daemonVars
    PROVE  LateInv'
<1>. USE DaemonAssumption
<1>1. ASSUME UNCHANGED late, ~authority => ~authority',
             \A e \in Daemons, v \in Writers :
                writer'[e][v] = "body" => writer[e][v] = "body" \/ authority
      PROVE  LateInv'
  BY <1>1 DEF LateInv
<1>2. ASSUME NEW d \in Daemons, OwnStep(d)
      PROVE  LateInv'
  <2>1. CASE Dies(d)
    BY <2>1, <1>1 DEF Dies, DaemonTypeOK
  <2>2. CASE ~Dies(d)
    <3>1. UNCHANGED <<writer, late, authority>>
      BY <1>2, <2>2, Ends DEF OpensLock, TriesLock, ConfirmsLock, WritesHandshake, Starts,
                              StartFails, Closes, EndsChildren, Quiesces,
                              Reads, Removes, Releases, ReadsHandshake, RemovesHandshake,
                              ReleasesLock, writeVars
    <3>. QED BY <3>1, <1>1
  <2>. QED BY <2>1, <2>2
<1>3. ASSUME NEW d \in Daemons, ChildrenStep(d)
      PROVE  LateInv'
  BY <1>1, <1>3, ChildFrame DEF writeVars
<1>4. ASSUME NEW d \in Daemons, NEW w \in Writers, MutationStep(d, w)
      PROVE  LateInv'
  <2>1. UNCHANGED authority
    BY <1>4, MutationFrame
  <2>2. CASE Commits(d, w)
    <3>1. /\ writer[d][w] = "body" /\ writer' = [writer EXCEPT ![d][w] = "idle"]
          /\ late' = late + (IF authority THEN 0 ELSE 1)
      BY <2>2 DEF Commits, Leaves
    <3>2. \A e \in Daemons, v \in Writers : writer'[e][v] # "body"
      BY <3>1, OneBody DEF DaemonTypeOK
    <3>3. late = 0
      BY <3>1 DEF LateInv
    <3>. QED BY <2>1, <3>1, <3>2, <3>3 DEF LateInv
  <2>3. CASE Enters(d, w)
    BY <2>3, <2>1, <1>1 DEF Enters, MayWrite
  <2>4. CASE ~Commits(d, w) /\ ~Enters(d, w)
    <3>1. /\ UNCHANGED late
          /\ \E to \in {"admitted", "home", "waiting", "store", "idle"} :
               writer' = [writer EXCEPT ![d][w] = to]
      BY <1>4, <2>4 DEF MutationStep, Asks, TakesHomeLock, ChecksAgain, TakesStoreLock,
                        Fails, Leaves, Steps
    <3>. QED BY <2>1, <3>1, <1>1 DEF DaemonTypeOK
  <2>. QED BY <2>2, <2>3, <2>4
<1>5. CASE LockReplaced \/ AuthorityWithdrawn \/ UNCHANGED daemonVars
  BY <1>1, <1>5 DEF LockReplaced, AuthorityWithdrawn, daemonVars, writeVars
<1>. QED BY <1>2, <1>3, <1>4, <1>5, StepCases

-----------------------------------------------------------------------------
(* Children *)

\* stop() refuses new children before it ends those it sees; a guardian that is
\* gone starts nothing.
LEMMA ChildInvStep ==
    ASSUME DaemonTypeOK, ChildInv, [DaemonNext]_daemonVars
    PROVE  ChildInv'
<1>. USE DaemonAssumption
<1>1. ASSUME UNCHANGED childVars,
             \A e \in Daemons : proc'[e] \in Childless => proc[e] \in Childless
      PROVE  ChildInv'
  BY <1>1 DEF ChildInv, childVars
<1>2. ASSUME NEW d \in Daemons, OwnStep(d)
      PROVE  ChildInv'
  <2>. USE DEF DaemonTypeOK, Childless, Idle, Quiesced
  <2>1. CASE Dies(d)
    BY <2>1, <1>1 DEF Dies
  <2>2. CASE OpensLock(d)
    BY <2>2, <1>1 DEF OpensLock, Goes
  <2>3. CASE TriesLock(d) /\ ~(\E e \in Daemons : held[e] /\ file[e] = file[d])
    BY <2>3, <1>1 DEF TriesLock, Goes
  <2>4. CASE ConfirmsLock(d) /\ LeaseHeld(d)
    BY <2>4, <1>1 DEF ConfirmsLock, Goes
  <2>5. CASE Closes(d)
    BY <2>5, <1>1 DEF Closes, Goes
  <2>6. CASE EndsChildren(d)
    <3>1. ~executor'[d] /\ guardian'[d] \in {"none", "gone"}
      BY <2>6 DEF EndsChildren, Ended
    <3>2. \A e \in Daemons : e # d => /\ proc'[e] = proc[e] /\ executor'[e] = executor[e]
                                     /\ guardian'[e] = guardian[e]
      BY <2>6 DEF EndsChildren, Ended, Goes
    <3>. QED BY <3>1, <3>2 DEF ChildInv
  <2>7. CASE Quiesces(d)
    BY <2>7, <1>1 DEF Quiesces, Goes
  <2>8. CASE Reads(d)
    BY <2>8, <1>1 DEF Reads, ReadsHandshake
  <2>9. CASE Removes(d)
    BY <2>9, <1>1 DEF Removes, RemovesHandshake, Goes
  <2>10. CASE Releases(d)
    BY <2>10, <1>1 DEF Releases, ReleasesLock, Goes
  <2>11. CASE WritesHandshake(d) \/ Starts(d) \/ StartFails(d)
    BY <2>11, <1>1 DEF WritesHandshake, Starts, StartFails, Goes
  <2>. QED BY <1>2, <2>1, <2>2, <2>3, <2>4, <2>5, <2>6, <2>7, <2>8, <2>9, <2>10, <2>11, Ends
<1>3. ASSUME NEW d \in Daemons, ChildrenStep(d)
      PROVE  ChildInv'
  <2>1. UNCHANGED proc
    BY <1>3, ChildFrame DEF leaseVars
  <2>2. \A e \in Daemons : e # d => executor'[e] = executor[e] /\ guardian'[e] = guardian[e]
    BY <1>3 DEF ChildrenStep, ChildStep, Launches, GuardianChecks, GuardianStartsExecutor,
                GuardianKillsGroup, JobEnds, GuardianCrashes, Reaps, Ended, DaemonTypeOK
  <2>3. CASE proc[d] \in Childless
    <3>1. ~executor[d] /\ guardian[d] \in {"none", "gone"}
      BY <2>3 DEF ChildInv
    <3>2. Reaps(d)
      BY <1>3, <2>3, <3>1 DEF ChildrenStep, ChildStep, Launches, GuardianChecks, Childless, Idle,
           Quiesced, GuardianStartsExecutor, GuardianKillsGroup, JobEnds, GuardianCrashes
    <3>. QED BY <2>1, <2>2, <3>2 DEF Reaps, ChildInv, DaemonTypeOK
  <2>. QED BY <2>1, <2>2, <2>3 DEF ChildInv
<1>4. ASSUME NEW d \in Daemons, NEW w \in Writers, MutationStep(d, w)
      PROVE  ChildInv'
  BY <1>1, <1>4, MutationFrame DEF leaseVars
<1>5. CASE LockReplaced \/ AuthorityWithdrawn \/ UNCHANGED daemonVars
  BY <1>1, <1>5 DEF LockReplaced, AuthorityWithdrawn, daemonVars, leaseVars
<1>. QED BY <1>2, <1>3, <1>4, <1>5, StepCases

-----------------------------------------------------------------------------
(* The handshake *)

\* While the lock file is the first one, who writes or unlinks daemon.json has
\* its lock, and nobody else is up.
LEMMA FindableStep ==
    ASSUME DaemonTypeOK, LeaseInv, FindableInv, [DaemonNext]_daemonVars
    PROVE  FindableInv'
<1>. USE DaemonAssumption
<1>1. ASSUME UNCHANGED handshake, path' = 1 => path = 1,
             \A e \in Daemons : proc'[e] \in Named => proc[e] \in Named
      PROVE  FindableInv'
  BY <1>1 DEF FindableInv
<1>2. ASSUME path = 1, NEW d \in Daemons, proc[d] \in Holding,
             NEW e \in Daemons, proc[e] \in Holding
      PROVE  e = d
  <2>1. file[d] \in 1..1 /\ file[e] \in 1..1 /\ held[d] /\ held[e]
    BY <1>2 DEF LeaseInv
  <2>. QED BY <2>1 DEF LeaseInv
<1>3. ASSUME NEW d \in Daemons, OwnStep(d)
      PROVE  FindableInv'
  <2>. USE DEF DaemonTypeOK, Named
  <2>1. CASE Dies(d)
    BY <2>1, <1>1 DEF Dies
  <2>2. CASE OpensLock(d)
    BY <2>2, <1>1 DEF OpensLock, Goes
  <2>3. CASE TriesLock(d) /\ ~(\E e \in Daemons : held[e] /\ file[e] = file[d])
    BY <2>3, <1>1 DEF TriesLock, Goes
  <2>4. CASE WritesHandshake(d)
    <3>1. /\ proc[d] = "leased" /\ handshake' = d /\ UNCHANGED path
          /\ proc' = [proc EXCEPT ![d] = "written"]
      BY <2>4 DEF WritesHandshake, Goes
    <3>2. ASSUME path = 1, NEW e \in Daemons, proc'[e] \in Named
          PROVE  e = d
      BY <3>1, <3>2, <1>2 DEF Holding
    <3>. QED BY <3>1, <3>2 DEF FindableInv
  <2>5. CASE Closes(d)
    BY <2>5, <1>1 DEF Closes, Goes
  <2>6. CASE EndsChildren(d)
    BY <2>6, <1>1 DEF EndsChildren, Goes
  <2>7. CASE Quiesces(d)
    BY <2>7, <1>1 DEF Quiesces, Goes
  <2>8. CASE Reads(d)
    BY <2>8, <1>1 DEF Reads, ReadsHandshake
  <2>9. CASE Removes(d)
    <3>1. PICK from \in {"named", "found"}, to \in {"releasing", "failed"} :
             proc[d] = from /\ UNCHANGED path /\ proc' = [proc EXCEPT ![d] = to]
      BY <2>9 DEF Removes, RemovesHandshake, Goes
    <3>2. ASSUME path = 1, NEW e \in Daemons
          PROVE  proc'[e] \notin Named
      BY <3>1, <3>2, <1>2 DEF Holding
    <3>. QED BY <3>1, <3>2 DEF FindableInv
  <2>10. CASE Releases(d)
    BY <2>10, <1>1 DEF Releases, ReleasesLock, Goes
  <2>11. CASE (ConfirmsLock(d) /\ LeaseHeld(d)) \/ Starts(d) \/ StartFails(d)
    BY <2>11, <1>1 DEF ConfirmsLock, Starts, StartFails, Goes
  <2>. QED BY <1>3, <2>1, <2>2, <2>3, <2>4, <2>5, <2>6, <2>7, <2>8, <2>9, <2>10, <2>11, Ends
<1>4. ASSUME NEW d \in Daemons, ChildrenStep(d)
      PROVE  FindableInv'
  BY <1>1, <1>4, ChildFrame DEF leaseVars
<1>5. ASSUME NEW d \in Daemons, NEW w \in Writers, MutationStep(d, w)
      PROVE  FindableInv'
  BY <1>1, <1>5, MutationFrame DEF leaseVars
<1>6. CASE LockReplaced
  BY <1>1, <1>6 DEF LockReplaced, DaemonTypeOK
<1>7. CASE AuthorityWithdrawn \/ UNCHANGED daemonVars
  BY <1>1, <1>7 DEF AuthorityWithdrawn, daemonVars, leaseVars
<1>. QED BY <1>3, <1>4, <1>5, <1>6, <1>7, StepCases

-----------------------------------------------------------------------------
(* The theorems *)

DaemonInv == /\ DaemonTypeOK /\ HomeInv /\ LeaseInv /\ EpochInv /\ WriteInv /\ LateInv
             /\ ChildInv /\ FindableInv

\* Before any daemon runs, all of it holds.
LEMMA InitInv == DaemonInit => DaemonInv
<1>. SUFFICES ASSUME DaemonInit PROVE DaemonInv
  OBVIOUS
<1>. USE DaemonAssumption DEF DaemonInit
<1>1. DaemonTypeOK
  BY DEF DaemonTypeOK
<1>2. HomeInv /\ LeaseInv /\ WriteInv /\ LateInv /\ ChildInv /\ FindableInv
  BY DEF HomeInv, Quiesced, Idle, LeaseInv, Holding, WriteInv, LateInv, ChildInv, Childless,
         FindableInv, Named
<1>3. EpochInv
  <2>1. Started = {}
    BY DEF Started
  <2>2. IsFiniteSet(Started) /\ Cardinality(Started) = 0
    BY <2>1, FS_EmptySet
  <2>. QED BY <2>2 DEF EpochInv, Leased, Holding, LeaseHeld
<1>. QED BY <1>1, <1>2, <1>3 DEF DaemonInv

\* The invariant of the daemons, mutations and children together.
THEOREM DaemonSafety == DaemonSpec => []DaemonInv
<1>1. DaemonInv /\ [DaemonNext]_daemonVars => DaemonInv'
  <2>. SUFFICES ASSUME DaemonInv, [DaemonNext]_daemonVars PROVE DaemonInv'
    OBVIOUS
  <2>1. DaemonTypeOK'
    BY TypeStep DEF DaemonInv, EpochInv
  <2>. QED BY <2>1, HomeStep, LeaseStep, EpochStep, WriteStep, LateStep, ChildInvStep,
              FindableStep DEF DaemonInv
<1>. QED BY InitInv, <1>1, PTL DEF DaemonSpec

\* The types of lock files, handshake, threads and children, and that a thread
\* past a lock is the one that has it.
THEOREM DaemonTypeCorrect == DaemonSpec => []DaemonTypeOK
<1>1. DaemonInv => DaemonTypeOK
  BY DEF DaemonInv
<1>. QED BY <1>1, DaemonSafety, PTL

\* quiesce_mutations and the lease: no body runs in a daemon that gave it up.
THEOREM NoWriteAfterRelease == DaemonSpec => []ReleasedWritesNothing
<1>1. DaemonInv => ReleasedWritesNothing
  BY DEF DaemonInv, WriteInv, ReleasedWritesNothing
<1>. QED BY <1>1, DaemonSafety, PTL

\* The last check of the authority: at most one mutation commits without it.
THEOREM AtMostOneLateCommit == DaemonSpec => []OneLateCommit
<1>1. DaemonInv => OneLateCommit
  BY DEF DaemonInv, LateInv, OneLateCommit
<1>. QED BY <1>1, DaemonSafety, PTL

\* daemon.json names the daemon that is up under the first lock file.
THEOREM ServersAreFindable == DaemonSpec => []ServerIsFindable
<1>1. DaemonInv => ServerIsFindable
  BY DEF DaemonInv, FindableInv, Named, ServerIsFindable
<1>. QED BY <1>1, DaemonSafety, PTL

\* stop() and the guardians: no executor is alive once the children are ended.
THEOREM ReleaseIsQuiet == DaemonSpec => []ReleasedIsQuiet
<1>1. DaemonInv => ReleasedIsQuiet
  BY DEF DaemonInv, ChildInv, Childless, ReleasedIsQuiet
<1>. QED BY <1>1, DaemonSafety, PTL

\* _assert_writer_lease under both locks: no daemon commits after a younger one.
THEOREM OlderNeverWrites == DaemonSpec => WritersAreFenced
<1>1. DaemonInv /\ [DaemonNext]_daemonVars => [lastEpoch' >= lastEpoch]_daemonVars
  <2>. SUFFICES ASSUME DaemonInv, [DaemonNext]_daemonVars PROVE lastEpoch' >= lastEpoch
    OBVIOUS
  <2>1. lastEpoch \in Nat
    BY DEF DaemonInv, DaemonTypeOK
  <2>2. ASSUME NEW d \in Daemons, NEW w \in Writers, MutationStep(d, w)
        PROVE  lastEpoch' >= lastEpoch
    <3>1. CASE Commits(d, w)
      BY <3>1, <2>1 DEF Commits, DaemonInv, WriteInv, DaemonTypeOK
    <3>2. CASE ~Commits(d, w)
      BY <2>1, <2>2, <3>2 DEF MutationStep, Asks, TakesHomeLock, ChecksAgain, TakesStoreLock,
                              Enters, Fails
    <3>. QED BY <3>1, <3>2
  <2>3. ASSUME NEW d \in Daemons, OwnStep(d)
        PROVE  UNCHANGED lastEpoch
    BY <2>3, Ends DEF OpensLock, TriesLock, ConfirmsLock, WritesHandshake, Starts,
                      StartFails, Closes, EndsChildren, Quiesces, Dies,
                      Reads, Removes, Releases, ReadsHandshake, RemovesHandshake,
                      ReleasesLock, writeVars
  <2>4. ASSUME NEW d \in Daemons, ChildrenStep(d)
        PROVE  UNCHANGED lastEpoch
    BY <2>4, ChildFrame DEF writeVars
  <2>5. CASE LockReplaced \/ AuthorityWithdrawn \/ UNCHANGED daemonVars
    BY <2>1, <2>5 DEF LockReplaced, AuthorityWithdrawn, daemonVars, writeVars
  <2>. QED BY <2>1, <2>2, <2>3, <2>4, <2>5, StepCases
<1>. QED BY <1>1, DaemonSafety, PTL DEF DaemonSpec, WritersAreFenced
=============================================================================
