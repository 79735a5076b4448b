----------------------------- MODULE JobRequests -----------------------------
(***************************************************************************)
(* What the daemon's scheduler promises of its jobs, without queues, locks *)
(* and threads: a job that is asked for is served once, by its own lane,   *)
(* one job of a lane at a time, as long as the scheduler is open.  Asking  *)
(* again for a job that waits changes nothing; serving it either runs it   *)
(* or turns it down (disabled, paused).                                    *)
(***************************************************************************)
CONSTANTS Jobs, Lanes, LaneOf, NoJob

VARIABLES
    open,     \* the scheduler is started and not stopping
    asked,    \* jobs that wait to be served
    active    \* the job each lane is running

requestVars == <<open, asked, active>>

Idle == [l \in Lanes |-> NoJob]

RequestsInit == open = FALSE /\ asked = {} /\ active = Idle

Open == ~open /\ open' = TRUE /\ asked' \in SUBSET Jobs /\ active' = Idle

Ask == /\ \E more \in SUBSET Jobs : asked' = asked \cup more
       /\ UNCHANGED <<open, active>>

Serve(j) == /\ j \in asked /\ active[LaneOf[j]] = NoJob
            /\ asked' = asked \ {j}
            /\ active' \in {active, [active EXCEPT ![LaneOf[j]] = j]}
            /\ UNCHANGED open

End(l) == /\ active[l] # NoJob
          /\ active' = [active EXCEPT ![l] = NoJob]
          /\ UNCHANGED <<open, asked>>

Close == open /\ open' = FALSE /\ UNCHANGED <<asked, active>>

Gone == open' = FALSE /\ asked' = {} /\ active' = Idle

RequestsNext == \/ Open \/ Ask \/ Close \/ Gone
                \/ \E j \in Jobs : Serve(j)
                \/ \E l \in Lanes : End(l)

RequestsSpec == RequestsInit /\ [][RequestsNext]_requestVars

\* An open scheduler serves what is asked, in spite of the other jobs of the lane.
FairRequestsSpec == RequestsSpec /\ \A j \in Jobs : SF_requestVars(open /\ Serve(j))
=============================================================================
