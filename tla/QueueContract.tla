--------------------------- MODULE QueueContract ---------------------------
(***************************************************************************)
(* What daemon/queue promises of one job: it is run by at most one worker  *)
(* at a time, at most MaxRetries + 1 times, and never again once a run was *)
(* its last.                                                               *)
(***************************************************************************)
EXTENDS Naturals

CONSTANTS Jobs, MaxRetries

VARIABLES phase, runs

Init == /\ phase = [j \in Jobs |-> "absent"]
        /\ runs = [j \in Jobs |-> 0]

Accept(j) == /\ phase[j] = "absent"
             /\ phase' = [phase EXCEPT ![j] = "waiting"]
             /\ UNCHANGED runs

Begin(j) == /\ phase[j] = "waiting"
            /\ runs[j] <= MaxRetries[j]
            /\ phase' = [phase EXCEPT ![j] = "running"]
            /\ runs' = [runs EXCEPT ![j] = @ + 1]

Requeue(j) == /\ phase[j] = "running"
              /\ runs[j] <= MaxRetries[j]
              /\ phase' = [phase EXCEPT ![j] = "waiting"]
              /\ UNCHANGED runs

Finish(j) == /\ phase[j] = "running"
             /\ phase' = [phase EXCEPT ![j] = "finished"]
             /\ UNCHANGED runs

Next == \E j \in Jobs : Accept(j) \/ Begin(j) \/ Requeue(j) \/ Finish(j)

Spec == Init /\ [][Next]_<<phase, runs>>
=============================================================================
