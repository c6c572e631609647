---------------------------- MODULE JobContract ----------------------------
(***************************************************************************)
(* What daemon/jobs promises to a client that submitted a job: an ID is    *)
(* accepted at most once and an accepted job is resolved exactly once, as  *)
(* completed or as failed, for good.  Cancellation is not part of the      *)
(* promise: CancelJob only relabels the job and never stops its export.    *)
(***************************************************************************)

CONSTANT Jobs

VARIABLE outcome

Init == outcome = [j \in Jobs |-> "absent"]

Accept(j) == /\ outcome[j] = "absent"
             /\ outcome' = [outcome EXCEPT ![j] = "accepted"]

Resolve(j) == /\ outcome[j] = "accepted"
              /\ \E r \in {"completed", "failed"} :
                    outcome' = [outcome EXCEPT ![j] = r]

Next == \E j \in Jobs : Accept(j) \/ Resolve(j)

Spec == Init /\ [][Next]_outcome
=============================================================================
