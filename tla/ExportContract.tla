--------------------------- MODULE ExportContract ---------------------------
(***************************************************************************)
(* What a caller of ExportOVF (providers/vsphere/export.go) may rely on:   *)
(* calls on one directory, one after the other.  A call adds to the files  *)
(* it finds and takes nothing away before every file has been whole at     *)
(* once; only then can it succeed, and, when it was asked to clean up      *)
(* after packaging, remove files.  It may fail, and the process may die.   *)
(***************************************************************************)
CONSTANTS Files,   \* the files of the virtual machine
          Cleans   \* ExportOptions.CleanupOVF may be set

VARIABLES dir,       \* how much of each file the directory holds
          packaged,  \* this call has had every file whole
          call       \* where the call is

contractVars == <<dir, packaged, call>>

Amounts == {"none", "part", "whole"}

ContractTypeOK ==
    /\ dir \in [Files -> Amounts]
    /\ packaged \in BOOLEAN
    /\ call \in {"idle", "running", "done", "failed"}

ContractInit ==
    /\ dir = [f \in Files |-> "none"]
    /\ packaged = FALSE /\ call = "idle"

Begin ==
    /\ call = "idle" /\ call' = "running"
    /\ UNCHANGED <<dir, packaged>>

Write(f) ==
    /\ call = "running" /\ ~packaged /\ dir[f] # "whole"
    /\ \E amount \in {"part", "whole"} : dir' = [dir EXCEPT ![f] = amount]
    /\ UNCHANGED <<packaged, call>>

Package ==
    /\ call = "running" /\ ~packaged
    /\ \A f \in Files : dir[f] = "whole"
    /\ packaged' = TRUE
    /\ UNCHANGED <<dir, call>>

Clean(f) ==
    /\ Cleans /\ call = "running" /\ packaged
    /\ dir' = [dir EXCEPT ![f] = "none"]
    /\ UNCHANGED <<packaged, call>>

Succeed ==
    /\ call = "running" /\ packaged
    /\ call' = "done"
    /\ UNCHANGED <<dir, packaged>>

Fail ==
    /\ call = "running" /\ ~packaged
    /\ call' = "failed"
    /\ UNCHANGED <<dir, packaged>>

(* The call has returned, or its process died. *)
Over ==
    /\ call # "idle" /\ call' = "idle"
    /\ packaged' = FALSE
    /\ UNCHANGED dir

Working == Package \/ Succeed \/ Fail \/ \E f \in Files : Write(f)

ContractNext == Begin \/ Working \/ Over \/ \E f \in Files : Clean(f)

ContractSpec == ContractInit /\ [][ContractNext]_contractVars
=============================================================================
