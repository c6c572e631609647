----------------------------- MODULE MCVMOperator ----------------------------
(* Instances of VMOperator: one operation, of a kind that makes an object,  *)
(* that changes the machine twice, or that removes it.                      *)
EXTENDS VMOperator, TLC
CONSTANT o1
Setup(k, ha) == [kind |-> [o \in {o1} |-> k], HA |-> ha]
MCSetups == {Setup("CloneSnapshot", FALSE), Setup("Migrate", FALSE),
             Setup("Restart", TRUE), Setup("Delete", TRUE)}
=============================================================================
