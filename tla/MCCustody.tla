------------------------------ MODULE MCCustody ------------------------------
\* Custody for TLC: every invocation is a request of its own, and all are alike.
EXTENDS Custody, TLC

CONSTANTS i1, i2

MCInvocations == {i1, i2}
MCRequestOf == [i \in MCInvocations |-> i]
Alike == Permutations(MCInvocations)
=============================================================================
