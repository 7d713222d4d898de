----------------------------- MODULE MCQuintRun -----------------------------
EXTENDS QuintRun

CONSTANT r1

MCRequests == {r1}
MCInvocations == MCRequests \X {"probe", "command"}
MCRequestOf == [i \in MCInvocations |-> i[1]]
=============================================================================
