---------------------------- MODULE MCTelemetry ----------------------------
(***************************************************************************)
(* Telemetry for TLC: a turn of one response that is corrected, and one    *)
(* of two responses: the host records the first while the turn runs, the   *)
(* second cannot be read and is the last record when the turn ends, and a  *)
(* correction of the first leaves it as a gap, until one of the second.    *)
(***************************************************************************)
EXTENDS Telemetry

Row(r, k, n, b) == [response |-> r, tokens |-> k, total |-> n, readable |-> b]

Corrected == <<Row(1, 1, 1, TRUE), Row(1, 2, 2, TRUE)>>
Skipped == <<Row(1, 1, 1, TRUE), Row(2, 1, 2, FALSE), Row(1, 2, 3, TRUE), Row(2, 2, 4, TRUE)>>

CONSTANT t1

Once == [t \in Turns |-> SubSeq(Corrected, 1, 1)]
Twice == [t \in Turns |-> Corrected]
Both == [t \in Turns |-> IF t = t1 THEN Corrected ELSE Skipped]
First == [t \in Turns |-> 1]
Later == [t \in Turns |-> IF t = t1 THEN 1 ELSE 2]
=============================================================================
