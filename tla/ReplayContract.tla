--------------------------- MODULE ReplayContract ---------------------------
(***************************************************************************)
(* What Replay.run promises its caller, without saying how: a session with *)
(* the driver that is opened at most once, effects that are applied one at *)
(* a time and only on a session whose earlier states were all confirmed, a *)
(* verdict that is given once and never changed, and a session that is     *)
(* closed only after the verdict (docs/usage.md, Replay.fsi).              *)
(***************************************************************************)
EXTENDS Naturals

VARIABLES
    steps,      \* number of steps of the trace that is replayed
    session,    \* the driver's runtime: "unopened", "open" or "closed"
    effects,    \* Apply calls made so far
    confirmed,  \* expected states observed and found equal so far
    verdict     \* "pending", then the outcome of the report

contractVars == <<steps, session, effects, confirmed, verdict>>

Verdicts ==
    {"Equivalent", "Diverged", "InvalidTrace", "DriverFailure", "Cancelled", "TimedOut"}

ContractInit ==
    /\ steps \in Nat
    /\ session = "unopened"
    /\ effects = 0
    /\ confirmed = 0
    /\ verdict = "pending"

Open ==
    /\ verdict = "pending"
    /\ session = "unopened"
    /\ session' = "open"
    /\ UNCHANGED <<steps, effects, confirmed, verdict>>

\* The state after the last effect is observed and equals the expected one.
Confirm ==
    /\ verdict = "pending"
    /\ session = "open"
    /\ confirmed = effects
    /\ confirmed' = confirmed + 1
    /\ UNCHANGED <<steps, session, effects, verdict>>

\* The next step is applied, once, to an implementation that agreed so far.
Effect ==
    /\ verdict = "pending"
    /\ session = "open"
    /\ confirmed = effects + 1
    /\ effects < steps
    /\ effects' = effects + 1
    /\ UNCHANGED <<steps, session, confirmed, verdict>>

(***************************************************************************)
(* Equivalent needs the initial state and every step's state confirmed; a  *)
(* divergence is about a state that was observed and not confirmed; an     *)
(* invalid trace is refused before the driver is used.                     *)
(***************************************************************************)
Decide(v) ==
    /\ verdict = "pending"
    /\ v = "Equivalent" => session = "open" /\ effects = steps /\ confirmed = steps + 1
    /\ v = "Diverged" => session = "open" /\ confirmed = effects
    /\ v = "InvalidTrace" => session = "unopened" /\ effects = 0
    /\ verdict' = v
    /\ UNCHANGED <<steps, session, effects, confirmed>>

Close ==
    /\ verdict # "pending"
    /\ session = "open"
    /\ session' = "closed"
    /\ UNCHANGED <<steps, effects, confirmed, verdict>>

ContractNext ==
    \/ Open
    \/ Confirm
    \/ Effect
    \/ \E v \in Verdicts : Decide(v)
    \/ Close

ContractSpec == ContractInit /\ [][ContractNext]_contractVars
=============================================================================
