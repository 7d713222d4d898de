------------------------------- MODULE QuintRun -------------------------------
(***************************************************************************)
(* Quint.run of src/FsQuint.Tooling/Tooling.fs composed with the custody   *)
(* pool: a request starts its budget, hashes the executable under a token  *)
(* linked to a timer, and makes up to two calls of executeText one after   *)
(* the other, the version probe and the command.  The timer (a             *)
(* CancellationTokenSource) and the budget (a tick clock) measure the same *)
(* deadline with different clocks, so either may run out first.            *)
(*                                                                         *)
(* Definitions named ...Mutant are plausible faults: nothing refers to      *)
(* them, and substituting one must break a property.                       *)
(***************************************************************************)
EXTENDS Custody

CONSTANT Commands  \* the kinds of command requests carry

ASSUME RunAssumption ==
    /\ Invocations = Requests \X {"probe", "command"}
    /\ RequestOf = [i \in Invocations |-> i[1]]
    /\ Commands \subseteq {"typecheck", "test", "run"}

VARIABLES
    command,     \* request.Command
    place,       \* where each request is
    result,      \* the outcome in its report
    timerFired   \* workTimeout is cancelled

requestVars == <<command, place, result, timerFired>>
runVars == <<custodyVars, requestVars>>

Probe(r) == <<r, "probe">>
Command(r) == <<r, "command">>

Move(r, to) == place' = [place EXCEPT ![r] = to]

\* runInternal returns a report; run may still change its outcome.
Report(r, status) ==
    /\ result' = [result EXCEPT ![r] = status]
    /\ Move(r, "reported")

Positives == {"Typechecked", "TestsPassed", "SamplesPassed"}

\* The outcomes an exit code 0 of the command stands for, by what its output
\* shows.  A count of tests above Int32.MaxValue throws.
ExitZero(kind) ==
    CASE kind = "typecheck" -> {"Typechecked"}
      [] kind = "test" -> {"TestsPassed", "Incomplete", "LaunchFailure"}
      [] OTHER -> {"SamplesPassed", "Incomplete"}

ExitNonzero == {"Counterexample", "Failed"}

StatusesMutant(r) == ExitZero(command[r])

\* What the outcome of the command's executeText becomes.
Statuses(r) ==
    IF outcome[Command(r)] = "Failed"
    THEN ExitZero(command[r]) \cup ExitNonzero
    ELSE {outcome[Command(r)]}

-----------------------------------------------------------------------------
RunInit ==
    /\ CustodyInit
    /\ command \in [Requests -> Commands]
    /\ place = [r \in Requests |-> "start"]
    /\ result = [r \in Requests |-> "none"]
    /\ timerFired = [r \in Requests |-> FALSE]

\* An invalid timeout, platform, version or path ends the run at once; else
\* the budget starts, and the timer with what the budget says remains.
Begin(r) ==
    /\ place[r] = "start"
    /\ \/ \E status \in {"LaunchFailure", "Unsupported"} : Report(r, status)
       \/ Move(r, "hash") /\ UNCHANGED result
    /\ UNCHANGED <<custodyVars, command, timerFired>>

\* The token HashDataAsync gets is linked to the caller's and the timer's.
HashCancelled(r) == cancelled[r] \/ timerFired[r]

\* The digest is compared with the request's, unless hashing throws.
Hash(r) ==
    /\ place[r] = "hash"
    /\ \/ HashCancelled(r) /\ Report(r, "Cancelled")
       \/ \E status \in {"LaunchFailure", "IdentityMismatch"} : Report(r, status)
       \/ Move(r, "probe") /\ UNCHANGED result
    /\ UNCHANGED <<custodyVars, command, timerFired>>

ProbeExitsMutant(r) == {"match", "mismatch"}

\* An exit code 0 of the probe, with the version requested or another one.
ProbeExits(r) == IF outcome[Probe(r)] = "Failed" THEN {"match", "mismatch", "nonzero"} ELSE {"none"}

AwaitedMutant(i) == pc[i] # "start"

\* `let!` on a call of executeText.
Awaited(i) == pc[i] = "done"

UseProbe(r) ==
    /\ place[r] = "probe"
    /\ Awaited(Probe(r))
    /\ \E exit \in ProbeExits(r) :
        \/ exit = "match" /\ Move(r, "command") /\ UNCHANGED result
        \/ exit = "mismatch" /\ Report(r, "IdentityMismatch")
        \/ exit \in {"nonzero", "none"} /\ Report(r, outcome[Probe(r)])
    /\ UNCHANGED <<custodyVars, command, timerFired>>

UseCommand(r) ==
    /\ place[r] = "command"
    /\ Awaited(Command(r))
    /\ \E status \in Statuses(r) : Report(r, status)
    /\ UNCHANGED <<custodyVars, command, timerFired>>

ConvertedMutant(r) == result[r]

\* A cancellation nobody asked for is the timer's.
Converted(r) ==
    IF result[r] = "Cancelled" /\ ~cancelled[r] /\ timerFired[r] THEN "TimedOut" ELSE result[r]

RunEnds(r) ==
    /\ place[r] = "reported"
    /\ result' = [result EXCEPT ![r] = Converted(r)]
    /\ Move(r, "returned")
    /\ UNCHANGED <<custodyVars, command, timerFired>>

\* CancelAfter's timer, or Cancel() when no work time remains.
TimerFires(r) ==
    /\ place[r] \notin {"start", "returned"}
    /\ ~timerFired[r]
    /\ timerFired' = [timerFired EXCEPT ![r] = TRUE]
    /\ UNCHANGED <<custodyVars, command, place, result>>

Request(r) == Begin(r) \/ Hash(r) \/ UseProbe(r) \/ UseCommand(r) \/ RunEnds(r)

\* executeText runs from its call on.
Called(i) == place[i[1]] = i[2]
CalledStep(i) == Called(i) /\ Step(i) /\ UNCHANGED requestVars
CalledThrows(i) == Called(i) /\ SessionThrows(i) /\ UNCHANGED requestVars
SessionStep(i) == Session(i) /\ UNCHANGED requestVars
CancelRun(r) == place[r] # "returned" /\ Cancel(r) /\ UNCHANGED requestVars
BudgetTicks(r) == place[r] \notin {"start", "returned"} /\ Clock(r) /\ UNCHANGED requestVars

RunNext ==
    \/ \E r \in Requests : Request(r) \/ TimerFires(r) \/ CancelRun(r) \/ BudgetTicks(r)
    \/ \E i \in Invocations : CalledStep(i) \/ CalledThrows(i) \/ SessionStep(i)

RunSpec == RunInit /\ [][RunNext]_runVars

\* Tasks are scheduled and the budget's clock advances; a process need not
\* settle, release, be cancelled or be stopped.
FairRunSpec ==
    /\ RunSpec
    /\ \A r \in Requests : WF_runVars(Request(r)) /\ WF_runVars(BudgetTicks(r))
    /\ \A i \in Invocations : WF_runVars(CalledStep(i))

-----------------------------------------------------------------------------
\* Types of the variables of the requests; a report has an outcome.
RunTypeOK ==
    /\ command \in [Requests -> Commands]
    /\ place \in [Requests -> {"start", "hash", "probe", "command", "reported", "returned"}]
    /\ result \in [Requests -> Outcomes \cup Positives \cup
                      {"Counterexample", "IdentityMismatch", "Unsupported"}]
    /\ timerFired \in [Requests -> BOOLEAN]
    /\ \A r \in Requests : place[r] \in {"reported", "returned"} <=> result[r] # "none"

(***************************************************************************)
(* Cancelled is returned only when the caller cancelled, whichever of the  *)
(* timer, the budget and the caller's token came first.                    *)
(***************************************************************************)
CancelledByCaller ==
    \A r \in Requests : place[r] = "returned" /\ result[r] = "Cancelled" => cancelled[r]

(***************************************************************************)
(* A positive result has both processes behind it: each exited, settled    *)
(* without a stop, and had its resources released.                         *)
(***************************************************************************)
PositiveHasBoth ==
    \A r \in Requests : result[r] \in Positives \cup {"Counterexample"} =>
        \A i \in {Probe(r), Command(r)} :
            outcome[i] = "Failed" /\ released[i] /\ tasks[i] = "settled" /\ stop[i] = "none"

(***************************************************************************)
(* A request never holds two slots: the command is launched only after the *)
(* probe's session left the pool.                                          *)
(***************************************************************************)
OneSlotPerRequest ==
    \A r \in Requests :
        pc[Command(r)] # "start" =>
            /\ \A s \in Slots : custody[s] # Probe(r)
            /\ released[Probe(r)]

\* Every request is answered, even if its processes never settle.
EveryRequestReturns == \A r \in Requests : <>(place[r] = "returned")
=============================================================================
