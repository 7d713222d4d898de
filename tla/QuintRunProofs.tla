---------------------------- MODULE QuintRunProofs ----------------------------
(***************************************************************************)
(* Proofs about QuintRun, for every set of requests and pool size: it uses *)
(* the pool as Custody specifies, so that CustodyProofs' invariant holds   *)
(* of it, and the three safety invariants of a request follow from that.   *)
(***************************************************************************)
EXTENDS QuintRun, CustodyProofs

\* What an invocation has to show for where its request is.
CallsByPlace ==
    \A r \in Requests :
        /\ place[r] \in {"start", "hash"} => pc[Probe(r)] = "start"
        /\ place[r] \in {"start", "hash", "probe"} => pc[Command(r)] = "start"
        /\ place[r] \in {"start", "hash", "probe", "command"} => result[r] = "none"
        /\ place[r] = "command" => outcome[Probe(r)] = "Failed"
        /\ pc[Command(r)] # "start" => outcome[Probe(r)] = "Failed" /\ pc[Probe(r)] = "done"
        /\ place[r] = "command" => pc[Probe(r)] = "done"

CancelledIsCallers ==
    \A i \in Invocations :
        /\ stop[i] = "CallerCancellation" => cancelled[RequestOf[i]]
        /\ outcome[i] = "Cancelled" => cancelled[RequestOf[i]]

ReportIsEarned ==
    \A r \in Requests :
        /\ result[r] = "Cancelled" => cancelled[r] \/ (place[r] = "reported" /\ timerFired[r])
        /\ result[r] \in Positives \cup {"Counterexample"} =>
            /\ pc[Probe(r)] = "done" /\ outcome[Probe(r)] = "Failed"
            /\ pc[Command(r)] = "done" /\ outcome[Command(r)] = "Failed"

RunInv == RunTypeOK /\ CallsByPlace /\ CancelledIsCallers /\ ReportIsEarned
-----------------------------------------------------------------------------
LEMMA RequestsInvocations ==
    ASSUME NEW r \in Requests
    PROVE  /\ Probe(r) \in Invocations /\ Command(r) \in Invocations
           /\ RequestOf[Probe(r)] = r /\ RequestOf[Command(r)] = r
           /\ Probe(r)[2] = "probe" /\ Command(r)[2] = "command"
           /\ Probe(r)[1] = r /\ Command(r)[1] = r
BY RunAssumption DEF Probe, Command

LEMMA InvocationsRequest ==
    ASSUME NEW i \in Invocations
    PROVE  /\ RequestOf[i] \in Requests /\ i[1] = RequestOf[i]
           /\ i = Probe(RequestOf[i]) \/ i = Command(RequestOf[i])
BY RunAssumption DEF Probe, Command

\* Every step of the composition is a step of the pool, or none.
LEMMA StepUsesCustody == [RunNext]_runVars => [CustodyNext]_custodyVars
BY DEF RunNext, runVars, Request, Begin, Hash, UseProbe, UseCommand, RunEnds, TimerFires, CancelRun,
       BudgetTicks, CalledStep, CalledThrows, SessionStep, CustodyNext

\* The requests use the pool as Custody says, whatever the requests are.
THEOREM RunUsesCustody == RunSpec => CustodySpec
<1>1. RunInit => CustodyInit
  BY DEF RunInit
<1> QED
  BY <1>1, StepUsesCustody, PTL DEF RunSpec, CustodySpec

LEMMA RunInitInvariant == RunInit => RunInv
BY RequestsInvocations, InvocationsRequest
   DEF RunInit, CustodyInit, RunInv, RunTypeOK, CallsByPlace, CancelledIsCallers, ReportIsEarned, Outcomes, Positives

\* An invocation moves only itself, never from "done" nor to "start", and
\* leaves tokens and stop causes alone.
LEMMA InvocationSteps ==
    ASSUME CustodyInv, NEW i \in Invocations, Step(i) \/ SessionThrows(i)
    PROVE  /\ pc[i] # "done" /\ pc'[i] # "start"
           /\ \A j \in Invocations : j # i => pc'[j] = pc[j] /\ outcome'[j] = outcome[j]
           /\ UNCHANGED <<stop, cancelled>>
BY DEF Step, CheckBudget, ClaimSlot, Prepare, Run, RunReturns, Observe, ObserveFinal, Release, Finally,
       SessionThrows, Go, Return, Leave, sessions, budget, locals, CustodyInv, CustodyTypeOK

\* It returns Cancelled only if the token is, the stop cause included.
LEMMA CancelledOutcome ==
    ASSUME CustodyInv, CancelledIsCallers, NEW i \in Invocations, Step(i) \/ SessionThrows(i),
           outcome'[i] = "Cancelled"
    PROVE  cancelled[RequestOf[i]]
<1> USE DEF CancelledIsCallers, CustodyInv, CustodyTypeOK, Go, Return, Leave
<1>1. CASE CheckBudget(i)
  BY <1>1 DEF CheckBudget
<1>2. CASE ClaimSlot(i)
  BY <1>2 DEF ClaimSlot
<1>3. CASE Prepare(i)
  BY <1>3 DEF Prepare
<1>4. CASE Run(i) \/ RunReturns(i) \/ Observe(i) \/ ObserveFinal(i) \/ Finally(i)
  BY <1>4 DEF Run, RunReturns, Observe, ObserveFinal, Finally
<1>5. CASE SessionThrows(i)
  BY <1>5 DEF SessionThrows, FailedOutcome, StopOutcome, StopIsRemembered
<1>6. CASE Release(i)
  <2>1. Classify(i) = "Cancelled"
    BY <1>6 DEF Release
  <2>2. stop[i] = "CallerCancellation"
    BY <1>6, <2>1 DEF Release, Classify, StopOutcome, StopIsRemembered
  <2> QED
    BY <2>2
<1> QED
  BY <1>1, <1>2, <1>3, <1>4, <1>5, <1>6 DEF Step

LEMMA RunStepInvariant == CustodyInv /\ RunInv /\ [RunNext]_runVars => RunInv'
<1> SUFFICES ASSUME CustodyInv, RunInv, [RunNext]_runVars PROVE RunInv'
  OBVIOUS
<1> USE RequestsInvocations, InvocationsRequest
<1> USE DEF RunInv, RunTypeOK, Positives
<1>1. ASSUME NEW r \in Requests, Begin(r) \/ Hash(r) \/ UseProbe(r) \/ UseCommand(r) \/ RunEnds(r) PROVE RunInv'
  <2>1. UNCHANGED <<pc, outcome, stop, cancelled, command, timerFired>>
    BY <1>1 DEF Begin, Hash, UseProbe, UseCommand, RunEnds, custodyVars, locals, sessions, budget
  <2> USE <2>1 DEF CallsByPlace, CancelledIsCallers, ReportIsEarned, Report, Move
  <2>2. CASE Begin(r)
    <3>1. CASE Move(r, "hash") /\ UNCHANGED result
      BY <2>2, <3>1 DEF Begin
    <3>2. ASSUME NEW status \in {"LaunchFailure", "Unsupported"}, Report(r, status) PROVE RunInv'
      BY <2>2, <3>2 DEF Begin, Outcomes
    <3> QED
      BY <2>2, <3>1, <3>2 DEF Begin
  <2>3. CASE Hash(r)
    <3>1. CASE Move(r, "probe") /\ UNCHANGED result
      BY <2>3, <3>1 DEF Hash
    <3>2. CASE HashCancelled(r) /\ Report(r, "Cancelled")
      BY <2>3, <3>2 DEF Hash, HashCancelled, Outcomes
    <3>3. ASSUME NEW status \in {"LaunchFailure", "IdentityMismatch"}, Report(r, status) PROVE RunInv'
      BY <2>3, <3>3 DEF Hash, Outcomes
    <3> QED
      BY <2>3, <3>1, <3>2, <3>3 DEF Hash
  <2>4. CASE UseProbe(r)
    <3>1. CASE Report(r, "IdentityMismatch") \/ Report(r, outcome[Probe(r)])
      <4>1. outcome[Probe(r)] \in Outcomes \ {"none"}
        BY <2>4 DEF UseProbe, Awaited, CustodyInv, CustodyTypeOK, OutcomeByPlace
      <4> QED
        BY <2>4, <3>1, <4>1 DEF UseProbe, Awaited, Outcomes
    <3>2. CASE Move(r, "command") /\ UNCHANGED result /\ outcome[Probe(r)] = "Failed"
      BY <2>4, <3>2 DEF UseProbe, Awaited
    <3> QED
      BY <2>4, <3>1, <3>2 DEF UseProbe, ProbeExits
  <2>5. CASE UseCommand(r)
    <3>1. PICK status \in Statuses(r) : Report(r, status)
      BY <2>5 DEF UseCommand
    <3>2. outcome[Command(r)] \in Outcomes \ {"none"}
      BY <2>5 DEF UseCommand, Awaited, CustodyInv, CustodyTypeOK, OutcomeByPlace
    <3>3. /\ status \in (Outcomes \cup Positives \cup {"Counterexample"}) \ {"none"}
          /\ outcome[Command(r)] = "Failed" \/ status = outcome[Command(r)]
          /\ status = "Cancelled" => outcome[Command(r)] = "Cancelled"
      BY <3>1, <3>2 DEF Statuses, ExitZero, ExitNonzero, Outcomes
    <3> QED
      BY <2>5, <3>1, <3>2, <3>3 DEF UseCommand, Awaited, Outcomes
  <2>6. CASE RunEnds(r)
    BY <2>6 DEF RunEnds, Converted, Outcomes
  <2> QED
    BY <1>1, <2>2, <2>3, <2>4, <2>5, <2>6
<1>2. ASSUME NEW r \in Requests, TimerFires(r) PROVE RunInv'
  BY <1>2 DEF TimerFires, CallsByPlace, CancelledIsCallers, ReportIsEarned, custodyVars, locals, sessions, budget
<1>3. ASSUME NEW r \in Requests, CancelRun(r) \/ BudgetTicks(r) PROVE RunInv'
  <2>1. UNCHANGED <<pc, outcome, stop, requestVars>> /\ \A q \in Requests : cancelled[q] => cancelled'[q]
    <3>1. CASE CancelRun(r)
      BY <3>1 DEF CancelRun, Cancel, locals, sessions, CustodyInv, CustodyTypeOK
    <3>2. CASE BudgetTicks(r)
      BY <3>2 DEF BudgetTicks, Clock, WorkExpires, BudgetRunsOut, locals, sessions
    <3> QED
      BY <1>3, <3>1, <3>2
  <2> QED
    BY <2>1 DEF requestVars, CallsByPlace, CancelledIsCallers, ReportIsEarned
<1>4. ASSUME NEW i \in Invocations, CalledStep(i) \/ CalledThrows(i) PROVE RunInv'
  <2>1. Called(i) /\ (Step(i) \/ SessionThrows(i)) /\ UNCHANGED requestVars
    BY <1>4 DEF CalledStep, CalledThrows
  <2>2. /\ pc[i] # "done" /\ pc'[i] # "start"
        /\ \A j \in Invocations : j # i => pc'[j] = pc[j] /\ outcome'[j] = outcome[j]
        /\ UNCHANGED <<stop, cancelled>>
    BY <2>1, InvocationSteps
  <2>3. CancelledIsCallers'
    <3>1. outcome'[i] = "Cancelled" => cancelled[RequestOf[i]]
      BY <2>1, CancelledOutcome
    <3> QED
      BY <2>2, <3>1 DEF CancelledIsCallers
  <2>4. CallsByPlace'
    BY <2>1, <2>2 DEF CallsByPlace, requestVars, Called
  <2>5. ReportIsEarned'
    BY <2>1, <2>2 DEF ReportIsEarned, requestVars
  <2> QED
    BY <2>1, <2>3, <2>4, <2>5 DEF requestVars
<1>5. ASSUME NEW i \in Invocations, SessionStep(i) PROVE RunInv'
  <2>1. /\ UNCHANGED <<pc, outcome, cancelled, requestVars>>
        /\ \A j \in Invocations : stop'[j] = "CallerCancellation" =>
             stop[j] = "CallerCancellation" \/ cancelled[RequestOf[j]]
    BY <1>5 DEF SessionStep, Session, RequestStop, Settle, Free, locals, budget, CustodyInv, CustodyTypeOK
  <2> QED
    BY <2>1 DEF requestVars, CallsByPlace, CancelledIsCallers, ReportIsEarned
<1>6. CASE UNCHANGED runVars
  BY <1>6 DEF runVars, requestVars, custodyVars, locals, sessions, budget, CallsByPlace, CancelledIsCallers, ReportIsEarned
<1> QED
  BY <1>1, <1>2, <1>3, <1>4, <1>5, <1>6 DEF RunNext, Request

LEMMA RunInvHolds == RunSpec => [](CustodyInv /\ RunInv)
<1>1. RunSpec => []CustodyInv
  BY RunUsesCustody, CustodyInvHolds, PTL
<1> QED
  BY <1>1, RunInitInvariant, RunStepInvariant, PTL DEF RunSpec

-----------------------------------------------------------------------------
\* The types of the requests' variables; a report has an outcome.
THEOREM RunTypeCorrect == RunSpec => []RunTypeOK
<1>1. RunInv => RunTypeOK
  BY DEF RunInv
<1> QED
  BY <1>1, RunInvHolds, PTL

\* Cancelled is the caller's doing, however timer, budget and token race.
THEOREM CancellationIsTheCallers == RunSpec => []CancelledByCaller
<1>1. RunInv => CancelledByCaller
  BY DEF RunInv, ReportIsEarned, CancelledByCaller
<1> QED
  BY <1>1, RunInvHolds, PTL

\* A positive report has two settled and released processes behind it.
THEOREM PositiveReportHasBoth == RunSpec => []PositiveHasBoth
<1>1. CustodyInv /\ RunInv => PositiveHasBoth
  BY RequestsInvocations DEF CustodyInv, PositiveIsReleased, RunInv, ReportIsEarned, PositiveHasBoth
<1> QED
  BY <1>1, RunInvHolds, PTL

\* The command is launched after the probe's session left the pool.
THEOREM OneSlotForARequest == RunSpec => []OneSlotPerRequest
<1>1. CustodyInv /\ RunInv => OneSlotPerRequest
  BY RequestsInvocations
     DEF CustodyInv, PositiveIsReleased, RetainedAreUnresolved, RunInv, CallsByPlace, OneSlotPerRequest
<1> QED
  BY <1>1, RunInvHolds, PTL
=============================================================================
