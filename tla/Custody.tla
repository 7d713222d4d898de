------------------------------- MODULE Custody -------------------------------
(***************************************************************************)
(* executeText of src/FsQuint.Tooling/Tooling.fs and the process-wide      *)
(* custody pool it runs under: several concurrent invocations, each of     *)
(* which claims a slot, prepares and runs one process session, observes it *)
(* within the request's budget, and tries to release it.  An invocation    *)
(* that cannot claim a slot sweeps every retained session first, those of  *)
(* invocations that are still running included.                            *)
(*                                                                         *)
(* Definitions named ...Mutant are plausible faults: nothing refers to      *)
(* them, and substituting one must break a property.                       *)
(*                                                                         *)
(* The session (ITextProcessSession) and the budget come from a package    *)
(* outside this repository.  They are modelled by what executeText relies  *)
(* on: a session's stop cause is set at most once, its resources become    *)
(* releasable only after its local tasks settled, if ever, TryRelease is   *)
(* refused before that and accepted from then on, and RunAsync returns     *)
(* (the capability BoundedReturnWithRetainedCustody, which is required).   *)
(***************************************************************************)
EXTENDS Naturals, FiniteSets

CONSTANTS
    Invocations,  \* calls of executeText; each prepares at most one session
    Requests,     \* requests; a request's invocations share its budget and token
    RequestOf,    \* the request an invocation belongs to
    Capacity,     \* custody.Length, 16 in the code
    Vacant,       \* a slot no invocation uses
    Claimed,      \* a slot whose session is not prepared yet
    StopCauses    \* the causes a session may report

ASSUME CustodyAssumption ==
    /\ Capacity \in Nat
    /\ RequestOf \in [Invocations -> Requests]
    /\ Vacant \notin Invocations
    /\ Claimed \notin Invocations
    /\ Vacant # Claimed
    /\ StopCauses \subseteq {"CallerCancellation", "WorkDeadline", "OutputLimit", "Other"}

Slots == 1 .. Capacity

VARIABLES
    custody,       \* the pool: slot -> Vacant, Claimed, or the session it retains
    pc,            \* where each invocation is
    slot,          \* its slot, 0 before the claim
    ownsSlot,      \* `let mutable ownsSlot`
    retained,      \* `retained` is Some: the session was prepared
    firstOutcome,  \* the outcome of the first stop it observed, or "none"
    initial,       \* the stop cause in the result of RunAsync
    final,         \* the last snapshot: stop cause, settled tasks, evidence
    outcome,       \* what it returned
    tasks,         \* the session's local tasks
    stop,          \* the session's stop cause
    freed,         \* the session's resources can be released
    released,      \* history: a TryRelease of the session was accepted
    cancelled, workExpired, budgetSpent   \* per request: token and budget

locals == <<pc, slot, ownsSlot, retained, firstOutcome, initial, final, outcome>>
sessions == <<tasks, stop, freed>>
budget == <<cancelled, workExpired, budgetSpent>>
custodyVars == <<custody, locals, sessions, released, budget>>

-----------------------------------------------------------------------------
Stops == {"none"} \cup StopCauses
\* What the last snapshot shows: an exit with complete text, a launch that was
\* refused or is ambiguous, or anything less.
Evidence == {"complete", "launchRefused", "partial"}
NoSnapshot == [stop |-> "none", settled |-> FALSE, evidence |-> "none"]
Snapshots == [stop : Stops, settled : BOOLEAN, evidence : Evidence \cup {"none"}]
Outcomes ==
    {"none", "Failed", "Incomplete", "LaunchFailure", "TimedOut", "Cancelled", "OutputLimit"}
Places ==
    {"start", "claim", "prepare", "run", "running", "observe", "final", "release",
     "finally", "done"}

\* The outcome a stop cause stands for.
StopOutcome(cause) ==
    CASE cause = "OutputLimit" -> "OutputLimit"
      [] cause = "CallerCancellation" -> "Cancelled"
      [] cause = "WorkDeadline" -> "TimedOut"
      [] cause = "Other" -> "Incomplete"
      [] OTHER -> "none"

Go(i, place) == pc' = [pc EXCEPT ![i] = place]

Return(i, result) ==
    /\ outcome' = [outcome EXCEPT ![i] = result]
    /\ Go(i, "done")

\* Leave the inner try with a result; the finally block still runs.
Leave(i, result) ==
    /\ outcome' = [outcome EXCEPT ![i] = result]
    /\ Go(i, "finally")

FailedOutcomeMutant(i) == "LaunchFailure"

\* `with _ -> Option.defaultValue (LaunchFailure ...) firstOutcome`
FailedOutcome(i) ==
    IF firstOutcome[i] = "none" THEN "LaunchFailure" ELSE firstOutcome[i]

RememberStop(i) ==
    firstOutcome' =
        [firstOutcome EXCEPT ![i] = IF @ = "none" THEN StopOutcome(stop[i]) ELSE @]

-----------------------------------------------------------------------------
(***************************************************************************)
(* releaseSlot, under custodyGate.  A session another invocation already   *)
(* released is accepted again, but its slot may belong to someone else.    *)
(***************************************************************************)
StillOwnsSlotMutant(i) == TRUE

StillOwnsSlot(i) == custody[slot[i]] = i

ReleaseSlot(i) ==
    /\ released' = [released EXCEPT ![i] = @ \/ freed[i]]
    /\ custody' =
        IF freed[i] /\ StillOwnsSlot(i) THEN [custody EXCEPT ![slot[i]] = Vacant] ELSE custody

\* The first part of claimSlot: every retained session that can be released is.
SweptMutant == custody
SweptMutantRange == [s \in 1 .. Capacity + 1 |-> IF s \in Slots THEN custody[s] ELSE Vacant]

Swept ==
    [s \in Slots |->
        IF custody[s] \in Invocations /\ freed[custody[s]] THEN Vacant ELSE custody[s]]

SweptSessions == {i \in Invocations : freed[i] /\ \E s \in Slots : custody[s] = i}

FirstVacant(pool, s) ==
    /\ pool[s] = Vacant
    /\ \A t \in Slots : t < s => pool[t] # Vacant

-----------------------------------------------------------------------------
CustodyInit ==
    /\ custody = [s \in Slots |-> Vacant]
    /\ pc = [i \in Invocations |-> "start"]
    /\ slot = [i \in Invocations |-> 0]
    /\ ownsSlot = [i \in Invocations |-> FALSE]
    /\ retained = [i \in Invocations |-> FALSE]
    /\ firstOutcome = [i \in Invocations |-> "none"]
    /\ initial = [i \in Invocations |-> "none"]
    /\ final = [i \in Invocations |-> NoSnapshot]
    /\ outcome = [i \in Invocations |-> "none"]
    /\ tasks = [i \in Invocations |-> "none"]
    /\ stop = [i \in Invocations |-> "none"]
    /\ freed = [i \in Invocations |-> FALSE]
    /\ released = [i \in Invocations |-> FALSE]
    /\ cancelled = [r \in Requests |-> FALSE]
    /\ workExpired = [r \in Requests |-> FALSE]
    /\ budgetSpent = [r \in Requests |-> FALSE]

\* The budget and the token are read before a slot is claimed.
CheckBudget(i) ==
    /\ pc[i] = "start"
    /\ \/ Return(i, "LaunchFailure")  \* Budget.remaining refuses
       \/ /\ cancelled[RequestOf[i]]
          /\ Return(i, "Cancelled")
       \/ /\ ~cancelled[RequestOf[i]]
          /\ workExpired[RequestOf[i]]
          /\ Return(i, "TimedOut")
       \/ /\ ~cancelled[RequestOf[i]]
          /\ ~workExpired[RequestOf[i]]
          /\ Go(i, "claim")
          /\ UNCHANGED outcome
    /\ UNCHANGED <<custody, slot, ownsSlot, retained, firstOutcome, initial, final,
                   sessions, released, budget>>

ClaimSlot(i) ==
    /\ pc[i] = "claim"
    /\ released' = [j \in Invocations |-> released[j] \/ j \in SweptSessions]
    /\ \/ \E s \in Slots :
            /\ FirstVacant(Swept, s)
            /\ custody' = [Swept EXCEPT ![s] = Claimed]
            /\ slot' = [slot EXCEPT ![i] = s]
            /\ ownsSlot' = [ownsSlot EXCEPT ![i] = TRUE]
            /\ Go(i, "prepare")
            /\ UNCHANGED outcome
       \/ /\ \A s \in Slots : Swept[s] # Vacant
          /\ custody' = Swept
          /\ Return(i, "LaunchFailure")
          /\ UNCHANGED <<slot, ownsSlot>>
    /\ UNCHANGED <<retained, firstOutcome, initial, final, sessions, budget>>

\* factory.Prepare refuses (for the budget or otherwise) or throws, or its
\* session is put in the slot before the only RunAsync call.
Prepare(i) ==
    /\ pc[i] = "prepare"
    /\ \/ /\ \E result \in {"TimedOut", "LaunchFailure"} : Leave(i, result)
          /\ UNCHANGED <<custody, retained, tasks>>
       \/ /\ retained' = [retained EXCEPT ![i] = TRUE]
          /\ custody' = [custody EXCEPT ![slot[i]] = i]
          /\ tasks' = [tasks EXCEPT ![i] = "prepared"]
          /\ Go(i, "run")
          /\ UNCHANGED outcome
    /\ UNCHANGED <<slot, ownsSlot, firstOutcome, initial, final, stop, freed, released, budget>>

Run(i) ==
    /\ pc[i] = "run"
    /\ tasks' = [tasks EXCEPT ![i] = "running"]
    /\ Go(i, "running")
    /\ UNCHANGED <<custody, slot, ownsSlot, retained, firstOutcome, initial, final, outcome,
                   stop, freed, released, budget>>

RunReturns(i) ==
    /\ pc[i] = "running"
    /\ initial' = [initial EXCEPT ![i] = stop[i]]
    /\ RememberStop(i)
    /\ Go(i, "observe")
    /\ UNCHANGED <<custody, slot, ownsSlot, retained, final, outcome, sessions, released, budget>>

ObservingMutant(i) == tasks[i] # "settled"

\* The loop goes on: the tasks are not settled and the cleanup budget is not spent.
Observing(i) == tasks[i] # "settled" /\ ~budgetSpent[RequestOf[i]]

Observe(i) ==
    /\ pc[i] = "observe"
    /\ RememberStop(i)
    /\ Go(i, IF Observing(i) THEN "observe" ELSE "final")
    /\ UNCHANGED <<custody, slot, ownsSlot, retained, initial, final, outcome, sessions,
                   released, budget>>

\* One more atomic snapshot, which alone is classified.
ObserveFinal(i) ==
    /\ pc[i] = "final"
    /\ \E shown \in Evidence :
        final' = [final EXCEPT ![i] =
                    [stop |-> stop[i], settled |-> tasks[i] = "settled", evidence |-> shown]]
    /\ RememberStop(i)
    /\ Go(i, "release")
    /\ UNCHANGED <<custody, slot, ownsSlot, retained, initial, outcome, sessions, released, budget>>

\* RunAsync or ObserveAsync throws.
SessionThrows(i) ==
    /\ pc[i] \in {"running", "observe", "final"}
    /\ Leave(i, FailedOutcome(i))
    /\ UNCHANGED <<custody, slot, ownsSlot, retained, firstOutcome, initial, final, sessions,
                   released, budget>>

PositiveMutant(i) == final[i].evidence = "complete"

\* `completeText && released && settled final`, after TryRelease answered.
Positive(i) == final[i].evidence = "complete" /\ freed[i] /\ final[i].settled

\* The first requested stop wins over the launch, the launch over the exit.
Classify(i) ==
    LET cause == IF initial[i] # "none" THEN initial[i] ELSE final[i].stop
    IN  IF cause # "none" THEN StopOutcome(cause)
        ELSE IF final[i].evidence = "launchRefused" THEN "LaunchFailure"
        ELSE IF Positive(i) THEN "Failed"
        ELSE "Incomplete"

Release(i) ==
    /\ pc[i] = "release"
    /\ ReleaseSlot(i)
    /\ ownsSlot' = [ownsSlot EXCEPT ![i] = ~freed[i]]
    /\ Leave(i, Classify(i))
    /\ UNCHANGED <<slot, retained, firstOutcome, initial, final, sessions, budget>>

\* The locals a property no longer speaks of end with the call.
DropLocals(i) ==
    /\ ownsSlot' = [ownsSlot EXCEPT ![i] = FALSE]
    /\ firstOutcome' = [firstOutcome EXCEPT ![i] = "none"]
    /\ initial' = [initial EXCEPT ![i] = "none"]
    /\ final' = [final EXCEPT ![i] = NoSnapshot]

FinallyMutant(i) ==
    /\ pc[i] = "finally"
    /\ IF ownsSlot[i] /\ retained[i] THEN ReleaseSlot(i) ELSE UNCHANGED <<custody, released>>
    /\ Go(i, "done")
    /\ DropLocals(i)
    /\ UNCHANGED <<slot, retained, outcome, sessions, budget>>

Finally(i) ==
    /\ pc[i] = "finally"
    /\ \/ /\ ownsSlot[i]
          /\ retained[i]
          /\ ReleaseSlot(i)
       \/ /\ ownsSlot[i]
          /\ ~retained[i]
          /\ custody' = [custody EXCEPT ![slot[i]] = Vacant]
          /\ UNCHANGED released
       \/ /\ ~ownsSlot[i]
          /\ UNCHANGED <<custody, released>>
    /\ Go(i, "done")
    /\ DropLocals(i)
    /\ UNCHANGED <<slot, retained, outcome, sessions, budget>>

-----------------------------------------------------------------------------
\* The session, beside the invocation that runs it.
RequestStop(i) ==
    /\ tasks[i] = "running"
    /\ stop[i] = "none"
    /\ pc[i] # "done"
    /\ \E cause \in StopCauses :
        /\ cause = "CallerCancellation" => cancelled[RequestOf[i]]
        /\ cause = "WorkDeadline" => workExpired[RequestOf[i]]
        /\ stop' = [stop EXCEPT ![i] = cause]
    /\ UNCHANGED <<custody, locals, tasks, freed, released, budget>>

Settle(i) ==
    /\ tasks[i] = "running"
    /\ tasks' = [tasks EXCEPT ![i] = "settled"]
    /\ UNCHANGED <<custody, locals, stop, freed, released, budget>>

Free(i) ==
    /\ tasks[i] = "settled"
    /\ ~freed[i]
    /\ freed' = [freed EXCEPT ![i] = TRUE]
    /\ UNCHANGED <<custody, locals, tasks, stop, released, budget>>

\* What happens to a request's token and clock after it returned is not seen.
Live(r) == \E i \in Invocations : RequestOf[i] = r /\ pc[i] # "done"

Cancel(r) ==
    /\ Live(r)
    /\ ~cancelled[r]
    /\ cancelled' = [cancelled EXCEPT ![r] = TRUE]
    /\ UNCHANGED <<custody, locals, sessions, released, workExpired, budgetSpent>>

WorkExpires(r) ==
    /\ Live(r)
    /\ ~workExpired[r]
    /\ workExpired' = [workExpired EXCEPT ![r] = TRUE]
    /\ UNCHANGED <<custody, locals, sessions, released, cancelled, budgetSpent>>

\* The one-second cleanup budget ends after the work budget.
BudgetRunsOut(r) ==
    /\ Live(r)
    /\ workExpired[r]
    /\ ~budgetSpent[r]
    /\ budgetSpent' = [budgetSpent EXCEPT ![r] = TRUE]
    /\ UNCHANGED <<custody, locals, sessions, released, cancelled, workExpired>>

-----------------------------------------------------------------------------
Step(i) ==
    \/ CheckBudget(i) \/ ClaimSlot(i) \/ Prepare(i) \/ Run(i) \/ RunReturns(i)
    \/ Observe(i) \/ ObserveFinal(i) \/ Release(i) \/ Finally(i)

Session(i) == RequestStop(i) \/ Settle(i) \/ Free(i)

Clock(r) == WorkExpires(r) \/ BudgetRunsOut(r)

CustodyNext ==
    \/ \E i \in Invocations : Step(i) \/ SessionThrows(i) \/ Session(i)
    \/ \E r \in Requests : Cancel(r) \/ Clock(r)

CustodySpec == CustodyInit /\ [][CustodyNext]_custodyVars

-----------------------------------------------------------------------------
\* Types of all variables.
CustodyTypeOK ==
    /\ custody \in [Slots -> Invocations \cup {Vacant, Claimed}]
    /\ pc \in [Invocations -> Places]
    /\ slot \in [Invocations -> Slots \cup {0}]
    /\ ownsSlot \in [Invocations -> BOOLEAN]
    /\ retained \in [Invocations -> BOOLEAN]
    /\ firstOutcome \in [Invocations -> Outcomes]
    /\ initial \in [Invocations -> Stops]
    /\ final \in [Invocations -> Snapshots]
    /\ outcome \in [Invocations -> Outcomes]
    /\ tasks \in [Invocations -> {"none", "prepared", "running", "settled"}]
    /\ stop \in [Invocations -> Stops]
    /\ freed \in [Invocations -> BOOLEAN]
    /\ released \in [Invocations -> BOOLEAN]
    /\ cancelled \in [Requests -> BOOLEAN]
    /\ workExpired \in [Requests -> BOOLEAN]
    /\ budgetSpent \in [Requests -> BOOLEAN]

(***************************************************************************)
(* The pool never loses a session: one that was prepared and not released  *)
(* is retained in its slot, whatever claims, sweeps and stale releases     *)
(* other invocations make; so at most Capacity sessions are unresolved.    *)
(***************************************************************************)
UnresolvedAreRetained ==
    \A i \in Invocations : retained[i] /\ ~released[i] => custody[slot[i]] = i

(***************************************************************************)
(* A claimed slot belongs to exactly one invocation that will still give   *)
(* it a session or vacate it: no exit path leaks a slot.                   *)
(***************************************************************************)
ClaimsHaveOneOwner ==
    \A s \in Slots : custody[s] = Claimed =>
        \E i \in Invocations :
            /\ slot[i] = s /\ ownsSlot[i] /\ ~retained[i] /\ pc[i] \in {"prepare", "finally"}
            /\ \A j \in Invocations :
                j # i /\ slot[j] = s => retained[j] \/ pc[j] = "done"

\* An exit code is reported only for a settled session whose release was accepted.
PositiveIsReleased ==
    \A i \in Invocations : outcome[i] = "Failed" =>
        released[i] /\ tasks[i] = "settled" /\ stop[i] = "none"

\* The first stop an invocation observed is what it returns, cleanup failures and exceptions included.
FirstStopSurvives ==
    \A i \in Invocations : pc[i] = "finally" /\ firstOutcome[i] # "none" =>
        outcome[i] = firstOutcome[i]

(***************************************************************************)
(* An invocation is refused for capacity only when every slot is claimed   *)
(* or retains a session that cannot be released at that moment.            *)
(***************************************************************************)
RefusalIsGenuine ==
    [][\A i \in Invocations :
        pc[i] = "claim" /\ pc'[i] = "done" =>
            \A s \in Slots :
                \/ custody[s] = Claimed
                \/ custody[s] \in Invocations /\ ~freed[custody[s]]]_custodyVars
=============================================================================
