------------------------------- MODULE Replay -------------------------------
(***************************************************************************)
(* Replay.run of src/FsQuint/Replay.fs: one replay of a trace against a    *)
(* caller-supplied driver, under a caller's cancellation token and a       *)
(* deadline, which are joined in a linked token.                           *)
(*                                                                         *)
(* Definitions named ...Mutant are plausible faults: nothing refers to      *)
(* them, and substituting one must break a property.                       *)
(*                                                                         *)
(* The task runs alone, but three things happen beside it at any time: the *)
(* caller cancels, the deadline expires, and the linked token learns of    *)
(* either.  So every read of a token is a step of its own.  The driver is  *)
(* external: each call ends with any reply the driver's type and .NET      *)
(* allow, an OperationCanceledException and any other exception included.  *)
(***************************************************************************)
EXTENDS Naturals

CONSTANT MaxSteps  \* longest trace considered

ASSUME MaxStepsAssumption == MaxSteps \in Nat

VARIABLES
    request,         \* the arguments: [timeoutOk, traceOk, steps]
    pc,              \* where the task is
    phase, index, applied, outcome, runtime, cleanupFailure,  \* its locals
    reply,           \* the driver reply or exception being handled
    cancelled,       \* cancellation.IsCancellationRequested
    expired,         \* deadline.IsCancellationRequested
    linked,          \* token.IsCancellationRequested, the linked token
    calls,           \* history: the calls the driver received
    opened,          \* history: the driver handed out a runtime
    confirmed        \* history: expected states found equal to observed ones

locals == <<phase, index, applied, outcome, runtime, cleanupFailure>>
tokens == <<cancelled, expired, linked>>
history == <<calls, opened, confirmed>>
vars == <<request, pc, locals, reply, tokens, history>>

-----------------------------------------------------------------------------
Kinds == {"Equivalent", "Diverged", "InvalidTrace", "DriverFailure", "Cancelled", "TimedOut"}
Phases == {"validate", "initialize", "observe", "apply"}
Calls == {"initialize", "observe", "apply", "cleanup"}
Exceptions == {"canceledException", "exception"}
Locations ==
    {"start", "validate", "initializeGuard", "initialize", "observeGuard", "observe",
     "observed", "next", "apply", "applied", "catchCancelled", "catchTimedOut",
     "finish", "cleanup", "reported", "rejected"}

\* An outcome, with the position where that kind of outcome carries one.
Outcome(kind) ==
    [kind |-> kind,
     phase |-> IF kind = "DriverFailure" THEN phase ELSE "none",
     step |-> IF kind \in {"DriverFailure", "Diverged"} THEN index ELSE 0]

Equivalent == [kind |-> "Equivalent", phase |-> "none", step |-> 0]

Fail == outcome' = Outcome("DriverFailure")

Raise(exception) ==
    /\ pc' = "catchCancelled"
    /\ reply' = exception

\* The await of a driver call ends.
Replies(normal) == normal \cup {"error"} \cup Exceptions

Called(name) == calls' = [calls EXCEPT ![name] = @ + 1]

IsEquivalentMutant == TRUE

IsEquivalent == outcome = Equivalent

\* Is there a step of the trace that was not applied?
MoreStepsMutantEarly == applied + 1 < request.steps

MoreStepsMutantLate == applied <= request.steps

MoreSteps == applied < request.steps

\* The two exception filters, in their order.
CancellationCaughtMutant == reply = "canceledException" /\ linked

CancellationCaught == reply = "canceledException" /\ cancelled

DeadlineCaughtMutant == reply = "canceledException" /\ cancelled

DeadlineCaught == reply = "canceledException" /\ expired

\* What the linked token source listens to.
LinkedSourcesMutant == cancelled

LinkedSources == cancelled \/ expired

\* runtime <- Some value, before any token is read again.
KeepRuntimeMutant == runtime' = ~linked

KeepRuntime == runtime' = TRUE

-----------------------------------------------------------------------------
Init ==
    /\ request \in [timeoutOk : BOOLEAN, traceOk : BOOLEAN, steps : 0 .. MaxSteps]
    /\ pc = "start"
    /\ phase = "validate"
    /\ index = 0
    /\ applied = 0
    /\ outcome = Equivalent
    /\ runtime = FALSE
    /\ cleanupFailure = FALSE
    /\ reply = "none"
    /\ cancelled \in BOOLEAN
    /\ expired = FALSE
    /\ linked = FALSE
    /\ calls = [c \in Calls |-> 0]
    /\ opened = FALSE
    /\ confirmed = 0

\* A timeout CancellationTokenSource does not support raises from the task.
Start ==
    /\ pc = "start"
    /\ pc' = IF request.timeoutOk THEN "validate" ELSE "rejected"
    /\ linked' = (request.timeoutOk /\ cancelled)
    /\ UNCHANGED <<request, locals, reply, cancelled, expired, history>>

Validate ==
    /\ pc = "validate"
    /\ \/ /\ request.traceOk
          /\ pc' = "initializeGuard"
          /\ UNCHANGED outcome
       \/ /\ ~request.traceOk
          /\ pc' = "finish"
          /\ outcome' = Outcome("InvalidTrace")
    /\ UNCHANGED <<request, phase, index, applied, runtime, cleanupFailure, reply, tokens, history>>

\* token.ThrowIfCancellationRequested(), then the Initialize call.
CallInitialize ==
    /\ pc = "initializeGuard"
    /\ \/ /\ linked
          /\ Raise("canceledException")
          /\ UNCHANGED <<phase, calls>>
       \/ /\ ~linked
          /\ phase' = "initialize"
          /\ Called("initialize")
          /\ pc' = "initialize"
          /\ UNCHANGED reply
    /\ UNCHANGED <<request, index, applied, outcome, runtime, cleanupFailure, tokens, opened, confirmed>>

\* No token is read between the reply and runtime <- Some value.
InitializeReturns(r) ==
    /\ pc = "initialize"
    /\ \/ /\ r = "ok"
          /\ opened' = TRUE
          /\ KeepRuntime
          /\ phase' = "observe"
          /\ pc' = "observeGuard"
          /\ UNCHANGED <<outcome, reply>>
       \/ /\ r = "error"
          /\ Fail
          /\ pc' = "finish"
          /\ UNCHANGED <<opened, runtime, phase, reply>>
       \/ /\ r \in Exceptions
          /\ Raise(r)
          /\ UNCHANGED <<opened, runtime, phase, outcome>>
    /\ UNCHANGED <<request, index, applied, cleanupFailure, tokens, calls, confirmed>>

CallObserve ==
    /\ pc = "observeGuard"
    /\ \/ /\ linked
          /\ Raise("canceledException")
          /\ UNCHANGED calls
       \/ /\ ~linked
          /\ Called("observe")
          /\ pc' = "observe"
          /\ UNCHANGED reply
    /\ UNCHANGED <<request, locals, tokens, opened, confirmed>>

ObserveReturns(r) ==
    /\ pc = "observe"
    /\ reply' = r
    /\ pc' = IF r \in Exceptions THEN "catchCancelled" ELSE "observed"
    /\ UNCHANGED <<request, locals, tokens, history>>

(***************************************************************************)
(* The token is read again before the observation is used.  The expected   *)
(* state of a valid trace always encodes, so the branch for an unencodable *)
(* expected state cannot be taken here.                                    *)
(***************************************************************************)
UseObservation ==
    /\ pc = "observed"
    /\ \/ /\ linked
          /\ Raise("canceledException")
          /\ UNCHANGED <<outcome, confirmed>>
       \/ /\ ~linked
          /\ pc' = "next"
          /\ reply' = "none"
          /\ \/ /\ reply = "equal"
                /\ confirmed' = confirmed + 1
                /\ UNCHANGED outcome
             \/ /\ reply = "different"
                /\ outcome' = Outcome("Diverged")
                /\ UNCHANGED confirmed
             \/ /\ reply \in {"invalid", "error"}
                /\ Fail
                /\ UNCHANGED confirmed
    /\ UNCHANGED <<request, phase, index, applied, runtime, cleanupFailure, tokens, calls, opened>>

\* One turn of `for step in trace.Steps`: the effect is counted before it is awaited.
CallApply ==
    /\ pc = "next"
    /\ IsEquivalent
    /\ MoreSteps
    /\ \/ /\ linked
          /\ Raise("canceledException")
          /\ UNCHANGED <<index, phase, applied, calls>>
       \/ /\ ~linked
          /\ index' = applied + 1
          /\ phase' = "apply"
          /\ applied' = applied + 1
          /\ Called("apply")
          /\ pc' = "apply"
          /\ UNCHANGED reply
    /\ UNCHANGED <<request, outcome, runtime, cleanupFailure, tokens, opened, confirmed>>

\* The steps are exhausted, or the outcome is no longer Equivalent.
EndLoop ==
    /\ pc = "next"
    /\ ~IsEquivalent \/ ~MoreSteps
    /\ pc' = "finish"
    /\ UNCHANGED <<request, locals, reply, tokens, history>>

ApplyReturns(r) ==
    /\ pc = "apply"
    /\ reply' = r
    /\ pc' = IF r \in Exceptions THEN "catchCancelled" ELSE "applied"
    /\ UNCHANGED <<request, locals, tokens, history>>

\* A requested token hides the reply, an Error included.
UseApplyReply ==
    /\ pc = "applied"
    /\ \/ /\ linked
          /\ Raise("canceledException")
          /\ UNCHANGED <<phase, outcome>>
       \/ /\ ~linked
          /\ reply = "ok"
          /\ phase' = "observe"
          /\ pc' = "observeGuard"
          /\ reply' = "none"
          /\ UNCHANGED outcome
       \/ /\ ~linked
          /\ reply = "error"
          /\ Fail
          /\ pc' = "next"
          /\ reply' = "none"
          /\ UNCHANGED phase
    /\ UNCHANGED <<request, index, applied, runtime, cleanupFailure, tokens, history>>

\* `when cancellation.IsCancellationRequested`, read first ...
CatchCancelled ==
    /\ pc = "catchCancelled"
    /\ \/ /\ CancellationCaught
          /\ outcome' = Outcome("Cancelled")
          /\ pc' = "finish"
          /\ reply' = "none"
       \/ /\ ~CancellationCaught
          /\ pc' = "catchTimedOut"
          /\ UNCHANGED <<outcome, reply>>
    /\ UNCHANGED <<request, phase, index, applied, runtime, cleanupFailure, tokens, history>>

\* ... then `when deadline.IsCancellationRequested`, then any exception.
CatchTimedOut ==
    /\ pc = "catchTimedOut"
    /\ IF DeadlineCaught
       THEN outcome' = Outcome("TimedOut")
       ELSE Fail
    /\ pc' = "finish"
    /\ reply' = "none"
    /\ UNCHANGED <<request, phase, index, applied, runtime, cleanupFailure, tokens, history>>

\* Cleanup is called with CancellationToken.None, and only for a runtime.
CallCleanup ==
    /\ pc = "finish"
    /\ \/ /\ runtime
          /\ Called("cleanup")
          /\ pc' = "cleanup"
       \/ /\ ~runtime
          /\ pc' = "reported"
          /\ UNCHANGED calls
    /\ UNCHANGED <<request, locals, reply, tokens, opened, confirmed>>

CleanupReturnsMutant(r) ==
    /\ pc = "cleanup"
    /\ cleanupFailure' = (r # "ok")
    /\ pc' = "reported"
    /\ IF r = "ok" THEN UNCHANGED outcome ELSE Fail
    /\ UNCHANGED <<request, phase, index, applied, runtime, reply, tokens, history>>

CleanupReturns(r) ==
    /\ pc = "cleanup"
    /\ cleanupFailure' = (r # "ok")
    /\ pc' = "reported"
    /\ UNCHANGED <<request, phase, index, applied, outcome, runtime, reply, tokens, history>>

-----------------------------------------------------------------------------
Cancel ==
    /\ ~cancelled
    /\ cancelled' = TRUE
    /\ UNCHANGED <<request, pc, locals, reply, expired, linked, history>>

\* The deadline source exists from Start on and its timer fires once.
DeadlineExpires ==
    /\ pc \notin {"start", "rejected", "reported"}
    /\ ~expired
    /\ expired' = TRUE
    /\ UNCHANGED <<request, pc, locals, reply, cancelled, linked, history>>

\* The registration on either source cancels the linked source.
LinkCancels ==
    /\ pc \notin {"start", "rejected", "reported"}
    /\ LinkedSources
    /\ ~linked
    /\ linked' = TRUE
    /\ UNCHANGED <<request, pc, locals, reply, cancelled, expired, history>>

-----------------------------------------------------------------------------
Local ==
    \/ Start \/ Validate \/ CallInitialize \/ CallObserve \/ UseObservation
    \/ CallApply \/ EndLoop \/ UseApplyReply \/ CatchCancelled \/ CatchTimedOut
    \/ CallCleanup

DriverReturns ==
    \/ \E r \in Replies({"ok"}) : InitializeReturns(r) \/ ApplyReturns(r)
    \/ \E r \in Replies({"equal", "different", "invalid"}) : ObserveReturns(r)

CleanupEnds == \E r \in Replies({"ok"}) : CleanupReturns(r)

Next ==
    \/ Local
    \/ DriverReturns
    \/ CleanupEnds
    \/ Cancel
    \/ DeadlineExpires
    \/ LinkCancels

Spec == Init /\ [][Next]_vars

(***************************************************************************)
(* The task and the timer progress.  A callback is only assumed to return  *)
(* once its token is requested ("use process isolation for untrusted or    *)
(* non-cooperative drivers"); Cleanup gets no token and must return.       *)
(***************************************************************************)
Fairness ==
    /\ WF_vars(Local)
    /\ WF_vars(DeadlineExpires)
    /\ WF_vars(LinkCancels)
    /\ WF_vars(linked /\ DriverReturns)
    /\ WF_vars(CleanupEnds)

FairSpec == Spec /\ Fairness

-----------------------------------------------------------------------------
\* Types of all variables, over every trace length up to MaxSteps.
TypeOK ==
    /\ request \in [timeoutOk : BOOLEAN, traceOk : BOOLEAN, steps : 0 .. MaxSteps]
    /\ pc \in Locations
    /\ phase \in Phases
    /\ index \in 0 .. MaxSteps
    /\ applied \in 0 .. MaxSteps
    /\ outcome \in [kind : Kinds, phase : Phases \cup {"none"}, step : 0 .. MaxSteps]
    /\ runtime \in BOOLEAN
    /\ cleanupFailure \in BOOLEAN
    /\ reply \in {"none"} \cup Replies({"ok", "equal", "different", "invalid"})
    /\ cancelled \in BOOLEAN
    /\ expired \in BOOLEAN
    /\ linked \in BOOLEAN
    /\ calls \in [Calls -> Nat]
    /\ opened \in BOOLEAN
    /\ confirmed \in 0 .. MaxSteps + 1

(***************************************************************************)
(* A report of Equivalent was earned: the initial state and the state      *)
(* after each step were all observed and equal, and every step applied.    *)
(***************************************************************************)
EquivalentIsEarned ==
    pc = "reported" /\ outcome = Equivalent =>
        /\ calls["apply"] = request.steps
        /\ confirmed = request.steps + 1

(***************************************************************************)
(* A runtime the driver handed out is cleaned up exactly once before the   *)
(* report, however the replay ended; no runtime, no cleanup.               *)
(***************************************************************************)
CleanupExactlyOnce ==
    pc = "reported" => calls["cleanup"] = (IF opened THEN 1 ELSE 0)

(***************************************************************************)
(* A DriverFailure names the callback that failed: its phase is that of a  *)
(* call the driver received and its step is the last one applied.  A       *)
(* cancellation raised between callbacks is never reported as a failure.   *)
(***************************************************************************)
FailureIsLocated ==
    outcome.kind = "DriverFailure" =>
        /\ outcome.step = calls["apply"]
        /\ outcome.phase = "initialize" => calls["initialize"] = 1 /\ ~opened
        /\ outcome.phase = "apply" => calls["observe"] = calls["apply"]
        /\ outcome.phase = "observe" => calls["observe"] = calls["apply"] + 1
        /\ outcome.phase # "validate"

\* Cancelled is reported only after the caller cancelled, TimedOut only after the deadline.
StopCauseHappened ==
    /\ outcome.kind = "Cancelled" => cancelled
    /\ outcome.kind = "TimedOut" => expired

(***************************************************************************)
(* Effects are made once the earlier states agreed, never on a requested   *)
(* token, and each is counted in AppliedSteps before its result is known.  *)
(***************************************************************************)
EffectsAreJustified ==
    [][calls'["apply"] # calls["apply"] =>
        /\ calls'["apply"] = calls["apply"] + 1
        /\ applied' = calls'["apply"]
        /\ confirmed = calls'["apply"]
        /\ outcome = Equivalent
        /\ ~linked]_vars

\* With a timer, a cooperative driver and a returning Cleanup, every run ends.
Reports == <>(pc \in {"reported", "rejected"})

-----------------------------------------------------------------------------
\* What the caller can tell of the run: the contract's view of it.
Contract ==
    INSTANCE ReplayContract WITH
        steps <- request.steps,
        session <- IF calls["cleanup"] > 0 THEN "closed"
                   ELSE IF opened THEN "open" ELSE "unopened",
        effects <- calls["apply"],
        confirmed <- confirmed,
        verdict <- IF outcome = Equivalent /\ pc \notin {"finish", "cleanup", "reported"}
                   THEN "pending" ELSE outcome.kind

\* Replay.run implements the contract: every step of it is a contract step or a stutter.
ImplementsContract == Contract!ContractSpec
=============================================================================
