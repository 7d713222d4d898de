---------------------------- MODULE ReplayProofs ----------------------------
(***************************************************************************)
(* Proofs about Replay, for every trace length: its inductive invariant,   *)
(* the safety invariants and the action property the runs check, and that  *)
(* each of its steps is a step of ReplayContract or a stutter.             *)
(***************************************************************************)
EXTENDS Replay, TLAPS

-----------------------------------------------------------------------------
(***************************************************************************)
(* The inductive invariant.  It relates the task's locals to the calls the *)
(* driver received, at each place the task can be.                         *)
(***************************************************************************)
LinkedHasSource == linked => cancelled \/ expired

LocalsFollowCalls ==
    /\ runtime <=> opened
    /\ applied = calls["apply"]
    /\ index = applied
    /\ applied <= request.steps
    /\ calls["cleanup"] = (IF runtime /\ pc \in {"cleanup", "reported"} THEN 1 ELSE 0)

BeforeRuntime ==
    /\ ~opened => applied = 0 /\ confirmed = 0 /\ calls["observe"] = 0
    /\ opened => calls["initialize"] = 1
    /\ pc \in {"start", "validate", "initializeGuard", "initialize", "rejected"} => ~opened
    /\ pc \in {"start", "validate", "initializeGuard", "rejected"} => calls["initialize"] = 0
    /\ pc = "initialize" => calls["initialize"] = 1 /\ phase = "initialize"

\* Where the task is tells how far observation and application have come.
Progress ==
    /\ pc \in {"observeGuard", "observe", "observed", "next", "apply", "applied"} => opened
    /\ pc \in {"observeGuard", "observe", "observed"} => phase = "observe" /\ confirmed = applied
    /\ pc = "observeGuard" => calls["observe"] = applied
    /\ pc \in {"observe", "observed"} => calls["observe"] = applied + 1
    /\ pc = "next" /\ outcome = Equivalent =>
           confirmed = applied + 1 /\ calls["observe"] = applied + 1
    /\ pc \in {"apply", "applied"} =>
           phase = "apply" /\ confirmed = applied /\ calls["observe"] = applied
    /\ pc = "observed" => reply \in {"equal", "different", "invalid", "error"}
    /\ pc = "applied" => reply \in {"ok", "error"}

OutcomeWhere ==
    /\ outcome # Equivalent => pc \in {"next", "finish", "cleanup", "reported"}
    /\ outcome # Equivalent => outcome.kind # "Equivalent"
    /\ outcome = Equivalent /\ pc \in {"finish", "cleanup", "reported"} =>
           opened /\ applied = request.steps /\ confirmed = request.steps + 1

\* A failure of the current phase is a failure of a call that was made.
PhaseIsCall ==
    /\ phase = "initialize" => calls["initialize"] = 1 /\ ~opened
    /\ phase = "apply" => calls["observe"] = calls["apply"]
    /\ phase = "observe" => calls["observe"] = calls["apply"] + 1
    /\ phase # "validate"

CaughtWhere ==
    /\ pc = "catchCancelled" =>
           reply \in Exceptions /\ (PhaseIsCall \/ (reply = "canceledException" /\ linked))
    /\ pc = "catchTimedOut" =>
           reply \in Exceptions /\ (PhaseIsCall \/ (reply = "canceledException" /\ expired))

IInv ==
    /\ TypeOK
    /\ LinkedHasSource
    /\ LocalsFollowCalls
    /\ BeforeRuntime
    /\ Progress
    /\ OutcomeWhere
    /\ CaughtWhere
    /\ FailureIsLocated
    /\ StopCauseHappened

-----------------------------------------------------------------------------
LEMMA InitInvariant == Init => IInv
<1> SUFFICES ASSUME Init PROVE IInv
  OBVIOUS
<1> USE MaxStepsAssumption DEF Init, Calls
<1>1. TypeOK
  <2>1. outcome \in [kind : Kinds, phase : Phases \cup {"none"}, step : 0 .. MaxSteps]
    BY DEF Equivalent, Kinds
  <2>2. calls \in [Calls -> Nat] /\ index \in 0 .. MaxSteps /\ confirmed \in 0 .. MaxSteps + 1
    BY SMT
  <2>3. applied \in 0 .. MaxSteps
    BY SMT
  <2> QED
    BY <2>1, <2>2, <2>3, Zenon DEF TypeOK, Locations, Phases
<1>2. LinkedHasSource /\ BeforeRuntime
  BY DEF LinkedHasSource, BeforeRuntime
<1>3. LocalsFollowCalls
  <2>1. request.steps \in 0 .. MaxSteps
    OBVIOUS
  <2>2. runtime <=> opened
    BY Zenon
  <2>3. applied <= request.steps /\ index = applied
    BY <2>1
  <2>4. applied = calls["apply"] /\ calls["cleanup"] = 0
    OBVIOUS
  <2> QED
    BY <2>2, <2>3, <2>4 DEF LocalsFollowCalls
<1>4. Progress /\ OutcomeWhere /\ CaughtWhere /\ FailureIsLocated /\ StopCauseHappened
  BY DEF Progress, OutcomeWhere, CaughtWhere, FailureIsLocated, StopCauseHappened, Equivalent
<1> QED
  BY <1>1, <1>2, <1>3, <1>4 DEF IInv

LEMMA StepInvariant == IInv /\ [Next]_vars => IInv'
<1> SUFFICES ASSUME IInv, [Next]_vars PROVE IInv'
  OBVIOUS
<1> USE MaxStepsAssumption
<1> USE DEF IInv, TypeOK, LinkedHasSource, LocalsFollowCalls, BeforeRuntime, Progress,
      OutcomeWhere, CaughtWhere, PhaseIsCall, FailureIsLocated, StopCauseHappened,
      Locations, Phases, Kinds, Calls, Exceptions, Equivalent, Outcome, locals, tokens, history, Fail, Raise, Called, Replies
<1>1. CASE Start
  BY <1>1 DEF Start
<1>2. CASE Validate
  BY <1>2 DEF Validate
<1>3. CASE CallInitialize
  BY <1>3 DEF CallInitialize
<1>4. CASE CallObserve
  BY <1>4 DEF CallObserve
<1>5. CASE UseObservation
  BY <1>5 DEF UseObservation
<1>6. CASE CallApply
  BY <1>6 DEF CallApply, IsEquivalent, MoreSteps
<1>7. CASE EndLoop
  BY <1>7 DEF EndLoop, IsEquivalent, MoreSteps
<1>8. CASE UseApplyReply
  BY <1>8 DEF UseApplyReply
<1>9. CASE CatchCancelled
  BY <1>9 DEF CatchCancelled, CancellationCaught
<1>10. CASE CatchTimedOut
  BY <1>10 DEF CatchTimedOut, DeadlineCaught
<1>11. CASE CallCleanup
  BY <1>11 DEF CallCleanup
<1>12. CASE Cancel
  BY <1>12 DEF Cancel
<1>13. CASE DeadlineExpires
  BY <1>13 DEF DeadlineExpires
<1>14. CASE LinkCancels
  BY <1>14 DEF LinkCancels, LinkedSources
<1>15. CASE CleanupEnds
  BY <1>15 DEF CleanupEnds, CleanupReturns
<1>16. ASSUME NEW r \in Replies({"ok"}), InitializeReturns(r) PROVE IInv'
  <2>1. CASE r = "ok"
    BY <1>16, <2>1 DEF InitializeReturns, KeepRuntime
  <2>2. CASE r = "error"
    BY <1>16, <2>2 DEF InitializeReturns
  <2>3. CASE r \in Exceptions
    BY <1>16, <2>3 DEF InitializeReturns
  <2> QED
    BY <1>16, <2>1, <2>2, <2>3
<1>17. ASSUME NEW r \in Replies({"ok"}), ApplyReturns(r) PROVE IInv'
  BY <1>17 DEF ApplyReturns
<1>18. ASSUME NEW r \in Replies({"equal", "different", "invalid"}), ObserveReturns(r) PROVE IInv'
  BY <1>18 DEF ObserveReturns
<1>19. CASE UNCHANGED vars
  BY <1>19 DEF vars
<1> QED
  BY <1>1, <1>2, <1>3, <1>4, <1>5, <1>6, <1>7, <1>8, <1>9, <1>10, <1>11, <1>12, <1>13, <1>14, <1>15, <1>16, <1>17, <1>18, <1>19 DEF Next, Local, DriverReturns

LEMMA InvariantHolds == Spec => []IInv
<1> QED
  BY InitInvariant, StepInvariant, PTL DEF Spec

(***************************************************************************)
(* Every variable keeps its type: no counter of Replay.run leaves the      *)
(* length of the trace.                                                    *)
(***************************************************************************)
THEOREM TypeCorrect == Spec => []TypeOK
<1>1. IInv => TypeOK
  BY DEF IInv
<1> QED
  BY <1>1, InvariantHolds, PTL

\* A reported Equivalent was earned by every observation and every step.
THEOREM EquivalenceEarned == Spec => []EquivalentIsEarned
<1>1. IInv => EquivalentIsEarned
  BY DEF IInv, OutcomeWhere, LocalsFollowCalls, EquivalentIsEarned
<1> QED
  BY <1>1, InvariantHolds, PTL

\* A runtime handed out by Initialize is cleaned up exactly once, whatever happens.
THEOREM CleanedUpOnce == Spec => []CleanupExactlyOnce
<1>1. IInv => CleanupExactlyOnce
  BY DEF IInv, LocalsFollowCalls, CleanupExactlyOnce
<1> QED
  BY <1>1, InvariantHolds, PTL

\* A DriverFailure names a call the driver received, at the step it failed.
THEOREM FailureLocated == Spec => []FailureIsLocated
<1>1. IInv => FailureIsLocated
  BY DEF IInv
<1> QED
  BY <1>1, InvariantHolds, PTL

\* Cancelled and TimedOut name a stop that happened: the caller's, the deadline's.
THEOREM StopCaused == Spec => []StopCauseHappened
<1>1. IInv => StopCauseHappened
  BY DEF IInv
<1> QED
  BY <1>1, InvariantHolds, PTL

\* Every effect follows full agreement, on a token that is not requested, and is counted.
THEOREM EffectsJustified == Spec => EffectsAreJustified
<1> DEFINE Justified ==
      calls'["apply"] # calls["apply"] =>
        /\ calls'["apply"] = calls["apply"] + 1
        /\ applied' = calls'["apply"]
        /\ confirmed = calls'["apply"]
        /\ outcome = Equivalent
        /\ ~linked
<1>1. ASSUME IInv, [Next]_vars PROVE [Justified]_vars
  <2>1. CASE CallApply
    BY <1>1, <2>1 DEF IInv, TypeOK, LocalsFollowCalls, Progress, CallApply, IsEquivalent,
         MoreSteps, Called, Raise, Calls
  <2>2. CASE ~CallApply
    <3>1. calls'["apply"] = calls["apply"]
      BY <1>1, <2>2 DEF IInv, TypeOK, Calls, Next, Local, DriverReturns, CleanupEnds, Start,
           Validate, CallInitialize, CallObserve, UseObservation, EndLoop, UseApplyReply,
           CatchCancelled, CatchTimedOut, CallCleanup, InitializeReturns, ApplyReturns,
           ObserveReturns, CleanupReturns, Cancel, DeadlineExpires, LinkCancels, Called,
           history, vars
    <3> QED
      BY <3>1
  <2> QED
    BY <2>1, <2>2
<1> QED
  BY <1>1, InvariantHolds, PTL DEF Spec, EffectsAreJustified

-----------------------------------------------------------------------------
\* Initial states of the task are initial states of the contract.
LEMMA RefinesInit == Init => Contract!ContractInit
  BY MaxStepsAssumption DEF Init, Contract!ContractInit, Calls

(***************************************************************************)
(* Six actions are contract steps (Open, Confirm, Effect, Decide, Close);  *)
(* the others, and what happens to the tokens, are invisible to it.        *)
(***************************************************************************)
LEMMA RefinesStep == IInv /\ IInv' /\ [Next]_vars => [Contract!ContractNext]_(Contract!contractVars)
<1> SUFFICES ASSUME IInv, IInv', [Next]_vars
             PROVE  [Contract!ContractNext]_(Contract!contractVars)
  OBVIOUS
<1> USE DEF IInv, TypeOK, LocalsFollowCalls, BeforeRuntime, Progress, OutcomeWhere,
      Kinds, Calls, Exceptions, Equivalent, Outcome, locals, tokens, history, Fail, Raise, Called,
      Replies, Contract!contractVars, Contract!ContractNext, Contract!Verdicts
<1>1. CASE Start
  BY <1>1 DEF Start
<1>2. CASE Validate
  BY <1>2 DEF Validate, Contract!Decide
<1>3. CASE CallInitialize
  BY <1>3 DEF CallInitialize
<1>4. CASE CallObserve
  BY <1>4 DEF CallObserve
<1>5. CASE UseObservation
  BY <1>5 DEF UseObservation, Contract!Confirm, Contract!Decide
<1>6. CASE CallApply
  BY <1>6 DEF CallApply, IsEquivalent, MoreSteps, Contract!Effect
<1>7. CASE EndLoop
  BY <1>7 DEF EndLoop, IsEquivalent, MoreSteps, Contract!Decide
<1>8. CASE UseApplyReply
  BY <1>8 DEF UseApplyReply, Contract!Decide
<1>9. CASE CatchCancelled
  BY <1>9 DEF CatchCancelled, CancellationCaught, Contract!Decide
<1>10. CASE CatchTimedOut
  BY <1>10 DEF CatchTimedOut, DeadlineCaught, Contract!Decide
<1>11. CASE CallCleanup
  BY <1>11 DEF CallCleanup, Contract!Close
<1>12. CASE Cancel \/ DeadlineExpires \/ LinkCancels
  BY <1>12 DEF Cancel, DeadlineExpires, LinkCancels
<1>13. CASE CleanupEnds
  BY <1>13 DEF CleanupEnds, CleanupReturns
<1>14. ASSUME NEW r \in Replies({"ok"}), InitializeReturns(r)
       PROVE  [Contract!ContractNext]_(Contract!contractVars)
  BY <1>14 DEF InitializeReturns, KeepRuntime, Contract!Open, Contract!Decide
<1>15. ASSUME NEW r \in Replies({"ok"}), ApplyReturns(r)
       PROVE  [Contract!ContractNext]_(Contract!contractVars)
  BY <1>15 DEF ApplyReturns
<1>16. ASSUME NEW r \in Replies({"equal", "different", "invalid"}), ObserveReturns(r)
       PROVE  [Contract!ContractNext]_(Contract!contractVars)
  BY <1>16 DEF ObserveReturns
<1>17. CASE UNCHANGED vars
  BY <1>17 DEF vars
<1> QED
  BY <1>1, <1>2, <1>3, <1>4, <1>5, <1>6, <1>7, <1>8, <1>9, <1>10, <1>11, <1>12, <1>13,
     <1>14, <1>15, <1>16, <1>17 DEF Next, Local, DriverReturns

(***************************************************************************)
(* Replay.run implements ReplayContract: at most one session, one effect   *)
(* at a time on an implementation that agreed so far, one verdict, which   *)
(* Cleanup never changes, and a session closed only after it.              *)
(***************************************************************************)
THEOREM Implements == Spec => ImplementsContract
<1> QED
  BY RefinesInit, RefinesStep, InvariantHolds, PTL
     DEF Spec, ImplementsContract, Contract!ContractSpec

-----------------------------------------------------------------------------
(***************************************************************************)
(* The safety half of termination.  A turn of the loop is six steps of the *)
(* task: it applies one trace step and comes back to its place.            *)
(***************************************************************************)
StepsFrom ==
    [start |-> 14, validate |-> 12, initializeGuard |-> 11, initialize |-> 10,
     apply |-> 10, applied |-> 9, observeGuard |-> 8, observe |-> 7, observed |-> 6, next |-> 5,
     catchCancelled |-> 4, catchTimedOut |-> 3, finish |-> 2, cleanup |-> 1,
     reported |-> 0, rejected |-> 0]

ToFire(token) == IF token THEN 0 ELSE 1

\* What is left: turns of the loop, steps of the task, and tokens to be requested.
Effort ==
    6 * (request.steps - applied) + StepsFrom[pc] + ToFire(cancelled) + ToFire(expired) + ToFire(linked)

LEMMA EffortIsNatural == IInv => Effort \in 0 .. 6 * MaxSteps + 17
<1> SUFFICES ASSUME IInv PROVE Effort \in 0 .. 6 * MaxSteps + 17
  OBVIOUS
<1>1. StepsFrom[pc] \in 0 .. 14
  BY DEF IInv, TypeOK, Locations, StepsFrom
<1>2. /\ ToFire(cancelled) \in 0 .. 1 /\ ToFire(expired) \in 0 .. 1 /\ ToFire(linked) \in 0 .. 1
  BY DEF ToFire
<1>3. request.steps - applied \in 0 .. MaxSteps
  BY MaxStepsAssumption DEF IInv, TypeOK, LocalsFollowCalls
<1> QED
  BY <1>1, <1>2, <1>3, MaxStepsAssumption DEF Effort

LEMMA StepTakesEffort == IInv /\ Next => Effort' < Effort
<1> SUFFICES ASSUME IInv, Next PROVE Effort' < Effort
  OBVIOUS
<1>0. /\ request.steps \in Nat /\ applied \in Nat /\ applied <= request.steps
      /\ cancelled \in BOOLEAN /\ expired \in BOOLEAN /\ linked \in BOOLEAN
  BY MaxStepsAssumption DEF IInv, TypeOK, LocalsFollowCalls
<1> USE DEF Effort, StepsFrom, ToFire, locals, tokens, history, Raise
<1>1. CASE Start
  BY <1>0, <1>1 DEF Start
<1>2. CASE Validate \/ CallInitialize \/ CallObserve
  BY <1>0, <1>2 DEF Validate, CallInitialize, CallObserve
<1>3. CASE UseObservation \/ EndLoop \/ UseApplyReply
  BY <1>0, <1>3 DEF UseObservation, EndLoop, UseApplyReply
<1>4. CASE CallApply
  BY <1>0, <1>4 DEF CallApply, MoreSteps
<1>5. CASE CatchCancelled \/ CatchTimedOut \/ CallCleanup
  BY <1>0, <1>5 DEF CatchCancelled, CatchTimedOut, CallCleanup
<1>6. ASSUME NEW r, InitializeReturns(r) \/ ApplyReturns(r) \/ ObserveReturns(r) \/ CleanupReturns(r)
      PROVE  Effort' < Effort
  <2>1. CASE InitializeReturns(r)
    <3>1. /\ pc = "initialize" /\ pc' \in {"observeGuard", "finish", "catchCancelled"}
          /\ UNCHANGED <<request, applied, cancelled, expired, linked>>
      BY <2>1 DEF InitializeReturns
    <3> QED
      BY <1>0, <3>1
  <2>2. CASE ApplyReturns(r)
    BY <1>0, <2>2 DEF ApplyReturns
  <2>3. CASE ObserveReturns(r)
    BY <1>0, <2>3 DEF ObserveReturns
  <2>4. CASE CleanupReturns(r)
    BY <1>0, <2>4 DEF CleanupReturns
  <2> QED
    BY <1>6, <2>1, <2>2, <2>3, <2>4
<1>7. ASSUME Cancel \/ DeadlineExpires \/ LinkCancels
      PROVE  Effort' < Effort
  <2>1. request' = request /\ applied' = applied /\ pc' = pc /\ StepsFrom[pc] \in Nat
    BY <1>7 DEF Cancel, DeadlineExpires, LinkCancels, IInv, TypeOK, Locations
  <2>2. CASE Cancel
    BY <1>0, <2>1, <2>2 DEF Cancel
  <2>3. CASE DeadlineExpires
    BY <1>0, <2>1, <2>3 DEF DeadlineExpires
  <2>4. CASE LinkCancels
    BY <1>0, <2>1, <2>4 DEF LinkCancels
  <2> QED
    BY <1>7, <2>2, <2>3, <2>4
<1> QED
  BY <1>1, <1>2, <1>3, <1>4, <1>5, <1>6, <1>7 DEF Next, Local, DriverReturns, CleanupEnds

(***************************************************************************)
(* A replay cannot go on for ever, whatever the driver answers and         *)
(* whenever the tokens are requested: each thing that happens takes from a *)
(* natural number, at most six times the length of the trace, and 17.      *)
(***************************************************************************)
THEOREM ReplayIsFinite ==
    Spec => [](Effort \in 0 .. 6 * MaxSteps + 17) /\ [][Effort' < Effort]_vars
<1>1. IInv /\ [Next]_vars => [Effort' < Effort]_vars
  BY StepTakesEffort
<1> QED
  BY <1>1, EffortIsNatural, InvariantHolds, PTL DEF Spec
=============================================================================
