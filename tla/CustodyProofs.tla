---------------------------- MODULE CustodyProofs ----------------------------
(***************************************************************************)
(* Proofs about Custody, for every number of invocations and slots: its    *)
(* inductive invariant, the safety invariants and the action property the  *)
(* runs check.                                                             *)
(***************************************************************************)
EXTENDS Custody, TLAPS

\* Invocation i stands for its Claimed slot: it has no session to put there.
Holds(i) == pc[i] = "prepare" \/ (pc[i] = "finally" /\ ~retained[i])

LocalsByPlace ==
    \A i \in Invocations :
        /\ pc[i] \in {"start", "claim"} => slot[i] = 0
        /\ pc[i] \in {"start", "claim", "prepare"} => ~retained[i]
        /\ pc[i] \in {"run", "running", "observe", "final", "release"} => retained[i]
        /\ retained[i] => slot[i] \in Slots
        /\ retained[i] <=> tasks[i] # "none"
        /\ ownsSlot[i] => slot[i] \in Slots
        /\ pc[i] = "run" => tasks[i] = "prepared"

\* A holder's slot is Claimed, and is nobody else's.
HoldersClaim ==
    \A i \in Invocations : Holds(i) =>
        /\ slot[i] \in Slots
        /\ custody[slot[i]] = Claimed
        /\ ownsSlot[i]
        /\ \A j \in Invocations : Holds(j) /\ slot[j] = slot[i] => j = i

ClaimedAreHeld ==
    \A s \in Slots : custody[s] = Claimed => \E i \in Invocations : Holds(i) /\ slot[i] = s

\* A slot retains a session only in its invocation's slot and until it is released.
RetainedAreUnresolved ==
    \A s \in Slots : \A i \in Invocations :
        custody[s] = i => retained[i] /\ slot[i] = s /\ ~released[i]

ReleasedAreSettled ==
    \A i \in Invocations :
        /\ released[i] => freed[i]
        /\ freed[i] => tasks[i] = "settled"

\* What the invocation remembers of its session's stop, which is set once.
StopIsRemembered ==
    \A i \in Invocations :
        /\ firstOutcome[i] # "none" => stop[i] # "none" /\ firstOutcome[i] = StopOutcome(stop[i])
        /\ initial[i] # "none" => stop[i] = initial[i] /\ firstOutcome[i] # "none"
        /\ pc[i] \in {"start", "claim", "prepare", "run", "running"} => initial[i] = "none"
        /\ pc[i] \in {"start", "claim", "prepare", "run"} => firstOutcome[i] = "none"
        /\ tasks[i] \in {"none", "prepared"} => stop[i] = "none"
        /\ pc[i] = "release" =>
            /\ firstOutcome[i] = StopOutcome(final[i].stop)
            /\ final[i].stop # "none" => stop[i] = final[i].stop
            /\ final[i].settled => tasks[i] = "settled" /\ stop[i] = final[i].stop

OutcomeByPlace ==
    \A i \in Invocations : pc[i] \in {"finally", "done"} <=> outcome[i] # "none"

CustodyInv ==
    /\ CustodyTypeOK
    /\ LocalsByPlace
    /\ HoldersClaim
    /\ ClaimedAreHeld
    /\ RetainedAreUnresolved
    /\ UnresolvedAreRetained
    /\ ReleasedAreSettled
    /\ StopIsRemembered
    /\ OutcomeByPlace
    /\ PositiveIsReleased
    /\ FirstStopSurvives
-----------------------------------------------------------------------------
LEMMA CustodyInitInvariant == CustodyInit => CustodyInv
BY CustodyAssumption DEF CustodyInit, CustodyInv, CustodyTypeOK, LocalsByPlace, HoldersClaim, ClaimedAreHeld,
   RetainedAreUnresolved, UnresolvedAreRetained, ReleasedAreSettled, StopIsRemembered, OutcomeByPlace, PositiveIsReleased,
   FirstStopSurvives, Holds, Slots, NoSnapshot, Snapshots, Stops, Evidence, Outcomes, Places

LEMMA FinallyTypes ==
    ASSUME CustodyTypeOK, NEW i \in Invocations, Finally(i)
    PROVE  CustodyTypeOK'
<1>1. \/ custody' = custody \/ custody' = [custody EXCEPT ![slot[i]] = Vacant]
  BY DEF Finally, ReleaseSlot
<1>2. custody' \in [Slots -> Invocations \cup {Vacant, Claimed}]
  <2>1. custody \in [Slots -> Invocations \cup {Vacant, Claimed}]
    BY DEF CustodyTypeOK
  <2> QED
    BY <1>1, <2>1
<1>3. released' = released \/ released' = [released EXCEPT ![i] = released[i] \/ freed[i]]
  BY DEF Finally, ReleaseSlot
<1>4. released' \in [Invocations -> BOOLEAN]
  <2>1. (released[i] \/ freed[i]) \in BOOLEAN /\ released \in [Invocations -> BOOLEAN]
    BY DEF CustodyTypeOK
  <2> QED
    BY <1>3, <2>1
<1>5. ownsSlot' \in [Invocations -> BOOLEAN] /\ firstOutcome' \in [Invocations -> Outcomes]
  BY DEF Finally, DropLocals, CustodyTypeOK, Outcomes
<1>6. initial' \in [Invocations -> Stops] /\ final' \in [Invocations -> Snapshots]
  BY DEF Finally, DropLocals, CustodyTypeOK, Stops, NoSnapshot, Snapshots
<1>7. pc' \in [Invocations -> Places]
  BY DEF Finally, Go, CustodyTypeOK, Places
<1> QED
  BY <1>2, <1>4, <1>5, <1>6, <1>7 DEF Finally, CustodyTypeOK, sessions, budget

LEMMA StepInvariant == CustodyInv /\ [CustodyNext]_custodyVars => CustodyInv'
<1> SUFFICES ASSUME CustodyInv, [CustodyNext]_custodyVars PROVE CustodyInv'
  OBVIOUS
<1> USE CustodyAssumption
<1> USE DEF CustodyInv, CustodyTypeOK, LocalsByPlace, HoldersClaim, ClaimedAreHeld, RetainedAreUnresolved,
      UnresolvedAreRetained, ReleasedAreSettled, StopIsRemembered, OutcomeByPlace, PositiveIsReleased,
      FirstStopSurvives, Holds, Outcomes, Places, locals, sessions, budget, Go, Return, Leave
<1>1. ASSUME NEW i \in Invocations, CheckBudget(i) PROVE CustodyInv'
  <2>1. CustodyTypeOK'
    BY <1>1 DEF CheckBudget
  <2>2. LocalsByPlace'
    BY <1>1 DEF CheckBudget
  <2>3. HoldersClaim'
    BY <1>1 DEF CheckBudget
  <2>4. ClaimedAreHeld'
    BY <1>1 DEF CheckBudget
  <2>5. RetainedAreUnresolved'
    BY <1>1 DEF CheckBudget
  <2>6. UnresolvedAreRetained'
    BY <1>1 DEF CheckBudget
  <2>7. ReleasedAreSettled'
    BY <1>1 DEF CheckBudget
  <2>8. StopIsRemembered'
    BY <1>1 DEF CheckBudget
  <2>9. OutcomeByPlace'
    BY <1>1 DEF CheckBudget
  <2>10. PositiveIsReleased'
    BY <1>1 DEF CheckBudget
  <2>11. FirstStopSurvives'
    BY <1>1 DEF CheckBudget
  <2> QED
    BY <2>1, <2>2, <2>3, <2>4, <2>5, <2>6, <2>7, <2>8, <2>9, <2>10, <2>11
<1>2. ASSUME NEW i \in Invocations, Run(i) PROVE CustodyInv'
  BY <1>2 DEF Run
<1>3. ASSUME NEW i \in Invocations, RunReturns(i) PROVE CustodyInv'
  BY <1>3 DEF RunReturns, RememberStop, StopOutcome, Stops
<1>4. ASSUME NEW i \in Invocations, Observe(i) PROVE CustodyInv'
  BY <1>4 DEF Observe, RememberStop, Observing, StopOutcome, Stops
<1>5. ASSUME NEW i \in Invocations, ObserveFinal(i) PROVE CustodyInv'
  <2>1. PICK shown \in Evidence :
          final' = [final EXCEPT ![i] =
                      [stop |-> stop[i], settled |-> tasks[i] = "settled", evidence |-> shown]]
    BY <1>5 DEF ObserveFinal
  <2>2. CustodyTypeOK'
    <3>1. [stop |-> stop[i], settled |-> tasks[i] = "settled", evidence |-> shown] \in Snapshots
      BY DEF Snapshots, Stops, Evidence
    <3>2. final' \in [Invocations -> Snapshots]
      BY <2>1, <3>1
    <3>3. firstOutcome' \in [Invocations -> Outcomes]
      BY <1>5 DEF ObserveFinal, RememberStop, StopOutcome, Stops
    <3> QED
      BY <1>5, <3>2, <3>3 DEF ObserveFinal
  <2>3. StopIsRemembered'
    BY <1>5, <2>1 DEF ObserveFinal, RememberStop, StopOutcome, Stops
  <2> QED
    BY <1>5, <2>2, <2>3 DEF ObserveFinal, RememberStop
<1>6. ASSUME NEW i \in Invocations, SessionThrows(i) PROVE CustodyInv'
  BY <1>6 DEF SessionThrows, FailedOutcome, StopOutcome, Stops
<1>7. ASSUME NEW i \in Invocations, Release(i) PROVE CustodyInv'
  BY <1>7 DEF Release, ReleaseSlot, StillOwnsSlot, Classify, Positive, StopOutcome, Stops, Snapshots
<1>8. ASSUME NEW i \in Invocations, Finally(i) PROVE CustodyInv'
  <2> USE <1>8 DEF Finally, DropLocals, ReleaseSlot, StillOwnsSlot, NoSnapshot, Snapshots, Stops
  <2>0. CustodyTypeOK'
    BY FinallyTypes
  <2>1. CASE ownsSlot[i] /\ retained[i]
    <3>1. CustodyTypeOK'
      BY <2>0
    <3>2. LocalsByPlace'
      BY <2>1
    <3>3. HoldersClaim'
      BY <2>1
    <3>4. ClaimedAreHeld'
      <4>1. \A s \in Slots : custody'[s] = Claimed => custody[s] = Claimed
        BY <2>1
      <4>2. \A j \in Invocations : Holds(j) => Holds(j)'
        BY <2>1
      <4> QED
        BY <4>1, <4>2
    <3>5. RetainedAreUnresolved'
      <4>1. UNCHANGED <<retained, slot>>
        BY <2>1
      <4>2. \A s \in Slots : \A j \in Invocations : custody'[s] = j => custody[s] = j
        BY <2>1
      <4>3. \A j \in Invocations : j # i => released'[j] = released[j]
        BY <2>1
      <4>4. CASE freed[i]
        <5>1. \A s \in Slots : custody'[s] # i
          BY <2>1, <4>2, <4>4
        <5> QED
          BY <4>1, <4>2, <4>3, <5>1
      <4>5. CASE ~freed[i]
        <5>1. released'[i] <=> released[i]
          BY <2>1, <4>5
        <5> QED
          BY <4>1, <4>2, <4>3, <5>1
      <4> QED
        BY <4>4, <4>5
    <3>6. UnresolvedAreRetained'
      BY <2>1
    <3>7. ReleasedAreSettled'
      BY <2>1
    <3>8. StopIsRemembered'
      BY <2>1
    <3>9. OutcomeByPlace'
      BY <2>1
    <3>10. PositiveIsReleased'
      BY <2>1
    <3>11. FirstStopSurvives'
      BY <2>1
    <3> QED
      BY <3>1, <3>2, <3>3, <3>4, <3>5, <3>6, <3>7, <3>8, <3>9, <3>10, <3>11
  <2>2. CASE ownsSlot[i] /\ ~retained[i]
    <3>1. CustodyTypeOK'
      BY <2>0
    <3>2. LocalsByPlace'
      BY <2>2
    <3>3. HoldersClaim'
      BY <2>2
    <3>4. ClaimedAreHeld'
      <4>1. \A s \in Slots : custody'[s] = Claimed => custody[s] = Claimed /\ s # slot[i]
        BY <2>2
      <4>2. \A j \in Invocations : j # i /\ Holds(j) => Holds(j)'
        BY <2>2
      <4> QED
        BY <4>1, <4>2
    <3>5. RetainedAreUnresolved'
      <4>1. \A s \in Slots : \A j \in Invocations : custody'[s] = j => custody[s] = j
        BY <2>2
      <4>2. UNCHANGED <<retained, slot, released>>
        BY <2>2
      <4> QED
        BY <4>1, <4>2
    <3>6. UnresolvedAreRetained'
      BY <2>2
    <3>7. ReleasedAreSettled'
      BY <2>2
    <3>8. StopIsRemembered'
      BY <2>2
    <3>9. OutcomeByPlace'
      BY <2>2
    <3>10. PositiveIsReleased'
      BY <2>2
    <3>11. FirstStopSurvives'
      BY <2>2
    <3> QED
      BY <3>1, <3>2, <3>3, <3>4, <3>5, <3>6, <3>7, <3>8, <3>9, <3>10, <3>11
  <2>3. CASE ~ownsSlot[i]
    BY <2>3
  <2> QED
    BY <2>1, <2>2, <2>3
<1>9. ASSUME NEW i \in Invocations, RequestStop(i) PROVE CustodyInv'
  BY <1>9 DEF RequestStop, Stops, StopOutcome
<1>10. ASSUME NEW i \in Invocations, Settle(i) PROVE CustodyInv'
  BY <1>10 DEF Settle
<1>11. ASSUME NEW i \in Invocations, Free(i) PROVE CustodyInv'
  BY <1>11 DEF Free
<1>12. ASSUME NEW i \in Invocations, Prepare(i) PROVE CustodyInv'
  <2> USE <1>12 DEF Prepare
  <2>1. ASSUME NEW result \in {"TimedOut", "LaunchFailure"}, Leave(i, result),
               UNCHANGED <<custody, retained, tasks>>
        PROVE  CustodyInv'
    <3>1. CustodyTypeOK'
      BY <2>1
    <3>2. LocalsByPlace'
      BY <2>1
    <3>3. HoldersClaim'
      BY <2>1
    <3>4. ClaimedAreHeld'
      BY <2>1
    <3>5. RetainedAreUnresolved'
      BY <2>1
    <3>6. UnresolvedAreRetained'
      BY <2>1
    <3>7. ReleasedAreSettled'
      BY <2>1
    <3>8. StopIsRemembered'
      BY <2>1
    <3>9. OutcomeByPlace'
      BY <2>1
    <3>10. PositiveIsReleased'
      BY <2>1
    <3>11. FirstStopSurvives'
      BY <2>1
    <3> QED
      BY <3>1, <3>2, <3>3, <3>4, <3>5, <3>6, <3>7, <3>8, <3>9, <3>10, <3>11
  <2>2. ASSUME retained' = [retained EXCEPT ![i] = TRUE], custody' = [custody EXCEPT ![slot[i]] = i],
               tasks' = [tasks EXCEPT ![i] = "prepared"], Go(i, "run"), UNCHANGED outcome
        PROVE  CustodyInv'
    <3>1. CustodyTypeOK'
      BY <2>2
    <3>2. LocalsByPlace'
      BY <2>2
    <3>3. HoldersClaim'
      BY <2>2
    <3>4. ClaimedAreHeld'
      BY <2>2
    <3>5. RetainedAreUnresolved'
      BY <2>2
    <3>6. UnresolvedAreRetained'
      BY <2>2
    <3>7. ReleasedAreSettled'
      BY <2>2
    <3>8. StopIsRemembered'
      BY <2>2
    <3>9. OutcomeByPlace'
      BY <2>2
    <3>10. PositiveIsReleased'
      BY <2>2
    <3>11. FirstStopSurvives'
      BY <2>2
    <3> QED
      BY <3>1, <3>2, <3>3, <3>4, <3>5, <3>6, <3>7, <3>8, <3>9, <3>10, <3>11
  <2> QED
    BY <2>1, <2>2
<1>13. ASSUME NEW i \in Invocations, ClaimSlot(i) PROVE CustodyInv'
  <2> USE <1>13 DEF ClaimSlot
  <2>1. \A s \in Slots :
          /\ Swept[s] \in Invocations \cup {Vacant, Claimed}
          /\ Swept[s] = Claimed <=> custody[s] = Claimed
          /\ \A j \in Invocations : Swept[s] = j <=> custody[s] = j /\ ~freed[j]
    BY DEF Swept
  <2>2. \A j \in Invocations : released'[j] <=> released[j] \/ (freed[j] /\ retained[j])
    BY DEF SweptSessions
  <2>3. released' \in [Invocations -> BOOLEAN]
    BY DEF SweptSessions
  <2>4. ASSUME NEW s \in Slots, FirstVacant(Swept, s), custody' = [Swept EXCEPT ![s] = Claimed],
               slot' = [slot EXCEPT ![i] = s], ownsSlot' = [ownsSlot EXCEPT ![i] = TRUE],
               Go(i, "prepare"), UNCHANGED outcome
        PROVE  CustodyInv'
    <3>1. CustodyTypeOK'
      <4>1. custody' \in [Slots -> Invocations \cup {Vacant, Claimed}]
        BY <2>1, <2>4 DEF Swept
      <4>2. slot' \in [Invocations -> Slots \cup {0}] /\ ownsSlot' \in [Invocations -> BOOLEAN]
        BY <2>4
      <4>3. pc' \in [Invocations -> Places]
        BY <2>4
      <4> QED
        BY <2>3, <2>4, <4>1, <4>2, <4>3
    <3>2. LocalsByPlace'
      BY <2>1, <2>2, <2>3, <2>4 DEF FirstVacant
    <3>3. HoldersClaim'
      <4>1. \A j \in Invocations : Holds(j)' <=> j = i \/ Holds(j)
        BY <2>4
      <4>2. \A j \in Invocations : Holds(j) /\ j # i => slot[j] # s
        BY <2>1, <2>4 DEF FirstVacant
      <4>3. custody'[s] = Claimed /\ slot'[i] = s /\ ownsSlot'[i]
        BY <2>1, <2>4 DEF Swept
      <4>4. \A j \in Invocations : j # i => slot'[j] = slot[j] /\ ownsSlot'[j] = ownsSlot[j]
        BY <2>4
      <4>5. \A t \in Slots : t # s => custody'[t] = Swept[t]
        BY <2>4 DEF Swept
      <4> QED
        BY <2>1, <4>1, <4>2, <4>3, <4>4, <4>5
    <3>4. ClaimedAreHeld'
      <4>1. \A j \in Invocations : Holds(j)' <=> j = i \/ Holds(j)
        BY <2>4
      <4>2. slot'[i] = s /\ \A j \in Invocations : j # i => slot'[j] = slot[j]
        BY <2>4
      <4>3. ~Holds(i)
        OBVIOUS
      <4>4. \A t \in Slots : custody'[t] = Claimed => t = s \/ custody[t] = Claimed
        BY <2>1, <2>4
      <4> QED
        BY <4>1, <4>2, <4>3, <4>4
    <3>5. RetainedAreUnresolved'
      BY <2>1, <2>2, <2>3, <2>4 DEF FirstVacant
    <3>6. UnresolvedAreRetained'
      BY <2>1, <2>2, <2>3, <2>4 DEF FirstVacant
    <3>7. ReleasedAreSettled'
      BY <2>1, <2>2, <2>3, <2>4 DEF FirstVacant
    <3>8. StopIsRemembered'
      BY <2>1, <2>2, <2>3, <2>4 DEF FirstVacant
    <3>9. OutcomeByPlace'
      BY <2>1, <2>2, <2>3, <2>4 DEF FirstVacant
    <3>10. PositiveIsReleased'
      BY <2>1, <2>2, <2>3, <2>4 DEF FirstVacant
    <3>11. FirstStopSurvives'
      BY <2>1, <2>2, <2>3, <2>4 DEF FirstVacant
    <3> QED
      BY <3>1, <3>2, <3>3, <3>4, <3>5, <3>6, <3>7, <3>8, <3>9, <3>10, <3>11
  <2>5. ASSUME custody' = Swept, Return(i, "LaunchFailure"), UNCHANGED <<slot, ownsSlot>>
        PROVE  CustodyInv'
    <3>1. CustodyTypeOK'
      <4>1. custody' \in [Slots -> Invocations \cup {Vacant, Claimed}]
        BY <2>1, <2>5 DEF Swept
      <4>2. pc' \in [Invocations -> Places] /\ outcome' \in [Invocations -> Outcomes]
        BY <2>5
      <4> QED
        BY <2>3, <2>5, <4>1, <4>2
    <3>2. LocalsByPlace'
      BY <2>1, <2>2, <2>3, <2>5
    <3>3. HoldersClaim'
      BY <2>1, <2>2, <2>3, <2>5
    <3>4. ClaimedAreHeld'
      BY <2>1, <2>2, <2>3, <2>5
    <3>5. RetainedAreUnresolved'
      BY <2>1, <2>2, <2>3, <2>5
    <3>6. UnresolvedAreRetained'
      BY <2>1, <2>2, <2>3, <2>5
    <3>7. ReleasedAreSettled'
      BY <2>1, <2>2, <2>3, <2>5
    <3>8. StopIsRemembered'
      BY <2>1, <2>2, <2>3, <2>5
    <3>9. OutcomeByPlace'
      BY <2>1, <2>2, <2>3, <2>5
    <3>10. PositiveIsReleased'
      BY <2>1, <2>2, <2>3, <2>5
    <3>11. FirstStopSurvives'
      BY <2>1, <2>2, <2>3, <2>5
    <3> QED
      BY <3>1, <3>2, <3>3, <3>4, <3>5, <3>6, <3>7, <3>8, <3>9, <3>10, <3>11
  <2> QED
    BY <2>4, <2>5
<1>14. ASSUME NEW r \in Requests, Cancel(r) PROVE CustodyInv'
  BY <1>14 DEF Cancel
<1>16. ASSUME NEW r \in Requests, Clock(r) PROVE CustodyInv'
  <2>1. CustodyTypeOK'
    <3>1. CASE WorkExpires(r)
      BY <3>1 DEF WorkExpires
    <3>2. CASE BudgetRunsOut(r)
      BY <3>2 DEF BudgetRunsOut
    <3> QED
      BY <1>16, <3>1, <3>2 DEF Clock
  <2>2. LocalsByPlace'
    BY <1>16 DEF Clock, WorkExpires, BudgetRunsOut
  <2>3. HoldersClaim'
    BY <1>16 DEF Clock, WorkExpires, BudgetRunsOut
  <2>4. ClaimedAreHeld'
    BY <1>16 DEF Clock, WorkExpires, BudgetRunsOut
  <2>5. RetainedAreUnresolved'
    BY <1>16 DEF Clock, WorkExpires, BudgetRunsOut
  <2>6. UnresolvedAreRetained'
    BY <1>16 DEF Clock, WorkExpires, BudgetRunsOut
  <2>7. ReleasedAreSettled'
    BY <1>16 DEF Clock, WorkExpires, BudgetRunsOut
  <2>8. StopIsRemembered'
    BY <1>16 DEF Clock, WorkExpires, BudgetRunsOut
  <2>9. OutcomeByPlace'
    BY <1>16 DEF Clock, WorkExpires, BudgetRunsOut
  <2>10. PositiveIsReleased'
    BY <1>16 DEF Clock, WorkExpires, BudgetRunsOut
  <2>11. FirstStopSurvives'
    BY <1>16 DEF Clock, WorkExpires, BudgetRunsOut
  <2> QED
    BY <2>1, <2>2, <2>3, <2>4, <2>5, <2>6, <2>7, <2>8, <2>9, <2>10, <2>11
<1>15. CASE UNCHANGED custodyVars
  BY <1>15 DEF custodyVars
<1> QED
  BY <1>1, <1>2, <1>3, <1>4, <1>5, <1>6, <1>7, <1>8, <1>9, <1>10, <1>11, <1>12, <1>13, <1>14, <1>15, <1>16
     DEF CustodyNext, Step, Session

LEMMA CustodyInvHolds == CustodySpec => []CustodyInv
BY CustodyInitInvariant, StepInvariant, PTL DEF CustodySpec

-----------------------------------------------------------------------------
\* Every variable keeps its type.
THEOREM CustodyTypeCorrect == CustodySpec => []CustodyTypeOK
<1>1. CustodyInv => CustodyTypeOK
  BY DEF CustodyInv
<1> QED
  BY <1>1, CustodyInvHolds, PTL

\* An unreleased session stays in its slot, whatever the other invocations do.
THEOREM UnresolvedSessionsAreRetained == CustodySpec => []UnresolvedAreRetained
<1>1. CustodyInv => UnresolvedAreRetained
  BY DEF CustodyInv
<1> QED
  BY <1>1, CustodyInvHolds, PTL

\* A claimed slot has one invocation that will fill or vacate it.
THEOREM ClaimsAreOwned == CustodySpec => []ClaimsHaveOneOwner
<1>1. CustodyInv => ClaimsHaveOneOwner
  <2> SUFFICES ASSUME CustodyInv, NEW s \in Slots, custody[s] = Claimed
               PROVE  \E i \in Invocations :
                        /\ slot[i] = s /\ ownsSlot[i] /\ ~retained[i]
                        /\ pc[i] \in {"prepare", "finally"}
                        /\ \A j \in Invocations :
                             j # i /\ slot[j] = s => retained[j] \/ pc[j] = "done"
    BY DEF ClaimsHaveOneOwner
  <2>1. PICK i \in Invocations : Holds(i) /\ slot[i] = s
    BY DEF CustodyInv, ClaimedAreHeld
  <2>2. ownsSlot[i] /\ ~retained[i] /\ pc[i] \in {"prepare", "finally"}
    BY <2>1 DEF CustodyInv, HoldersClaim, LocalsByPlace, Holds
  <2>3. ASSUME NEW j \in Invocations, j # i, slot[j] = s, ~retained[j] PROVE pc[j] = "done"
    <3>1. ~Holds(j)
      BY <2>1, <2>3 DEF CustodyInv, HoldersClaim
    <3>2. pc[j] \notin {"start", "claim"}
      BY <2>3 DEF CustodyInv, LocalsByPlace, Slots
    <3>3. pc[j] \in Places
      BY DEF CustodyInv, CustodyTypeOK
    <3> QED
      BY <2>3, <3>1, <3>2, <3>3 DEF CustodyInv, LocalsByPlace, Holds, Places
  <2> QED
    BY <2>1, <2>2, <2>3
<1> QED
  BY <1>1, CustodyInvHolds, PTL

\* An exit code is reported only for a settled and released session.
THEOREM PositiveOutcomeIsReleased == CustodySpec => []PositiveIsReleased
<1>1. CustodyInv => PositiveIsReleased
  BY DEF CustodyInv
<1> QED
  BY <1>1, CustodyInvHolds, PTL

\* The first observed stop is the outcome, exceptions included.
THEOREM FirstStopIsReturned == CustodySpec => []FirstStopSurvives
<1>1. CustodyInv => FirstStopSurvives
  BY DEF CustodyInv
<1> QED
  BY <1>1, CustodyInvHolds, PTL

\* Capacity is refused only while every slot is in use.
THEOREM RefusalsAreGenuine == CustodySpec => RefusalIsGenuine
<1>1. CustodyInv /\ [CustodyNext]_custodyVars =>
        [\A i \in Invocations :
            pc[i] = "claim" /\ pc'[i] = "done" =>
                \A s \in Slots :
                    \/ custody[s] = Claimed
                    \/ custody[s] \in Invocations /\ ~freed[custody[s]]]_custodyVars
  <2> SUFFICES ASSUME CustodyInv, CustodyNext, NEW i \in Invocations,
                      pc[i] = "claim", pc'[i] = "done", NEW s \in Slots
               PROVE  \/ custody[s] = Claimed
                      \/ custody[s] \in Invocations /\ ~freed[custody[s]]
    OBVIOUS
  <2>1. ClaimSlot(i)
    BY DEF CustodyNext, Step, Session, CheckBudget, ClaimSlot, Prepare, Run, RunReturns, Observe,
         ObserveFinal, Release, Finally, SessionThrows, RequestStop, Settle, Free, Cancel, Clock,
         WorkExpires, BudgetRunsOut, Go, Return, Leave, locals, CustodyInv, CustodyTypeOK
  <2>2. Swept[s] # Vacant
    BY <2>1 DEF ClaimSlot, Go, CustodyInv, CustodyTypeOK
  <2> QED
    BY <2>2 DEF Swept, CustodyInv, CustodyTypeOK
<1> QED
  BY <1>1, CustodyInvHolds, PTL DEF CustodySpec, RefusalIsGenuine
=============================================================================
