------------------------- MODULE ProtocolStoreProofs -------------------------
(***************************************************************************)
(* Proofs about ProtocolStore, for all entities, submissions and bounds:   *)
(* its invariants, and that it implements CommandLog.  The argument is     *)
(* that of a fence: only the holder of a command's current lease changes   *)
(* its row, and if the epoch it read is current, so is the state.          *)
(***************************************************************************)
EXTENDS ProtocolStore, FiniteSetTheorems, TLAPS

\* A command that is leased or decided has only decided commands before it.
DecidedPrefix ==
    \A id \in Ids : commands[id].status # "Ready" =>
        \A earlier \in 1 .. id - 1 : Entity(earlier) = Entity(id) => commands[earlier].status \in Final

TokensIssued ==
    /\ \A id \in Ids : commands[id].token <= token
    /\ \A t \in Tokens : work[t].stage # "none" => t <= token /\ work[t].command \in Ids

HistoryIsSucceeded ==
    \A id \in Ids : id \in Committed <=> commands[id].status = "Succeeded"

\* A delivery that read the current epoch read the current state.
ReadsAreSnapshots ==
    \A t \in Tokens : work[t].stage \in {"read", "failed"} =>
        LET snapshot == snapshots[Entity(work[t].command)]
        IN  /\ work[t].expected <= snapshot.epoch
            /\ work[t].expected = snapshot.epoch => work[t].state = snapshot.state

CompletedAreSeen == \A t \in Tokens : work[t].stage = "complete" => work[t].command \in seen

ProtocolInv ==
    /\ StoreTypeOK
    /\ DecidedPrefix
    /\ TokensIssued
    /\ HistoryIsSucceeded
    /\ CommitsInOrder
    /\ ReadsAreSnapshots
    /\ SnapshotsMatchHistory
    /\ CompletedAreSeen
    /\ OutboxKeepsActions
-----------------------------------------------------------------------------
\* A command is its index in the inbox.
LEMMA IdsAreIndices == StoreTypeOK => Len(commands) \in Nat /\ Ids = 1 .. Len(commands)
BY DEF StoreTypeOK, Ids

\* The empty store is well-typed.
LEMMA InitTypes == ProtocolInit => StoreTypeOK
BY StoreAssumption DEF ProtocolInit, StoreTypeOK, Ids, Rows, NoWork, Stages, Tokens, Deliveries


\* What a row holds.
LEMMA RowTypes ==
    ASSUME StoreTypeOK, NEW id \in Ids
    PROVE  /\ commands[id] \in Rows
           /\ commands[id].submission \in Submissions
           /\ commands[id].status \in Statuses
           /\ commands[id].token \in 0 .. MaxToken
           /\ commands[id].attempts \in Nat
           /\ Entity(id) \in Entities
<1>1. commands[id] \in Rows
  BY DEF StoreTypeOK, Ids
<1> QED
  BY <1>1, StoreAssumption DEF Rows, Entity

\* Changing rows but not their submissions keeps the inbox well-typed.
LEMMA SameSubmissions ==
    ASSUME StoreTypeOK,
           commands' = [id \in Ids |-> commands'[id]],
           \A id \in Ids : commands'[id] \in Rows /\ commands'[id].submission = commands[id].submission
    PROVE  /\ commands' \in Seq(Rows)
           /\ Ids' = Ids
           /\ \A id \in Ids : Entity(id)' = Entity(id)
           /\ \A i, j \in Ids' : commands'[i].submission = commands'[j].submission => i = j
<1>1. Ids = 1 .. Len(commands) /\ Len(commands) \in Nat
  BY IdsAreIndices
<1>2. Ids' = Ids
  BY DEF Ids
<1>3. commands' \in Seq(Rows)
  BY <1>1
<1> QED
  BY <1>2, <1>3 DEF StoreTypeOK, Entity

\* Moving a delivery to another stage keeps it well-typed.
LEMMA WorkTypes ==
    ASSUME StoreTypeOK, NEW t \in Tokens, Gone(t) \/ (\E stage \in Stages : Stage(t, stage))
    PROVE  work' \in [Tokens -> Deliveries]
<1>1. PICK stage \in Stages : work' = [work EXCEPT ![t].stage = stage]
  BY DEF Gone, Stage, Stages
<1>2. work[t] \in Deliveries /\ work \in [Tokens -> Deliveries]
  BY DEF StoreTypeOK
<1>3. [work[t] EXCEPT !.stage = stage] \in Deliveries
  BY <1>2 DEF Deliveries
<1> QED
  BY <1>1, <1>2, <1>3

\* A sequence over a set is one over any larger set.
LEMMA SeqGrows == ASSUME NEW S, NEW T, S \subseteq T, NEW s \in Seq(S) PROVE s \in Seq(T)
OBVIOUS

\* What a delivery holds.
LEMMA DeliveryTypes ==
    ASSUME StoreTypeOK, NEW t \in Tokens
    PROVE  /\ work[t] \in Deliveries
           /\ work[t].stage \in Stages
           /\ work[t].command \in Ids \cup {0}
           /\ work[t].expected \in Nat
           /\ work[t].state \subseteq Ids
<1>1. work[t] \in Deliveries
  BY DEF StoreTypeOK
<1> QED
  BY <1>1 DEF Deliveries

\* The elements of a sequence are in its set.
LEMMA SeqElement == ASSUME NEW S, NEW s \in Seq(S), NEW k \in DOMAIN s PROVE s[k] \in S
OBVIOUS

\* Claiming keeps the types: each token of the batch goes to one command.
LEMMA ClaimTypes == StoreTypeOK /\ Claim => StoreTypeOK'
<1> SUFFICES ASSUME StoreTypeOK, Claim PROVE StoreTypeOK'
  OBVIOUS
<1> USE StoreAssumption, IdsAreIndices
<1>1. PICK n \in 1 .. Batch : \E claimed \in [1 .. n -> Ids] : Lease(n, claimed)
  BY DEF Claim
<1>2. PICK claimed \in [1 .. n -> Ids] : Lease(n, claimed)
  BY <1>1
<1>3. n \in Nat /\ token + n \in 0 .. MaxToken
  <2>1. token + n <= MaxToken
    BY <1>2 DEF Lease
  <2>2. token \in Nat
    BY DEF StoreTypeOK
  <2> QED
    BY <2>1, <2>2
<1>4. ASSUME NEW id \in Ids PROVE commands'[id] \in Rows /\ commands'[id].submission = commands[id].submission
  <2>1. commands[id] \in Rows
    BY DEF StoreTypeOK, Ids
  <2>2. CASE \E k \in 1 .. n : claimed[k] = id
    <3> DEFINE p == CHOOSE k \in 1 .. n : claimed[k] = id
    <3>1. p \in 1 .. n
      BY <2>2
    <3>2. commands'[id] = [commands[id] EXCEPT !.status = "Leased", !.token = token + p]
      BY <1>2, <2>2 DEF Lease
    <3>3. token + p \in 0 .. MaxToken
      BY <3>1, <1>3 DEF StoreTypeOK
    <3> QED
      BY <2>1, <3>2, <3>3 DEF Rows, Statuses
  <2>3. CASE ~\E k \in 1 .. n : claimed[k] = id
    BY <1>2, <2>1, <2>3 DEF Lease
  <2> QED
    BY <2>2, <2>3
<1>5. commands' = [id \in Ids |-> commands'[id]] /\ Ids' = Ids
  BY <1>2 DEF Lease, Ids
<1>6. commands' \in Seq(Rows)
  BY <1>4, <1>5
<1>7. \A i, j \in Ids' : commands'[i].submission = commands'[j].submission => i = j
  BY <1>4, <1>5 DEF StoreTypeOK
<1>8. work' \in [Tokens -> Deliveries]
  <2>1. ASSUME NEW t \in Tokens
        PROVE  work'[t] \in Deliveries
    <3>1. CASE t \in token + 1 .. token + n
      <4>1. t - token \in 1 .. n
        BY <1>3, <3>1 DEF StoreTypeOK
      <4> QED
        BY <1>2, <3>1, <4>1 DEF Lease, NoWork, Stages, Deliveries
    <3>2. CASE t \notin token + 1 .. token + n
      BY <1>2, <3>2 DEF Lease, StoreTypeOK
    <3> QED
      BY <3>1, <3>2
  <2> QED
    BY <1>2, <2>1 DEF Lease
<1>9. Deliveries' = Deliveries
  BY <1>5 DEF Deliveries
<1> QED
  BY <1>2, <1>3, <1>5, <1>6, <1>7, <1>8, <1>9 DEF Lease, StoreTypeOK

\* Claiming actions keeps the types.
LEMMA ClaimActionsTypes == StoreTypeOK /\ ClaimActions => StoreTypeOK'
<1> SUFFICES ASSUME StoreTypeOK, ClaimActions PROVE StoreTypeOK'
  OBVIOUS
<1> USE StoreAssumption
<1>1. PICK n \in 1 .. Batch : \E claimed \in [1 .. n -> pending \ activeActions] : LeaseActions(n, claimed)
  BY DEF ClaimActions
<1>2. PICK claimed \in [1 .. n -> pending \ activeActions] : LeaseActions(n, claimed)
  BY <1>1
<1>3. n \in Nat /\ token + n \in 0 .. MaxToken /\ token' = token + n
  <2>1. token + n <= MaxToken /\ token' = token + n
    BY <1>2 DEF LeaseActions
  <2>2. token \in Nat
    BY DEF StoreTypeOK
  <2> QED
    BY <2>1, <2>2
<1>4. \A k \in 1 .. n : claimed[k] \in Ids
  BY DEF StoreTypeOK
<1>5. activeActions' \subseteq Ids
  <2>1. activeActions' = activeActions \cup {claimed[k] : k \in 1 .. n}
    BY <1>2 DEF LeaseActions
  <2> QED
    BY <1>4, <2>1 DEF StoreTypeOK
<1>6. work' \in [Tokens -> Deliveries]
  <2>1. ASSUME NEW t \in Tokens
        PROVE  work'[t] \in Deliveries
    <3>1. CASE t \in token + 1 .. token + n
      <4>1. t - token \in 1 .. n
        BY <1>3, <3>1 DEF StoreTypeOK
      <4> QED
        BY <1>2, <1>4, <3>1, <4>1 DEF LeaseActions, NoWork, Stages, Deliveries
    <3>2. CASE t \notin token + 1 .. token + n
      BY <1>2, <3>2 DEF LeaseActions, StoreTypeOK
    <3> QED
      BY <3>1, <3>2
  <2> QED
    BY <1>2, <2>1 DEF LeaseActions
<1> QED
  BY <1>2, <1>3, <1>5, <1>6 DEF LeaseActions, StoreTypeOK, Ids, Deliveries

\* A commit, refused, failed or done, keeps the types.
LEMMA CommitTypes ==
    ASSUME StoreTypeOK, TokensIssued, NEW t \in Tokens, Commit(t)
    PROVE  StoreTypeOK'
<1> USE StoreAssumption
<1> DEFINE id == work[t].command
<1>0. work' \in [Tokens -> Deliveries]
  BY WorkTypes DEF Commit, Stages
<1>1. CASE UNCHANGED <<commands, history, snapshots, pending>>
  BY <1>0, <1>1 DEF Commit, StoreTypeOK, Ids, Deliveries
<1>2. CASE Finalize(id, t) /\ (Gone(t) \/ Stage(t, "failed"))
  <2>1. id \in Ids
    BY DEF Commit, TokensIssued
  <2>2. commands[id] \in Rows /\ Entity(id) \in Entities
    BY <2>1, RowTypes
  <2>3. NextEpoch(Entity(id)) \in Nat
    BY <2>2 DEF NextEpoch, StoreTypeOK
  <2>4. commands' = [commands EXCEPT ![id] = [commands[id] EXCEPT !.status = "Succeeded", !.token = t]]
    BY <1>2 DEF Finalize
  <2>5. [commands[id] EXCEPT !.status = "Succeeded", !.token = t] \in Rows
    <3>1. t \in 0 .. MaxToken
      BY DEF Tokens
    <3> QED
      BY <2>2, <3>1 DEF Rows, Statuses, Final
  <2>6. \A i \in Ids : commands'[i] \in Rows /\ commands'[i].submission = commands[i].submission
    BY <2>1, <2>2, <2>4, <2>5, RowTypes DEF Ids, StoreTypeOK, Rows
  <2>7. commands' = [i \in Ids |-> commands'[i]]
    BY <2>4 DEF StoreTypeOK, Ids
  <2>8. /\ commands' \in Seq(Rows)
        /\ Ids' = Ids
        /\ \A i, j \in Ids' : commands'[i].submission = commands'[j].submission => i = j
    BY <2>6, <2>7, SameSubmissions
  <2>9. history' \in Seq([command : Ids, epoch : Nat])
    <3>1. [command |-> id, epoch |-> NextEpoch(Entity(id))] \in [command : Ids, epoch : Nat]
      BY <2>1, <2>3
    <3> QED
      BY <1>2, <3>1 DEF Finalize, StoreTypeOK
  <2>10. snapshots' \in [Entities -> [state : SUBSET Ids, epoch : Nat]]
    <3>1. [state |-> work[t].state \cup {id}, epoch |-> NextEpoch(Entity(id))] \in [state : SUBSET Ids, epoch : Nat]
      BY <2>1, <2>3, DeliveryTypes
    <3> QED
      BY <1>2, <3>1 DEF Finalize, StoreTypeOK
  <2>11. pending' \subseteq Ids
    BY <1>2, <2>1 DEF Finalize, StoreTypeOK
  <2> QED
    BY <1>0, <2>8, <2>9, <2>10, <2>11 DEF Commit, StoreTypeOK, Deliveries
<1> QED
  BY <1>1, <1>2 DEF Commit

\* Every step keeps the types.
LEMMA StepTypes == StoreTypeOK /\ TokensIssued /\ [ProtocolNext]_protocolVars => StoreTypeOK'
<1> SUFFICES ASSUME StoreTypeOK, TokensIssued, [ProtocolNext]_protocolVars PROVE StoreTypeOK'
  OBVIOUS
<1> USE StoreAssumption DEF storeVars
<1>1. ASSUME NEW s \in Submissions, Submit(s) PROVE StoreTypeOK'
  <2> DEFINE row == [submission |-> s, status |-> "Ready", token |-> 0, attempts |-> 0]
  <2>1. row \in Rows
    BY DEF Rows, Statuses
  <2>2. commands \in Seq(Rows) /\ commands' = Append(commands, row)
    BY <1>1 DEF Submit, StoreTypeOK
  <2>3. commands' \in Seq(Rows) /\ Ids \subseteq Ids'
    BY <2>1, <2>2 DEF Ids
  <2>4. \A i, j \in Ids' : commands'[i].submission = commands'[j].submission => i = j
    BY <1>1, <2>2 DEF Submit, Submitted, StoreTypeOK, Ids
  <2>5. [command : Ids, epoch : Nat] \subseteq [command : Ids', epoch : Nat]
    BY <2>3
  <2>6. history' \in Seq([command : Ids', epoch : Nat])
    <3>1. history \in Seq([command : Ids, epoch : Nat]) /\ history' = history
      BY <1>1 DEF Submit, StoreTypeOK
    <3> QED
      BY <2>5, <3>1, SeqGrows
  <2>7. snapshots' \in [Entities -> [state : SUBSET Ids', epoch : Nat]]
    BY <1>1, <2>3 DEF Submit, StoreTypeOK
  <2>8. work' \in [Tokens -> Deliveries']
    BY <1>1, <2>3 DEF Submit, StoreTypeOK, Deliveries
  <2> QED
    BY <1>1, <2>3, <2>4, <2>6, <2>7, <2>8 DEF Submit, StoreTypeOK
<1>2. ASSUME Expire PROVE StoreTypeOK'
  <2>1. \A id \in Ids : commands'[id] = Expired(commands[id])
    BY <1>2 DEF Expire
  <2>2. ASSUME NEW row \in Rows PROVE Expired(row) \in Rows /\ Expired(row).submission = row.submission
    BY DEF Expired, Rows, Statuses
  <2>3. \A id \in Ids : commands'[id] \in Rows /\ commands'[id].submission = commands[id].submission
    BY <2>1, <2>2, RowTypes
  <2>4. commands' = [id \in Ids |-> commands'[id]]
    BY <1>2 DEF Expire
  <2>5. /\ commands' \in Seq(Rows)
        /\ Ids' = Ids
        /\ \A i, j \in Ids' : commands'[i].submission = commands'[j].submission => i = j
    BY <2>3, <2>4, SameSubmissions
  <2> QED
    BY <1>2, <2>5 DEF Expire, StoreTypeOK, Deliveries
<1>3. ASSUME NEW t \in Tokens, ReadSnapshot(t) PROVE StoreTypeOK'
  <2>1. work[t].command \in Ids
    BY <1>3 DEF ReadSnapshot, TokensIssued
  <2>2. snapshots[Entity(work[t].command)] \in [state : SUBSET Ids, epoch : Nat]
    BY <2>1, RowTypes DEF StoreTypeOK
  <2> DEFINE snapshot == snapshots[Entity(work[t].command)]
             delivery == [work[t] EXCEPT !.stage = "read", !.expected = snapshot.epoch, !.state = snapshot.state]
  <2>3. delivery \in Deliveries
    BY <2>2, DeliveryTypes DEF Deliveries, Stages
  <2>4. work' = [work EXCEPT ![t] = delivery]
    BY <1>3 DEF ReadSnapshot
  <2>5. work' \in [Tokens -> Deliveries]
    BY <2>3, <2>4 DEF StoreTypeOK
  <2> QED
    BY <1>3, <2>5 DEF ReadSnapshot, StoreTypeOK, Ids, Deliveries
<1>4. ASSUME NEW t \in Tokens, Reject(t) \/ Reschedule(t) \/ DeadLetter(t) PROVE StoreTypeOK'
  <2> DEFINE id == work[t].command
  <2>1. id \in Ids
    BY <1>4 DEF Reject, Reschedule, DeadLetter, TokensIssued
  <2>2. commands[id] \in Rows
    BY <2>1, RowTypes
  <2>3. \/ UNCHANGED commands
        \/ SetStatus(id, "Rejected")
        \/ SetStatus(id, "DeadLettered")
        \/ commands' = [commands EXCEPT ![id].status = "Ready", ![id].attempts = @ + 1]
    BY <1>4 DEF Reject, Reschedule, DeadLetter
  <2>4. \A i \in Ids : commands'[i] \in Rows /\ commands'[i].submission = commands[i].submission
    <3> SUFFICES ASSUME NEW i \in Ids
                 PROVE  commands'[i] \in Rows /\ commands'[i].submission = commands[i].submission
      OBVIOUS
    <3>1. commands[i] \in Rows /\ i \in DOMAIN commands
      BY RowTypes DEF Ids
    <3>2. CASE i # id
      BY <2>3, <3>1, <3>2 DEF SetStatus
    <3>3. CASE i = id
      <4>1. \/ commands'[i] = commands[i]
            \/ commands'[i] = [commands[i] EXCEPT !.status = "Rejected"]
            \/ commands'[i] = [commands[i] EXCEPT !.status = "DeadLettered"]
            \/ commands'[i] = [commands[i] EXCEPT !.status = "Ready", !.attempts = commands[i].attempts + 1]
        BY <2>3, <3>1, <3>3 DEF SetStatus
      <4>2. ASSUME NEW row \in Rows
            PROVE  /\ [row EXCEPT !.status = "Rejected"] \in Rows
                   /\ [row EXCEPT !.status = "DeadLettered"] \in Rows
                   /\ [row EXCEPT !.status = "Ready", !.attempts = row.attempts + 1] \in Rows
                   /\ row.attempts \in Nat
        <5>1. row.attempts \in Nat /\ row.attempts + 1 \in Nat
          BY DEF Rows
        <5>2. {"Rejected", "DeadLettered", "Ready"} \subseteq Statuses
          BY DEF Statuses, Final
        <5> QED
          BY <5>1, <5>2 DEF Rows
      <4>3. commands'[i] \in Rows
        BY <3>1, <4>1, <4>2
      <4>4. commands'[i].submission = commands[i].submission
        BY <3>1, <4>1 DEF Rows
      <4> QED
        BY <4>3, <4>4
    <3> QED
      BY <3>2, <3>3
  <2>5. commands' = [i \in Ids |-> commands'[i]]
    BY <2>3 DEF SetStatus, StoreTypeOK, Ids
  <2>6. work' \in [Tokens -> Deliveries]
    BY <1>4, WorkTypes DEF Reject, Reschedule, DeadLetter
  <2>7. /\ commands' \in Seq(Rows)
        /\ Ids' = Ids
        /\ \A i, j \in Ids' : commands'[i].submission = commands'[j].submission => i = j
    BY <2>4, <2>5, SameSubmissions
  <2> QED
    BY <1>4, <2>6, <2>7 DEF Reject, Reschedule, DeadLetter, StoreTypeOK, Deliveries
<1>5. ASSUME NEW t \in Tokens, Crash(t) \/ Handle(t) \/ Complete(t) \/ RescheduleAction(t) \/ Abandon(t) PROVE StoreTypeOK'
  <2>1. work[t].command \in Ids
    BY <1>5 DEF Crash, Handle, Complete, RescheduleAction, Abandon, TokensIssued
  <2>2. work' \in [Tokens -> Deliveries]
    BY <1>5, WorkTypes DEF Crash, Handle, Complete, RescheduleAction, Abandon, Stages
  <2>3. UNCHANGED <<commands, history, snapshots, token>>
    BY <1>5 DEF Crash, Handle, Complete, RescheduleAction, Abandon
  <2>4. Ids' = Ids /\ Deliveries' = Deliveries
    BY <2>3 DEF Ids, Deliveries
  <2>5. /\ pending' \subseteq pending /\ activeActions' \subseteq activeActions
        /\ seen' \subseteq seen \cup {work[t].command} /\ abandoned' \subseteq abandoned \cup {work[t].command}
    BY <1>5 DEF Crash, Handle, Complete, RescheduleAction, Abandon, Completed
  <2>6. acknowledged' \in Nat
    BY <1>5 DEF Crash, Handle, Complete, RescheduleAction, Abandon, StoreTypeOK
  <2> QED
    BY <2>1, <2>2, <2>3, <2>4, <2>5, <2>6 DEF StoreTypeOK
<1>6. CASE UNCHANGED protocolVars
  BY <1>6 DEF protocolVars, StoreTypeOK, Ids, Deliveries
<1> QED
  BY <1>1, <1>2, <1>3, <1>4, <1>5, <1>6, ClaimTypes, ClaimActionsTypes, CommitTypes DEF ProtocolNext, Processor, Dispatcher
-----------------------------------------------------------------------------
\* What a step does to one row, to one delivery, and to the log.

Finalizes(t) ==
    LET id == work[t].command IN
    /\ work[t].stage \in {"read", "failed"}
    /\ id \in Ids
    /\ Owns(id, t)
    /\ work[t].expected = snapshots[Entity(id)].epoch
    /\ Finalize(id, t)

RowKept(id) == commands'[id].status = commands[id].status /\ commands'[id].token = commands[id].token

RowLeased(id) ==
    /\ Eligible(id)
    /\ commands'[id].status = "Leased"
    /\ commands'[id].token \in token + 1 .. token'

Drops(id) ==
    /\ UNCHANGED history
    /\ Ids' = Ids
    /\ \A other \in Ids \ {id} : commands'[other] = commands[other]

RowEnds(id) ==
    /\ commands[id].status = "Leased"
    /\ commands'[id].status \in {"Ready"} \cup Final
    /\ commands'[id].token = commands[id].token
    /\ commands'[id].status = "Succeeded" => \E t \in Tokens : Finalizes(t) /\ work[t].command = id
    /\ commands'[id].status \in {"Rejected", "DeadLettered"} => Drops(id)

RowStep(id) == Entity(id)' = Entity(id) /\ (RowKept(id) \/ RowLeased(id) \/ RowEnds(id))

Issued(t) ==
    /\ t \in token + 1 .. token'
    /\ work'[t].stage \in {"claimed", "handle"}
    /\ work'[t].command \in Ids

Moved(t) ==
    \E stage \in Stages \ {"none", "claimed", "read", "handle"} :
        /\ work[t].stage # "none"
        /\ work'[t] = [work[t] EXCEPT !.stage = stage]
        /\ stage = "failed" => work[t].stage \in {"read", "failed"}
        /\ stage = "complete" => work[t].command \in seen'

\* A commit changes nothing but its delivery, or finalizes as the lease holder of a current snapshot.
LEMMA CommitFinalizes ==
    ASSUME TokensIssued, NEW t \in Tokens, Commit(t)
    PROVE  UNCHANGED <<commands, history, snapshots, pending>> \/ Finalizes(t)
BY DEF Commit, Finalizes, TokensIssued, LeaseLost, Conflict

RowWith(id, status, t, attempts) ==
    [commands[id] EXCEPT !.status = status, !.token = t, !.attempts = attempts]

\* Every step does one of three things to a row, and only Submit adds one.
LEMMA RowSteps ==
    ASSUME StoreTypeOK, TokensIssued, [ProtocolNext]_protocolVars
    PROVE  /\ Ids \subseteq Ids' /\ token <= token'
           /\ \A id \in Ids : RowStep(id)
           /\ Ids' = Ids \/ \E s \in Submissions : Submit(s)
           /\ \A id \in Ids' \ Ids :
                commands'[id].status = "Ready" /\ commands'[id].token = 0 /\ id = Len(commands) + 1
<1> USE StoreAssumption, IdsAreIndices DEF storeVars
<1> DEFINE Goal ==
        /\ Ids \subseteq Ids' /\ token <= token'
        /\ \A id \in Ids : RowStep(id)
        /\ Ids' = Ids \/ \E s \in Submissions : Submit(s)
        /\ \A id \in Ids' \ Ids :
             commands'[id].status = "Ready" /\ commands'[id].token = 0 /\ id = Len(commands) + 1
<1>0. token \in Nat
  BY DEF StoreTypeOK
<1>1. CASE UNCHANGED commands /\ token <= token'
  BY <1>1 DEF Ids, RowStep, RowKept, Entity
<1>2. ASSUME NEW s \in Submissions, Submit(s) PROVE Goal
  <2>1. commands' = Append(commands, [submission |-> s, status |-> "Ready", token |-> 0, attempts |-> 0])
    BY <1>2 DEF Submit
  <2>2. token' = token /\ commands \in Seq(Rows)
    BY <1>2 DEF Submit, StoreTypeOK
  <2>3. Ids' = Ids \cup {Len(commands) + 1}
    BY <2>1, <2>2 DEF Ids
  <2>4. \A id \in Ids : commands'[id] = commands[id]
    BY <2>1, <2>2 DEF Ids
  <2>5. commands'[Len(commands) + 1].status = "Ready" /\ commands'[Len(commands) + 1].token = 0
    BY <2>1, <2>2
  <2> QED
    BY <1>0, <1>2, <2>2, <2>3, <2>4, <2>5 DEF RowStep, RowKept, Entity
<1>3. ASSUME Claim PROVE Goal
  <2>1. PICK n \in 1 .. Batch : \E claimed \in [1 .. n -> Ids] : Lease(n, claimed)
    BY <1>3 DEF Claim
  <2>2. PICK claimed \in [1 .. n -> Ids] : Lease(n, claimed)
    BY <2>1
  <2>3. token' = token + n /\ Ids' = Ids /\ n \in Nat
    <3>1. token' = token + n /\ DOMAIN commands' = Ids
      BY <2>2 DEF Lease
    <3>2. n \in Nat
      OBVIOUS
    <3> QED
      BY <3>1, <3>2 DEF Ids
  <2>4. ASSUME NEW id \in Ids PROVE RowStep(id)
    <3>1. CASE \E k \in 1 .. n : claimed[k] = id
      <4> DEFINE p == CHOOSE k \in 1 .. n : claimed[k] = id
      <4>1. p \in 1 .. n /\ claimed[p] = id
        BY <3>1
      <4>2. commands'[id] = [commands[id] EXCEPT !.status = "Leased", !.token = token + p]
        BY <2>2, <3>1 DEF Lease
      <4>3. Eligible(id)
        BY <2>2, <4>1 DEF Lease
      <4>4. token + p \in token + 1 .. token'
        BY <1>0, <2>3, <4>1
      <4> HIDE DEF p
      <4> QED
        BY <4>2, <4>3, <4>4, RowTypes DEF RowStep, RowLeased, Entity, Rows
    <3>2. CASE ~\E k \in 1 .. n : claimed[k] = id
      BY <2>2, <3>2 DEF Lease, RowStep, RowKept, Entity
    <3> QED
      BY <3>1, <3>2
  <2> QED
    BY <1>0, <2>3, <2>4
<1>4. ASSUME Expire PROVE Goal
  <2>1. Ids' = Ids /\ token' = token /\ \A id \in Ids : commands'[id] = Expired(commands[id])
    BY <1>4 DEF Expire, Ids
  <2>2. ASSUME NEW id \in Ids PROVE RowStep(id)
    BY <2>1, RowTypes DEF RowStep, RowKept, RowEnds, Entity, Expired, Rows
  <2> QED
    BY <1>0, <2>1, <2>2
<1>5. ASSUME NEW t \in Tokens, NEW id \in Ids, Owns(id, t), token' = token,
             NEW status \in {"Ready"} \cup Final, NEW attempts \in Nat,
             status = "Succeeded" => Finalizes(t) /\ work[t].command = id,
             status # "Succeeded" => UNCHANGED history,
             commands' = [commands EXCEPT ![id] = RowWith(id, status, t, attempts)]
      PROVE  Goal
  <2>1. Ids' = Ids
    BY <1>5 DEF Ids
  <2>2. \A i \in Ids : i # id => commands'[i] = commands[i]
    BY <1>5 DEF Ids
  <2>3. commands'[id] = [commands[id] EXCEPT !.status = status, !.token = t, !.attempts = attempts]
    BY <1>5 DEF Ids, RowWith
  <2>4. /\ commands'[id].status = status /\ commands'[id].token = t
        /\ commands'[id].submission = commands[id].submission
    BY <2>3, RowTypes DEF Rows
  <2>5. ASSUME NEW i \in Ids PROVE RowStep(i)
    BY <1>5, <2>1, <2>2, <2>4 DEF RowStep, RowKept, RowEnds, Drops, Entity, Owns
  <2> QED
    BY <1>0, <1>5, <2>1, <2>5
<1>6. ASSUME NEW t \in Tokens, Commit(t) PROVE Goal
  <2>1. CASE UNCHANGED commands
    BY <1>0, <1>1, <1>6, <2>1 DEF Commit
  <2>2. CASE Finalizes(t)
    <3> DEFINE id == work[t].command
    <3>1. /\ id \in Ids /\ Owns(id, t)
          /\ commands' = [commands EXCEPT ![id] = [commands[id] EXCEPT !.status = "Succeeded", !.token = t]]
      BY <2>2 DEF Finalizes, Finalize
    <3>2. [commands[id] EXCEPT !.status = "Succeeded", !.token = t]
          = RowWith(id, "Succeeded", t, commands[id].attempts)
      BY <3>1, RowTypes DEF Rows, RowWith
    <3>3. token' = token
      BY <1>6 DEF Commit
    <3> QED
      <4>1. "Succeeded" \in {"Ready"} \cup Final
        BY DEF Final
      <4>2. \E status \in {"Ready"} \cup Final : \E attempts \in Nat :
              /\ status = "Succeeded" => Finalizes(t) /\ work[t].command = id
              /\ status # "Succeeded" => UNCHANGED history
              /\ commands' = [commands EXCEPT ![id] = RowWith(id, status, t, attempts)]
        BY <2>2, <3>1, <3>2, <4>1, RowTypes
      <4> HIDE DEF id
      <4> QED
        BY <1>5, <3>1, <3>3, <4>2
  <2> QED
    BY <1>6, <2>1, <2>2, CommitFinalizes
<1>7. ASSUME NEW t \in Tokens, Reject(t) \/ Reschedule(t) \/ DeadLetter(t) PROVE Goal
  <2> DEFINE id == work[t].command
  <2>1. token' = token /\ UNCHANGED history
    BY <1>7 DEF Reject, Reschedule, DeadLetter
  <2>2. CASE UNCHANGED commands
    BY <1>0, <1>1, <2>1, <2>2
  <2>3. CASE Owns(id, t)
    <3>1. id \in Ids
      BY <1>7 DEF Reject, Reschedule, DeadLetter, TokensIssued
    <3>2. commands[id] \in Rows /\ commands[id].token = t
      BY <2>3, <3>1, RowTypes DEF Owns
    <3>3. \E status \in ({"Ready"} \cup Final) \ {"Succeeded"} : \E attempts \in Nat :
            commands' = [commands EXCEPT ![id] = RowWith(id, status, t, attempts)]
      <4>1. CASE SetStatus(id, "Rejected") \/ SetStatus(id, "DeadLettered")
        <5>1. PICK status \in Final \ {"Succeeded"} : commands' = [commands EXCEPT ![id] = [commands[id] EXCEPT !.status = status]]
          BY <4>1 DEF SetStatus, Final
        <5>2. [commands[id] EXCEPT !.status = status] = RowWith(id, status, t, commands[id].attempts)
          BY <3>2 DEF Rows, RowWith
        <5> QED
          BY <3>1, <5>1, <5>2, RowTypes
      <4>2. CASE commands' = [commands EXCEPT ![id].status = "Ready", ![id].attempts = @ + 1]
        <5>1. commands' = [commands EXCEPT ![id] =
                [commands[id] EXCEPT !.status = "Ready", !.attempts = commands[id].attempts + 1]]
          BY <4>2, <3>1 DEF Ids
        <5>2. [commands[id] EXCEPT !.status = "Ready", !.attempts = commands[id].attempts + 1]
              = RowWith(id, "Ready", t, commands[id].attempts + 1)
          BY <3>2 DEF Rows, RowWith
        <5>3. commands[id].attempts + 1 \in Nat
          BY <3>1, RowTypes
        <5> QED
          BY <5>1, <5>2, <5>3
      <4> QED
        BY <1>7, <2>3, <4>1, <4>2 DEF Reject, Reschedule, DeadLetter
    <3> QED
      BY <1>5, <2>1, <2>3, <3>1, <3>3
  <2> QED
    BY <1>7, <2>2, <2>3 DEF Reject, Reschedule, DeadLetter
<1>8. ASSUME ClaimActions PROVE Goal
  <2>1. PICK n \in 1 .. Batch : \E claimed \in [1 .. n -> pending \ activeActions] : LeaseActions(n, claimed)
    BY <1>8 DEF ClaimActions
  <2>2. token' = token + n /\ commands' = commands
    BY <2>1 DEF LeaseActions
  <2>3. n \in Nat
    OBVIOUS
  <2> QED
    BY <1>0, <1>1, <2>2, <2>3
<1>9. ASSUME NEW t \in Tokens,
             ReadSnapshot(t) \/ Crash(t) \/ Handle(t) \/ Complete(t) \/ RescheduleAction(t) \/ Abandon(t)
      PROVE Goal
  BY <1>0, <1>1, <1>9 DEF ReadSnapshot, Crash, Handle, Complete, RescheduleAction, Abandon
<1>10. CASE UNCHANGED protocolVars
  BY <1>0, <1>1, <1>10 DEF protocolVars
<1> QED
  BY <1>2, <1>3, <1>4, <1>6, <1>7, <1>8, <1>9, <1>10 DEF ProtocolNext, Processor, Dispatcher

\* Every step does one of four things to a delivery.
LEMMA WorkSteps ==
    ASSUME StoreTypeOK, TokensIssued, [ProtocolNext]_protocolVars, NEW t \in Tokens
    PROVE  work'[t] = work[t] \/ Issued(t) \/ Moved(t) \/ ReadSnapshot(t)
<1> USE StoreAssumption DEF storeVars
<1> DEFINE Goal == work'[t] = work[t] \/ Issued(t) \/ Moved(t) \/ ReadSnapshot(t)
<1>0. token \in Nat /\ work \in [Tokens -> Deliveries]
  BY DEF StoreTypeOK
<1>1. ASSUME NEW s \in Tokens, work[s].stage # "none",
             NEW stage \in {"gone", "failed", "complete"}, Stage(s, stage),
             stage = "failed" => work[s].stage \in {"read", "failed"},
             stage = "complete" => work[s].command \in seen'
      PROVE  Goal
  <2>1. CASE s # t
    BY <1>0, <1>1, <2>1 DEF Stage
  <2>2. CASE s = t
    <3>1. work'[t] = [work[t] EXCEPT !.stage = stage]
      BY <1>0, <1>1, <2>2 DEF Stage
    <3>2. stage \in Stages \ {"none", "claimed", "read", "handle"}
      BY <1>1 DEF Stages
    <3> QED
      BY <1>1, <2>2, <3>1, <3>2 DEF Moved
  <2> QED
    BY <2>1, <2>2
<1>2. ASSUME NEW s \in Tokens, work[s].stage # "none", Gone(s) PROVE Goal
  BY <1>1, <1>2 DEF Gone, Stage
<1>3. ASSUME Claim PROVE Goal
  <2>1. PICK n \in 1 .. Batch : \E claimed \in [1 .. n -> Ids] : Lease(n, claimed)
    BY <1>3 DEF Claim
  <2>2. PICK claimed \in [1 .. n -> Ids] : Lease(n, claimed)
    BY <2>1
  <2>3. token' = token + n /\ n \in Nat
    <3>1. token' = token + n
      BY <2>2 DEF Lease
    <3> QED
      BY <3>1
  <2>4. CASE t \in token + 1 .. token + n
    <3>1. t - token \in 1 .. n
      BY <1>0, <2>3, <2>4
    <3>2. claimed[t - token] \in Ids
      BY <3>1
    <3>3. work'[t] = [NoWork EXCEPT !.stage = "claimed", !.command = claimed[t - token]]
      BY <2>2, <2>4 DEF Lease
    <3> QED
      BY <2>3, <2>4, <3>2, <3>3 DEF Issued, NoWork
  <2>5. CASE t \notin token + 1 .. token + n
    BY <2>2, <2>5 DEF Lease
  <2> QED
    BY <2>4, <2>5
<1>4. ASSUME ClaimActions PROVE Goal
  <2>1. PICK n \in 1 .. Batch : \E claimed \in [1 .. n -> pending \ activeActions] : LeaseActions(n, claimed)
    BY <1>4 DEF ClaimActions
  <2>2. PICK claimed \in [1 .. n -> pending \ activeActions] : LeaseActions(n, claimed)
    BY <2>1
  <2>3. token' = token + n /\ n \in Nat
    <3>1. token' = token + n
      BY <2>2 DEF LeaseActions
    <3> QED
      BY <3>1
  <2>4. CASE t \in token + 1 .. token + n
    <3>1. t - token \in 1 .. n
      BY <1>0, <2>3, <2>4
    <3>2. claimed[t - token] \in Ids
      BY <3>1 DEF StoreTypeOK
    <3>3. work'[t] = [NoWork EXCEPT !.stage = "handle", !.command = claimed[t - token]]
      BY <2>2, <2>4 DEF LeaseActions
    <3> QED
      BY <2>3, <2>4, <3>2, <3>3 DEF Issued, NoWork
  <2>5. CASE t \notin token + 1 .. token + n
    BY <2>2, <2>5 DEF LeaseActions
  <2> QED
    BY <2>4, <2>5
<1>5. ASSUME NEW s \in Tokens, ReadSnapshot(s) PROVE Goal
  <2>1. CASE s = t
    BY <1>5, <2>1
  <2>2. CASE s # t
    BY <1>0, <1>5, <2>2 DEF ReadSnapshot
  <2> QED
    BY <2>1, <2>2
<1>6. ASSUME NEW s \in Tokens, Commit(s) PROVE Goal
  <2>1. work[s].stage \in {"read", "failed"} /\ (Gone(s) \/ Stage(s, "failed"))
    BY <1>6 DEF Commit
  <2> QED
    BY <1>1, <1>2, <2>1
<1>7. ASSUME NEW s \in Tokens,
             Reject(s) \/ Reschedule(s) \/ DeadLetter(s) \/ Crash(s) \/ Complete(s) \/ RescheduleAction(s) \/ Abandon(s)
      PROVE Goal
  <2>1. work[s].stage # "none" /\ Gone(s)
    BY <1>7 DEF Reject, Reschedule, DeadLetter, Crash, Complete, RescheduleAction, Abandon
  <2> QED
    BY <1>2, <2>1
<1>8. ASSUME NEW s \in Tokens, Handle(s) PROVE Goal
  <2>1. work[s].stage # "none" /\ Stage(s, "complete") /\ work[s].command \in seen'
    BY <1>8 DEF Handle
  <2> QED
    BY <1>1, <2>1
<1>9. CASE UNCHANGED work
  BY <1>9
<1> QED
  BY <1>3, <1>4, <1>5, <1>6, <1>7, <1>8, <1>9
     DEF ProtocolNext, Processor, Dispatcher, protocolVars, Submit, Expire

\* Only finalizing changes the log and the snapshots.
LEMMA HistorySteps ==
    ASSUME TokensIssued, [ProtocolNext]_protocolVars
    PROVE  UNCHANGED <<history, snapshots>> \/ \E t \in Tokens : Finalizes(t)
<1> USE DEF storeVars
<1>1. ASSUME NEW t \in Tokens, Processor(t)
      PROVE  UNCHANGED <<history, snapshots>> \/ Finalizes(t)
  BY <1>1, CommitFinalizes DEF Processor, ReadSnapshot, Reject, Reschedule, DeadLetter
<1>2. ASSUME NEW t \in Tokens, Dispatcher(t) \/ Crash(t)
      PROVE  UNCHANGED <<history, snapshots>>
  BY <1>2 DEF Dispatcher, Handle, Complete, RescheduleAction, Abandon, Crash
<1>3. ASSUME Claim \/ ClaimActions PROVE UNCHANGED <<history, snapshots>>
  BY <1>3 DEF Claim, ClaimActions, Lease, LeaseActions
<1> QED
  BY <1>1, <1>2, <1>3 DEF ProtocolNext, Submit, Expire, protocolVars
-----------------------------------------------------------------------------
\* The log holds submitted commands.
LEMMA CommittedAreIds == StoreTypeOK => Committed \subseteq Ids
<1> SUFFICES ASSUME StoreTypeOK, NEW k \in DOMAIN history PROVE history[k].command \in Ids
  BY DEF Committed
<1>1. history \in Seq([command : Ids, epoch : Nat])
  BY DEF StoreTypeOK
<1>2. history[k] \in [command : Ids, epoch : Nat]
  BY <1>1, SeqElement
<1> QED
  BY <1>2

\* Eligibility, tested when a lease starts, still holds when it ends.
LEMMA StepDecidedPrefix ==
    StoreTypeOK /\ TokensIssued /\ DecidedPrefix /\ [ProtocolNext]_protocolVars => DecidedPrefix'
<1> SUFFICES ASSUME StoreTypeOK, TokensIssued, DecidedPrefix, [ProtocolNext]_protocolVars,
                    NEW id \in Ids', commands'[id].status # "Ready",
                    NEW earlier \in 1 .. id - 1, Entity(earlier)' = Entity(id)'
             PROVE  commands'[earlier].status \in Final
  BY DEF DecidedPrefix
<1>1. id \in Ids /\ earlier \in Ids
  BY RowSteps, IdsAreIndices
<1>2. RowStep(id) /\ RowStep(earlier)
  BY <1>1, RowSteps
<1>3. Entity(earlier) = Entity(id)
  BY <1>2 DEF RowStep
<1>4. commands[earlier].status \in Final
  BY <1>1, <1>2, <1>3 DEF RowStep, RowKept, RowLeased, RowEnds, Eligible, DecidedPrefix
<1> QED
  BY <1>2, <1>4 DEF RowStep, RowKept, RowLeased, RowEnds, Eligible, Final

\* No row or delivery has a token that was not handed out.
LEMMA StepTokensIssued ==
    StoreTypeOK /\ TokensIssued /\ [ProtocolNext]_protocolVars => TokensIssued'
<1> SUFFICES ASSUME StoreTypeOK, TokensIssued, [ProtocolNext]_protocolVars PROVE TokensIssued'
  OBVIOUS
<1>0. token \in Nat /\ token' \in Nat /\ token <= token' /\ Ids \subseteq Ids'
  BY StepTypes, RowSteps DEF StoreTypeOK
<1>1. ASSUME NEW id \in Ids' PROVE commands'[id].token <= token'
  <2>1. CASE id \in Ids
    <3>1. commands[id].token <= token /\ commands[id].token \in Nat
      BY <2>1, RowTypes DEF TokensIssued
    <3> QED
      BY <1>0, <2>1, <3>1, RowSteps DEF RowStep, RowKept, RowLeased, RowEnds
  <2>2. CASE id \notin Ids
    BY <1>0, <2>2, RowSteps
  <2> QED
    BY <2>1, <2>2
<1>2. ASSUME NEW t \in Tokens, work'[t].stage # "none" PROVE t <= token' /\ work'[t].command \in Ids'
  <2>0. t \in Nat
    BY DEF Tokens
  <2>1. CASE work'[t] = work[t]
    BY <1>0, <1>2, <2>0, <2>1 DEF TokensIssued
  <2>2. CASE Issued(t)
    BY <1>0, <2>0, <2>2 DEF Issued
  <2>3. CASE Moved(t)
    BY <1>0, <2>0, <2>3, DeliveryTypes DEF Moved, TokensIssued, Deliveries
  <2>4. CASE ReadSnapshot(t)
    <3>1. work[t].stage # "none" /\ work'[t].command = work[t].command
      BY <2>4, DeliveryTypes DEF ReadSnapshot, Deliveries, StoreTypeOK
    <3> QED
      BY <1>0, <2>0, <3>1 DEF TokensIssued
  <2> QED
    BY <2>1, <2>2, <2>3, <2>4, WorkSteps
<1> QED
  BY <1>1, <1>2 DEF TokensIssued

\* What a commit adds: the command was not in the log, and is the latest of its entity.
LEMMA FinalizeFacts ==
    ASSUME StoreTypeOK, HistoryIsSucceeded, NEW t \in Tokens, Finalizes(t)
    PROVE  /\ work[t].command \in Ids \ Committed
           /\ Len(history) \in Nat
           /\ DOMAIN history = 1 .. Len(history)
           /\ DOMAIN history' = 1 .. Len(history) + 1
           /\ \A k \in DOMAIN history : history'[k] = history[k]
           /\ history'[Len(history) + 1].command = work[t].command
           /\ Committed' = Committed \cup {work[t].command}
<1>1. work[t].command \in Ids \ Committed
  BY DEF Finalizes, Owns, HistoryIsSucceeded
<1>2. history \in Seq([command : Ids, epoch : Nat])
  BY DEF StoreTypeOK
<1>3. history' = Append(history, [command |-> work[t].command, epoch |-> NextEpoch(Entity(work[t].command))])
  BY DEF Finalizes, Finalize
<1>4. /\ Len(history) \in Nat
      /\ DOMAIN history = 1 .. Len(history)
      /\ DOMAIN history' = 1 .. Len(history) + 1
      /\ \A k \in DOMAIN history : history'[k] = history[k]
      /\ history'[Len(history) + 1].command = work[t].command
  BY <1>2, <1>3
<1>5. DOMAIN history' = DOMAIN history \cup {Len(history) + 1}
  BY <1>4
<1>6. Committed' = Committed \cup {work[t].command}
  BY <1>4, <1>5 DEF Committed
<1> QED
  BY <1>1, <1>4, <1>6

\* The log and the statuses agree on what was committed.
LEMMA StepHistoryIsSucceeded ==
    StoreTypeOK /\ TokensIssued /\ HistoryIsSucceeded /\ [ProtocolNext]_protocolVars => HistoryIsSucceeded'
<1> SUFFICES ASSUME StoreTypeOK, TokensIssued, HistoryIsSucceeded, [ProtocolNext]_protocolVars,
                    NEW id \in Ids'
             PROVE  id \in Committed' <=> commands'[id].status = "Succeeded"
  BY DEF HistoryIsSucceeded
<1>1. \/ Committed' = Committed
      \/ \E t \in Tokens : Finalizes(t) /\ Committed' = Committed \cup {work[t].command}
  <2>1. CASE UNCHANGED <<history, snapshots>>
    BY <2>1 DEF Committed
  <2> QED
    BY <2>1, HistorySteps, FinalizeFacts
<1>2. ASSUME NEW t \in Tokens, Finalizes(t)
      PROVE  /\ Committed' = Committed \cup {work[t].command}
             /\ work[t].command \in Ids
             /\ commands'[work[t].command].status = "Succeeded"
  <2>1. Committed' = Committed \cup {work[t].command} /\ work[t].command \in Ids
    BY <1>2, FinalizeFacts
  <2>2. commands' = [commands EXCEPT ![work[t].command] =
            [commands[work[t].command] EXCEPT !.status = "Succeeded", !.token = t]]
    BY <1>2 DEF Finalizes, Finalize
  <2> QED
    BY <2>1, <2>2, RowTypes DEF Ids, Rows
<1>3. CASE id \in Ids
  <2>1. RowStep(id)
    BY <1>3, RowSteps
  <2>2. id \in Committed <=> commands[id].status = "Succeeded"
    BY <1>3 DEF HistoryIsSucceeded
  <2>3. ASSUME commands'[id].status = "Succeeded" PROVE id \in Committed'
    BY <1>1, <1>2, <2>1, <2>2, <2>3 DEF RowStep, RowKept, RowLeased, RowEnds
  <2>4. ASSUME id \in Committed' PROVE commands'[id].status = "Succeeded"
    <3>1. CASE id \in Committed
      BY <2>1, <2>2, <3>1 DEF RowStep, RowKept, RowLeased, RowEnds, Eligible
    <3>2. CASE id \notin Committed
      BY <1>1, <1>2, <2>4, <3>2
    <3> QED
      BY <3>1, <3>2
  <2> QED
    BY <2>3, <2>4
<1>4. CASE id \notin Ids
  BY <1>1, <1>2, <1>4, CommittedAreIds, RowSteps
<1> QED
  BY <1>3, <1>4

\* A command added to the log is later than those of its entity.
LEMMA StepCommitsInOrder ==
    ASSUME StoreTypeOK, TokensIssued, DecidedPrefix, HistoryIsSucceeded, CommitsInOrder, [ProtocolNext]_protocolVars
    PROVE  CommitsInOrder'
<1>1. CASE UNCHANGED <<history, snapshots>>
  <2>1. \A k \in DOMAIN history : Entity(history[k].command)' = Entity(history[k].command)
    BY <1>1, CommittedAreIds, RowSteps DEF Committed, RowStep
  <2> QED
    BY <1>1, <2>1 DEF CommitsInOrder
<1>2. ASSUME NEW t \in Tokens, Finalizes(t) PROVE CommitsInOrder'
  <2> DEFINE id == work[t].command
             end == Len(history) + 1
  <2>1. /\ id \in Ids \ Committed /\ Len(history) \in Nat
        /\ DOMAIN history = 1 .. Len(history) /\ DOMAIN history' = 1 .. end
        /\ \A k \in DOMAIN history : history'[k] = history[k]
        /\ history'[end].command = id
    BY <1>2, FinalizeFacts
  <2>2. \A k \in DOMAIN history : history[k].command \in Committed
    BY DEF Committed
  <2>3. \A i \in Ids : commands'[i].submission.entity = Entity(i)
    BY RowSteps DEF RowStep, Entity
  <2>4. ASSUME NEW j \in DOMAIN history, Entity(history[j].command) = Entity(id)
        PROVE  history[j].command < id
    <3> DEFINE c == history[j].command
    <3>1. c \in Ids /\ c \in Committed /\ c # id
      BY <2>1, <2>2, CommittedAreIds
    <3>2. commands[c].status = "Succeeded" /\ commands[id].status = "Leased"
      BY <1>2, <3>1 DEF HistoryIsSucceeded, Finalizes, Owns
    <3>3. ~(id \in 1 .. c - 1)
      BY <2>4, <3>1, <3>2 DEF DecidedPrefix, Final
    <3>4. id \in Nat /\ c \in Nat /\ id >= 1
      BY <2>1, <3>1, IdsAreIndices
    <3> QED
      BY <3>1, <3>3, <3>4
  <2>5. ASSUME NEW j \in DOMAIN history', NEW k \in DOMAIN history', j < k,
               Entity(history[j].command)' = Entity(history[k].command)'
        PROVE  history'[j].command < history'[k].command
    <3>1. j \in DOMAIN history /\ history'[j] = history[j] /\ history[j].command \in Ids
      BY <2>1, <2>2, <2>5, CommittedAreIds
    <3>2. CASE k \in DOMAIN history
      <4>1. history'[k] = history[k] /\ history[k].command \in Ids
        BY <2>1, <2>2, <3>2, CommittedAreIds
      <4>2. Entity(history[j].command) = Entity(history[k].command)
        BY <2>3, <2>5, <3>1, <4>1 DEF Entity
      <4> QED
        BY <2>5, <3>1, <3>2, <4>1, <4>2 DEF CommitsInOrder
    <3>3. CASE k = end
      <4>1. Entity(history[j].command) = Entity(id)
        BY <2>1, <2>3, <2>5, <3>1, <3>3 DEF Entity
      <4> QED
        BY <2>1, <2>4, <3>1, <3>3, <4>1
    <3> QED
      BY <2>1, <3>2, <3>3
  <2> QED
    BY <2>5 DEF CommitsInOrder
<1> QED
  BY <1>1, <1>2, HistorySteps

\* A delivery whose epoch is still current has the current state.
LEMMA StepReadsAreSnapshots ==
    ASSUME StoreTypeOK, TokensIssued, ReadsAreSnapshots, [ProtocolNext]_protocolVars
    PROVE  ReadsAreSnapshots'
<1> DEFINE current(t) == snapshots[Entity(work[t].command)]
           latest(t) == snapshots'[commands'[work'[t].command].submission.entity]
<1> SUFFICES ASSUME NEW t \in Tokens, work'[t].stage \in {"read", "failed"}
             PROVE  /\ work'[t].expected <= latest(t).epoch
                    /\ work'[t].expected = latest(t).epoch => work'[t].state = latest(t).state
  BY DEF ReadsAreSnapshots, Entity
<1>1. CASE ReadSnapshot(t)
  <2>1. work[t].command \in Ids
    BY <1>1 DEF ReadSnapshot, TokensIssued
  <2>2. /\ work'[t].command = work[t].command
        /\ work'[t].expected = current(t).epoch
        /\ work'[t].state = current(t).state
    BY <1>1, DeliveryTypes DEF ReadSnapshot, StoreTypeOK, Deliveries
  <2>3. snapshots' = snapshots /\ commands' = commands
    BY <1>1 DEF ReadSnapshot, storeVars
  <2>4. current(t).epoch \in Nat
    BY <2>1, RowTypes DEF StoreTypeOK
  <2> QED
    BY <2>2, <2>3, <2>4 DEF Entity
<1>2. CASE ~ReadSnapshot(t)
  <2>1. /\ work[t].stage \in {"read", "failed"}
        /\ work'[t].command = work[t].command
        /\ work'[t].expected = work[t].expected
        /\ work'[t].state = work[t].state
    BY <1>2, WorkSteps, DeliveryTypes DEF Issued, Moved, Deliveries
  <2>2. work[t].command \in Ids
    BY <2>1 DEF TokensIssued
  <2>3. commands'[work'[t].command].submission.entity = Entity(work[t].command)
    BY <2>1, <2>2, RowSteps DEF RowStep, Entity
  <2>4. Entity(work[t].command) \in Entities
    BY <2>2, RowTypes
  <2>5. current(t).epoch \in Nat /\ work[t].expected \in Nat
    BY <2>4, DeliveryTypes DEF StoreTypeOK
  <2>6. \/ latest(t) = current(t)
        \/ latest(t).epoch = current(t).epoch + 1
    <3>1. CASE UNCHANGED <<history, snapshots>>
      BY <2>3, <3>1
    <3>2. ASSUME NEW s \in Tokens, Finalizes(s)
          PROVE  latest(t) = current(t) \/ latest(t).epoch = current(t).epoch + 1
      <4>1. snapshots' = [snapshots EXCEPT ![Entity(work[s].command)] =
                [state |-> work[s].state \cup {work[s].command}, epoch |-> NextEpoch(Entity(work[s].command))]]
        BY <3>2 DEF Finalizes, Finalize
      <4> QED
        BY <2>3, <2>4, <4>1 DEF NextEpoch, StoreTypeOK
    <3> QED
      BY <3>1, <3>2, HistorySteps
  <2>7. /\ work[t].expected <= current(t).epoch
        /\ work[t].expected = current(t).epoch => work[t].state = current(t).state
    BY <2>1 DEF ReadsAreSnapshots
  <2> HIDE DEF current, latest
  <2> QED
    BY <2>1, <2>5, <2>6, <2>7
<1> QED
  BY <1>1, <1>2

\* An action about to be completed was applied.
LEMMA StepCompletedAreSeen ==
    ASSUME StoreTypeOK, TokensIssued, CompletedAreSeen, [ProtocolNext]_protocolVars
    PROVE  CompletedAreSeen'
<1>1. seen \subseteq seen'
  BY DEF ProtocolNext, Processor, Dispatcher, protocolVars, storeVars, Submit, Claim, Lease, Expire, ReadSnapshot,
         Commit, Reject, Reschedule, DeadLetter, Crash, ClaimActions, LeaseActions, Handle, Complete,
         RescheduleAction, Abandon
<1>2. ASSUME NEW t \in Tokens, work'[t].stage = "complete" PROVE work'[t].command \in seen'
  <2>1. CASE work'[t] = work[t]
    BY <1>1, <1>2, <2>1 DEF CompletedAreSeen
  <2>2. CASE Moved(t)
    BY <1>2, <2>2, DeliveryTypes DEF Moved, Deliveries
  <2>3. CASE Issued(t)
    BY <1>2, <2>3 DEF Issued
  <2>4. CASE ReadSnapshot(t)
    BY <1>2, <2>4, DeliveryTypes DEF ReadSnapshot, Deliveries, StoreTypeOK
  <2> QED
    BY <2>1, <2>2, <2>3, <2>4, WorkSteps
<1> QED
  BY <1>2 DEF CompletedAreSeen

\* Finitely many commands were submitted.
LEMMA FiniteIds == StoreTypeOK => IsFiniteSet(Ids)
BY IdsAreIndices, FS_Interval

\* A commit adds one command to one snapshot, counted once.
LEMMA StepSnapshotsMatchHistory ==
    ASSUME StoreTypeOK, TokensIssued, HistoryIsSucceeded, ReadsAreSnapshots, SnapshotsMatchHistory,
           [ProtocolNext]_protocolVars
    PROVE  SnapshotsMatchHistory'
<1> SUFFICES ASSUME NEW e \in Entities
             PROVE  /\ snapshots'[e].state = CommittedOf(e)'
                    /\ snapshots'[e].epoch = Cardinality(CommittedOf(e)')
  BY DEF SnapshotsMatchHistory
<1>1. \A i \in Ids : commands'[i].submission.entity = Entity(i)
  BY RowSteps DEF RowStep, Entity
<1>2. Committed \subseteq Ids
  BY CommittedAreIds
<1>3. snapshots[e].state = CommittedOf(e) /\ snapshots[e].epoch = Cardinality(CommittedOf(e))
  BY DEF SnapshotsMatchHistory
<1>4. CASE UNCHANGED <<history, snapshots>>
  <2>1. Committed' = Committed
    BY <1>4 DEF Committed
  <2>2. CommittedOf(e)' = CommittedOf(e)
    BY <1>1, <1>2, <2>1 DEF CommittedOf, Entity
  <2> QED
    BY <1>3, <1>4, <2>2
<1>5. ASSUME NEW t \in Tokens, Finalizes(t)
      PROVE  /\ snapshots'[e].state = CommittedOf(e)'
             /\ snapshots'[e].epoch = Cardinality(CommittedOf(e)')
  <2> DEFINE id == work[t].command
  <2>1. id \in Ids \ Committed /\ Committed' = Committed \cup {id}
    BY <1>5, FinalizeFacts
  <2>2. Entity(id) \in Entities
    BY <2>1, RowTypes
  <2>3. snapshots' = [snapshots EXCEPT ![Entity(id)] =
            [state |-> work[t].state \cup {id}, epoch |-> snapshots[Entity(id)].epoch + 1]]
    BY <1>5 DEF Finalizes, Finalize, NextEpoch
  <2>4. CASE e = Entity(id)
    <3>1. snapshots'[e] = [state |-> work[t].state \cup {id}, epoch |-> snapshots[e].epoch + 1]
      BY <2>2, <2>3, <2>4 DEF StoreTypeOK
    <3>2. work[t].state = snapshots[e].state
      BY <1>5, <2>4 DEF Finalizes, ReadsAreSnapshots
    <3>3. CommittedOf(e)' = CommittedOf(e) \cup {id}
      BY <1>1, <1>2, <2>1, <2>4 DEF CommittedOf, Entity
    <3>4. IsFiniteSet(CommittedOf(e)) /\ id \notin CommittedOf(e)
      BY <1>2, <2>1, FiniteIds, FS_Subset DEF CommittedOf
    <3>5. Cardinality(CommittedOf(e) \cup {id}) = Cardinality(CommittedOf(e)) + 1
      BY <3>4, FS_AddElement
    <3> QED
      BY <1>3, <3>1, <3>2, <3>3, <3>5
  <2>5. CASE e # Entity(id)
    <3>1. snapshots'[e] = snapshots[e]
      BY <2>2, <2>3, <2>5 DEF StoreTypeOK
    <3>2. CommittedOf(e)' = CommittedOf(e)
      BY <1>1, <1>2, <2>1, <2>5 DEF CommittedOf, Entity
    <3> QED
      BY <1>3, <3>1, <3>2
  <2> QED
    BY <2>4, <2>5
<1> QED
  BY <1>4, <1>5, HistorySteps

\* Only an acknowledgment or abandonment takes an action off the outbox.
LEMMA StepOutboxKeepsActions ==
    ASSUME StoreTypeOK, TokensIssued, HistoryIsSucceeded, CompletedAreSeen, OutboxKeepsActions,
           [ProtocolNext]_protocolVars
    PROVE  OutboxKeepsActions'
<1> DEFINE missing == Committed \ (pending \cup abandoned)
<1>1. IsFiniteSet(missing) /\ Cardinality(missing) \in Nat
  BY CommittedAreIds, FiniteIds, FS_Subset, FS_CardinalityType
<1>2. acknowledged \in Nat /\ Cardinality(missing) <= acknowledged
  BY DEF StoreTypeOK, OutboxKeepsActions
<1>3. Committed \ pending \subseteq seen \cup abandoned
  BY DEF OutboxKeepsActions
<1>4. ASSUME Committed' \ pending' \subseteq Committed \ pending, seen \subseteq seen',
             UNCHANGED <<abandoned, acknowledged>>
      PROVE  OutboxKeepsActions'
  <2>1. missing' \subseteq missing
    BY <1>4
  <2>2. Cardinality(missing') <= Cardinality(missing) /\ Cardinality(missing') \in Nat
    BY <1>1, <2>1, FS_Subset, FS_CardinalityType
  <2>3. Cardinality(missing') <= acknowledged'
    BY <1>1, <1>2, <1>4, <2>2
  <2> QED
    BY <1>3, <1>4, <2>3 DEF OutboxKeepsActions
<1>5. ASSUME NEW t \in Tokens, Commit(t) PROVE OutboxKeepsActions'
  <2>1. UNCHANGED <<abandoned, acknowledged, seen>>
    BY <1>5 DEF Commit
  <2>2. CASE UNCHANGED <<commands, history, snapshots, pending>>
    <3>1. Committed' \ pending' = Committed \ pending
      BY <2>2 DEF Committed
    <3> QED
      BY <1>4, <2>1, <3>1
  <2>3. CASE Finalizes(t)
    <3>1. Committed' = Committed \cup {work[t].command}
      BY <2>3, FinalizeFacts
    <3>2. pending' = pending \cup {work[t].command}
      BY <2>3 DEF Finalizes, Finalize
    <3> QED
      BY <1>4, <2>1, <3>1, <3>2
  <2> QED
    BY <1>5, <2>2, <2>3, CommitFinalizes
<1>6. ASSUME NEW t \in Tokens, Complete(t) PROVE OutboxKeepsActions'
  <2> DEFINE id == work[t].command
  <2>1. id \in seen /\ UNCHANGED <<history, seen, abandoned>>
    BY <1>6 DEF Complete, CompletedAreSeen
  <2>2. Committed' = Committed
    BY <2>1 DEF Committed
  <2>3. CASE pending' = pending /\ acknowledged' = acknowledged
    BY <1>4, <2>1, <2>2, <2>3
  <2>4. CASE pending' = pending \ {id} /\ acknowledged' = acknowledged + 1
    <3>1. missing' \subseteq missing \cup {id}
      BY <2>1, <2>2, <2>4
    <3>2. /\ IsFiniteSet(missing \cup {id})
          /\ Cardinality(missing \cup {id}) <= Cardinality(missing) + 1
          /\ Cardinality(missing \cup {id}) \in Nat
      <4> HIDE DEF missing, id
      <4>1. IsFiniteSet(missing \cup {id})
        BY <1>1, FS_AddElement
      <4>2. Cardinality(missing \cup {id}) \in {Cardinality(missing), Cardinality(missing) + 1}
        BY <1>1, FS_AddElement
      <4> QED
        BY <1>1, <4>1, <4>2
    <3>3. Cardinality(missing') <= Cardinality(missing \cup {id}) /\ Cardinality(missing') \in Nat
      BY <3>1, <3>2, FS_Subset, FS_CardinalityType
    <3>4. Cardinality(missing') <= acknowledged'
      BY <1>1, <1>2, <2>4, <3>2, <3>3
    <3>5. Committed' \ pending' \subseteq seen' \cup abandoned'
      BY <1>3, <2>1, <2>2, <2>4
    <3> QED
      BY <3>4, <3>5 DEF OutboxKeepsActions
  <2> QED
    BY <1>6, <2>3, <2>4 DEF Complete, Completed
<1>7. ASSUME NEW t \in Tokens, Abandon(t) PROVE OutboxKeepsActions'
  <2> DEFINE id == work[t].command
  <2>1. pending' = pending \ {id} /\ abandoned' = abandoned \cup {id} /\ UNCHANGED <<history, seen, acknowledged>>
    BY <1>7 DEF Abandon
  <2>2. Committed' = Committed
    BY <2>1 DEF Committed
  <2>3. missing' = missing \ {id}
    BY <2>1, <2>2
  <2>4. Cardinality(missing') <= Cardinality(missing) /\ Cardinality(missing') \in Nat
    BY <1>1, <2>3, FS_Subset, FS_CardinalityType
  <2>5. Cardinality(missing') <= acknowledged'
    BY <1>1, <1>2, <2>1, <2>4
  <2>6. Committed' \ pending' \subseteq seen' \cup abandoned'
    BY <1>3, <2>1, <2>2
  <2> QED
    BY <2>5, <2>6 DEF OutboxKeepsActions
<1>8. ASSUME UNCHANGED <<history, pending, abandoned, acknowledged>>, seen \subseteq seen'
      PROVE  OutboxKeepsActions'
  <2>1. Committed' \ pending' = Committed \ pending
    BY <1>8 DEF Committed
  <2> QED
    BY <1>4, <1>8, <2>1
<1>9. ASSUME NEW t \in Tokens,
             ReadSnapshot(t) \/ Reject(t) \/ Reschedule(t) \/ DeadLetter(t) \/ Crash(t) \/ Handle(t) \/ RescheduleAction(t)
      PROVE  UNCHANGED <<history, pending, abandoned, acknowledged>> /\ seen \subseteq seen'
  BY <1>9 DEF ReadSnapshot, Reject, Reschedule, DeadLetter, Crash, Handle, RescheduleAction, storeVars
<1>10. ASSUME Claim \/ ClaimActions \/ Expire \/ (\E s \in Submissions : Submit(s)) \/ UNCHANGED protocolVars
       PROVE  UNCHANGED <<history, pending, abandoned, acknowledged>> /\ seen \subseteq seen'
  BY <1>10 DEF Claim, Lease, ClaimActions, LeaseActions, Expire, Submit, protocolVars, storeVars
<1> QED
  BY <1>5, <1>6, <1>7, <1>8, <1>9, <1>10 DEF ProtocolNext, Processor, Dispatcher
-----------------------------------------------------------------------------
\* The empty store satisfies the invariant.
LEMMA ProtocolInitInvariant == ProtocolInit => ProtocolInv
<1> SUFFICES ASSUME ProtocolInit PROVE ProtocolInv
  OBVIOUS
<1>1. Ids = {} /\ Committed = {} /\ DOMAIN history = {}
  BY DEF ProtocolInit, Ids, Committed
<1>2. \A t \in Tokens : work[t].stage = "none"
  BY DEF ProtocolInit, NoWork
<1>3. \A e \in Entities : CommittedOf(e) = {}
  BY <1>1 DEF CommittedOf
<1>4. SnapshotsMatchHistory
  BY <1>3, FS_EmptySet DEF SnapshotsMatchHistory, ProtocolInit
<1>5. OutboxKeepsActions
  <2>1. Cardinality(Committed \ (pending \cup abandoned)) = 0
    BY <1>1, FS_EmptySet
  <2> QED
    BY <1>1, <2>1 DEF OutboxKeepsActions, ProtocolInit
<1> QED
  BY <1>1, <1>2, <1>4, <1>5, InitTypes
     DEF ProtocolInv, DecidedPrefix, TokensIssued, HistoryIsSucceeded, CommitsInOrder, ReadsAreSnapshots, CompletedAreSeen

\* The invariant is inductive.
LEMMA ProtocolStepInvariant == ProtocolInv /\ [ProtocolNext]_protocolVars => ProtocolInv'
BY StepTypes, StepDecidedPrefix, StepTokensIssued, StepHistoryIsSucceeded, StepCommitsInOrder, StepReadsAreSnapshots,
   StepSnapshotsMatchHistory, StepCompletedAreSeen, StepOutboxKeepsActions
   DEF ProtocolInv

\* Every behaviour of the store keeps the invariant.
THEOREM ProtocolInvariant == ProtocolSpec => []ProtocolInv
BY ProtocolInitInvariant, ProtocolStepInvariant, PTL DEF ProtocolSpec

\* The rows, the log, the outbox and the deliveries are well-typed, and a submission has one row.
THEOREM StoreTypes == ProtocolSpec => []StoreTypeOK
<1>1. ProtocolInv => StoreTypeOK
  BY DEF ProtocolInv
<1> QED
  BY <1>1, ProtocolInvariant, PTL

\* No commit of a worker overwrites another one's, for any number of workers, entities and retries.
THEOREM StoreSnapshotsMatchHistory == ProtocolSpec => []SnapshotsMatchHistory
<1>1. ProtocolInv => SnapshotsMatchHistory
  BY DEF ProtocolInv
<1> QED
  BY <1>1, ProtocolInvariant, PTL

\* Commands of an entity are committed once at most, in the order they were submitted.
THEOREM StoreCommitsInOrder == ProtocolSpec => []CommitsInOrder
<1>1. ProtocolInv => CommitsInOrder
  BY DEF ProtocolInv
<1> QED
  BY <1>1, ProtocolInvariant, PTL

\* The outbox keeps an action until it is acknowledged or abandoned.
THEOREM StoreOutboxKeepsActions == ProtocolSpec => []OutboxKeepsActions
<1>1. ProtocolInv => OutboxKeepsActions
  BY DEF ProtocolInv
<1> QED
  BY <1>1, ProtocolInvariant, PTL

\* No older lease than the current one finalizes a command.
THEOREM StoreTokensAdvance == ProtocolSpec => TokensAdvance
<1>1. ASSUME ProtocolInv, [ProtocolNext]_protocolVars, NEW id \in Ids
      PROVE  commands'[id].token >= commands[id].token
  <2>1. commands[id].token \in Nat /\ commands[id].token <= token /\ token \in Nat /\ RowStep(id)
    BY <1>1, RowTypes, RowSteps DEF ProtocolInv, TokensIssued, StoreTypeOK
  <2> QED
    BY <2>1 DEF RowStep, RowKept, RowLeased, RowEnds
<1>2. ProtocolInv /\ [ProtocolNext]_protocolVars
      => [\A id \in Ids : commands'[id].token >= commands[id].token]_protocolVars
  BY <1>1
<1> QED
  BY <1>2, ProtocolInvariant, PTL DEF ProtocolSpec, TokensAdvance
-----------------------------------------------------------------------------
\* The refinement: what CommandLog sees of a state.
SeenEntities == [id \in Ids |-> Entity(id)]
SeenFates == [id \in Ids |-> Fate(commands[id].status)]
SeenLog == [k \in DOMAIN history |-> history[k].command]

SeenTypesOK ==
    /\ SeenEntities \in Seq(Entities) /\ Len(SeenEntities) = Len(commands)
    /\ SeenFates \in Seq({"open", "committed", "dropped"}) /\ Len(SeenFates) = Len(commands)
    /\ SeenLog \in Seq(Ids) /\ Len(SeenLog) = Len(history)

\* What the log sees is well-typed.
LEMMA SeenTypes == StoreTypeOK => SeenTypesOK
<1> SUFFICES ASSUME StoreTypeOK PROVE SeenTypesOK
  OBVIOUS
<1>1. Ids = 1 .. Len(commands) /\ Len(commands) \in Nat
  BY IdsAreIndices
<1>2. DOMAIN history = 1 .. Len(history) /\ Len(history) \in Nat
  BY DEF StoreTypeOK
<1>3. \A id \in Ids : Entity(id) \in Entities /\ Fate(commands[id].status) \in {"open", "committed", "dropped"}
  BY RowTypes DEF Fate
<1>4. \A k \in DOMAIN history : history[k].command \in Ids
  BY CommittedAreIds DEF Committed
<1> QED
  BY <1>1, <1>2, <1>3, <1>4 DEF SeenTypesOK, SeenEntities, SeenFates, SeenLog

\* ... and in the next state.
LEMMA NextSeenTypes == StoreTypeOK' => SeenTypesOK'
BY SeenTypes, PTL

\* Two sequences of equal length and elements are equal.
LEMMA AppendIs ==
    ASSUME NEW S, NEW s \in Seq(S), NEW x \in S, NEW r \in Seq(S), Len(r) = Len(s) + 1,
           \A k \in 1 .. Len(s) : r[k] = s[k], r[Len(s) + 1] = x
    PROVE  r = Append(s, x)
<1>1. Append(s, x) \in Seq(S) /\ Len(Append(s, x)) = Len(s) + 1 /\ Len(s) \in Nat
  OBVIOUS
<1>2. \A k \in 1 .. Len(r) : r[k] = Append(s, x)[k]
  BY <1>1
<1> QED
  BY <1>1, <1>2

\* Submitting is accepting.
LEMMA SubmitIsAccepted ==
    ASSUME StoreTypeOK, StoreTypeOK', NEW s \in Submissions, Submit(s)
    PROVE  Log!Accept(s.entity) /\ s.entity \in Entities
<1> DEFINE end == Len(commands) + 1
           row == [submission |-> s, status |-> "Ready", token |-> 0, attempts |-> 0]
<1>1. commands' = Append(commands, row) /\ UNCHANGED history
  BY DEF Submit
<1>2. commands \in Seq(Rows) /\ Len(commands) \in Nat /\ Ids = 1 .. Len(commands)
  BY IdsAreIndices DEF StoreTypeOK
<1>3. Ids' = 1 .. end /\ Len(commands') = end /\ commands'[end] = row /\ \A id \in Ids : commands'[id] = commands[id]
  BY <1>1, <1>2 DEF Ids
<1>4. SeenEntities' = [id \in Ids' |-> commands'[id].submission.entity]
      /\ SeenFates' = [id \in Ids' |-> Fate(commands'[id].status)]
  BY DEF SeenEntities, SeenFates, Entity, Fate
<1>5. SeenEntities' = Append(SeenEntities, s.entity)
  <2>1. SeenEntities \in Seq(Entities) /\ Len(SeenEntities) = Len(commands)
    BY SeenTypes DEF SeenTypesOK
  <2>2. SeenEntities' \in Seq(Entities) /\ Len(SeenEntities') = end
    BY <1>3, NextSeenTypes DEF SeenTypesOK
  <2>3. \A k \in 1 .. Len(SeenEntities) : SeenEntities'[k] = SeenEntities[k]
    BY <1>2, <1>3, <1>4, <2>1 DEF SeenEntities, Entity
  <2>4. SeenEntities'[Len(SeenEntities) + 1] = s.entity
    BY <1>2, <1>3, <1>4, <2>1
  <2> QED
    BY <2>1, <2>2, <2>3, <2>4, AppendIs, StoreAssumption
<1>6. SeenFates' = Append(SeenFates, "open")
  <2> DEFINE fates == {"open", "committed", "dropped"}
  <2>1. SeenFates \in Seq(fates) /\ Len(SeenFates) = Len(commands)
    BY SeenTypes DEF SeenTypesOK
  <2>2. SeenFates' \in Seq(fates) /\ Len(SeenFates') = end
    BY <1>3, NextSeenTypes DEF SeenTypesOK
  <2>3. \A k \in 1 .. Len(SeenFates) : SeenFates'[k] = SeenFates[k]
    BY <1>2, <1>3, <1>4, <2>1 DEF SeenFates, Fate
  <2>4. SeenFates'[Len(SeenFates) + 1] = "open" /\ "open" \in fates
    BY <1>2, <1>3, <1>4, <2>1 DEF Fate
  <2> HIDE DEF fates
  <2> QED
    BY <2>1, <2>2, <2>3, <2>4, AppendIs
<1>7. SeenLog' = SeenLog
  BY <1>1 DEF SeenLog
<1> QED
  BY <1>5, <1>6, <1>7, StoreAssumption DEF Log!Accept, SeenEntities, SeenFates, SeenLog

\* A status shows as the fate it means.
LEMMA FateOf ==
    ASSUME StoreTypeOK, NEW id \in Ids
    PROVE  /\ Fate(commands[id].status) = "committed" <=> commands[id].status = "Succeeded"
           /\ Fate(commands[id].status) = "dropped" <=> commands[id].status \in {"Rejected", "DeadLettered"}
           /\ Fate(commands[id].status) = "open" <=> commands[id].status \notin Final
BY RowTypes DEF Fate, Final, Statuses

\* A leased command may be decided.
LEMMA LeasedIsDecidable ==
    ASSUME StoreTypeOK, DecidedPrefix, NEW id \in Ids, commands[id].status = "Leased"
    PROVE  Log!Decidable(id) /\ id \in DOMAIN SeenFates
<1>1. SeenFates[id] = "open"
  BY FateOf DEF SeenFates, Final
<1>2. ASSUME NEW earlier \in 1 .. id - 1, SeenEntities[earlier] = SeenEntities[id]
      PROVE  SeenFates[earlier] # "open"
  <2>1. earlier \in Ids
    BY IdsAreIndices
  <2>2. commands[earlier].status \in Final
    BY <1>2, <2>1 DEF SeenEntities, DecidedPrefix
  <2> QED
    BY <2>1, <2>2, FateOf DEF SeenFates
<1> QED
  BY <1>1, <1>2 DEF Log!Decidable, SeenFates, SeenEntities

\* A command keeps its entity.
LEMMA SameEntities ==
    ASSUME StoreTypeOK, TokensIssued, [ProtocolNext]_protocolVars, Ids' = Ids
    PROVE  SeenEntities' = SeenEntities
<1>1. \A id \in Ids : commands'[id].submission.entity = Entity(id)
  BY RowSteps DEF RowStep, Entity
<1>2. SeenEntities' = [id \in Ids' |-> commands'[id].submission.entity]
  BY DEF SeenEntities, Entity
<1> QED
  BY <1>1, <1>2 DEF SeenEntities

\* Finalizing is committing.
LEMMA FinalizeIsCommitted ==
    ASSUME ProtocolInv, StoreTypeOK', [ProtocolNext]_protocolVars, NEW t \in Tokens, Finalizes(t),
           NEW id \in Ids, id = work[t].command
    PROVE  Log!CommitCommand(id) /\ id \in DOMAIN SeenFates
<1> USE DEF ProtocolInv
<1>1. id \in Ids /\ commands[id].status = "Leased"
  BY DEF Finalizes, Owns
<1>2. commands' = [commands EXCEPT ![id] = [commands[id] EXCEPT !.status = "Succeeded", !.token = t]]
  BY DEF Finalizes, Finalize
<1>3. Ids' = Ids /\ commands'[id].status = "Succeeded" /\ \A i \in Ids \ {id} : commands'[i] = commands[i]
  BY <1>1, <1>2, RowTypes DEF Ids, Rows
<1>4. SeenFates' = [i \in Ids' |-> Fate(commands'[i].status)]
  BY DEF SeenFates, Fate
<1>5. SeenFates' = [SeenFates EXCEPT ![id] = "committed"]
  BY <1>1, <1>3, <1>4 DEF SeenFates, Fate
<1>6. SeenEntities' = SeenEntities
  BY <1>3, SameEntities
<1>7. SeenLog' = Append(SeenLog, id)
  <2>1. /\ Len(history) \in Nat
        /\ DOMAIN history = 1 .. Len(history)
        /\ DOMAIN history' = 1 .. Len(history) + 1
        /\ \A k \in DOMAIN history : history'[k] = history[k]
        /\ history'[Len(history) + 1].command = id
    BY FinalizeFacts
  <2>2. SeenLog \in Seq(Ids) /\ Len(SeenLog) = Len(history)
    BY SeenTypes DEF SeenTypesOK
  <2>3. SeenLog' \in Seq(Ids) /\ Len(SeenLog') = Len(history')
    BY <1>3, NextSeenTypes DEF SeenTypesOK
  <2>4. Len(history') = Len(history) + 1
    BY <2>1 DEF StoreTypeOK
  <2>5. SeenLog' = [k \in DOMAIN history' |-> history'[k].command]
    BY DEF SeenLog
  <2>6. \A k \in 1 .. Len(SeenLog) : SeenLog'[k] = SeenLog[k]
    BY <2>1, <2>2, <2>5 DEF SeenLog
  <2>7. SeenLog'[Len(SeenLog) + 1] = id
    BY <2>1, <2>2, <2>5
  <2> QED
    BY <1>1, <2>2, <2>3, <2>4, <2>6, <2>7, AppendIs
<1> QED
  BY <1>1, <1>5, <1>6, <1>7, LeasedIsDecidable DEF Log!CommitCommand, SeenFates, SeenEntities, SeenLog

\* Rejecting and dead-lettering are dropping.
LEMMA DropIsDropped ==
    ASSUME ProtocolInv, [ProtocolNext]_protocolVars, NEW id \in Ids, commands[id].status = "Leased", Drops(id),
           commands'[id].status \in {"Rejected", "DeadLettered"}
    PROVE  Log!DropCommand(id) /\ id \in DOMAIN SeenFates
<1> USE DEF ProtocolInv
<1>1. Ids' = Ids /\ UNCHANGED history /\ \A i \in Ids \ {id} : commands'[i] = commands[i]
  BY DEF Drops
<1>2. SeenFates' = [i \in Ids' |-> Fate(commands'[i].status)]
  BY DEF SeenFates, Fate
<1>3. SeenFates' = [SeenFates EXCEPT ![id] = "dropped"]
  BY <1>1, <1>2 DEF SeenFates, Fate
<1>4. SeenEntities' = SeenEntities /\ SeenLog' = SeenLog
  BY <1>1, SameEntities DEF SeenLog
<1> QED
  BY <1>3, <1>4, LeasedIsDecidable DEF Log!DropCommand, SeenFates, SeenEntities, SeenLog

\* Every step is one of the log, or does not show in it.
LEMMA RefinesStep ==
    ProtocolInv /\ ProtocolInv' /\ [ProtocolNext]_protocolVars => [Log!LogNext]_(Log!logVars)
<1> SUFFICES ASSUME ProtocolInv, ProtocolInv', [ProtocolNext]_protocolVars
             PROVE  Log!LogNext \/ UNCHANGED Log!logVars
  OBVIOUS
<1> USE DEF ProtocolInv
<1>1. ASSUME NEW s \in Submissions, Submit(s) PROVE Log!LogNext
  <2>1. Log!Accept(s.entity) /\ s.entity \in Entities
    BY <1>1, SubmitIsAccepted
  <2> QED
    BY <2>1 DEF Log!LogNext
<1>2. ASSUME NEW t \in Tokens, Finalizes(t) PROVE Log!LogNext
  <2>1. PICK id \in Ids : id = work[t].command
    BY <1>2 DEF Finalizes
  <2>2. Log!CommitCommand(id) /\ id \in DOMAIN SeenFates
    BY <1>2, <2>1, FinalizeIsCommitted
  <2> QED
    BY <2>2 DEF Log!LogNext, SeenFates
<1>3. ASSUME NEW id \in Ids, RowEnds(id), commands'[id].status \in {"Rejected", "DeadLettered"} PROVE Log!LogNext
  <2>1. commands[id].status = "Leased" /\ Drops(id)
    BY <1>3 DEF RowEnds
  <2> QED
    BY <1>3, <2>1, DropIsDropped DEF Log!LogNext, SeenFates
<1>4. ASSUME \A s \in Submissions : ~Submit(s),
             \A t \in Tokens : ~Finalizes(t),
             \A id \in Ids : ~(RowEnds(id) /\ commands'[id].status \in {"Rejected", "DeadLettered"})
      PROVE  UNCHANGED Log!logVars
  <2>1. Ids' = Ids /\ history' = history
    BY <1>4, RowSteps, HistorySteps
  <2>2. ASSUME NEW id \in Ids PROVE Fate(commands'[id].status) = Fate(commands[id].status)
    <3>1. RowKept(id) \/ RowLeased(id) \/ RowEnds(id)
      BY RowSteps DEF RowStep
    <3>2. CASE RowKept(id)
      BY <3>2 DEF RowKept
    <3>3. CASE RowLeased(id)
      BY <3>3 DEF RowLeased, Eligible, Fate
    <3>4. CASE RowEnds(id)
      <4>1. commands'[id].status = "Ready" /\ commands[id].status = "Leased"
        BY <1>4, <3>4 DEF RowEnds, Final
      <4> QED
        BY <4>1 DEF Fate
    <3> QED
      BY <3>1, <3>2, <3>3, <3>4
  <2>3. SeenFates' = [id \in Ids' |-> Fate(commands'[id].status)]
    BY DEF SeenFates, Fate
  <2>4. SeenFates' = SeenFates
    BY <2>1, <2>2, <2>3 DEF SeenFates
  <2>5. SeenEntities' = SeenEntities /\ SeenLog' = SeenLog
    BY <2>1, SameEntities DEF SeenLog
  <2> QED
    BY <2>4, <2>5 DEF Log!logVars, SeenFates, SeenEntities, SeenLog
<1> QED
  BY <1>1, <1>2, <1>3, <1>4

\* TestStore keeps the promises of CommandLog: its leases, expiry, crashes,
\* conflicts and retries are steps that the log does not show.
THEOREM StoreImplementsLog == ProtocolSpec => ImplementsLog
<1>1. ProtocolInit => Log!LogInit
  <2> SUFFICES ASSUME ProtocolInit PROVE Log!LogInit
    OBVIOUS
  <2>1. Ids = {} /\ DOMAIN history = {}
    BY DEF ProtocolInit, Ids
  <2> QED
    BY <2>1 DEF Log!LogInit
<1> QED
  BY <1>1, RefinesStep, ProtocolInvariant, PTL DEF ProtocolSpec, ImplementsLog, Log!LogSpec
=============================================================================
