---------------------------- MODULE ProtocolStore ----------------------------
(***************************************************************************)
(* TestStore of examples/AutomataReplay/ProtocolStore.fs, a command inbox, *)
(* commit log and action outbox behind one lock, together with the workers *)
(* that use it: processors that claim a command, read its entity's         *)
(* snapshot and commit, and dispatchers that claim an action, handle it    *)
(* and complete it.  Workers run beside each other; each may be paused     *)
(* before its commit, lose its lease, or crash, and responses get lost.    *)
(*                                                                         *)
(* Definitions named ...Mutant are plausible faults: nothing refers to      *)
(* them, and substituting one must break a property.                       *)
(*                                                                         *)
(* The processor and the dispatcher come from a package outside this       *)
(* repository; they are modelled by how Protocol.fs drives them.  A claim  *)
(* hands out a token, and a token stands here for the delivery it leases.  *)
(***************************************************************************)
EXTENDS Naturals, Sequences, FiniteSets

CONSTANTS
    Entities,
    Submissions,   \* what is submitted: a set of [entity, key]
    MaxAttempts,   \* ProcessorPolicy.MaxAttempts
    Batch,         \* ProcessorPolicy.Batch
    MaxToken       \* bound: claims made

ASSUME StoreAssumption ==
    /\ \A s \in Submissions : s.entity \in Entities
    /\ MaxAttempts \in Nat
    /\ Batch \in Nat
    /\ MaxToken \in Nat

Tokens == 1 .. MaxToken

VARIABLES
    commands,       \* rows: [submission, status, token, attempts]
    history,        \* committed transitions: [command, epoch]
    snapshots,      \* entity -> [state, epoch]; the state is the commands it folds
    pending,        \* the outbox: commands whose one action is not acknowledged
    activeActions,  \* actions that are claimed
    token,          \* the last token handed out
    acknowledged,   \* count of acknowledgments
    abandoned,      \* history: actions that were abandoned
    seen,           \* the destination: actions whose effect was applied
    work            \* token -> the delivery: [stage, command, expected, state]

storeVars == <<commands, history, snapshots, pending, activeActions, token, acknowledged>>
protocolVars == <<storeVars, abandoned, seen, work>>

-----------------------------------------------------------------------------
Ids == DOMAIN commands
Entity(id) == commands[id].submission.entity
Final == {"Succeeded", "Rejected", "DeadLettered"}
Statuses == {"Ready", "Leased"} \cup Final
Stages == {"none", "claimed", "read", "failed", "handle", "complete", "gone"}
NoWork == [stage |-> "none", command |-> 0, expected |-> 0, state |-> {}]

Gone(t) == work' = [work EXCEPT ![t].stage = "gone"]
Stage(t, stage) == work' = [work EXCEPT ![t].stage = stage]
SetStatus(id, status) == commands' = [commands EXCEPT ![id].status = status]

OwnsMutantFence(id, t) == commands[id].status = "Leased"

OwnsMutantStatus(id, t) == commands[id].token = t

\* Is t the token of the command's current lease?
Owns(id, t) == commands[id].token = t /\ commands[id].status = "Leased"

EligibleMutant(id) == commands[id].status = "Ready"

\* Ready, and every earlier command of its entity is final.  Commands are kept
\* in submission order, so an earlier Sequence is an earlier index.
Eligible(id) ==
    /\ commands[id].status = "Ready"
    /\ \A earlier \in 1 .. id - 1 :
        Entity(earlier) = Entity(id) => commands[earlier].status \in Final

SubmittedMutant(s) == FALSE

\* The same entity and key were submitted before.
Submitted(s) == \E id \in Ids : commands[id].submission = s

-----------------------------------------------------------------------------
ProtocolInit ==
    /\ commands = <<>>
    /\ history = <<>>
    /\ snapshots = [e \in Entities |-> [state |-> {}, epoch |-> 0]]
    /\ pending = {}
    /\ activeActions = {}
    /\ token = 0
    /\ acknowledged = 0
    /\ abandoned = {}
    /\ seen = {}
    /\ work = [t \in Tokens |-> NoWork]

\* A submission seen before returns the first command's id and changes nothing.
Submit(s) ==
    /\ ~Submitted(s)
    /\ commands' = Append(commands, [submission |-> s, status |-> "Ready", token |-> 0, attempts |-> 0])
    /\ UNCHANGED <<history, snapshots, pending, activeActions, token, acknowledged, abandoned, seen, work>>

\* The first Batch eligible commands are leased, each under a token of its own.
Lease(n, claimed) ==
    /\ token + n <= MaxToken
    /\ \A k \in 1 .. n : Eligible(claimed[k])
    /\ \A j, k \in 1 .. n : j < k => claimed[j] < claimed[k]
    /\ \A id \in Ids : Eligible(id) =>
        (\E k \in 1 .. n : claimed[k] = id) \/ (n = Batch /\ id > claimed[n])
    /\ commands' = [id \in Ids |->
        IF \E k \in 1 .. n : claimed[k] = id
        THEN [commands[id] EXCEPT !.status = "Leased",
                                  !.token = token + (CHOOSE k \in 1 .. n : claimed[k] = id)]
        ELSE commands[id]]
    /\ work' = [t \in Tokens |->
        IF t \in token + 1 .. token + n
        THEN [NoWork EXCEPT !.stage = "claimed", !.command = claimed[t - token]]
        ELSE work[t]]
    /\ token' = token + n
    /\ UNCHANGED <<history, snapshots, pending, activeActions, acknowledged, abandoned, seen>>

Claim == \E n \in 1 .. Batch : \E claimed \in [1 .. n -> Ids] : Lease(n, claimed)

Expired(row) == IF row.status = "Leased" THEN [row EXCEPT !.status = "Ready"] ELSE row

\* Every lease ends, of commands and of actions.
Expire ==
    /\ commands' = [id \in Ids |-> Expired(commands[id])]
    /\ activeActions' = {}
    /\ UNCHANGED <<history, snapshots, pending, token, acknowledged, abandoned, seen, work>>

-----------------------------------------------------------------------------
\* TryGetSnapshot: what the draft is computed from.
ReadSnapshot(t) ==
    /\ work[t].stage = "claimed"
    /\ LET snapshot == snapshots[Entity(work[t].command)]
       IN  work' = [work EXCEPT ![t].stage = "read",
                                ![t].expected = snapshot.epoch,
                                ![t].state = snapshot.state]
    /\ UNCHANGED <<storeVars, abandoned, seen>>

\* The answers of Commit, in the order the code tests for them.
AlreadyFinalized(id, t) == commands[id].status = "Succeeded" /\ commands[id].token = t
LeaseLost(id, t) == ~AlreadyFinalized(id, t) /\ ~Owns(id, t)
Conflict(id, t) ==
    /\ ~AlreadyFinalized(id, t)
    /\ Owns(id, t)
    /\ work[t].expected # snapshots[Entity(id)].epoch

NextEpochMutant(e) == snapshots[e].epoch

NextEpoch(e) == snapshots[e].epoch + 1

\* Transition, snapshot, status and outbox change together.
Finalize(id, t) ==
    /\ history' = Append(history, [command |-> id, epoch |-> NextEpoch(Entity(id))])
    /\ snapshots' = [snapshots EXCEPT ![Entity(id)] =
                        [state |-> work[t].state \cup {id}, epoch |-> NextEpoch(Entity(id))]]
    /\ commands' = [commands EXCEPT ![id].status = "Succeeded", ![id].token = t]
    /\ pending' = pending \cup {id}

(***************************************************************************)
(* Commit, from the processor or again with the same arguments after an    *)
(* ambiguous failure.  The barrier before the lock is the time between     *)
(* ReadSnapshot and this step.  A processor drops a delivery whose commit  *)
(* was refused.                                                            *)
(***************************************************************************)
Commit(t) ==
    LET id == work[t].command IN
    /\ work[t].stage \in {"read", "failed"}
    /\ \/ /\ AlreadyFinalized(id, t) \/ LeaseLost(id, t) \/ Conflict(id, t)
          /\ Gone(t)
          /\ UNCHANGED <<commands, history, snapshots, pending>>
       \/ /\ ~AlreadyFinalized(id, t) /\ ~LeaseLost(id, t) /\ ~Conflict(id, t)
          /\ \/ /\ Stage(t, "failed")  \* FailCommit
                /\ UNCHANGED <<commands, history, snapshots, pending>>
             \/ /\ Finalize(id, t)
                /\ Gone(t) \/ Stage(t, "failed")  \* or LoseCommitResponse
    /\ UNCHANGED <<activeActions, token, acknowledged, abandoned, seen>>

\* The domain refuses the event.
Reject(t) ==
    LET id == work[t].command IN
    /\ work[t].stage \in {"claimed", "read"}
    /\ IF Owns(id, t) THEN SetStatus(id, "Rejected") ELSE UNCHANGED commands
    /\ Gone(t)
    /\ UNCHANGED <<history, snapshots, pending, activeActions, token, acknowledged, abandoned, seen>>

\* After a failed attempt the processor asks for another one ...
Reschedule(t) ==
    LET id == work[t].command IN
    /\ work[t].stage = "failed"
    /\ commands[id].attempts + 1 < MaxAttempts
    /\ IF Owns(id, t)
       THEN commands' = [commands EXCEPT ![id].status = "Ready", ![id].attempts = @ + 1]
       ELSE UNCHANGED commands
    /\ Gone(t)
    /\ UNCHANGED <<history, snapshots, pending, activeActions, token, acknowledged, abandoned, seen>>

\* ... or gives the command up.
DeadLetter(t) ==
    LET id == work[t].command IN
    /\ work[t].stage = "failed"
    /\ commands[id].attempts + 1 >= MaxAttempts
    /\ IF Owns(id, t) THEN SetStatus(id, "DeadLettered") ELSE UNCHANGED commands
    /\ Gone(t)
    /\ UNCHANGED <<history, snapshots, pending, activeActions, token, acknowledged, abandoned, seen>>

\* The worker is cancelled or crashes; its delivery is never finished.
Crash(t) ==
    /\ work[t].stage \notin {"none", "gone"}
    /\ Gone(t)
    /\ UNCHANGED <<storeVars, abandoned, seen>>

-----------------------------------------------------------------------------
\* IActionQueue.Claim, of up to Batch actions that are not claimed; which of
\* them is left open, for the queue's order is not modelled.
LeaseActions(n, claimed) ==
    LET taken == {claimed[k] : k \in 1 .. n} IN
    /\ token + n <= MaxToken
    /\ \A j, k \in 1 .. n : j < k => claimed[j] < claimed[k]
    /\ n = Batch \/ taken = pending \ activeActions
    /\ activeActions' = activeActions \cup taken
    /\ work' = [t \in Tokens |->
        IF t \in token + 1 .. token + n
        THEN [NoWork EXCEPT !.stage = "handle", !.command = claimed[t - token]]
        ELSE work[t]]
    /\ token' = token + n
    /\ UNCHANGED <<commands, history, snapshots, pending, acknowledged, abandoned, seen>>

ClaimActions ==
    \E n \in 1 .. Batch : \E claimed \in [1 .. n -> pending \ activeActions] : LeaseActions(n, claimed)

\* The destination applies the effect of an action it has not seen.
Handle(t) ==
    /\ work[t].stage = "handle"
    /\ seen' = seen \cup {work[t].command}
    /\ Stage(t, "complete")
    /\ UNCHANGED <<storeVars, abandoned>>

CompletedMutant(id, lost) == pending \ {id}

Completed(id, lost) == IF lost THEN pending ELSE pending \ {id}

\* Complete: the claim ends first, then the acknowledgment may get lost.  The
\* token is not compared, so a delivery whose lease expired completes too.
Complete(t) ==
    LET id == work[t].command IN
    /\ work[t].stage = "complete"
    /\ activeActions' = activeActions \ {id}
    /\ \E lost \in BOOLEAN :
        /\ pending' = Completed(id, lost)
        /\ acknowledged' = IF lost THEN acknowledged ELSE acknowledged + 1
    /\ Gone(t)
    /\ UNCHANGED <<commands, history, snapshots, token, abandoned, seen>>

\* The handler failed: the action is delivered again, or given up.
RescheduleAction(t) ==
    /\ work[t].stage = "handle"
    /\ activeActions' = activeActions \ {work[t].command}
    /\ Gone(t)
    /\ UNCHANGED <<commands, history, snapshots, pending, token, acknowledged, abandoned, seen>>

Abandon(t) ==
    /\ work[t].stage = "handle"
    /\ pending' = pending \ {work[t].command}
    /\ abandoned' = abandoned \cup {work[t].command}
    /\ Gone(t)
    /\ UNCHANGED <<commands, history, snapshots, activeActions, token, acknowledged, seen>>

-----------------------------------------------------------------------------
Processor(t) == ReadSnapshot(t) \/ Commit(t) \/ Reject(t) \/ Reschedule(t) \/ DeadLetter(t)
Dispatcher(t) == Handle(t) \/ Complete(t) \/ RescheduleAction(t) \/ Abandon(t)

ProtocolNext ==
    \/ \E s \in Submissions : Submit(s)
    \/ Claim
    \/ ClaimActions
    \/ Expire
    \/ \E t \in Tokens : Processor(t) \/ Dispatcher(t) \/ Crash(t)

ProtocolSpec == ProtocolInit /\ [][ProtocolNext]_protocolVars

-----------------------------------------------------------------------------
Rows == [submission : Submissions, status : Statuses, token : 0 .. MaxToken, attempts : Nat]
Deliveries == [stage : Stages, command : Ids \cup {0}, expected : Nat, state : SUBSET Ids]

\* Types of all variables; a submission has one row.
StoreTypeOK ==
    /\ commands \in Seq(Rows)
    /\ \A i, j \in Ids : commands[i].submission = commands[j].submission => i = j
    /\ history \in Seq([command : Ids, epoch : Nat])
    /\ snapshots \in [Entities -> [state : SUBSET Ids, epoch : Nat]]
    /\ pending \subseteq Ids
    /\ activeActions \subseteq Ids
    /\ token \in 0 .. MaxToken
    /\ acknowledged \in Nat
    /\ abandoned \subseteq Ids
    /\ seen \subseteq Ids
    /\ work \in [Tokens -> Deliveries]

Committed == {history[k].command : k \in DOMAIN history}
CommittedOf(e) == {id \in Committed : Entity(id) = e}

(***************************************************************************)
(* A snapshot folds exactly the commands committed to its entity, each     *)
(* once, and its epoch counts them: no worker's commit overwrites another  *)
(* one's, whatever it read and however long it was paused.                 *)
(***************************************************************************)
SnapshotsMatchHistory ==
    \A e \in Entities :
        /\ snapshots[e].state = CommittedOf(e)
        /\ snapshots[e].epoch = Cardinality(CommittedOf(e))

\* Commands of an entity are committed in the order they were submitted, and each at most once.
CommitsInOrder ==
    \A j, k \in DOMAIN history :
        j < k /\ Entity(history[j].command) = Entity(history[k].command) =>
            history[j].command < history[k].command

(***************************************************************************)
(* An action of a committed command is queued until it is acknowledged or  *)
(* abandoned; a lost acknowledgment leaves it queued.                      *)
(***************************************************************************)
OutboxKeepsActions ==
    /\ Committed \ pending \subseteq seen \cup abandoned
    /\ Cardinality(Committed \ (pending \cup abandoned)) <= acknowledged

\* Only the newest lease of a command finalizes it: no older token replaces its token.
TokensAdvance ==
    [][\A id \in Ids : commands'[id].token >= commands[id].token]_protocolVars

-----------------------------------------------------------------------------
Fate(status) ==
    CASE status = "Succeeded" -> "committed"
      [] status \in {"Rejected", "DeadLettered"} -> "dropped"
      [] OTHER -> "open"

Log ==
    INSTANCE CommandLog WITH
        entityOf <- [id \in Ids |-> Entity(id)],
        fate <- [id \in Ids |-> Fate(commands[id].status)],
        log <- [k \in DOMAIN history |-> history[k].command]

\* Leases, expiry, crashes and retries never show in the log.
ImplementsLog == Log!LogSpec
=============================================================================
