------------------------------ MODULE Telemetry ------------------------------
(***************************************************************************)
(* The life of one dispatch in roadmap-telemetry.py: its commands (begin,  *)
(* started, finish, usage-reconcile and the observations) each read the    *)
(* dispatch's private state file, save the exact batch they are about to   *)
(* submit to the telemetry engine, submit it, and save the next phase.     *)
(* A command may crash between any two saves and be run again; the engine  *)
(* may refuse a batch, or leave it unknown whether a batch was applied.    *)
(*                                                                         *)
(* Definitions named ...Mutant are plausible faults: nothing refers to      *)
(* them, and substituting one must break a property.                       *)
(*                                                                         *)
(* The dispatch is a child whose host records its native usage, with a     *)
(* known baseline.  The engine and the host's records are external: a      *)
(* refusal as an invalid request is definitive, so that a batch that was   *)
(* applied is not refused later.  The host makes one record per response,  *)
(* or a later one that corrects it, each with the turn's total so far;     *)
(* nothing in the records says which of them is the last.                  *)
(***************************************************************************)
EXTENDS Naturals, Sequences, FiniteSetsExt

CONSTANTS
    Turns,         \* native turns of the dispatch
    Observations,  \* activity, complication, review and attribution events
    Records,       \* the records a turn will have, and which of them can be read
    Ended,         \* how many of them a turn has when its status is final
    MaxSequence    \* bound: batches of the dispatch

ASSUME TelemetryAssumption ==
    /\ \A t \in Turns :
        Records[t] \in Seq([response : Nat, tokens : Nat \ {0}, total : Nat \ {0}, readable : BOOLEAN])
    /\ Ended \in [Turns -> Nat]
    /\ MaxSequence \in Nat

VARIABLES
    file,      \* the durable state; a command's copy differs only on its way into a save
    pc,        \* where that command is
    then,      \* where it goes once the pending batch is applied
    native,    \* the usage it collected: turn -> total, 0 if not verified
    left,      \* eligible turns it has not looked at
    coverage,  \* the coverage it reported
    usage,     \* the number of the host's records of each turn
    engine,    \* batches the engine applied
    mishaps    \* history: what has happened that the file does not account for

command == <<pc, then, native, left, coverage>>
telemetryVars == <<file, command, usage, engine, mishaps>>

-----------------------------------------------------------------------------
NoIntent == [turn |-> "none", revision |-> 0, hash |-> 0]
NoEntry == [revision |-> 0, hash |-> 0]

Plain(kind) == [kind |-> kind, about |-> "dispatch", revision |-> 0, hash |-> 0]
Note(o) == [kind |-> "observation", about |-> o, revision |-> 0, hash |-> 0]
Usage(intent) ==
    [kind |-> "native-usage", about |-> intent.turn, revision |-> intent.revision, hash |-> intent.hash]

NoPending == [event |-> Plain("none"), next |-> "none"]

Absent ==
    [phase |-> "absent", sequence |-> 0, pending |-> NoPending, thread |-> FALSE,
     intent |-> NoIntent, ledger |-> [t \in Turns |-> NoEntry]]

GoOn(to) == pc' = to /\ UNCHANGED file

\* The command ends, with its result or a ConfigurationError.
End == GoOn("idle") /\ then' = "idle"

\* publish_pending: submit the batch that was saved.
PublishPending(to) ==
    IF file.pending = NoPending THEN End ELSE GoOn("submit") /\ then' = to

SameBatchMutant(state, event, next) == state.pending # NoPending

\* A retry replays the pending batch only if it is the very one to publish.
SameBatch(state, event, next) == state.pending = [event |-> event, next |-> next]

\* publish: prepare_publication, which saves the batch, then publish_pending.
Publish(state, event, next, to) ==
    \/ /\ state.pending = NoPending
       /\ state.sequence < MaxSequence
       /\ file' = [state EXCEPT !.sequence = @ + 1, !.pending = [event |-> event, next |-> next]]
       /\ pc' = "submit"
       /\ then' = to
    \/ /\ SameBatch(state, event, next)
       /\ PublishPending(to)
    \/ /\ state.pending # NoPending
       /\ ~SameBatch(state, event, next)
       /\ End

-----------------------------------------------------------------------------
TelemetryInit ==
    /\ file = Absent
    /\ pc = "idle"
    /\ then = "idle"
    /\ native = [t \in Turns |-> 0]
    /\ left = {}
    /\ coverage = "none"
    /\ usage = [t \in Turns |-> 0]
    /\ engine = {}
    /\ mishaps = {}

Start ==
    /\ pc = "idle"
    /\ coverage' = "none"
    /\ native' = [t \in Turns |-> 0]
    /\ left' = {}
    /\ UNCHANGED <<usage, engine>>

Begin ==
    /\ Start
    /\ \/ /\ file.phase = "absent"
          /\ Publish([Absent EXCEPT !.phase = "begin-pending"], Plain("begin"), "expected", "idle")
       \/ /\ file.phase = "begin-pending"
          /\ PublishPending("idle")

Started ==
    /\ Start
    /\ \/ /\ file.phase = "expected"
          /\ Publish([file EXCEPT !.phase = "start-pending"], Plain("started"), "started", "idle")
       \/ /\ file.phase = "start-pending"
          /\ PublishPending("idle")

Finish ==
    /\ Start
    /\ \/ /\ file.phase = "started"
          /\ Publish([file EXCEPT !.phase = "terminal-pending"], Plain("finish"), "terminal", "reconcile")
       \/ /\ file.phase = "terminal-pending"
          /\ PublishPending("reconcile")
       \/ /\ file.phase = "terminal"
          /\ GoOn("reconcile")
          /\ UNCHANGED then

UsageReconcile ==
    /\ Start
    /\ file.phase = "terminal"
    /\ GoOn("reconcile")
    /\ UNCHANGED then

ObserveMutant(o) ==
    /\ Start
    /\ file.phase # "absent"
    /\ Publish(file, Note(o), file.phase, "idle")

\* activity and complication from started on, review and attribution once
\* terminal; record_event.
Observe(o) ==
    /\ Start
    /\ file.phase \in {"started", "terminal"}
    /\ Publish(file, Note(o), file.phase, "idle")

-----------------------------------------------------------------------------
\* The reply to `submit`, in publish_pending.
Submitted == [cursor |-> file.sequence, event |-> file.pending.event]

AppliedState == [file EXCEPT !.phase = file.pending.next, !.pending = NoPending]

Applied ==
    /\ pc = "submit"
    /\ engine' = engine \cup {Submitted}
    /\ file' = AppliedState
    /\ pc' = then
    /\ then' = "idle"
    /\ UNCHANGED <<native, left, coverage, usage>>

RefusedStateMutantKept == [file EXCEPT !.sequence = @ - 1, !.intent = NoIntent]

RefusedStateMutant == [file EXCEPT !.pending = NoPending, !.intent = NoIntent]

\* The batch and its cursor are given up; the phase is not.
RefusedState ==
    [file EXCEPT !.sequence = @ - 1,
                !.pending = NoPending,
                !.intent = IF file.pending.event.kind = "native-usage" THEN NoIntent ELSE @]

Refused ==
    /\ pc = "submit"
    /\ Submitted \notin engine
    /\ file' = RefusedState
    /\ pc' = IF then = "record" THEN "refused" ELSE "idle"
    /\ then' = "idle"
    /\ UNCHANGED <<native, left, coverage, usage, engine>>

\* reconcile_usage drops its intent with a refused batch.
DropIntent ==
    /\ pc = "refused"
    /\ file' = [file EXCEPT !.intent = NoIntent]
    /\ pc' = "idle"
    /\ UNCHANGED <<then, native, left, coverage, usage, engine>>

\* Another failure, a timeout, or a crash before the reply is saved.
Unknown ==
    /\ pc = "submit"
    /\ engine' \in {engine, engine \cup {Submitted}}
    /\ End
    /\ UNCHANGED <<native, left, coverage, usage>>

-----------------------------------------------------------------------------
\* reconcile_usage, one save at a time: first what an earlier run left behind.
ReconcileThread ==
    /\ pc = "reconcile"
    /\ \/ /\ file.pending.event = Plain("native-thread")
          /\ PublishPending("threadReplayed")
       \/ /\ file.pending.event # Plain("native-thread")
          /\ GoOn("intent")
          /\ UNCHANGED then
    /\ UNCHANGED <<native, left, coverage, usage, engine>>

ThreadPublished ==
    /\ pc \in {"threadReplayed", "threadDone"}
    /\ file' = [file EXCEPT !.thread = TRUE]
    /\ pc' = IF pc = "threadReplayed" THEN "intent" ELSE "turns"
    /\ UNCHANGED <<then, native, left, coverage, usage, engine>>

ReconcileIntent ==
    /\ pc = "intent"
    /\ \/ /\ file.intent = NoIntent
          /\ GoOn("collect")
          /\ UNCHANGED then
       \/ /\ file.intent # NoIntent
          /\ file.pending # NoPending
          /\ PublishPending("record")
       \/ /\ file.intent # NoIntent
          /\ file.pending = NoPending
          /\ GoOn("record")
          /\ UNCHANGED then
    /\ UNCHANGED <<native, left, coverage, usage, engine>>

\* The ledger says the intended usage is published.
Record ==
    /\ pc \in {"record", "recorded"}
    /\ file' = [file EXCEPT !.ledger[file.intent.turn] =
                                 [revision |-> file.intent.revision, hash |-> file.intent.hash],
                            !.intent = NoIntent]
    /\ pc' = IF pc = "record" THEN "collect" ELSE "turns"
    /\ UNCHANGED <<then, native, left, coverage, usage, engine>>

\* rollout_usage: the records of a turn that can be read; a line that is too long or does
\* not start with its type is skipped.
Rows(t, n) == {i \in 1 .. n : Records[t][i].readable}

\* The last of them, if there is one.
Newest(t, n) == {last \in Rows(t, n) : \A i \in Rows(t, n) : i <= last}

\* A later record of a response replaces the earlier one.
Final(t, n) == {i \in Rows(t, n) : \A j \in Rows(t, n) : Records[t][j].response = Records[t][i].response => j <= i}

Total(t, n) == MapThenSumSet(LAMBDA i : Records[t][i].tokens, Final(t, n))

VerifiedMutant(t, n) == n >= Ended[t] /\ Rows(t, n) # {}

VerifiedMutantRunning(t, n) == \E last \in Newest(t, n) : Total(t, n) = Records[t][last].total

\* collect: a turn counts if it ended and its counters add up to the last total.
Verified(t, n) ==
    /\ n >= Ended[t]
    /\ \E last \in Newest(t, n) : Total(t, n) = Records[t][last].total

\* reconcile_usage on what collect returns, and the registration of the native thread.
Collect ==
    /\ pc = "collect"
    /\ \/ /\ coverage' = "unknown"
          /\ End
          /\ UNCHANGED <<native, left>>
       \/ /\ native' = [t \in Turns |-> IF Verified(t, usage[t]) THEN Total(t, usage[t]) ELSE 0]
          /\ left' = {t \in Turns : native'[t] # 0}
          /\ UNCHANGED coverage
          /\ IF file.thread
             THEN GoOn("turns") /\ UNCHANGED then
             ELSE Publish(file, Plain("native-thread"), file.phase, "threadDone")
    /\ UNCHANGED <<usage, engine>>

IntentMutant(t) ==
    [turn |-> t, hash |-> native[t], revision |-> file.ledger[t].revision]

\* What is about to be published of a turn whose usage the ledger does not have.
Intent(t) ==
    [turn |-> t, hash |-> native[t],
     revision |-> IF file.ledger[t] = NoEntry THEN 0 ELSE file.ledger[t].revision + 1]

NextTurn(t) ==
    /\ pc = "turns"
    /\ t \in left
    /\ left' = left \ {t}
    /\ \/ /\ file.ledger[t].hash = native[t]
          /\ UNCHANGED <<file, pc>>
       \/ /\ file.ledger[t].hash # native[t]
          /\ file' = [file EXCEPT !.intent = Intent(t)]
          /\ pc' = "usage"
    /\ UNCHANGED <<then, native, coverage, usage, engine>>

PublishUsage ==
    /\ pc = "usage"
    /\ Publish(file, Usage(file.intent), file.phase, "recorded")
    /\ UNCHANGED <<native, left, coverage, usage, engine>>

ReportCoverage ==
    /\ pc = "turns"
    /\ left = {}
    /\ coverage' = IF Turns # {} /\ \A t \in Turns : native[t] # 0 THEN "complete" ELSE "unknown"
    /\ End
    /\ UNCHANGED <<native, left, usage, engine>>

-----------------------------------------------------------------------------
Crash ==
    /\ pc # "idle"
    /\ End
    /\ UNCHANGED <<native, left, coverage, usage, engine>>

\* The host records the usage of a response, or corrects it.
RecordUsage(t) ==
    /\ usage[t] < Len(Records[t])
    /\ usage' = [usage EXCEPT ![t] = @ + 1]
    /\ UNCHANGED <<file, command, engine>>

Reconcile ==
    \/ ReconcileThread \/ ThreadPublished \/ ReconcileIntent \/ Record \/ Collect
    \/ PublishUsage \/ ReportCoverage \/ \E t \in Turns : NextTurn(t)

(***************************************************************************)
(* Three things that befall a dispatch: an observation is pending while an *)
(* intent is saved; a command stops between the saves of an intent and of  *)
(* its batch; and a batch that leads to the next phase is refused.         *)
(***************************************************************************)
Mishaps == {"crossed", "torn", "refused"}

Happens(mishap) ==
    \/ /\ mishap = "crossed"
       /\ file'.pending.event.kind = "observation"
       /\ file'.intent # NoIntent
    \/ /\ mishap = "torn"
       /\ pc = "usage"
       /\ pc' \notin {"usage", "submit"}
    \/ /\ mishap = "refused"
       /\ Refused
       /\ file.pending.next # file.phase

TelemetryNext ==
    /\ \/ Begin \/ Started \/ Finish \/ UsageReconcile
       \/ \E o \in Observations : Observe(o)
       \/ Applied \/ Refused \/ DropIntent \/ Unknown
       \/ Reconcile
       \/ Crash
       \/ \E t \in Turns : RecordUsage(t)
    /\ mishaps' = mishaps \cup {m \in Mishaps : Happens(m)}

TelemetrySpec == TelemetryInit /\ [][TelemetryNext]_telemetryVars

-----------------------------------------------------------------------------
Phases ==
    {"absent", "begin-pending", "expected", "start-pending", "started", "terminal-pending", "terminal"}
Kinds == {"begin", "started", "finish", "observation", "native-thread", "native-usage"}
Events ==
    [kind : Kinds, about : {"dispatch"} \cup Turns \cup Observations, revision : Nat, hash : Nat]
Entries == [revision : Nat, hash : Nat]
States ==
    [phase : Phases, sequence : 0 .. MaxSequence,
     pending : {NoPending} \cup [event : Events, next : Phases], thread : BOOLEAN,
     intent : {NoIntent} \cup [turn : Turns, revision : Nat, hash : Nat], ledger : [Turns -> Entries]]

\* Types of all variables; a pending batch has a cursor.
TelemetryTypeOK ==
    /\ file \in States
    /\ pc \in {"idle", "submit", "refused", "reconcile", "threadReplayed", "threadDone", "intent", "record",
               "recorded", "collect", "turns", "usage"}
    /\ then \in {"idle", "reconcile", "threadReplayed", "threadDone", "record", "recorded"}
    /\ native \in [Turns -> Nat]
    /\ left \subseteq Turns
    /\ coverage \in {"none", "unknown", "complete"}
    /\ usage \in [Turns -> Nat]
    /\ engine \subseteq [cursor : 1 .. MaxSequence, event : Events]
    /\ mishaps \subseteq Mishaps
    /\ file.pending # NoPending => file.sequence > 0

(***************************************************************************)
(* The engine never applies two different batches under one cursor,        *)
(* whatever was replayed, refused and rolled back; and the cursors of the  *)
(* batches the file counts as published have no gap.                       *)
(***************************************************************************)
CursorsAreExclusive ==
    /\ \A a, b \in engine : a.cursor = b.cursor => a = b
    /\ \A cursor \in 1 .. file.sequence :
        \/ \E a \in engine : a.cursor = cursor
        \/ cursor = file.sequence /\ file.pending # NoPending

\* The durable phase never runs ahead of what the engine applied.
PhaseIsApplied ==
    LET Has(kind) == \E a \in engine : a.event.kind = kind IN
    /\ file.phase \notin {"absent", "begin-pending"} => Has("begin")
    /\ file.phase \in {"started", "terminal-pending", "terminal"} => Has("started")
    /\ file.phase = "terminal" => Has("finish")
    /\ file.thread => Has("native-thread")

\* Two usage observations of a turn with one revision are the same observation.
RevisionsAgree ==
    \A a, b \in engine :
        /\ a.event.kind = "native-usage" /\ b.event.kind = "native-usage"
        /\ a.event.about = b.event.about
        /\ a.event.revision = b.event.revision
        => a.event = b.event

(***************************************************************************)
(* Whatever is collected, crashed, replayed and corrected, usage reaches   *)
(* the engine only of a turn that has ended, and it is what the host had   *)
(* counted for it: at some time from its end on, with n records, the total *)
(* in the newest record that could be read.  So a correction counts once,  *)
(* and a turn with a gap, a record among the readable ones that cannot be  *)
(* read, is published only if what remains still is the host's own total.  *)
(* It is no more than that: rollout_usage skips a record that cannot be    *)
(* read also at the end, and then an earlier total is published.           *)
(***************************************************************************)
UsageIsTheHosts ==
    \A a \in engine : a.event.kind = "native-usage" =>
        \E n \in Ended[a.event.about] .. usage[a.event.about] :
            \E last \in Newest(a.event.about, n) :
                a.event.hash = Records[a.event.about][last].total

(***************************************************************************)
(* SKILL.md: "Until all turns are verified, report native usage as         *)
(* unknown": a complete coverage means every turn's usage was published.   *)
(***************************************************************************)
CompleteIsPublished ==
    coverage = "complete" =>
        \A t \in Turns : \E a \in engine :
            a.event.kind = "native-usage" /\ a.event.about = t /\ a.event.hash = native[t]

(***************************************************************************)
(* The comment in publish_pending: giving up a refused batch must not      *)
(* "permanently fence every corrected observation".  A pending phase has a *)
(* batch that a retry can replay.                                          *)
(***************************************************************************)
PendingPhaseCanRetry ==
    file.phase \in {"begin-pending", "start-pending", "terminal-pending"} => file.pending # NoPending

(***************************************************************************)
(* What goes wrong with a dispatch has one cause each, whatever else is    *)
(* crashed, refused, replayed or corrected: revisions disagree only after  *)
(* an observation was pending beside an intent, a complete coverage was    *)
(* not published only after a command stopped between the two saves, and a *)
(* phase cannot be retried only after the batch that leads out of it was   *)
(* refused.                                                                *)
(***************************************************************************)
HarmHasCause ==
    /\ "crossed" \notin mishaps => RevisionsAgree
    /\ "torn" \notin mishaps => CompleteIsPublished
    /\ "refused" \notin mishaps => PendingPhaseCanRetry

-----------------------------------------------------------------------------
\* The events known to be in the engine, and the phase they led to.
Known == IF file.pending = NoPending THEN file.sequence ELSE file.sequence - 1

Behind(phase) ==
    CASE phase = "begin-pending"    -> "absent"
      [] phase = "start-pending"    -> "expected"
      [] phase = "terminal-pending" -> "started"
      [] OTHER                      -> phase

Log == INSTANCE DispatchLog WITH log <- engine, counted <- Known, reached <- Behind(file.phase)

(***************************************************************************)
(* The saves, crashes, refusals and replays of the commands are one log of *)
(* the dispatch: nothing in the engine is ever replaced or published out   *)
(* of the order of the life cycle, the next event waits until the one      *)
(* before is known to be applied, and the phase moves with it.  The log    *)
(* has one begin, started and finish, but may have other events again,     *)
(* under a cursor of their own: a command that stops between the save of   *)
(* publish_pending and that of native_thread_published registers the       *)
(* thread once more, and a caller may repeat an observation.               *)
(***************************************************************************)
ImplementsDispatchLog == Log!LogSpec
=============================================================================
