--------------------------- MODULE TelemetryProofs ---------------------------
(***************************************************************************)
(* Theorems about a dispatch, for any turns, observations and records.     *)
(***************************************************************************)
EXTENDS Telemetry, TLAPS

HostRecord == [response : Nat, tokens : Nat \ {0}, total : Nat \ {0}, readable : BOOLEAN]
Intents == [turn : Turns, revision : Nat, hash : Nat]
Batches == [event : Events, next : Phases]

\* A total that the host had in the newest record that could be read, at some time since
\* the turn ended and up to its first n records.
HostCounted(t, n, total) ==
    \E m \in Ended[t] .. n : \E last \in Newest(t, m) : total = Records[t][last].total

\* A total that was verified is one of these.

LEMMA VerifiedIsCounted ==
    ASSUME NEW t \in Turns, NEW n \in 0 .. Len(Records[t]), Verified(t, n)
    PROVE  Total(t, n) \in Nat \ {0} /\ HostCounted(t, n, Total(t, n))
<1>1. PICK last \in Newest(t, n) : Total(t, n) = Records[t][last].total
    BY DEF Verified
<1>2. last \in 1 .. n
    BY DEF Newest, Rows
<1>3. Records[t] \in Seq(HostRecord) /\ Len(Records[t]) \in Nat
    BY TelemetryAssumption DEF HostRecord
<1>4. last \in 1 .. Len(Records[t])
    BY <1>2, <1>3
<1>5. Records[t][last] \in HostRecord
    BY <1>3, <1>4
<1>6. n \in Ended[t] .. n
    BY <1>3, TelemetryAssumption DEF Verified
<1> QED BY <1>1, <1>5, <1>6 DEF HostRecord, HostCounted

-----------------------------------------------------------------------------
Pcs == {"idle", "submit", "refused", "reconcile", "threadReplayed", "threadDone", "intent", "record",
        "recorded", "collect", "turns", "usage"}
Thens == {"idle", "reconcile", "threadReplayed", "threadDone", "record", "recorded"}

(***************************************************************************)
(* The type invariant, with what keeps it: a batch that is submitted is    *)
(* pending, a usage that is published is intended, the host's count of a   *)
(* turn stays within its records, an absent file is empty, and no command  *)
(* goes on without a file.                                                 *)
(***************************************************************************)
FileFits ==
    /\ pc = "submit" => file.pending # NoPending
    /\ pc = "usage" => file.intent \in Intents
    /\ file.phase = "absent" => file = Absent
    /\ pc # "idle" => file.phase # "absent"
    /\ file.pending.next # "absent"

TypeInv ==
    /\ TelemetryTypeOK
    /\ \A t \in Turns : usage[t] \in 0 .. Len(Records[t])
    /\ FileFits

\* Its parts, in this state and in the next.
FileType == file \in States /\ (file.pending # NoPending => file.sequence > 0)
RestType ==
    /\ pc \in Pcs /\ then \in Thens
    /\ native \in [Turns -> Nat] /\ left \subseteq Turns /\ coverage \in {"none", "unknown", "complete"}
    /\ usage \in [Turns -> Nat] /\ engine \subseteq [cursor : 1 .. MaxSequence, event : Events] /\ mishaps \subseteq Mishaps

LEMMA TypeParts == TelemetryTypeOK <=> FileType /\ RestType
BY DEF TelemetryTypeOK, FileType, RestType, Pcs, Thens

LEMMA TypePartsNext == TelemetryTypeOK' <=> FileType' /\ RestType'
BY DEF TelemetryTypeOK, FileType, RestType, Pcs, Thens

LEMMA MaxSequenceIsNat == MaxSequence \in Nat
BY TelemetryAssumption

\* Batches of the commands are events.
LEMMA EventTypes ==
    /\ \A kind \in {"begin", "started", "finish", "native-thread"} : Plain(kind) \in Events
    /\ \A o \in Observations : Note(o) \in Events
    /\ \A intent \in Intents : Usage(intent) \in Events
BY DEF Plain, Note, Usage, Events, Kinds, Intents

\* Nothing that is pending is the placeholder for nothing.
LEMMA PendingIsSome ==
    ASSUME NEW event \in Events, NEW next
    PROVE  [event |-> event, next |-> next] # NoPending
BY DEF Events, Kinds, NoPending, Plain

\* The fields of a state file.
LEMMA Fields ==
    ASSUME NEW s \in States
    PROVE  /\ s.phase \in Phases /\ s.sequence \in 0 .. MaxSequence /\ s.thread \in BOOLEAN
           /\ s.pending \in {NoPending} \cup Batches /\ s.intent \in {NoIntent} \cup Intents
           /\ s.ledger \in [Turns -> Entries]
           /\ s.pending # NoPending => s.pending.event \in Events /\ s.pending.next \in Phases
BY DEF States, Batches, Intents

\* The file at first.
LEMMA AbsentType == Absent \in States /\ Absent.pending = NoPending
BY MaxSequenceIsNat DEF Absent, States, Phases, NoEntry, Entries

\* A batch that is saved.
Saved(s, phase, event, next) ==
    [s EXCEPT !.phase = phase, !.sequence = s.sequence + 1, !.pending = [event |-> event, next |-> next]]

LEMMA SavedType ==
    ASSUME NEW s \in States, s.sequence < MaxSequence,
           NEW phase \in Phases, NEW event \in Events, NEW next \in Phases
    PROVE  /\ Saved(s, phase, event, next) \in States
           /\ Saved(s, phase, event, next).pending # NoPending /\ Saved(s, phase, event, next).sequence > 0
<1>1. s.sequence + 1 \in 0 .. MaxSequence /\ s.sequence + 1 > 0
    BY Fields, MaxSequenceIsNat
<1>2. Saved(s, phase, event, next) \in States
    BY <1>1 DEF Saved, States
<1>3. /\ Saved(s, phase, event, next).pending = [event |-> event, next |-> next]
      /\ Saved(s, phase, event, next).sequence = s.sequence + 1
    BY DEF Saved, States
<1> QED BY <1>1, <1>2, <1>3, PendingIsSome

-----------------------------------------------------------------------------
\* What a command that publishes does: it saves a batch, replays the one it finds, or ends.
Publishes(phase, event, next, to) ==
    /\ file.pending = NoPending /\ file.sequence < MaxSequence
    /\ file' = Saved(file, phase, event, next)
    /\ pc' = "submit" /\ then' = to
Replays(to) == file.pending # NoPending /\ file' = file /\ pc' = "submit" /\ then' = to
ReplaysIt(event, next, to) == Replays(to) /\ file.pending = [event |-> event, next |-> next]
Ends == file' = file /\ pc' = "idle" /\ then' = "idle"
Goes(to) == file' = file /\ pc' = to /\ then' = then

\* The same file under its own phase.
LEMMA OwnPhase ==
    ASSUME NEW s \in States
    PROVE  /\ [s EXCEPT !.phase = s.phase] = s
           /\ \A event, next : [s EXCEPT !.sequence = s.sequence + 1, !.pending = [event |-> event, next |-> next]]
                                = Saved(s, s.phase, event, next)
BY DEF States, Saved

\* A new phase changes no other field.
LEMMA OtherPhase ==
    ASSUME NEW s \in States, NEW phase
    PROVE  /\ [s EXCEPT !.phase = phase].pending = s.pending
           /\ [s EXCEPT !.phase = phase].sequence = s.sequence
           /\ \A event, next :
                [[s EXCEPT !.phase = phase] EXCEPT !.sequence = @ + 1, !.pending = [event |-> event, next |-> next]]
                    = Saved(s, phase, event, next)
BY DEF States, Saved

\* A command that publishes what it finds pending, or ends.
LEMMA PublishPendingIs ==
    ASSUME NEW to
    PROVE  PublishPending(to) => Replays(to) \/ Ends
BY DEF PublishPending, End, GoOn, Replays, Ends

LEMMA EndIs == End => Ends
BY DEF End, GoOn, Ends

LEMMA BeginIs ==
    ASSUME TypeInv, Begin
    PROVE  \/ file.phase = "absent" /\ Publishes("begin-pending", Plain("begin"), "expected", "idle")
           \/ file.phase = "begin-pending" /\ Replays("idle")
           \/ Ends
<1>0. file \in States
    BY TypeParts DEF TypeInv, FileType
<1>1. CASE file.phase = "absent"
    <2>1. file = Absent /\ file.pending = NoPending
        BY <1>1, AbsentType DEF TypeInv, FileFits
    <2>2. Publish([file EXCEPT !.phase = "begin-pending"], Plain("begin"), "expected", "idle")
        BY <1>1, <2>1 DEF Begin
    <2>3. \/ /\ file.pending = NoPending
             /\ file.sequence < MaxSequence
             /\ file' = [[file EXCEPT !.phase = "begin-pending"] EXCEPT !.sequence = @ + 1, !.pending = [event |-> Plain("begin"), next |-> "expected"]]
             /\ pc' = "submit" /\ then' = "idle"
          \/ file.pending = [event |-> Plain("begin"), next |-> "expected"] /\ PublishPending("idle")
          \/ End
        BY <1>0, <2>2, OtherPhase DEF Publish, SameBatch
<2>4. [[file EXCEPT !.phase = "begin-pending"] EXCEPT !.sequence = @ + 1, !.pending = [event |-> Plain("begin"), next |-> "expected"]]
            = Saved(file, "begin-pending", Plain("begin"), "expected")
        BY <1>0 DEF Saved, States
    <2>5. file.pending # [event |-> Plain("begin"), next |-> "expected"]
        BY <2>1, EventTypes, PendingIsSome
    <2> QED BY <1>1, <2>3, <2>4, <2>5, EndIs DEF Publishes
<1>2. CASE file.phase # "absent"
    BY <1>2 DEF Begin, PublishPending, End, GoOn, Replays, Ends
<1> QED BY <1>1, <1>2

LEMMA StartedIs ==
    ASSUME TypeInv, Started
    PROVE  \/ file.phase = "expected" /\ Publishes("start-pending", Plain("started"), "started", "idle")
           \/ file.phase = "expected" /\ ReplaysIt(Plain("started"), "started", "idle")
           \/ file.phase = "start-pending" /\ Replays("idle")
           \/ Ends
<1>0. file \in States
    BY TypeParts DEF TypeInv, FileType
<1>1. CASE file.phase = "expected"
    <2>1. Publish([file EXCEPT !.phase = "start-pending"], Plain("started"), "started", "idle")
        BY <1>1 DEF Started
    <2>3. \/ /\ file.pending = NoPending
             /\ file.sequence < MaxSequence
             /\ file' = [[file EXCEPT !.phase = "start-pending"] EXCEPT !.sequence = @ + 1, !.pending = [event |-> Plain("started"), next |-> "started"]]
             /\ pc' = "submit" /\ then' = "idle"
          \/ file.pending = [event |-> Plain("started"), next |-> "started"] /\ PublishPending("idle")
          \/ End
        BY <1>0, <2>1, OtherPhase DEF Publish, SameBatch
<2>4. [[file EXCEPT !.phase = "start-pending"] EXCEPT !.sequence = @ + 1, !.pending = [event |-> Plain("started"), next |-> "started"]]
            = Saved(file, "start-pending", Plain("started"), "started")
        BY <1>0 DEF Saved, States
    <2> QED BY <1>1, <2>3, <2>4, PublishPendingIs, EndIs DEF Publishes, ReplaysIt
<1>2. CASE file.phase # "expected"
    BY <1>2 DEF Started, PublishPending, End, GoOn, Replays, Ends
<1> QED BY <1>1, <1>2

LEMMA FinishIs ==
    ASSUME TypeInv, Finish
    PROVE  \/ file.phase = "started" /\ Publishes("terminal-pending", Plain("finish"), "terminal", "reconcile")
           \/ file.phase = "started" /\ ReplaysIt(Plain("finish"), "terminal", "reconcile")
           \/ file.phase = "terminal-pending" /\ Replays("reconcile")
           \/ file.phase = "terminal" /\ Goes("reconcile")
           \/ Ends
<1>0. file \in States
    BY TypeParts DEF TypeInv, FileType
<1>1. CASE file.phase = "started"
    <2>1. Publish([file EXCEPT !.phase = "terminal-pending"], Plain("finish"), "terminal", "reconcile")
        BY <1>1 DEF Finish
    <2>3. \/ /\ file.pending = NoPending
             /\ file.sequence < MaxSequence
             /\ file' = [[file EXCEPT !.phase = "terminal-pending"] EXCEPT !.sequence = @ + 1, !.pending = [event |-> Plain("finish"), next |-> "terminal"]]
             /\ pc' = "submit" /\ then' = "reconcile"
          \/ file.pending = [event |-> Plain("finish"), next |-> "terminal"] /\ PublishPending("reconcile")
          \/ End
        BY <1>0, <2>1, OtherPhase DEF Publish, SameBatch
<2>4. [[file EXCEPT !.phase = "terminal-pending"] EXCEPT !.sequence = @ + 1, !.pending = [event |-> Plain("finish"), next |-> "terminal"]]
            = Saved(file, "terminal-pending", Plain("finish"), "terminal")
        BY <1>0 DEF Saved, States
    <2> QED BY <1>1, <2>3, <2>4, PublishPendingIs, EndIs DEF Publishes, ReplaysIt
<1>2. CASE file.phase # "started"
    BY <1>2 DEF Finish, PublishPending, End, GoOn, Replays, Ends, Goes
<1> QED BY <1>1, <1>2

LEMMA ObserveIs ==
    ASSUME TypeInv, NEW o \in Observations, Observe(o)
    PROVE  /\ file.phase \in {"started", "terminal"}
           /\ \/ Publishes(file.phase, Note(o), file.phase, "idle")
              \/ ReplaysIt(Note(o), file.phase, "idle")
              \/ Ends
<1>0. file \in States
    BY TypeParts DEF TypeInv, FileType
<1>1. file.phase \in {"started", "terminal"} /\ Publish(file, Note(o), file.phase, "idle")
    BY DEF Observe
<1>3. \/ /\ file.pending = NoPending
         /\ file.sequence < MaxSequence
         /\ file' = [file EXCEPT !.sequence = @ + 1, !.pending = [event |-> Note(o), next |-> file.phase]]
         /\ pc' = "submit" /\ then' = "idle"
      \/ file.pending = [event |-> Note(o), next |-> file.phase] /\ PublishPending("idle")
      \/ End
    BY <1>0, <1>1, OwnPhase DEF Publish, SameBatch
<1>4. [file EXCEPT !.sequence = @ + 1, !.pending = [event |-> Note(o), next |-> file.phase]]
        = Saved(file, file.phase, Note(o), file.phase)
    BY <1>0, OwnPhase
<1> QED BY <1>1, <1>3, <1>4, PublishPendingIs, EndIs DEF Publishes, ReplaysIt

LEMMA PublishUsageIs ==
    ASSUME TypeInv, PublishUsage
    PROVE  \/ Publishes(file.phase, Usage(file.intent), file.phase, "recorded")
           \/ ReplaysIt(Usage(file.intent), file.phase, "recorded")
           \/ Ends
<1>0. file \in States
    BY TypeParts DEF TypeInv, FileType
<1>1. Publish(file, Usage(file.intent), file.phase, "recorded")
    BY DEF PublishUsage
<1>3. \/ /\ file.pending = NoPending
         /\ file.sequence < MaxSequence
         /\ file' = [file EXCEPT !.sequence = @ + 1, !.pending = [event |-> Usage(file.intent), next |-> file.phase]]
         /\ pc' = "submit" /\ then' = "recorded"
      \/ file.pending = [event |-> Usage(file.intent), next |-> file.phase] /\ PublishPending("recorded")
      \/ End
    BY <1>0, <1>1, OwnPhase DEF Publish, SameBatch
<1>4. [file EXCEPT !.sequence = @ + 1, !.pending = [event |-> Usage(file.intent), next |-> file.phase]]
        = Saved(file, file.phase, Usage(file.intent), file.phase)
    BY <1>0, OwnPhase
<1> QED BY <1>3, <1>4, PublishPendingIs, EndIs DEF Publishes, ReplaysIt

LEMMA CollectIs ==
    ASSUME TypeInv, Collect
    PROVE  \/ Ends /\ coverage' = "unknown" /\ UNCHANGED <<native, left>>
           \/ /\ native' = [t \in Turns |-> IF Verified(t, usage[t]) THEN Total(t, usage[t]) ELSE 0]
              /\ left' = {t \in Turns : native'[t] # 0}
              /\ coverage' = coverage
              /\ \/ file.thread /\ Goes("turns")
                 \/ Publishes(file.phase, Plain("native-thread"), file.phase, "threadDone")
                 \/ ReplaysIt(Plain("native-thread"), file.phase, "threadDone")
                 \/ Ends
<1>0. file \in States
    BY TypeParts DEF TypeInv, FileType
<1>1. CASE coverage' = "unknown" /\ End /\ UNCHANGED <<native, left>>
    BY <1>1 DEF End, GoOn, Ends
<1>2. CASE /\ native' = [t \in Turns |-> IF Verified(t, usage[t]) THEN Total(t, usage[t]) ELSE 0]
           /\ left' = {t \in Turns : native'[t] # 0}
           /\ UNCHANGED coverage
           /\ IF file.thread
              THEN GoOn("turns") /\ UNCHANGED then
              ELSE Publish(file, Plain("native-thread"), file.phase, "threadDone")
    <2>1. CASE file.thread
        BY <1>2, <2>1 DEF GoOn, Goes
    <2>2. CASE ~file.thread
        <3>1. Publish(file, Plain("native-thread"), file.phase, "threadDone")
            BY <1>2, <2>2
        <3>3. \/ /\ file.pending = NoPending
                 /\ file.sequence < MaxSequence
                 /\ file' = [file EXCEPT !.sequence = @ + 1, !.pending = [event |-> Plain("native-thread"), next |-> file.phase]]
                 /\ pc' = "submit" /\ then' = "threadDone"
              \/ file.pending = [event |-> Plain("native-thread"), next |-> file.phase] /\ PublishPending("threadDone")
              \/ End
            BY <1>0, <3>1, OwnPhase DEF Publish, SameBatch
<3>4. [file EXCEPT !.sequence = @ + 1, !.pending = [event |-> Plain("native-thread"), next |-> file.phase]]
                = Saved(file, file.phase, Plain("native-thread"), file.phase)
            BY <1>0, OwnPhase
        <3> QED BY <1>2, <3>3, <3>4, PublishPendingIs, EndIs DEF Publishes, ReplaysIt
    <2> QED BY <1>2, <2>1, <2>2
<1> QED BY <1>1, <1>2 DEF Collect

-----------------------------------------------------------------------------
\* The command's own step keeps the types if it does so with the file and its place.
LEMMA CommandType ==
    ASSUME TypeInv, FileType', FileFits', pc' \in Pcs, then' \in Thens, native' \in [Turns -> Nat],
           left' \subseteq Turns, coverage' \in {"none", "unknown", "complete"},
           UNCHANGED usage, engine' \subseteq [cursor : 1 .. MaxSequence, event : Events], mishaps' \subseteq Mishaps
    PROVE  TypeInv'
<1>1. RestType'
    BY TypeParts DEF TypeInv, RestType
<1>2. \A t \in Turns : usage'[t] \in 0 .. Len(Records[t])
    BY DEF TypeInv
<1> QED BY <1>1, <1>2, TypePartsNext DEF TypeInv

\* So does publishing, and ending.
LEMMA PublishesType ==
    ASSUME TypeInv, NEW phase \in Phases \ {"absent"}, NEW event \in Events, NEW next \in Phases \ {"absent"},
           NEW to \in Thens, Publishes(phase, event, next, to)
    PROVE  FileType' /\ FileFits' /\ pc' \in Pcs /\ then' \in Thens
<1>0. file \in States
    BY TypeParts DEF TypeInv, FileType
<1>1. file' = Saved(file, phase, event, next) /\ file.sequence < MaxSequence /\ pc' = "submit" /\ then' = to
    BY DEF Publishes
<1>2. FileType' /\ file'.pending # NoPending
    BY <1>0, <1>1, SavedType DEF FileType
<1>3. file'.phase = phase /\ file'.pending.next = next
    BY <1>0, <1>1 DEF Saved, States
<1> QED BY <1>1, <1>2, <1>3 DEF FileFits, Pcs

LEMMA ReplaysType ==
    ASSUME TypeInv, NEW to \in Thens, Replays(to), file.phase # "absent"
    PROVE  FileType' /\ FileFits' /\ pc' \in Pcs /\ then' \in Thens
<1>1. FileType' <=> FileType
    BY DEF Replays, FileType
<1> QED BY <1>1, TypeParts DEF TypeInv, Replays, FileFits, Pcs

LEMMA EndsType ==
    ASSUME TypeInv, Ends
    PROVE  FileType' /\ FileFits' /\ pc' \in Pcs /\ then' \in Thens
<1>1. FileType' <=> FileType
    BY DEF Ends, FileType
<1> QED BY <1>1, TypeParts DEF TypeInv, Ends, FileFits, Pcs, Thens

LEMMA GoesType ==
    ASSUME TypeInv, NEW to \in Pcs \ {"submit", "usage"}, Goes(to), file.phase # "absent"
    PROVE  FileType' /\ FileFits' /\ pc' \in Pcs /\ then' \in Thens
<1>1. FileType' <=> FileType
    BY DEF Goes, FileType
<1>2. then \in Thens
    BY TypeParts DEF TypeInv, RestType
<1> QED BY <1>1, <1>2, TypeParts DEF TypeInv, Goes, FileFits

\* The commands.
LEMMA StartsType ==
    ASSUME TypeInv, mishaps' \subseteq Mishaps,
           Begin \/ Started \/ Finish \/ UsageReconcile \/ \E o \in Observations : Observe(o)
    PROVE  TypeInv'
<1>0. file \in States /\ engine \subseteq [cursor : 1 .. MaxSequence, event : Events]
    BY TypeParts DEF TypeInv, FileType, RestType
<1>1. /\ native' \in [Turns -> Nat] /\ left' \subseteq Turns /\ coverage' \in {"none", "unknown", "complete"}
      /\ UNCHANGED usage /\ engine' \subseteq [cursor : 1 .. MaxSequence, event : Events]
    BY <1>0 DEF Begin, Started, Finish, UsageReconcile, Observe, Start
<1>2. {"begin-pending", "start-pending", "terminal-pending", "expected", "started", "terminal"}
        \subseteq Phases \ {"absent"} /\ {"idle", "reconcile"} \subseteq Thens /\ "reconcile" \in Pcs
    BY DEF Phases, Thens, Pcs
<1>3. CASE Begin
    BY <1>1, <1>2, <1>3, BeginIs, EventTypes, PublishesType, ReplaysType, EndsType, CommandType
<1>4. CASE Started
    BY <1>1, <1>2, <1>4, StartedIs, EventTypes, PublishesType, ReplaysType, EndsType, CommandType DEF ReplaysIt
<1>5. CASE Finish
    BY <1>1, <1>2, <1>5, FinishIs, EventTypes, PublishesType, ReplaysType, EndsType, GoesType, CommandType DEF ReplaysIt
<1>6. CASE UsageReconcile
    <2>1. Goes("reconcile") /\ file.phase # "absent"
        BY <1>6 DEF UsageReconcile, GoOn, Goes
    <2> QED BY <1>1, <1>2, <2>1, GoesType, CommandType
<1>7. ASSUME NEW o \in Observations, Observe(o)
      PROVE  TypeInv'
    <2>1. PICK phase \in {"started", "terminal"} : phase = file.phase
        BY <1>7, ObserveIs
    <2>2. Publishes(phase, Note(o), phase, "idle") \/ Replays("idle") \/ Ends
        BY <1>7, <2>1, ObserveIs DEF Publishes, ReplaysIt
    <2> QED BY <1>1, <1>2, <2>1, <2>2, EventTypes, PublishesType, ReplaysType, EndsType, CommandType
<1> QED BY <1>3, <1>4, <1>5, <1>6, <1>7

-----------------------------------------------------------------------------
\* What the other saves do to the file.
Entry(intent) == [revision |-> intent.revision, hash |-> intent.hash]

LEMMA AppliedFields ==
    ASSUME file \in States
    PROVE  /\ AppliedState.phase = file.pending.next /\ AppliedState.pending = NoPending
           /\ AppliedState.sequence = file.sequence /\ AppliedState.thread = file.thread
           /\ AppliedState.intent = file.intent /\ AppliedState.ledger = file.ledger
           /\ file.pending.next \in Phases => AppliedState \in States
BY DEF AppliedState, States

LEMMA RefusedFields ==
    ASSUME file \in States
    PROVE  /\ RefusedState.phase = file.phase /\ RefusedState.pending = NoPending
           /\ RefusedState.sequence = file.sequence - 1 /\ RefusedState.thread = file.thread
           /\ RefusedState.ledger = file.ledger
           /\ RefusedState.intent = IF file.pending.event.kind = "native-usage" THEN NoIntent ELSE file.intent
           /\ file.sequence > 0 => RefusedState \in States
<1>1. file.sequence > 0 => file.sequence - 1 \in 0 .. MaxSequence
    BY MaxSequenceIsNat DEF States
<1> QED BY <1>1 DEF RefusedState, States

LEMMA DroppedFields ==
    ASSUME NEW s \in States
    PROVE  LET d == [s EXCEPT !.intent = NoIntent] IN
           /\ d \in States /\ d.phase = s.phase /\ d.pending = s.pending /\ d.sequence = s.sequence
           /\ d.thread = s.thread /\ d.ledger = s.ledger /\ d.intent = NoIntent
BY DEF States

LEMMA ThreadFields ==
    ASSUME NEW s \in States
    PROVE  LET d == [s EXCEPT !.thread = TRUE] IN
           /\ d \in States /\ d.phase = s.phase /\ d.pending = s.pending /\ d.sequence = s.sequence
           /\ d.thread = TRUE /\ d.ledger = s.ledger /\ d.intent = s.intent
BY DEF States

LEMMA IntendedFields ==
    ASSUME NEW s \in States, NEW intent \in Intents
    PROVE  LET d == [s EXCEPT !.intent = intent] IN
           /\ d \in States /\ d.phase = s.phase /\ d.pending = s.pending /\ d.sequence = s.sequence
           /\ d.thread = s.thread /\ d.ledger = s.ledger /\ d.intent = intent
BY DEF States, Intents

LEMMA RecordFields ==
    ASSUME NEW s \in States
    PROVE  LET d == [s EXCEPT !.ledger[s.intent.turn] =
                                [revision |-> s.intent.revision, hash |-> s.intent.hash],
                              !.intent = NoIntent]
           IN
           /\ d \in States /\ d.phase = s.phase /\ d.pending = s.pending /\ d.sequence = s.sequence
           /\ d.thread = s.thread /\ d.intent = NoIntent
           /\ d.ledger = [s.ledger EXCEPT ![s.intent.turn] = Entry(s.intent)]
<1>1. Entry(s.intent) \in Entries
    BY Fields DEF Entry, Entries, Intents, NoIntent
<1>2. [s.ledger EXCEPT ![s.intent.turn] = Entry(s.intent)] \in [Turns -> Entries]
    BY <1>1, Fields
<1> QED BY <1>2 DEF States, Entry

\* What is submitted.
LEMMA SubmittedType ==
    ASSUME TypeInv, pc = "submit"
    PROVE  /\ Submitted \in [cursor : 1 .. MaxSequence, event : Events]
           /\ Submitted.cursor = file.sequence /\ Submitted.event = file.pending.event
           /\ file.pending # NoPending /\ file.sequence > 0 /\ file.pending.next \in Phases \ {"absent"}
<1>1. file \in States /\ file.pending # NoPending /\ file.sequence > 0
    BY TypeParts DEF TypeInv, FileFits, FileType
<1>2. file.sequence \in 1 .. MaxSequence /\ file.pending.event \in Events /\ file.pending.next \in Phases
    BY <1>1, Fields, MaxSequenceIsNat
<1> QED BY <1>1, <1>2 DEF Submitted, TypeInv, FileFits

LEMMA RepliesType ==
    ASSUME TypeInv, mishaps' \subseteq Mishaps, Applied \/ Refused \/ DropIntent \/ Unknown \/ Crash
    PROVE  TypeInv'
<1>0. /\ file \in States /\ engine \subseteq [cursor : 1 .. MaxSequence, event : Events]
      /\ then \in Thens /\ native \in [Turns -> Nat] /\ left \subseteq Turns
      /\ coverage \in {"none", "unknown", "complete"}
    BY TypeParts DEF TypeInv, FileType, RestType
<1>1. UNCHANGED <<native, left, coverage, usage>>
    BY DEF Applied, Refused, DropIntent, Unknown, Crash
<1>2. CASE Applied
    <2>1. engine' \subseteq [cursor : 1 .. MaxSequence, event : Events]
        BY <1>0, <1>2, SubmittedType DEF Applied
    <2>2. file' = AppliedState /\ pc' = then /\ then' = "idle" /\ pc = "submit"
        BY <1>2 DEF Applied
    <2>3. FileType' /\ FileFits' /\ pc' \in Pcs /\ then' \in Thens
        <3>1. file' \in States /\ file'.pending = NoPending /\ file'.phase # "absent"
            BY <1>0, <2>2, AppliedFields, SubmittedType
        <3> QED BY <1>0, <2>2, <3>1 DEF FileType, FileFits, Pcs, Thens, NoPending
    <2> QED BY <1>0, <1>1, <2>1, <2>3, CommandType
<1>3. CASE Refused
    <2>2. file' = RefusedState /\ pc' \in {"refused", "idle"} /\ then' = "idle" /\ pc = "submit" /\ engine' = engine
        BY <1>3 DEF Refused
    <2>3. FileType' /\ FileFits' /\ pc' \in Pcs /\ then' \in Thens
        <3>1. file' \in States /\ file'.pending = NoPending /\ file'.phase = file.phase
            BY <1>0, <2>2, RefusedFields, SubmittedType
        <3>2. file.phase # "absent"
            BY <2>2 DEF TypeInv, FileFits
        <3> QED BY <1>0, <2>2, <3>1, <3>2 DEF FileType, FileFits, Pcs, Thens, NoPending
    <2> QED BY <1>0, <1>1, <2>2, <2>3, CommandType
<1>4. CASE DropIntent
    <2>2. file' = [file EXCEPT !.intent = NoIntent] /\ pc' = "idle" /\ then' = then /\ pc = "refused" /\ engine' = engine
        BY <1>4 DEF DropIntent
    <2>3. FileType' /\ FileFits' /\ pc' \in Pcs /\ then' \in Thens
        <3>1. file' \in States /\ file'.pending = file.pending /\ file'.phase = file.phase /\ file'.sequence = file.sequence
            BY <1>0, <2>2, DroppedFields
        <3>2. file.phase # "absent" /\ FileFits /\ FileType
            BY <2>2, TypeParts DEF TypeInv, FileFits
        <3> QED BY <1>0, <2>2, <3>1, <3>2 DEF FileType, FileFits, Pcs, Thens, NoPending
    <2> QED BY <1>0, <1>1, <2>2, <2>3, CommandType
<1>5. CASE Unknown \/ Crash
    <2>1. engine' \subseteq [cursor : 1 .. MaxSequence, event : Events]
        BY <1>0, <1>5, SubmittedType DEF Unknown, Crash
    <2>2. Ends
        BY <1>5, EndIs DEF Unknown, Crash
    <2> QED BY <1>0, <1>1, <2>1, <2>2, EndsType, CommandType
<1> QED BY <1>2, <1>3, <1>4, <1>5

\* What a reconciliation publishes of what an earlier one left.
LEMMA ThreadIs ==
    ASSUME ReconcileThread
    PROVE  \/ file.pending.event = Plain("native-thread") /\ (Replays("threadReplayed") \/ Ends)
           \/ file.pending.event # Plain("native-thread") /\ Goes("intent")
BY PublishPendingIs DEF ReconcileThread, GoOn, Goes

LEMMA IntentIs ==
    ASSUME ReconcileIntent
    PROVE  \/ file.intent = NoIntent /\ Goes("collect")
           \/ file.intent # NoIntent /\ Replays("record")
           \/ file.intent # NoIntent /\ file.pending = NoPending /\ Goes("record")
BY DEF ReconcileIntent, PublishPending, GoOn, Goes, Replays

\* A save of a file that keeps its phase and its batch fits.
LEMMA KeepsType ==
    ASSUME TypeInv, NEW s \in States, file' = s, s.phase = file.phase, s.pending = file.pending,
           s.sequence = file.sequence, pc # "idle", pc' \in Pcs \ {"submit"}, then' \in Thens,
           pc' = "usage" => s.intent \in Intents
    PROVE  FileType' /\ FileFits' /\ pc' \in Pcs /\ then' \in Thens
<1>1. FileType /\ FileFits /\ file.phase # "absent"
    BY TypeParts DEF TypeInv, FileFits
<1> QED BY <1>1 DEF FileType, FileFits

\* The usage that is collected of a turn is what the host counted, or none.
LEMMA CollectedIs ==
    ASSUME TypeInv,
           native' = [t \in Turns |-> IF Verified(t, usage[t]) THEN Total(t, usage[t]) ELSE 0]
    PROVE  /\ native' \in [Turns -> Nat]
           /\ \A t \in Turns : native'[t] # 0 => HostCounted(t, usage[t], native'[t])
<1>1. ASSUME NEW t \in Turns
      PROVE  /\ (IF Verified(t, usage[t]) THEN Total(t, usage[t]) ELSE 0) \in Nat
             /\ native'[t] # 0 => HostCounted(t, usage[t], native'[t])
    <2>1. native'[t] = IF Verified(t, usage[t]) THEN Total(t, usage[t]) ELSE 0
        OBVIOUS
    <2>2. usage[t] \in 0 .. Len(Records[t])
        BY DEF TypeInv
    <2> QED BY <2>1, <2>2, VerifiedIsCounted
<1> QED BY <1>1

LEMMA ReconcileType ==
    ASSUME TypeInv, mishaps' \subseteq Mishaps, Reconcile
    PROVE  TypeInv'
<1>0. /\ file \in States /\ engine \subseteq [cursor : 1 .. MaxSequence, event : Events]
      /\ then \in Thens /\ native \in [Turns -> Nat] /\ left \subseteq Turns
      /\ coverage \in {"none", "unknown", "complete"}
    BY TypeParts DEF TypeInv, FileType, RestType
<1>1. UNCHANGED <<usage, engine>>
    BY DEF Reconcile, ReconcileThread, ThreadPublished, ReconcileIntent, Record, Collect, PublishUsage,
           ReportCoverage, NextTurn
<1>2. pc # "idle" /\ file.phase # "absent"
    BY DEF Reconcile, ReconcileThread, ThreadPublished, ReconcileIntent, Record, Collect, PublishUsage,
           ReportCoverage, NextTurn, TypeInv, FileFits
<1>3. {"threadReplayed", "threadDone", "record", "recorded"} \subseteq Thens
      /\ {"intent", "collect", "record", "turns", "usage"} \subseteq Pcs
    BY DEF Thens, Pcs
<1>4. CASE ReconcileThread
    <2>1. UNCHANGED <<native, left, coverage>>
        BY <1>4 DEF ReconcileThread
    <2>2. Replays("threadReplayed") \/ Ends \/ Goes("intent")
        BY <1>4, ThreadIs
    <2> QED BY <1>0, <1>1, <1>2, <1>3, <2>1, <2>2, ReplaysType, EndsType, GoesType, CommandType
<1>5. CASE ReconcileIntent
    <2>1. UNCHANGED <<native, left, coverage>>
        BY <1>5 DEF ReconcileIntent
    <2>2. Replays("record") \/ Goes("collect") \/ Goes("record")
        BY <1>5, IntentIs
    <2> QED BY <1>0, <1>1, <1>2, <1>3, <2>1, <2>2, ReplaysType, GoesType, CommandType
<1>6. CASE ThreadPublished
    <2>1. file' = [file EXCEPT !.thread = TRUE] /\ pc' \in {"intent", "turns"} /\ UNCHANGED <<then, native, left, coverage>>
        BY <1>6 DEF ThreadPublished
    <2> DEFINE s == [file EXCEPT !.thread = TRUE]
    <2>2. s \in States /\ s.phase = file.phase /\ s.pending = file.pending /\ s.sequence = file.sequence
        BY <1>0, ThreadFields
    <2>3. file' = s
        BY <2>1
    <2> HIDE DEF s
    <2>4. FileType' /\ FileFits' /\ pc' \in Pcs /\ then' \in Thens
        BY <1>0, <1>2, <1>3, <2>1, <2>2, <2>3, KeepsType
    <2> QED BY <1>0, <1>1, <2>1, <2>4, CommandType
<1>7. CASE Record
    <2> DEFINE s == [file EXCEPT !.ledger[file.intent.turn] =
                                     [revision |-> file.intent.revision, hash |-> file.intent.hash],
                                 !.intent = NoIntent]
    <2>1. file' = s /\ pc' \in {"collect", "turns"} /\ UNCHANGED <<then, native, left, coverage>>
        BY <1>7 DEF Record
    <2>2. s \in States /\ s.phase = file.phase /\ s.pending = file.pending /\ s.sequence = file.sequence
        BY <1>0, RecordFields
    <2> HIDE DEF s
    <2>4. FileType' /\ FileFits' /\ pc' \in Pcs /\ then' \in Thens
        BY <1>0, <1>2, <1>3, <2>1, <2>2, KeepsType
    <2> QED BY <1>0, <1>1, <2>1, <2>4, CommandType
<1>8. CASE Collect
    <2>1. CASE Ends /\ coverage' = "unknown" /\ UNCHANGED <<native, left>>
        BY <1>0, <1>1, <2>1, EndsType, CommandType
    <2>2. CASE /\ native' = [t \in Turns |-> IF Verified(t, usage[t]) THEN Total(t, usage[t]) ELSE 0]
               /\ left' = {t \in Turns : native'[t] # 0}
               /\ coverage' = coverage
        <3>1. native' \in [Turns -> Nat] /\ left' \subseteq Turns
            BY <2>2, CollectedIs
        <3>2. PICK phase \in Phases \ {"absent"} : phase = file.phase
            BY <1>0, <1>2, Fields
        <3>3. \/ Goes("turns") \/ Ends \/ Replays("threadDone")
              \/ Publishes(phase, Plain("native-thread"), phase, "threadDone")
            BY <1>8, <3>2, CollectIs DEF Publishes, ReplaysIt, Ends, Goes
        <3>4. FileType' /\ FileFits' /\ pc' \in Pcs /\ then' \in Thens
            BY <1>2, <1>3, <3>3, EventTypes, PublishesType, ReplaysType, EndsType, GoesType
        <3> QED BY <1>0, <1>1, <2>2, <3>1, <3>4, CommandType
    <2> QED BY <1>8, <2>1, <2>2, CollectIs
<1>9. ASSUME NEW t \in Turns, NextTurn(t)
      PROVE  TypeInv'
    <2>1. t \in left /\ pc = "turns" /\ left' = left \ {t} /\ UNCHANGED <<then, native, coverage>>
        BY <1>9 DEF NextTurn
    <2>2. Intent(t) \in Intents
        <3>1. file.ledger[t].revision \in Nat /\ native[t] \in Nat
            BY <1>0, Fields DEF Entries
        <3> QED BY <3>1 DEF Intent, Intents
    <2>3. CASE file' = file /\ pc' = pc
        <3>1. Goes("turns")
            BY <2>1, <2>3 DEF Goes
        <3> QED BY <1>0, <1>1, <1>2, <1>3, <2>1, <3>1, GoesType, CommandType
    <2>4. CASE file' = [file EXCEPT !.intent = Intent(t)] /\ pc' = "usage"
        <3> DEFINE s == [file EXCEPT !.intent = Intent(t)]
        <3>1. s \in States /\ s.phase = file.phase /\ s.pending = file.pending /\ s.sequence = file.sequence
              /\ s.intent \in Intents
            BY <1>0, <2>2, IntendedFields
        <3>2. file' = s
            BY <2>4
        <3> HIDE DEF s
        <3>3. FileType' /\ FileFits' /\ pc' \in Pcs /\ then' \in Thens
            BY <1>0, <1>2, <1>3, <2>1, <2>4, <3>1, <3>2, KeepsType
        <3> QED BY <1>0, <1>1, <2>1, <3>3, CommandType
    <2> QED BY <1>9, <2>3, <2>4 DEF NextTurn
<1>10. CASE PublishUsage
    <2>1. UNCHANGED <<native, left, coverage>> /\ pc = "usage"
        BY <1>10 DEF PublishUsage
    <2>2. PICK phase \in Phases \ {"absent"} : phase = file.phase
        BY <1>0, <1>2, Fields
    <2>3. PICK event \in Events : event = Usage(file.intent)
        BY <2>1, EventTypes DEF TypeInv, FileFits
    <2>4. Publishes(phase, event, phase, "recorded") \/ Replays("recorded") \/ Ends
        BY <1>10, <2>2, <2>3, PublishUsageIs DEF Publishes, ReplaysIt
    <2>5. FileType' /\ FileFits' /\ pc' \in Pcs /\ then' \in Thens
        BY <1>2, <1>3, <2>4, PublishesType, ReplaysType, EndsType
    <2> QED BY <1>0, <1>1, <2>1, <2>5, CommandType
<1>11. CASE ReportCoverage
    <2>1. Ends /\ UNCHANGED <<native, left>> /\ coverage' \in {"complete", "unknown"}
        BY <1>11, EndIs DEF ReportCoverage
    <2> QED BY <1>0, <1>1, <2>1, EndsType, CommandType
<1> QED BY <1>4, <1>5, <1>6, <1>7, <1>8, <1>9, <1>10, <1>11 DEF Reconcile

\* The type invariant holds at first, and every step keeps it.
LEMMA TypeInvInit == TelemetryInit => TypeInv
<1> SUFFICES ASSUME TelemetryInit
             PROVE  TypeInv
    OBVIOUS
<1>1. FileType /\ FileFits
    BY AbsentType DEF TelemetryInit, FileType, FileFits, Absent, NoPending
<1>2. RestType
    BY DEF TelemetryInit, RestType, Pcs, Thens
<1>3. \A t \in Turns : Len(Records[t]) \in Nat
    BY TelemetryAssumption
<1> QED BY <1>1, <1>2, <1>3, TypeParts DEF TypeInv, TelemetryInit

LEMMA TypeInvNext == TypeInv /\ [TelemetryNext]_telemetryVars => TypeInv'
<1>1. ASSUME TypeInv, TelemetryNext
      PROVE  TypeInv'
    <2>1. mishaps \subseteq Mishaps
        BY <1>1, TypeParts DEF TypeInv, RestType
    <2>2. mishaps' \subseteq Mishaps
        BY <1>1, <2>1 DEF TelemetryNext
    <2>3. ASSUME NEW t \in Turns, RecordUsage(t)
          PROVE  TypeInv'
        <3>1. usage'[t] = usage[t] + 1 /\ usage[t] < Len(Records[t]) /\ usage \in [Turns -> Nat]
              /\ usage' = [usage EXCEPT ![t] = usage[t] + 1] /\ UNCHANGED <<file, pc, then, native, left, coverage, engine>>
            BY <1>1, <2>3, TypeParts DEF TypeInv, RestType, RecordUsage, command
        <3>2. \A q \in Turns : usage'[q] \in 0 .. Len(Records[q])
            BY <1>1, <3>1 DEF TypeInv
        <3>3. usage' \in [Turns -> Nat]
            BY <3>1
        <3>4. (FileType <=> FileType') /\ (FileFits <=> FileFits')
            BY <3>1 DEF FileType, FileFits
        <3>5. RestType'
            BY <1>1, <2>2, <3>1, <3>3, TypeParts DEF TypeInv, RestType
        <3> QED BY <1>1, <3>2, <3>4, <3>5, TypeParts, TypePartsNext DEF TypeInv
    <2> QED BY <1>1, <2>2, <2>3, StartsType, RepliesType, ReconcileType DEF TelemetryNext
<1>2. ASSUME TypeInv, UNCHANGED telemetryVars
      PROVE  TypeInv'
    BY <1>2 DEF telemetryVars, command, TypeInv, FileFits, TelemetryTypeOK
<1> QED BY <1>1, <1>2

(***************************************************************************)
(* Types of all variables, of every dispatch: a pending batch has a        *)
(* cursor, and the usage that is collected is a number.                    *)
(***************************************************************************)
THEOREM TelemetryTypeCorrect == TelemetrySpec => []TelemetryTypeOK
<1>1. TelemetrySpec => []TypeInv
    BY TypeInvInit, TypeInvNext, PTL DEF TelemetrySpec
<1>2. TypeInv => TelemetryTypeOK
    BY DEF TypeInv
<1> QED BY <1>1, <1>2, PTL

-----------------------------------------------------------------------------
\* What a step does to the batch: nothing, or it saves one; or the engine answers.
KeepsBatch ==
    /\ file'.pending = file.pending /\ file'.sequence = file.sequence /\ file'.phase = file.phase
    /\ engine' = engine
SavesBatch ==
    /\ file.pending = NoPending /\ file'.pending # NoPending /\ file'.sequence = file.sequence + 1
    /\ Behind(file'.phase) = Behind(file.phase)
    /\ engine' = engine

LEMMA SavedFields ==
    ASSUME NEW s \in States, NEW phase, NEW event, NEW next
    PROVE  LET d == Saved(s, phase, event, next) IN
           /\ d.phase = phase /\ d.sequence = s.sequence + 1 /\ d.pending = [event |-> event, next |-> next]
           /\ d.thread = s.thread /\ d.intent = s.intent /\ d.ledger = s.ledger
BY DEF Saved, States

LEMMA PublishesBatch ==
    ASSUME TypeInv, NEW phase, NEW event \in Events, NEW next, NEW to, Publishes(phase, event, next, to),
           engine' = engine, Behind(phase) = Behind(file.phase)
    PROVE  SavesBatch
<1>1. file \in States
    BY TypeParts DEF TypeInv, FileType
<1>2. file' = Saved(file, phase, event, next) /\ file.pending = NoPending
    BY DEF Publishes
<1>3. /\ file'.sequence = file.sequence + 1 /\ file'.pending = [event |-> event, next |-> next]
      /\ file'.phase = phase
    BY <1>1, <1>2, SavedFields
<1>4. file'.pending # NoPending
    BY <1>3, PendingIsSome
<1> QED BY <1>2, <1>3, <1>4 DEF SavesBatch

\* The pending phases are the ones behind.
LEMMA BehindIs ==
    /\ Behind("begin-pending") = Behind("absent") /\ Behind("start-pending") = Behind("expected")
    /\ Behind("terminal-pending") = Behind("started")
    /\ \A phase \in {"absent", "expected", "started", "terminal"} : Behind(phase) = phase
BY DEF Behind

LEMMA StepIs ==
    ASSUME TypeInv, TelemetryNext
    PROVE  KeepsBatch \/ SavesBatch \/ Applied \/ Refused \/ Unknown
<1>0. file \in States
    BY TypeParts DEF TypeInv, FileType
<1>1. (\E to : Replays(to) \/ Goes(to)) \/ Ends => (engine' = engine => KeepsBatch)
    BY DEF Replays, Goes, Ends, KeepsBatch
<1>2. CASE Begin \/ Started \/ Finish \/ UsageReconcile \/ \E o \in Observations : Observe(o)
    <2>1. engine' = engine
        BY <1>2 DEF Begin, Started, Finish, UsageReconcile, Observe, Start
    <2>2. CASE Begin
        BY <1>1, <2>1, <2>2, BeginIs, EventTypes, BehindIs, PublishesBatch
    <2>3. CASE Started
        BY <1>1, <2>1, <2>3, StartedIs, EventTypes, BehindIs, PublishesBatch DEF ReplaysIt
    <2>4. CASE Finish
        BY <1>1, <2>1, <2>4, FinishIs, EventTypes, BehindIs, PublishesBatch DEF ReplaysIt
    <2>5. CASE UsageReconcile
        BY <2>1, <2>5 DEF UsageReconcile, GoOn, KeepsBatch
    <2>6. ASSUME NEW o \in Observations, Observe(o)
          PROVE  KeepsBatch \/ SavesBatch
        <3>1. PICK phase : phase = file.phase /\ Behind(phase) = Behind(file.phase)
            OBVIOUS
        <3>2. Publishes(phase, Note(o), phase, "idle") \/ Replays("idle") \/ Ends
            BY <2>6, <3>1, ObserveIs DEF Publishes, ReplaysIt
        <3> QED BY <1>1, <2>1, <3>1, <3>2, EventTypes, PublishesBatch
    <2> QED BY <1>2, <2>2, <2>3, <2>4, <2>5, <2>6
<1>3. CASE DropIntent \/ Crash
    BY <1>0, <1>3, DroppedFields DEF DropIntent, Crash, End, GoOn, KeepsBatch
<1>4. CASE \E t \in Turns : RecordUsage(t)
    BY <1>4 DEF RecordUsage, KeepsBatch
<1>5. CASE Reconcile
    <2>1. engine' = engine
        BY <1>5 DEF Reconcile, ReconcileThread, ThreadPublished, ReconcileIntent, Record, Collect, PublishUsage,
                   ReportCoverage, NextTurn
    <2>2. CASE ReconcileThread
        BY <1>1, <2>1, <2>2, ThreadIs
    <2>3. CASE ReconcileIntent
        BY <1>1, <2>1, <2>3, IntentIs
    <2>4. CASE ThreadPublished
        BY <1>0, <2>1, <2>4, ThreadFields DEF ThreadPublished, KeepsBatch
    <2>5. CASE Record
        BY <1>0, <2>1, <2>5, RecordFields DEF Record, KeepsBatch
    <2>6. CASE Collect
        <3>1. PICK phase : phase = file.phase /\ Behind(phase) = Behind(file.phase)
            OBVIOUS
        <3>2. \/ Publishes(phase, Plain("native-thread"), phase, "threadDone")
              \/ Replays("threadDone") \/ Goes("turns") \/ Ends
            BY <2>6, <3>1, CollectIs DEF Publishes, ReplaysIt
        <3> QED BY <1>1, <2>1, <3>1, <3>2, EventTypes, PublishesBatch
    <2>7. CASE PublishUsage
        <3>1. PICK phase : phase = file.phase /\ Behind(phase) = Behind(file.phase)
            OBVIOUS
        <3>2. PICK event \in Events : event = Usage(file.intent)
            BY <2>7, EventTypes DEF PublishUsage, TypeInv, FileFits
        <3>3. Publishes(phase, event, phase, "recorded") \/ Replays("recorded") \/ Ends
            BY <2>7, <3>1, <3>2, PublishUsageIs DEF Publishes, ReplaysIt
        <3> QED BY <1>1, <2>1, <3>1, <3>3, PublishesBatch
    <2>8. CASE ReportCoverage
        BY <1>1, <2>1, <2>8, EndIs DEF ReportCoverage
    <2>9. ASSUME NEW t \in Turns, NextTurn(t)
          PROVE  KeepsBatch
        <3>1. CASE file' = file
            BY <2>1, <3>1 DEF KeepsBatch
        <3>2. CASE file' = [file EXCEPT !.intent = Intent(t)]
            BY <1>0, <2>1, <3>2 DEF KeepsBatch, States
        <3> QED BY <2>9, <3>1, <3>2 DEF NextTurn
    <2> QED BY <1>5, <2>2, <2>3, <2>4, <2>5, <2>6, <2>7, <2>8, <2>9 DEF Reconcile
<1> QED BY <1>2, <1>3, <1>4, <1>5 DEF TelemetryNext

(***************************************************************************)
(* What makes cursors exclusive: the engine is never ahead of the file,    *)
(* and what it has under the cursor of the pending batch is that batch.    *)
(***************************************************************************)
CursorInv ==
    /\ \A a \in engine :
        \/ a.cursor < file.sequence
        \/ a.cursor = file.sequence /\ (file.pending # NoPending => a = Submitted)
    /\ CursorsAreExclusive

LEMMA CursorInvInit == TelemetryInit => CursorInv
BY DEF TelemetryInit, CursorInv, CursorsAreExclusive, Absent

LEMMA CursorInvNext == TypeInv /\ TypeInv' /\ CursorInv /\ [TelemetryNext]_telemetryVars => CursorInv'
<1> SUFFICES ASSUME TypeInv, TypeInv', CursorInv, [TelemetryNext]_telemetryVars
             PROVE  CursorInv'
    OBVIOUS
<1>0. /\ file \in States /\ engine \subseteq [cursor : 1 .. MaxSequence, event : Events]
      /\ file.sequence \in Nat /\ (file.pending # NoPending => file.sequence > 0)
      /\ \A a \in engine : a.cursor \in Nat
    BY TypeParts, MaxSequenceIsNat DEF TypeInv, FileType, RestType, States
<1>1. CASE KeepsBatch
    <2>1. Submitted' = Submitted
        BY <1>1 DEF KeepsBatch, Submitted
    <2> QED BY <1>1, <2>1 DEF KeepsBatch, CursorInv, CursorsAreExclusive
<1>2. CASE SavesBatch
    <2>1. \A a \in engine : a.cursor < file.sequence + 1
        BY <1>0 DEF CursorInv
    <2>2. \A cursor \in 1 .. file.sequence : \E a \in engine : a.cursor = cursor
        BY <1>2 DEF SavesBatch, CursorInv, CursorsAreExclusive
    <2>3. \A cursor \in 1 .. file.sequence + 1 : cursor \in 1 .. file.sequence \/ cursor = file.sequence + 1
        BY <1>0
    <2> QED BY <1>2, <2>1, <2>2, <2>3 DEF SavesBatch, CursorInv, CursorsAreExclusive
<1>3. CASE Applied \/ Unknown
    <2>1. pc = "submit"
        BY <1>3 DEF Applied, Unknown
    <2>2. Submitted.cursor = file.sequence /\ file.pending # NoPending
        BY <2>1, SubmittedType
    <2>3. engine' = engine \/ engine' = engine \cup {Submitted}
        BY <1>3 DEF Applied, Unknown
    <2>4. \A a \in engine' : a.cursor < file.sequence \/ a = Submitted
        BY <2>2, <2>3 DEF CursorInv
    <2>5. \A a, b \in engine' : a.cursor = b.cursor => a = b
        <3>1. \A a \in engine' : a \in engine \/ a = Submitted
            BY <2>3
        <3>2. \A a, b \in engine : a.cursor = b.cursor => a = b
            BY DEF CursorInv, CursorsAreExclusive
        <3>3. \A a \in engine : a.cursor = file.sequence => a = Submitted
            BY <1>0, <2>2 DEF CursorInv
        <3> QED BY <2>2, <3>1, <3>2, <3>3
    <2>6. CASE Applied
        <3>1. file'.sequence = file.sequence /\ file'.pending = NoPending /\ engine' = engine \cup {Submitted}
            BY <1>0, <2>6, AppliedFields DEF Applied
        <3>2. \A cursor \in 1 .. file.sequence : \E a \in engine' : a.cursor = cursor
            BY <2>2, <3>1 DEF CursorInv, CursorsAreExclusive
        <3>3. \A a \in engine' : a.cursor < file.sequence \/ a.cursor = file.sequence
            BY <2>2, <2>4
        <3> QED BY <2>5, <3>1, <3>2, <3>3 DEF CursorInv, CursorsAreExclusive
    <2>7. CASE Unknown
        <3>1. file' = file /\ engine \subseteq engine'
            BY <2>3, <2>7 DEF Unknown, End, GoOn
        <3>2. Submitted' = Submitted
            BY <3>1 DEF Submitted
        <3>3. \A cursor \in 1 .. file.sequence :
                  (\E a \in engine' : a.cursor = cursor) \/ (cursor = file.sequence /\ file.pending # NoPending)
            BY <3>1 DEF CursorInv, CursorsAreExclusive
        <3>4. \A a \in engine' : a.cursor < file.sequence \/ (a.cursor = file.sequence /\ a = Submitted)
            BY <2>2, <2>4
        <3> QED BY <2>5, <3>1, <3>2, <3>3, <3>4 DEF CursorInv, CursorsAreExclusive
    <2> QED BY <1>3, <2>6, <2>7
<1>4. CASE Refused
    <2>1. pc = "submit" /\ Submitted \notin engine /\ engine' = engine /\ file' = RefusedState
        BY <1>4 DEF Refused
    <2>2. file.pending # NoPending
        BY <2>1, SubmittedType
    <2>3. file'.sequence = file.sequence - 1 /\ file'.pending = NoPending
        BY <1>0, <2>1, RefusedFields
    <2>4. \A a \in engine : a.cursor < file.sequence
        BY <2>1, <2>2 DEF CursorInv
    <2>5. \A a \in engine : a.cursor < file.sequence - 1 \/ a.cursor = file.sequence - 1
        BY <1>0, <2>4
    <2>6. \A cursor \in 1 .. file.sequence - 1 : cursor \in 1 .. file.sequence /\ cursor # file.sequence
        BY <1>0
    <2>7. \A cursor \in 1 .. file.sequence - 1 : \E a \in engine : a.cursor = cursor
        BY <2>6 DEF CursorInv, CursorsAreExclusive
    <2> QED BY <2>1, <2>3, <2>5, <2>7 DEF CursorInv, CursorsAreExclusive
<1>5. CASE UNCHANGED telemetryVars
    BY <1>5 DEF telemetryVars, CursorInv, CursorsAreExclusive, Submitted
<1> QED BY <1>1, <1>2, <1>3, <1>4, <1>5, StepIs

(***************************************************************************)
(* The engine never applies two different batches under one cursor, and    *)
(* the published cursors have no gap: for any number of batches, of        *)
(* crashes, of refusals and of replays.                                    *)
(***************************************************************************)
THEOREM CursorsStayExclusive == TelemetrySpec => []CursorsAreExclusive
<1>1. TelemetrySpec => [](TypeInv /\ CursorInv)
    BY TypeInvInit, TypeInvNext, CursorInvInit, CursorInvNext, PTL DEF TelemetrySpec
<1>2. CursorInv => CursorsAreExclusive
    BY DEF CursorInv
<1> QED BY <1>1, <1>2, PTL

-----------------------------------------------------------------------------
(***************************************************************************)
(* What makes a phase true: the pending batch is the one that leads out of *)
(* a pending phase, or an observation in one that lasts; and a command is  *)
(* where its phase and its batch allow.                                    *)
(***************************************************************************)
BatchFits(phase, pending) ==
    pending # NoPending =>
        /\ phase \notin {"absent", "expected"}
        /\ phase = "begin-pending" => pending.event = Plain("begin") /\ pending.next = "expected"
        /\ phase = "start-pending" => pending.event = Plain("started") /\ pending.next = "started"
        /\ phase = "terminal-pending" => pending.event = Plain("finish") /\ pending.next = "terminal"
        /\ phase \in {"started", "terminal"} =>
            pending.next = phase /\ pending.event.kind \in {"observation", "native-thread", "native-usage"}
        /\ phase = "started" => pending.event.kind = "observation"

PlaceFits(place, to, phase, pending) ==
    /\ place \notin {"idle", "submit"} => phase = "terminal"
    /\ place = "submit" =>
        /\ to = "reconcile" => phase = "terminal-pending"
        /\ to \in {"threadReplayed", "threadDone"} => phase = "terminal" /\ pending.event = Plain("native-thread")
        /\ to \in {"record", "recorded"} => phase = "terminal"

Has(batches, kind) == \E a \in batches : a.event.kind = kind

PhaseInv ==
    /\ BatchFits(file.phase, file.pending)
    /\ PlaceFits(pc, then, file.phase, file.pending)
    /\ pc \in {"threadReplayed", "threadDone"} => Has(engine, "native-thread")
    /\ PhaseIsApplied

\* PhaseIsApplied, of a phase.
Reached(phase, batches) ==
    /\ phase \notin {"absent", "begin-pending"} => Has(batches, "begin")
    /\ phase \in {"started", "terminal-pending", "terminal"} => Has(batches, "started")
    /\ phase = "terminal" => Has(batches, "finish")

LEMMA ReachedIs ==
    /\ PhaseIsApplied <=> Reached(file.phase, engine) /\ (file.thread => Has(engine, "native-thread"))
    /\ PhaseIsApplied' <=> Reached(file'.phase, engine') /\ (file'.thread => Has(engine', "native-thread"))
BY DEF PhaseIsApplied, Reached, Has

LEMMA ReachedLasts ==
    ASSUME NEW phase, NEW old, NEW new, old \subseteq new, Reached(phase, old)
    PROVE  Reached(phase, new)
BY DEF Reached, Has

LEMMA PublishesPhase ==
    ASSUME TypeInv, PhaseInv, NEW phase, NEW event \in Events, NEW next, NEW to \in Thens,
           Publishes(phase, event, next, to), engine' = engine, Reached(phase, engine),
           BatchFits(phase, [event |-> event, next |-> next]),
           PlaceFits("submit", to, phase, [event |-> event, next |-> next])
    PROVE  PhaseInv'
<1>0. file \in States
    BY TypeParts DEF TypeInv, FileType
<1>1. file' = Saved(file, phase, event, next) /\ pc' = "submit" /\ then' = to
    BY DEF Publishes
<1>2. file'.phase = phase /\ file'.pending = [event |-> event, next |-> next] /\ file'.thread = file.thread
    BY <1>0, <1>1, SavedFields
<1>3. file.thread => Has(engine, "native-thread")
    BY ReachedIs DEF PhaseInv
<1>4. PhaseIsApplied'
    BY <1>2, <1>3, ReachedIs
<1> QED BY <1>1, <1>2, <1>4 DEF PhaseInv

LEMMA ReplaysPhase ==
    ASSUME TypeInv, PhaseInv, NEW to, Replays(to), engine' = engine,
           PlaceFits("submit", to, file.phase, file.pending)
    PROVE  PhaseInv'
<1>1. file' = file /\ pc' = "submit" /\ then' = to
    BY DEF Replays
<1>2. PhaseIsApplied'
    BY <1>1, ReachedIs DEF PhaseInv
<1> QED BY <1>1, <1>2 DEF PhaseInv

LEMMA EndsPhase ==
    ASSUME TypeInv, PhaseInv, Ends, engine \subseteq engine'
    PROVE  PhaseInv'
<1>1. file' = file /\ pc' = "idle" /\ then' = "idle"
    BY DEF Ends
<1>2. PhaseIsApplied'
    BY <1>1, ReachedIs, ReachedLasts DEF PhaseInv, Has
<1> QED BY <1>1, <1>2 DEF PhaseInv, PlaceFits

LEMMA GoesPhase ==
    ASSUME TypeInv, PhaseInv, NEW to, Goes(to), engine' = engine, file.phase = "terminal",
           to \notin {"submit", "threadReplayed", "threadDone"}
    PROVE  PhaseInv'
<1>1. file' = file /\ pc' = to
    BY DEF Goes
<1>2. PhaseIsApplied'
    BY <1>1, ReachedIs DEF PhaseInv
<1> QED BY <1>1, <1>2 DEF PhaseInv, PlaceFits

\* A save that keeps phase and batch.
LEMMA KeepsPhase ==
    ASSUME TypeInv, PhaseInv, file'.phase = file.phase, file'.pending = file.pending, engine' = engine,
           file'.thread => file.thread \/ pc \in {"threadReplayed", "threadDone"},
           pc \notin {"idle", "submit"}, pc' \notin {"submit", "threadReplayed", "threadDone"}
    PROVE  PhaseInv'
<1>1. file'.thread => Has(engine, "native-thread")
    BY ReachedIs DEF PhaseInv
<1>2. PhaseIsApplied'
    BY <1>1, ReachedIs DEF PhaseInv
<1> QED BY <1>2 DEF PhaseInv, PlaceFits

LEMMA StartsPhase ==
    ASSUME TypeInv, PhaseInv,
           Begin \/ Started \/ Finish \/ UsageReconcile \/ \E o \in Observations : Observe(o)
    PROVE  PhaseInv'
<1>0. engine' = engine /\ Reached(file.phase, engine) /\ BatchFits(file.phase, file.pending)
    BY ReachedIs DEF Begin, Started, Finish, UsageReconcile, Observe, Start, PhaseInv
<1>1. {"idle", "reconcile"} \subseteq Thens
    BY DEF Thens
<1>2. \A phase, pending : PlaceFits("submit", "idle", phase, pending)
    BY DEF PlaceFits
<1>3. \A pending : PlaceFits("submit", "reconcile", "terminal-pending", pending)
    BY DEF PlaceFits
<1>4. CASE Begin
    <2>1. file.phase = "absent" => Reached("begin-pending", engine)
        BY DEF Reached
    <2>2. BatchFits("begin-pending", [event |-> Plain("begin"), next |-> "expected"])
        BY DEF BatchFits
    <2>3. Publishes("begin-pending", Plain("begin"), "expected", "idle") /\ file.phase = "absent" => PhaseInv'
        BY <1>0, <1>1, <1>2, <2>1, <2>2, EventTypes, PublishesPhase
    <2> QED BY <1>0, <1>2, <1>4, <2>3, BeginIs, ReplaysPhase, EndsPhase
<1>5. CASE Started
    <2>1. file.phase = "expected" => Reached("start-pending", engine) /\ file.pending = NoPending
        BY <1>0 DEF Reached, BatchFits
    <2>2. BatchFits("start-pending", [event |-> Plain("started"), next |-> "started"])
        BY DEF BatchFits
    <2>3. Publishes("start-pending", Plain("started"), "started", "idle") /\ file.phase = "expected" => PhaseInv'
        BY <1>0, <1>1, <1>2, <2>1, <2>2, EventTypes, PublishesPhase
    <2> QED BY <1>0, <1>2, <1>5, <2>1, <2>3, StartedIs, ReplaysPhase, EndsPhase DEF ReplaysIt, Replays
<1>6. CASE Finish
    <2>1. file.phase = "started" => Reached("terminal-pending", engine)
        BY <1>0 DEF Reached
    <2>2. BatchFits("terminal-pending", [event |-> Plain("finish"), next |-> "terminal"])
        BY DEF BatchFits
    <2>3. Publishes("terminal-pending", Plain("finish"), "terminal", "reconcile") /\ file.phase = "started" => PhaseInv'
        BY <1>0, <1>1, <1>3, <2>1, <2>2, EventTypes, PublishesPhase
    <2>4. ~(file.phase = "started" /\ ReplaysIt(Plain("finish"), "terminal", "reconcile"))
        BY <1>0 DEF BatchFits, ReplaysIt, Replays
    <2>5. file.phase = "terminal-pending" /\ Replays("reconcile") => PhaseInv'
        BY <1>0, <1>3, ReplaysPhase
    <2>6. file.phase = "terminal" /\ Goes("reconcile") => PhaseInv'
        BY <1>0, GoesPhase
    <2> QED BY <1>0, <1>6, <2>3, <2>4, <2>5, <2>6, FinishIs, EndsPhase
<1>7. CASE UsageReconcile
    <2>1. Goes("reconcile") /\ file.phase = "terminal"
        BY <1>7 DEF UsageReconcile, GoOn, Goes
    <2> QED BY <1>0, <2>1, GoesPhase
<1>8. ASSUME NEW o \in Observations, Observe(o)
      PROVE  PhaseInv'
    <2>1. PICK phase \in {"started", "terminal"} : phase = file.phase
        BY <1>8, ObserveIs
    <2>2. Publishes(phase, Note(o), phase, "idle") \/ Replays("idle") \/ Ends
        BY <1>8, <2>1, ObserveIs DEF Publishes, ReplaysIt
    <2>3. BatchFits(phase, [event |-> Note(o), next |-> phase])
        BY DEF BatchFits, Note
    <2>4. Publishes(phase, Note(o), phase, "idle") => PhaseInv'
        BY <1>0, <1>1, <1>2, <2>1, <2>3, EventTypes, PublishesPhase
    <2> QED BY <1>0, <1>2, <2>2, <2>4, ReplaysPhase, EndsPhase
<1> QED BY <1>4, <1>5, <1>6, <1>7, <1>8

LEMMA RepliesPhase ==
    ASSUME TypeInv, PhaseInv, Applied \/ Refused \/ DropIntent \/ Unknown \/ Crash
    PROVE  PhaseInv'
<1>0. /\ file \in States /\ then \in Thens /\ Reached(file.phase, engine)
      /\ BatchFits(file.phase, file.pending) /\ PlaceFits(pc, then, file.phase, file.pending)
      /\ (file.thread => Has(engine, "native-thread"))
    BY TypeParts, ReachedIs DEF TypeInv, FileType, RestType, PhaseInv
<1>1. CASE Applied
    <2>1. pc = "submit" /\ engine' = engine \cup {Submitted} /\ file' = AppliedState /\ pc' = then /\ then' = "idle"
        BY <1>1 DEF Applied
    <2>2. file'.phase = file.pending.next /\ file'.pending = NoPending /\ file'.thread = file.thread
        BY <1>0, <2>1, AppliedFields
    <2>3. file.pending # NoPending /\ file.pending.next \in Phases /\ Submitted.event = file.pending.event
        BY <2>1, SubmittedType
    <2>4. \A kind : file.pending.event.kind = kind => Has(engine', kind)
        BY <2>1, <2>3 DEF Has
    <2>5. \A kind : Has(engine, kind) => Has(engine', kind)
        BY <2>1 DEF Has
    <2>6. Reached(file'.phase, engine')
        <3>1. \A kind : Plain(kind).kind = kind
            BY DEF Plain
        <3>2. file.phase \in {"begin-pending", "start-pending", "terminal-pending", "started", "terminal"}
            BY <1>0, <2>1, <2>3, Fields DEF BatchFits, Phases
        <3> QED BY <1>0, <2>2, <2>3, <2>4, <2>5, <3>1, <3>2 DEF Reached, BatchFits
    <2>7. BatchFits(file'.phase, file'.pending)
        BY <2>2 DEF BatchFits
    <2>8. then # "idle" => file'.phase = "terminal"
        BY <1>0, <2>1, <2>2, <2>3 DEF PlaceFits, BatchFits, Thens
    <2>9. then \in {"threadReplayed", "threadDone"} => Has(engine', "native-thread")
        BY <1>0, <2>1, <2>4 DEF PlaceFits, Plain
    <2>10. PhaseIsApplied'
        BY <1>0, <2>2, <2>5, <2>6, ReachedIs
    <2>11. PlaceFits(pc', then', file'.phase, file'.pending)
        BY <1>0, <2>1, <2>8 DEF PlaceFits, Thens
    <2> QED BY <2>1, <2>7, <2>9, <2>10, <2>11 DEF PhaseInv
<1>2. CASE Refused
    <2>1. /\ pc = "submit" /\ engine' = engine /\ file' = RefusedState /\ then' = "idle"
          /\ pc' = IF then = "record" THEN "refused" ELSE "idle"
        BY <1>2 DEF Refused
    <2>2. file'.phase = file.phase /\ file'.pending = NoPending /\ file'.thread = file.thread
        BY <1>0, <2>1, RefusedFields
    <2>3. PhaseIsApplied'
        BY <1>0, <2>1, <2>2, ReachedIs
    <2> QED BY <1>0, <2>1, <2>2, <2>3 DEF PhaseInv, BatchFits, PlaceFits
<1>3. CASE DropIntent
    <2>1. file' = [file EXCEPT !.intent = NoIntent] /\ pc = "refused" /\ pc' = "idle" /\ engine' = engine
        BY <1>3 DEF DropIntent
    <2>2. file'.phase = file.phase /\ file'.pending = file.pending /\ file'.thread = file.thread
        BY <1>0, <2>1, DroppedFields
    <2> QED BY <2>1, <2>2, KeepsPhase
<1>4. CASE Unknown \/ Crash
    <2>1. Ends /\ engine \subseteq engine'
        BY <1>4, EndIs DEF Unknown, Crash
    <2> QED BY <2>1, EndsPhase
<1> QED BY <1>1, <1>2, <1>3, <1>4

LEMMA ReconcilePhase ==
    ASSUME TypeInv, PhaseInv, Reconcile
    PROVE  PhaseInv'
<1>0. /\ file \in States /\ Reached(file.phase, engine) /\ PlaceFits(pc, then, file.phase, file.pending)
      /\ BatchFits(file.phase, file.pending)
    BY TypeParts, ReachedIs DEF TypeInv, FileType, PhaseInv
<1>1. engine' = engine /\ pc \notin {"idle", "submit"}
    BY DEF Reconcile, ReconcileThread, ThreadPublished, ReconcileIntent, Record, Collect, PublishUsage,
           ReportCoverage, NextTurn
<1>2. file.phase = "terminal"
    BY <1>0, <1>1 DEF PlaceFits
<1>3. \A pending : PlaceFits("submit", "record", "terminal", pending) /\ PlaceFits("submit", "recorded", "terminal", pending)
    BY DEF PlaceFits
<1>4. \A pending : pending.event = Plain("native-thread") =>
          PlaceFits("submit", "threadReplayed", "terminal", pending) /\ PlaceFits("submit", "threadDone", "terminal", pending)
    BY DEF PlaceFits
<1>5. CASE ReconcileThread
    BY <1>1, <1>2, <1>4, <1>5, ThreadIs, ReplaysPhase, EndsPhase, GoesPhase
<1>6. CASE ReconcileIntent
    BY <1>1, <1>2, <1>3, <1>6, IntentIs, ReplaysPhase, GoesPhase
<1>7. CASE ThreadPublished
    <2>1. file' = [file EXCEPT !.thread = TRUE] /\ pc' \in {"intent", "turns"} /\ pc \in {"threadReplayed", "threadDone"}
        BY <1>7 DEF ThreadPublished
    <2>2. file'.phase = file.phase /\ file'.pending = file.pending
        BY <1>0, <2>1, ThreadFields
    <2> QED BY <1>1, <2>1, <2>2, KeepsPhase
<1>8. CASE Record
    <2>1. /\ file' = [file EXCEPT !.ledger[file.intent.turn] =
                                     [revision |-> file.intent.revision, hash |-> file.intent.hash],
                                 !.intent = NoIntent]
          /\ pc' \in {"collect", "turns"}
        BY <1>8 DEF Record
    <2>2. file'.phase = file.phase /\ file'.pending = file.pending /\ file'.thread = file.thread
        BY <1>0, <2>1, RecordFields
    <2> QED BY <1>1, <2>1, <2>2, KeepsPhase
<1>9. CASE Collect
    <2>1. \/ Publishes("terminal", Plain("native-thread"), "terminal", "threadDone")
          \/ Replays("threadDone") /\ file.pending.event = Plain("native-thread")
          \/ Goes("turns") \/ Ends
        BY <1>2, <1>9, CollectIs DEF Publishes, ReplaysIt
    <2>2. BatchFits("terminal", [event |-> Plain("native-thread"), next |-> "terminal"])
        BY DEF BatchFits, Plain
    <2>3. Publishes("terminal", Plain("native-thread"), "terminal", "threadDone") => PhaseInv'
        BY <1>0, <1>1, <1>2, <1>4, <2>2, EventTypes, PublishesPhase DEF Thens
    <2> QED BY <1>1, <1>2, <1>4, <2>1, <2>3, ReplaysPhase, GoesPhase, EndsPhase
<1>10. CASE PublishUsage
    <2>1. PICK event \in Events : event = Usage(file.intent)
        BY <1>10, EventTypes DEF PublishUsage, TypeInv, FileFits
    <2>2. Publishes("terminal", event, "terminal", "recorded") \/ Replays("recorded") \/ Ends
        BY <1>2, <1>10, <2>1, PublishUsageIs DEF Publishes, ReplaysIt
    <2>3. BatchFits("terminal", [event |-> event, next |-> "terminal"])
        BY <2>1 DEF BatchFits, Usage
    <2>4. Publishes("terminal", event, "terminal", "recorded") => PhaseInv'
        BY <1>0, <1>1, <1>2, <1>3, <2>3, PublishesPhase DEF Thens
    <2> QED BY <1>1, <1>2, <1>3, <2>2, <2>4, ReplaysPhase, EndsPhase
<1>11. CASE ReportCoverage
    BY <1>1, <1>11, EndIs, EndsPhase DEF ReportCoverage
<1>12. ASSUME NEW t \in Turns, NextTurn(t)
       PROVE  PhaseInv'
    <2>1. file'.phase = file.phase /\ file'.pending = file.pending /\ file'.thread = file.thread
        <3>1. CASE file' = file
            BY <3>1
        <3>2. CASE file' = [file EXCEPT !.intent = Intent(t)]
            BY <1>0, <3>2 DEF States
        <3> QED BY <1>12, <3>1, <3>2 DEF NextTurn
    <2>2. pc' \in {"turns", "usage"}
        BY <1>12 DEF NextTurn
    <2> QED BY <1>1, <2>1, <2>2, KeepsPhase
<1> QED BY <1>5, <1>6, <1>7, <1>8, <1>9, <1>10, <1>11, <1>12 DEF Reconcile

LEMMA PhaseInvInit == TelemetryInit => PhaseInv
BY DEF TelemetryInit, PhaseInv, BatchFits, PlaceFits, PhaseIsApplied, Absent

LEMMA PhaseInvNext == TypeInv /\ PhaseInv /\ [TelemetryNext]_telemetryVars => PhaseInv'
<1>1. ASSUME TypeInv, PhaseInv, NEW t \in Turns, RecordUsage(t)
      PROVE  PhaseInv'
    BY <1>1 DEF RecordUsage, command, PhaseInv, PhaseIsApplied, Has
<1>2. ASSUME PhaseInv, UNCHANGED telemetryVars
      PROVE  PhaseInv'
    BY <1>2 DEF telemetryVars, command, PhaseInv, PhaseIsApplied, Has
<1> QED BY <1>1, <1>2, StartsPhase, RepliesPhase, ReconcilePhase DEF TelemetryNext

(***************************************************************************)
(* The durable phase never runs ahead of what the engine applied: for any  *)
(* crashes, refusals and replays.                                          *)
(***************************************************************************)
THEOREM PhaseStaysApplied == TelemetrySpec => []PhaseIsApplied
<1>1. TelemetrySpec => [](TypeInv /\ PhaseInv)
    BY TypeInvInit, TypeInvNext, PhaseInvInit, PhaseInvNext, PTL DEF TelemetrySpec
<1>2. PhaseInv => PhaseIsApplied
    BY DEF PhaseInv
<1> QED BY <1>1, <1>2, PTL

-----------------------------------------------------------------------------
(***************************************************************************)
(* What makes published usage the host's: from its collection over the     *)
(* intent and the batch to the engine, a number stays one of the host's.   *)
(***************************************************************************)
CountedEvent(event, counts) ==
    event.kind = "native-usage" =>
        event.about \in Turns /\ HostCounted(event.about, counts[event.about], event.hash)
CountedIntent(intent, counts) ==
    intent # NoIntent =>
        intent.turn \in Turns /\ intent.hash # 0 /\ HostCounted(intent.turn, counts[intent.turn], intent.hash)

HostInv ==
    /\ \A t \in left : native[t] # 0
    /\ \A t \in Turns : native[t] # 0 => HostCounted(t, usage[t], native[t])
    /\ CountedIntent(file.intent, usage)
    /\ CountedEvent(file.pending.event, usage)
    /\ \A a \in engine : CountedEvent(a.event, usage)
    /\ pc = "usage" => file.intent # NoIntent

\* What a command does to its intent and its batch when it publishes, replays, goes on or ends.
LEMMA PublishesFields ==
    ASSUME TypeInv, NEW phase, NEW event, NEW next, NEW to, Publishes(phase, event, next, to)
    PROVE  /\ file'.pending = [event |-> event, next |-> next] /\ file'.pending.event = event
           /\ file'.intent = file.intent /\ file'.ledger = file.ledger /\ file'.phase = phase
           /\ file.pending = NoPending /\ pc' = "submit" /\ then' = to
<1>0. file \in States
    BY TypeParts DEF TypeInv, FileType
<1>1. file' = Saved(file, phase, event, next) /\ file.pending = NoPending /\ pc' = "submit" /\ then' = to
    BY DEF Publishes
<1> QED BY <1>0, <1>1, SavedFields

\* A step keeps it that makes no number up.
LEMMA HostKept ==
    ASSUME HostInv, usage' = usage, file'.intent \in {file.intent, NoIntent},
           CountedEvent(file'.pending.event, usage),
           \A a \in engine' : a \in engine \/ a.event = file.pending.event,
           \A t \in left' : native'[t] # 0, pc' # "usage",
           \A t \in Turns : native'[t] # 0 => HostCounted(t, usage[t], native'[t])
    PROVE  HostInv'
<1>1. CountedIntent(file'.intent, usage)
    BY DEF HostInv, CountedIntent
<1>2. \A a \in engine' : CountedEvent(a.event, usage)
    BY DEF HostInv
<1> QED BY <1>1, <1>2 DEF HostInv

LEMMA NoUsage ==
    ASSUME NEW counts
    PROVE  /\ \A kind \in {"none", "begin", "started", "finish", "native-thread"} : CountedEvent(Plain(kind), counts)
           /\ \A o : CountedEvent(Note(o), counts)
           /\ CountedEvent(NoPending.event, counts)
BY DEF CountedEvent, Plain, Note, NoPending

\* A file that does not change keeps its intent and its batch.
LEMMA SameFile ==
    ASSUME HostInv, (\E to : Replays(to) \/ (Goes(to) /\ to # "usage")) \/ Ends
    PROVE  file'.intent = file.intent /\ CountedEvent(file'.pending.event, usage) /\ pc' # "usage"
BY DEF Replays, Goes, Ends, HostInv

LEMMA StartsHost ==
    ASSUME TypeInv, HostInv,
           Begin \/ Started \/ Finish \/ UsageReconcile \/ \E o \in Observations : Observe(o)
    PROVE  HostInv'
<1>1. /\ usage' = usage /\ engine' = engine /\ left' = {} /\ \A t \in Turns : native'[t] = 0
    BY DEF Begin, Started, Finish, UsageReconcile, Observe, Start
<1>2. file'.intent = file.intent /\ CountedEvent(file'.pending.event, usage) /\ pc' # "usage"
    <2>p. ASSUME NEW phase, NEW kind \in {"begin", "started", "finish"}, NEW next, NEW to,
                 Publishes(phase, Plain(kind), next, to)
          PROVE  file'.intent = file.intent /\ CountedEvent(file'.pending.event, usage) /\ pc' # "usage"
        <3>1. file'.intent = file.intent /\ file'.pending.event = Plain(kind) /\ pc' = "submit"
            BY <2>p, PublishesFields
        <3> QED BY <3>1, NoUsage
    <2>1. CASE Begin
        BY <2>1, <2>p, BeginIs, SameFile
    <2>2. CASE Started
        BY <2>2, <2>p, StartedIs, SameFile DEF ReplaysIt
    <2>3. CASE Finish
        BY <2>3, <2>p, FinishIs, SameFile DEF ReplaysIt
    <2>4. CASE UsageReconcile
        <3>1. Goes("reconcile")
            BY <2>4 DEF UsageReconcile, GoOn, Goes
        <3> QED BY <3>1, SameFile
    <2>5. ASSUME NEW o \in Observations, Observe(o)
          PROVE  file'.intent = file.intent /\ CountedEvent(file'.pending.event, usage) /\ pc' # "usage"
        <3>1. PICK phase : phase = file.phase
            OBVIOUS
        <3>2. Publishes(phase, Note(o), phase, "idle") \/ Replays("idle") \/ Ends
            BY <2>5, <3>1, ObserveIs DEF Publishes, ReplaysIt
        <3>3. Publishes(phase, Note(o), phase, "idle") =>
                  file'.intent = file.intent /\ CountedEvent(file'.pending.event, usage) /\ pc' # "usage"
            <4>1. Publishes(phase, Note(o), phase, "idle") =>
                      file'.intent = file.intent /\ file'.pending.event = Note(o) /\ pc' = "submit"
                BY PublishesFields
            <4> QED BY <4>1, NoUsage
        <3> QED BY <3>2, <3>3, SameFile
    <2> QED BY <2>1, <2>2, <2>3, <2>4, <2>5
<1> QED BY <1>1, <1>2, HostKept

LEMMA RepliesHost ==
    ASSUME TypeInv, HostInv, Applied \/ Refused \/ DropIntent \/ Unknown \/ Crash
    PROVE  HostInv'
<1>0. file \in States
    BY TypeParts DEF TypeInv, FileType
<1>1. UNCHANGED <<native, left, usage>>
    BY DEF Applied, Refused, DropIntent, Unknown, Crash
<1>2. \A a \in engine' : a \in engine \/ a.event = file.pending.event
    BY DEF Applied, Refused, DropIntent, Unknown, Crash, Submitted
<1>3. file'.intent \in {file.intent, NoIntent} /\ CountedEvent(file'.pending.event, usage) /\ pc' # "usage"
    <2>1. CASE Applied
        BY <1>0, <2>1, AppliedFields, NoUsage, TypeParts DEF Applied, TypeInv, RestType, Thens
    <2>2. CASE Refused
        BY <1>0, <2>2, RefusedFields, NoUsage DEF Refused
    <2>3. CASE DropIntent
        BY <1>0, <2>3, DroppedFields DEF DropIntent, HostInv
    <2>4. CASE Unknown \/ Crash
        BY <2>4 DEF Unknown, Crash, End, GoOn, HostInv
    <2> QED BY <2>1, <2>2, <2>3, <2>4
<1> QED BY <1>1, <1>2, <1>3, HostKept DEF HostInv

LEMMA ReconcileHost ==
    ASSUME TypeInv, HostInv, Reconcile
    PROVE  HostInv'
<1>0. file \in States
    BY TypeParts DEF TypeInv, FileType
<1>1. UNCHANGED <<usage, engine>>
    BY DEF Reconcile, ReconcileThread, ThreadPublished, ReconcileIntent, Record, Collect, PublishUsage,
           ReportCoverage, NextTurn
<1>2. ASSUME file'.intent \in {file.intent, NoIntent}, CountedEvent(file'.pending.event, usage),
             UNCHANGED <<native, left>>, pc' # "usage"
      PROVE  HostInv'
    BY <1>1, <1>2, HostKept DEF HostInv
<1>3. CASE ReconcileThread
    BY <1>2, <1>3, ThreadIs, SameFile DEF ReconcileThread
<1>4. CASE ReconcileIntent
    BY <1>2, <1>4, IntentIs, SameFile DEF ReconcileIntent
<1>5. CASE ThreadPublished
    BY <1>0, <1>2, <1>5, ThreadFields DEF ThreadPublished, HostInv
<1>6. CASE Record
    BY <1>0, <1>2, <1>6, RecordFields DEF Record, HostInv
<1>7. CASE Collect
    <2>1. CASE Ends /\ UNCHANGED <<native, left>>
        BY <1>2, <2>1, SameFile
    <2>2. CASE /\ native' = [t \in Turns |-> IF Verified(t, usage[t]) THEN Total(t, usage[t]) ELSE 0]
               /\ left' = {t \in Turns : native'[t] # 0}
        <3>1. /\ \A t \in left' : native'[t] # 0
              /\ \A t \in Turns : native'[t] # 0 => HostCounted(t, usage[t], native'[t])
            BY <2>2, CollectedIs
        <3>2. PICK phase : phase = file.phase
            OBVIOUS
        <3>3. \/ Publishes(phase, Plain("native-thread"), phase, "threadDone")
              \/ Replays("threadDone") \/ Goes("turns") \/ Ends
            BY <1>7, <3>2, CollectIs DEF Publishes, ReplaysIt
        <3>4. file'.intent = file.intent /\ CountedEvent(file'.pending.event, usage) /\ pc' # "usage"
            <4>1. Publishes(phase, Plain("native-thread"), phase, "threadDone") =>
                      file'.intent = file.intent /\ file'.pending.event = Plain("native-thread") /\ pc' = "submit"
                BY PublishesFields
            <4> QED BY <3>3, <4>1, NoUsage, SameFile
        <3> QED BY <1>1, <3>1, <3>4, HostKept
    <2> QED BY <1>7, <2>1, <2>2, CollectIs
<1>8. CASE PublishUsage
    <2>1. UNCHANGED <<native, left>> /\ file.intent \in Intents
        BY <1>8 DEF PublishUsage, TypeInv, FileFits
    <2>2. PICK phase : phase = file.phase
        OBVIOUS
    <2>3. PICK event : event = Usage(file.intent)
        OBVIOUS
    <2>4. Publishes(phase, event, phase, "recorded") \/ Replays("recorded") \/ Ends
        BY <1>8, <2>2, <2>3, PublishUsageIs DEF Publishes, ReplaysIt
    <2>5. CountedEvent(event, usage)
        BY <1>8, <2>3 DEF PublishUsage, HostInv, CountedIntent, CountedEvent, Usage
    <2> QED BY <1>2, <2>1, <2>4, <2>5, PublishesFields, SameFile
<1>9. CASE ReportCoverage
    BY <1>2, <1>9, EndIs, SameFile DEF ReportCoverage
<1>10. ASSUME NEW t \in Turns, NextTurn(t)
       PROVE  HostInv'
    <2>1. t \in left /\ left' = left \ {t} /\ native' = native
        BY <1>10 DEF NextTurn
    <2>2. CASE file' = file /\ pc' = "turns"
        BY <1>1, <2>1, <2>2, HostKept DEF HostInv
    <2>3. CASE file' = [file EXCEPT !.intent = Intent(t)]
        <3>1. file'.intent = Intent(t) /\ file'.pending = file.pending
            BY <1>0, <2>3 DEF States
        <3>2. CountedIntent(Intent(t), usage) /\ Intent(t) # NoIntent
            <4>1. native[t] # 0 /\ t \in Turns
                BY <1>10, <2>1 DEF HostInv
            <4> QED BY <4>1 DEF HostInv, CountedIntent, Intent, NoIntent
        <3> QED BY <1>1, <2>1, <3>1, <3>2 DEF HostInv
    <2> QED BY <1>10, <2>2, <2>3 DEF NextTurn
<1> QED BY <1>3, <1>4, <1>5, <1>6, <1>7, <1>8, <1>9, <1>10 DEF Reconcile

\* A count that grows keeps what was counted.
LEMMA CountedLasts ==
    ASSUME NEW t \in Turns, NEW n \in Nat, NEW m \in Nat, n <= m, NEW total, HostCounted(t, n, total)
    PROVE  HostCounted(t, m, total)
<1>1. Ended[t] \in Nat
    BY TelemetryAssumption
<1>2. Ended[t] .. n \subseteq Ended[t] .. m
    BY <1>1
<1> QED BY <1>2 DEF HostCounted

LEMMA HostInvInit == TelemetryInit => HostInv
BY NoUsage DEF TelemetryInit, HostInv, Absent, CountedIntent

LEMMA HostInvNext == TypeInv /\ HostInv /\ [TelemetryNext]_telemetryVars => HostInv'
<1>1. ASSUME TypeInv, HostInv, NEW t \in Turns, RecordUsage(t)
      PROVE  HostInv'
    <2>1. UNCHANGED <<file, pc, native, left, engine>> /\ usage' = [usage EXCEPT ![t] = usage[t] + 1]
          /\ usage \in [Turns -> Nat]
        BY <1>1, TypeParts DEF RecordUsage, command, TypeInv, RestType
    <2>2. \A q \in Turns : usage[q] \in Nat /\ usage'[q] \in Nat /\ usage[q] <= usage'[q]
        BY <2>1
    <2>3. \A q \in Turns : \A total : HostCounted(q, usage[q], total) => HostCounted(q, usage'[q], total)
        BY <2>2, CountedLasts
    <2>4. \A event : CountedEvent(event, usage) => CountedEvent(event, usage')
        BY <2>3 DEF CountedEvent
    <2>5. \A intent : CountedIntent(intent, usage) => CountedIntent(intent, usage')
        BY <2>3 DEF CountedIntent
    <2> QED BY <1>1, <2>1, <2>3, <2>4, <2>5 DEF HostInv
<1>2. ASSUME HostInv, UNCHANGED telemetryVars
      PROVE  HostInv'
    BY <1>2 DEF telemetryVars, command, HostInv
<1> QED BY <1>1, <1>2, StartsHost, RepliesHost, ReconcileHost DEF TelemetryNext

(***************************************************************************)
(* Usage reaches the engine only of a turn that has ended, and is the      *)
(* host's own total in the newest record that could be read at some time   *)
(* since, whatever was corrected, skipped, retried or crashed: for any     *)
(* records, and wherever among them the turn ends.                         *)
(***************************************************************************)
THEOREM PublishedUsageIsTheHosts == TelemetrySpec => []UsageIsTheHosts
<1>1. TelemetrySpec => [](TypeInv /\ HostInv)
    BY TypeInvInit, TypeInvNext, HostInvInit, HostInvNext, PTL DEF TelemetrySpec
<1>2. HostInv => UsageIsTheHosts
    BY DEF HostInv, CountedEvent, HostCounted, UsageIsTheHosts
<1> QED BY <1>1, <1>2, PTL

-----------------------------------------------------------------------------
(***************************************************************************)
(* What makes revisions agree while no observation comes beside an intent: *)
(* the pending usage is the intended one, with the revision after the one the  *)
(* ledger has, and what the engine has of a turn is in the ledger or is    *)
(* the intended usage itself, applied and not yet recorded.                *)
(***************************************************************************)
NextRevision(entry) == IF entry = NoEntry THEN 0 ELSE entry.revision + 1

FileAlone(s) ==
    /\ s.pending.event.kind = "native-thread" => s.pending.event = Plain("native-thread")
    /\ s.pending.event.kind = "native-usage" => s.intent # NoIntent
    /\ s.intent # NoIntent =>
        /\ s.phase = "terminal"
        /\ s.intent.revision = NextRevision(s.ledger[s.intent.turn])
        /\ s.pending # NoPending => s.pending.event = Usage(s.intent)

PlaceAlone(place, to, s) ==
    /\ place = "intent" => s.pending.event.kind # "native-thread"
    /\ place \in {"refused", "threadReplayed", "threadDone", "record", "recorded", "usage"} =>
        s.pending = NoPending
    /\ place \in {"collect", "turns"} => s.pending = NoPending \/ s.pending.event.kind = "observation"
    /\ place \in {"refused", "threadDone", "collect", "turns"} => s.intent = NoIntent
    /\ place = "submit" /\ to \in {"record", "recorded"} => s.pending.event.kind = "native-usage"
    /\ place \in {"record", "recorded"} => s.intent # NoIntent

Settled(a, ledger) ==
    LET entry == ledger[a.event.about] IN
    /\ entry # NoEntry
    /\ a.event.revision < entry.revision \/ (a.event.revision = entry.revision /\ a.event.hash = entry.hash)

Underway(a, s, place) ==
    /\ s.intent # NoIntent
    /\ a.event = Usage(s.intent)
    /\ IF s.pending = NoPending THEN place # "usage" ELSE a = [cursor |-> s.sequence, event |-> s.pending.event]

EngineAlone(batches, s, place) ==
    \A a \in batches : a.event.kind = "native-usage" => Settled(a, s.ledger) \/ Underway(a, s, place)

Agree(batches) ==
    \A a, b \in batches :
        /\ a.event.kind = "native-usage" /\ b.event.kind = "native-usage"
        /\ a.event.about = b.event.about
        /\ a.event.revision = b.event.revision
        => a.event = b.event

Alone == FileAlone(file) /\ PlaceAlone(pc, then, file) /\ EngineAlone(engine, file, pc) /\ Agree(engine)

\* Nothing that the commands publish apart from usage is confused with it.
LEMMA KindsDiffer ==
    /\ \A kind : Plain(kind).kind = kind
    /\ \A o : Note(o).kind = "observation"
    /\ \A intent : /\ Usage(intent).kind = "native-usage" /\ Usage(intent).about = intent.turn
                   /\ Usage(intent).revision = intent.revision /\ Usage(intent).hash = intent.hash
    /\ NoPending.event.kind = "none"
BY DEF Plain, Note, Usage, NoPending

\* A step that keeps the file and the engine.
LEMMA SameAlone ==
    ASSUME Alone, file' = file, engine' = engine, pc' # "usage", PlaceAlone(pc', then', file)
    PROVE  Alone'
<1>1. EngineAlone(engine, file, pc')
    BY DEF Alone, EngineAlone, Underway
<1> QED BY <1>1 DEF Alone

LEMMA EndsAlone ==
    ASSUME Alone, Ends, engine' = engine
    PROVE  Alone'
<1>1. PlaceAlone("idle", "idle", file)
    BY DEF PlaceAlone
<1> QED BY <1>1, SameAlone DEF Ends

\* While no intent is underway, all that the engine has is in the ledger.
LEMMA AllSettled ==
    ASSUME Alone, file.pending = NoPending, file.intent = NoIntent \/ pc = "usage",
           NEW a \in engine, a.event.kind = "native-usage"
    PROVE  Settled(a, file.ledger)
BY DEF Alone, EngineAlone, Underway

\* A batch is saved while no intent is underway.
LEMMA PublishesAlone ==
    ASSUME TypeInv, Alone, NEW phase, NEW event \in Events, NEW next, NEW to, Publishes(phase, event, next, to),
           engine' = engine,
           \/ file.intent = NoIntent /\ to \notin {"record", "recorded"} /\ event.kind # "native-usage"
              /\ (event.kind = "native-thread" => event = Plain("native-thread"))
           \/ pc = "usage" /\ file.intent # NoIntent /\ event = Usage(file.intent) /\ phase = file.phase
    PROVE  Alone'
<1>0. /\ file'.pending = [event |-> event, next |-> next] /\ file'.pending.event = event
      /\ file'.intent = file.intent /\ file'.ledger = file.ledger /\ file'.phase = phase
      /\ file.pending = NoPending /\ pc' = "submit" /\ then' = to
    BY PublishesFields
<1>1. /\ file'.pending.event = event /\ file'.pending # NoPending
      /\ file'.intent = file.intent /\ file'.ledger = file.ledger /\ file'.phase = phase
      /\ file.pending = NoPending /\ pc' = "submit" /\ then' = to
    BY <1>0, PendingIsSome
<1>2. FileAlone(file')
    BY <1>1, KindsDiffer DEF Alone, FileAlone
<1>3. PlaceAlone(pc', then', file')
    BY <1>1, KindsDiffer DEF PlaceAlone
<1>4. EngineAlone(engine', file', pc')
    BY <1>1, AllSettled DEF EngineAlone, Settled
<1> QED BY <1>2, <1>3, <1>4 DEF Alone

LEMMA StartsAlone ==
    ASSUME TypeInv, PhaseInv, Alone, Begin \/ Started \/ Finish \/ UsageReconcile
    PROVE  Alone'
<1>1. engine' = engine
    BY DEF Begin, Started, Finish, UsageReconcile, Start
<1>2. file.phase # "terminal" => file.intent = NoIntent
    BY DEF Alone, FileAlone
<1>3. ASSUME NEW to \in {"idle", "reconcile"}, Replays(to)
      PROVE  Alone'
    <2>1. PlaceAlone("submit", to, file)
        BY DEF PlaceAlone
    <2> QED BY <1>1, <1>3, <2>1, SameAlone DEF Replays
<1>4. ASSUME Goes("reconcile")
      PROVE  Alone'
    <2>1. PlaceAlone("reconcile", then, file)
        BY DEF PlaceAlone
    <2> QED BY <1>1, <1>4, <2>1, SameAlone DEF Goes
<1>5. ASSUME NEW phase, NEW kind \in {"begin", "started", "finish"}, NEW next, NEW to \in {"idle", "reconcile"},
             Publishes(phase, Plain(kind), next, to), file.phase # "terminal"
      PROVE  Alone'
    BY <1>1, <1>2, <1>5, EventTypes, KindsDiffer, PublishesAlone
<1>6. CASE Begin
    BY <1>1, <1>3, <1>5, <1>6, BeginIs, EndsAlone
<1>7. CASE Started
    BY <1>1, <1>3, <1>5, <1>7, StartedIs, EndsAlone DEF ReplaysIt
<1>8. CASE Finish
    BY <1>1, <1>3, <1>4, <1>5, <1>8, FinishIs, EndsAlone DEF ReplaysIt
<1>9. CASE UsageReconcile
    BY <1>4, <1>9 DEF UsageReconcile, GoOn, Goes
<1> QED BY <1>6, <1>7, <1>8, <1>9

\* What the engine has just applied is pending, and the intended usage if it is usage.
LEMMA SubmittedAlone ==
    ASSUME TypeInv, Alone, pc = "submit", NEW batches, batches = engine \/ batches = engine \cup {Submitted}
    PROVE  EngineAlone(batches, file, pc) /\ Agree(batches)
<1>1. /\ Submitted = [cursor |-> file.sequence, event |-> file.pending.event]
      /\ Submitted.event = file.pending.event /\ file.pending # NoPending
    BY SubmittedType DEF Submitted
<1>2. Submitted.event.kind = "native-usage" => file.intent # NoIntent /\ Submitted.event = Usage(file.intent)
    BY <1>1 DEF Alone, FileAlone
<1>3. Submitted.event.kind = "native-usage" => Underway(Submitted, file, pc)
    BY <1>1, <1>2 DEF Underway
<1>4. EngineAlone(batches, file, pc)
    BY <1>3 DEF Alone, EngineAlone
<1>5. ASSUME NEW a \in engine, a.event.kind = "native-usage", Submitted.event.kind = "native-usage",
             a.event.about = Submitted.event.about, a.event.revision = Submitted.event.revision
      PROVE  a.event = Submitted.event
    <2>1. CASE Settled(a, file.ledger)
        <3>1. file.intent # NoIntent /\ Submitted.event = Usage(file.intent)
            BY <1>2, <1>5
        <3>2. Submitted.event.about = file.intent.turn /\ Submitted.event.revision = file.intent.revision
            BY <3>1, KindsDiffer
        <3>3. file.intent.revision = NextRevision(file.ledger[file.intent.turn])
            BY <3>1 DEF Alone, FileAlone
        <3>4. file.ledger[file.intent.turn] # NoEntry
            BY <1>5, <2>1, <3>2 DEF Settled
        <3>5. file.intent \in Intents /\ file.ledger \in [Turns -> Entries]
            BY <3>1, Fields, TypeParts DEF TypeInv, FileType
        <3>6. file.ledger[file.intent.turn].revision \in Nat
            BY <3>5 DEF Intents, Entries
        <3>7. a.event.revision = file.ledger[file.intent.turn].revision + 1
            BY <1>5, <3>2, <3>3, <3>4 DEF NextRevision
        <3>8. \/ a.event.revision < file.ledger[file.intent.turn].revision
              \/ a.event.revision = file.ledger[file.intent.turn].revision
            BY <1>5, <2>1, <3>2 DEF Settled
        <3> QED BY <3>6, <3>7, <3>8
    <2>2. CASE Underway(a, file, pc)
        BY <1>2, <1>5, <2>2 DEF Underway
    <2> QED BY <1>5, <2>1, <2>2 DEF Alone, EngineAlone
<1>6. Agree(batches)
    BY <1>5 DEF Alone, Agree
<1> QED BY <1>4, <1>6

LEMMA RepliesAlone ==
    ASSUME TypeInv, PhaseInv, HostInv, Alone, Applied \/ Refused \/ DropIntent \/ Unknown \/ Crash
    PROVE  Alone'
<1>0. file \in States /\ then \in Thens
    BY TypeParts DEF TypeInv, FileType, RestType
<1>1. CASE Applied
    <2>1. pc = "submit" /\ engine' = engine \cup {Submitted} /\ file' = AppliedState /\ pc' = then /\ then' = "idle"
        BY <1>1 DEF Applied
    <2>2. /\ file'.phase = file.pending.next /\ file'.pending = NoPending /\ file'.intent = file.intent
          /\ file'.ledger = file.ledger
        BY <1>0, <2>1, AppliedFields
    <2>3. file.pending # NoPending
        BY <2>1, SubmittedType
    <2>4. EngineAlone(engine', file, "submit") /\ Agree(engine')
        BY <2>1, SubmittedAlone
    <2>5. pc' # "usage"
        BY <1>0, <2>1 DEF Thens
    <2>6. EngineAlone(engine', file', pc')
        BY <2>2, <2>4, <2>5 DEF EngineAlone, Underway
    <2>7. file.intent # NoIntent => file'.phase = "terminal"
        BY <2>2, <2>3 DEF Alone, FileAlone, PhaseInv, BatchFits
    <2>8. FileAlone(file')
        BY <2>2, <2>7, KindsDiffer DEF Alone, FileAlone
    <2>9. PlaceAlone(then, "idle", file')
        <3>1. then \in {"record", "recorded"} => file.intent # NoIntent
            BY <2>1 DEF Alone, PlaceAlone, FileAlone
        <3>2. then = "threadDone" => file.intent = NoIntent
            BY <2>1, <2>3, KindsDiffer DEF PhaseInv, PlaceFits, Alone, FileAlone
        <3> QED BY <1>0, <2>2, <3>1, <3>2, KindsDiffer DEF PlaceAlone, Thens
    <2> QED BY <2>1, <2>4, <2>6, <2>8, <2>9 DEF Alone
<1>2. CASE Refused
    <2>1. /\ pc = "submit" /\ engine' = engine /\ file' = RefusedState /\ then' = "idle" /\ Submitted \notin engine
          /\ pc' = IF then = "record" THEN "refused" ELSE "idle"
        BY <1>2 DEF Refused
    <2>2. /\ file'.phase = file.phase /\ file'.pending = NoPending /\ file'.ledger = file.ledger
          /\ file'.intent = IF file.pending.event.kind = "native-usage" THEN NoIntent ELSE file.intent
        BY <1>0, <2>1, RefusedFields
    <2>3. file.pending # NoPending
        BY <2>1, SubmittedType
    <2>4. file'.intent = NoIntent
        BY <2>2, <2>3, KindsDiffer DEF Alone, FileAlone
    <2>5. \A a \in engine : ~Underway(a, file, pc)
        BY <2>1, <2>3 DEF Underway, Submitted
    <2>6. EngineAlone(engine', file', pc')
        BY <2>1, <2>2, <2>5 DEF Alone, EngineAlone
    <2>7. FileAlone(file')
        BY <2>2, <2>4, KindsDiffer DEF FileAlone
    <2>8. PlaceAlone(pc', then', file')
        BY <2>1, <2>2, <2>4, KindsDiffer DEF PlaceAlone
    <2> QED BY <2>1, <2>6, <2>7, <2>8 DEF Alone
<1>3. CASE DropIntent
    <2>1. file' = [file EXCEPT !.intent = NoIntent] /\ pc = "refused" /\ pc' = "idle" /\ engine' = engine
        BY <1>3 DEF DropIntent
    <2>2. file.intent = NoIntent
        BY <2>1 DEF Alone, PlaceAlone
    <2>3. file' = file
        BY <1>0, <2>1, <2>2 DEF States
    <2>4. PlaceAlone("idle", then', file)
        BY DEF PlaceAlone
    <2> QED BY <2>1, <2>3, <2>4, SameAlone
<1>4. CASE Unknown
    <2>1. pc = "submit" /\ file' = file /\ pc' = "idle" /\ then' = "idle"
          /\ (engine' = engine \/ engine' = engine \cup {Submitted})
        BY <1>4 DEF Unknown, End, GoOn
    <2>2. EngineAlone(engine', file, "submit") /\ Agree(engine')
        BY <2>1, SubmittedAlone
    <2>3. EngineAlone(engine', file, "idle")
        BY <2>2 DEF EngineAlone, Underway
    <2>4. PlaceAlone("idle", "idle", file)
        BY DEF PlaceAlone
    <2> QED BY <2>1, <2>2, <2>3, <2>4 DEF Alone
<1>5. CASE Crash
    BY <1>5, EndIs, EndsAlone DEF Crash
<1> QED BY <1>1, <1>2, <1>3, <1>4, <1>5

\* The ledger takes over the usage that is intended.
LEMMA RecordAlone ==
    ASSUME TypeInv, PhaseInv, HostInv, Alone, Record
    PROVE  Alone'
<1>0. file \in States /\ file.ledger \in [Turns -> Entries]
    BY Fields, TypeParts DEF TypeInv, FileType
<1>1. /\ file' = [file EXCEPT !.ledger[file.intent.turn] =
                                 [revision |-> file.intent.revision, hash |-> file.intent.hash],
                             !.intent = NoIntent]
      /\ pc \in {"record", "recorded"} /\ pc' \in {"collect", "turns"} /\ engine' = engine
    BY DEF Record
<1>2. /\ file'.phase = file.phase /\ file'.pending = file.pending /\ file'.intent = NoIntent
      /\ file'.ledger = [file.ledger EXCEPT ![file.intent.turn] = Entry(file.intent)]
    BY <1>0, <1>1, RecordFields
<1>3. file.pending = NoPending /\ file.intent # NoIntent
    BY <1>1 DEF Alone, PlaceAlone
<1>4. /\ file.intent \in Intents /\ file.intent.turn \in Turns /\ file.intent.hash # 0
      /\ file.intent.revision = NextRevision(file.ledger[file.intent.turn])
    BY <1>0, <1>3, Fields DEF HostInv, CountedIntent, Alone, FileAlone
<1>5. /\ Entry(file.intent) # NoEntry /\ Entry(file.intent).revision = file.intent.revision
      /\ Entry(file.intent).hash = file.intent.hash
    BY <1>4 DEF Entry, NoEntry
<1>6. ASSUME NEW a \in engine, a.event.kind = "native-usage"
      PROVE  Settled(a, file'.ledger)
    <2>1. engine \subseteq [cursor : 1 .. MaxSequence, event : Events] /\ a.event.revision \in Nat
        BY TypeParts DEF TypeInv, RestType, Events
    <2>2. CASE Underway(a, file, pc)
        <3>1. /\ a.event.about = file.intent.turn /\ a.event.revision = file.intent.revision
              /\ a.event.hash = file.intent.hash
            BY <2>2, KindsDiffer DEF Underway
        <3>2. file'.ledger[a.event.about] = Entry(file.intent)
            BY <1>0, <1>2, <1>4, <3>1
        <3> QED BY <1>5, <3>1, <3>2 DEF Settled
    <2>3. CASE Settled(a, file.ledger)
        <3>1. CASE a.event.about = file.intent.turn
            <4>1. file.ledger[a.event.about] # NoEntry /\ file.ledger[a.event.about].revision \in Nat
                BY <1>0, <1>4, <2>3, <3>1 DEF Settled, Entries
            <4>2. file.intent.revision = file.ledger[a.event.about].revision + 1
                BY <1>4, <3>1, <4>1 DEF NextRevision
            <4>3. \/ a.event.revision < file.ledger[a.event.about].revision
                  \/ a.event.revision = file.ledger[a.event.about].revision
                BY <2>3 DEF Settled
            <4>4. a.event.revision < file.intent.revision
                BY <2>1, <4>1, <4>2, <4>3
            <4>5. file'.ledger[a.event.about] = Entry(file.intent)
                BY <1>0, <1>2, <1>4, <3>1
            <4> QED BY <1>5, <4>4, <4>5 DEF Settled
        <3>2. CASE a.event.about # file.intent.turn
            <4>1. file'.ledger[a.event.about] = file.ledger[a.event.about]
                BY <1>0, <1>2, <3>2
            <4> QED BY <2>3, <4>1 DEF Settled
        <3> QED BY <3>1, <3>2
    <2> QED BY <1>6, <2>2, <2>3 DEF Alone, EngineAlone
<1>7. EngineAlone(engine', file', pc')
    BY <1>1, <1>6 DEF EngineAlone
<1>8. FileAlone(file')
    BY <1>2, <1>3, KindsDiffer DEF FileAlone
<1>9. PlaceAlone(pc', then', file')
    BY <1>1, <1>2, <1>3 DEF PlaceAlone
<1> QED BY <1>1, <1>7, <1>8, <1>9 DEF Alone

\* A new intent is for the revision after the ledger's.
LEMMA NextTurnAlone ==
    ASSUME TypeInv, PhaseInv, HostInv, Alone, NEW t \in Turns, NextTurn(t),
           file'.pending.event.kind = "observation" => file'.intent = NoIntent
    PROVE  Alone'
<1>0. file \in States /\ file.phase = "terminal"
    BY TypeParts DEF TypeInv, FileType, PhaseInv, PlaceFits, NextTurn
<1>1. /\ pc = "turns" /\ t \in left /\ then' = then /\ engine' = engine /\ file.intent = NoIntent
      /\ file.pending = NoPending \/ file.pending.event.kind = "observation"
    BY DEF NextTurn, Alone, PlaceAlone
<1>2. CASE file' = file /\ pc' = pc
    BY <1>1, <1>2, SameAlone DEF Alone
<1>3. CASE file' = [file EXCEPT !.intent = Intent(t)] /\ pc' = "usage"
    <2>0. /\ file'.phase = file.phase /\ file'.pending = file.pending /\ file'.intent = Intent(t)
          /\ file'.ledger = file.ledger
        BY <1>0, <1>3 DEF States
    <2>1. /\ file'.phase = file.phase /\ file'.pending = NoPending /\ file'.intent = Intent(t)
          /\ file'.ledger = file.ledger /\ file.pending = NoPending
        <3>1. Intent(t) # NoIntent
            BY <1>1 DEF Intent, NoIntent, HostInv
        <3> QED BY <1>1, <2>0, <3>1
    <2>2. Intent(t).turn = t /\ Intent(t).revision = NextRevision(file.ledger[t])
        BY DEF Intent, NextRevision
    <2>3. FileAlone(file')
        BY <1>0, <2>1, <2>2, KindsDiffer DEF FileAlone
    <2>4. PlaceAlone(pc', then', file')
        BY <1>3, <2>1 DEF PlaceAlone
    <2>5. EngineAlone(engine', file', pc')
        BY <1>1, <2>1, AllSettled DEF EngineAlone
    <2> QED BY <1>1, <2>3, <2>4, <2>5 DEF Alone
<1> QED BY <1>2, <1>3 DEF NextTurn

LEMMA ReconcileAlone ==
    ASSUME TypeInv, PhaseInv, HostInv, Alone, Reconcile,
           file'.pending.event.kind = "observation" => file'.intent = NoIntent
    PROVE  Alone'
<1>0. /\ file \in States /\ BatchFits(file.phase, file.pending) /\ PlaceFits(pc, then, file.phase, file.pending)
      /\ FileAlone(file) /\ PlaceAlone(pc, then, file)
    BY TypeParts DEF TypeInv, FileType, PhaseInv, Alone
<1>1. engine' = engine /\ pc \notin {"idle", "submit"}
    BY DEF Reconcile, ReconcileThread, ThreadPublished, ReconcileIntent, Record, Collect, PublishUsage,
           ReportCoverage, NextTurn
<1>2. file.phase = "terminal"
    BY <1>0, <1>1 DEF PlaceFits
<1>3. ASSUME NEW to, Replays(to), to \in {"record", "recorded"} => file.pending.event.kind = "native-usage"
      PROVE  Alone'
    <2>1. PlaceAlone("submit", to, file)
        BY <1>3 DEF PlaceAlone
    <2> QED BY <1>1, <1>3, <2>1, SameAlone DEF Replays
<1>4. ASSUME NEW to, Goes(to), to # "usage", PlaceAlone(to, then, file)
      PROVE  Alone'
    BY <1>1, <1>4, SameAlone DEF Goes
<1>5. CASE ReconcileThread
    <2>1. file.pending.event # Plain("native-thread") => PlaceAlone("intent", then, file)
        BY <1>0 DEF PlaceAlone, FileAlone
    <2> QED BY <1>1, <1>3, <1>4, <1>5, <2>1, ThreadIs, EndsAlone
<1>6. CASE ReconcileIntent
    <2>1. pc = "intent"
        BY <1>6 DEF ReconcileIntent
    <2>2. file.intent = NoIntent => file.pending = NoPending \/ file.pending.event.kind = "observation"
        BY <1>0, <1>2, <2>1 DEF PlaceAlone, FileAlone, BatchFits
    <2>3. file.intent = NoIntent => PlaceAlone("collect", then, file)
        BY <2>2 DEF PlaceAlone
    <2>4. file.intent # NoIntent /\ file.pending = NoPending => PlaceAlone("record", then, file)
        BY DEF PlaceAlone
    <2>5. file.intent # NoIntent /\ file.pending # NoPending => file.pending.event.kind = "native-usage"
        BY <1>0, KindsDiffer DEF FileAlone
    <2> QED BY <1>3, <1>4, <1>6, <2>3, <2>4, <2>5, IntentIs DEF Replays
<1>7. CASE ThreadPublished
    <2>1. /\ file' = [file EXCEPT !.thread = TRUE] /\ pc \in {"threadReplayed", "threadDone"}
          /\ pc' = IF pc = "threadReplayed" THEN "intent" ELSE "turns"
        BY <1>7 DEF ThreadPublished
    <2>2. /\ file'.phase = file.phase /\ file'.pending = file.pending /\ file'.intent = file.intent
          /\ file'.ledger = file.ledger /\ file'.sequence = file.sequence
        BY <1>0, <2>1, ThreadFields
    <2>3. FileAlone(file')
        BY <1>0, <2>2 DEF FileAlone
    <2>4. PlaceAlone(pc', then', file')
        BY <1>0, <2>1, <2>2, KindsDiffer DEF PlaceAlone
    <2>5. EngineAlone(engine', file', pc')
        BY <1>1, <2>1, <2>2 DEF Alone, EngineAlone, Underway
    <2> QED BY <1>1, <2>3, <2>4, <2>5 DEF Alone
<1>8. CASE Record
    BY <1>8, RecordAlone
<1>9. CASE Collect
    <2>1. file.intent = NoIntent /\ (file.pending = NoPending \/ file.pending.event.kind = "observation")
        BY <1>0, <1>9 DEF Collect, PlaceAlone
    <2>2. PICK phase : phase = file.phase
        OBVIOUS
    <2>3. \/ Publishes(phase, Plain("native-thread"), phase, "threadDone")
          \/ Goes("turns") \/ Ends
        BY <1>9, <2>1, <2>2, CollectIs, KindsDiffer DEF Publishes, ReplaysIt, Replays
    <2>4. Publishes(phase, Plain("native-thread"), phase, "threadDone") => Alone'
        BY <1>1, <2>1, EventTypes, KindsDiffer, PublishesAlone
    <2>5. PlaceAlone("turns", then, file)
        BY <2>1 DEF PlaceAlone
    <2> QED BY <1>1, <1>4, <2>3, <2>4, <2>5, EndsAlone
<1>10. CASE PublishUsage
    <2>1. pc = "usage" /\ file.pending = NoPending /\ file.intent # NoIntent
        BY <1>0, <1>10 DEF PublishUsage, PlaceAlone, HostInv
    <2>2. PICK phase : phase = file.phase
        OBVIOUS
    <2>3. PICK event \in Events : event = Usage(file.intent)
        BY <2>1, EventTypes DEF TypeInv, FileFits
    <2>4. Publishes(phase, event, phase, "recorded") \/ Ends
        BY <1>10, <2>1, <2>2, <2>3, PublishUsageIs DEF Publishes, ReplaysIt, Replays
    <2>5. Publishes(phase, event, phase, "recorded") => Alone'
        BY <1>1, <2>1, <2>2, <2>3, KindsDiffer, PublishesAlone
    <2> QED BY <1>1, <2>4, <2>5, EndsAlone
<1>11. CASE ReportCoverage
    BY <1>1, <1>11, EndIs, EndsAlone DEF ReportCoverage
<1>12. ASSUME NEW t \in Turns, NextTurn(t)
       PROVE  Alone'
    BY <1>12, NextTurnAlone
<1> QED BY <1>5, <1>6, <1>7, <1>8, <1>9, <1>10, <1>11, <1>12 DEF Reconcile

LEMMA AloneInit == TelemetryInit => Alone
BY KindsDiffer DEF TelemetryInit, Alone, FileAlone, PlaceAlone, EngineAlone, Agree, Absent, Plain

\* The invariant, as long as no observation was pending beside an intent.
AloneInv == "crossed" \in mishaps \/ Alone

LEMMA ObserveAlone ==
    ASSUME TypeInv, PhaseInv, Alone, NEW o \in Observations, Observe(o),
           file'.pending.event.kind = "observation" => file'.intent = NoIntent
    PROVE  Alone'
<1>1. engine' = engine
    BY DEF Observe, Start
<1>2. PICK phase : phase = file.phase
    OBVIOUS
<1>3. Publishes(phase, Note(o), phase, "idle") \/ ReplaysIt(Note(o), phase, "idle") \/ Ends
    BY <1>2, ObserveIs DEF Publishes, ReplaysIt
<1>4. CASE Publishes(phase, Note(o), phase, "idle")
    <2>1. file'.pending.event = Note(o) /\ file'.intent = file.intent
        BY <1>4, PublishesFields
    <2>2. file.intent = NoIntent
        BY <2>1, KindsDiffer
    <2> QED BY <1>1, <1>4, <2>2, EventTypes, KindsDiffer, PublishesAlone
<1>5. CASE ReplaysIt(Note(o), phase, "idle")
    <2>1. PlaceAlone("submit", "idle", file)
        BY DEF PlaceAlone
    <2> QED BY <1>1, <1>5, <2>1, SameAlone DEF ReplaysIt, Replays
<1> QED BY <1>1, <1>3, <1>4, <1>5, EndsAlone

LEMMA AloneInvNext ==
    TypeInv /\ PhaseInv /\ HostInv /\ AloneInv /\ [TelemetryNext]_telemetryVars => AloneInv'
<1>1. ASSUME TypeInv, PhaseInv, HostInv, AloneInv, TelemetryNext, "crossed" \notin mishaps'
      PROVE  Alone'
    <2>1. Alone /\ (file'.pending.event.kind = "observation" => file'.intent = NoIntent)
        BY <1>1 DEF TelemetryNext, AloneInv, Mishaps, Happens
    <2>2. ASSUME NEW t \in Turns, RecordUsage(t)
          PROVE  Alone'
        BY <2>1, <2>2 DEF RecordUsage, command, Alone
    <2> QED BY <1>1, <2>1, <2>2, StartsAlone, ObserveAlone, RepliesAlone, ReconcileAlone DEF TelemetryNext
<1>2. ASSUME AloneInv, UNCHANGED telemetryVars
      PROVE  AloneInv'
    BY <1>2 DEF telemetryVars, command, AloneInv, Alone
<1> QED BY <1>1, <1>2 DEF AloneInv

LEMMA AloneInvHolds == TelemetrySpec => [](TypeInv /\ PhaseInv /\ HostInv /\ AloneInv)
<1>1. TelemetryInit => AloneInv
    BY AloneInit DEF AloneInv
<1> QED BY <1>1, TypeInvInit, TypeInvNext, PhaseInvInit, PhaseInvNext, HostInvInit, HostInvNext, AloneInvNext, PTL
       DEF TelemetrySpec

-----------------------------------------------------------------------------
(***************************************************************************)
(* A phase that leads on has its batch, until that very batch is refused.  *)
(***************************************************************************)
RetryInv == "refused" \in mishaps \/ PendingPhaseCanRetry

LEMMA RetryInvInit == TelemetryInit => RetryInv
BY DEF TelemetryInit, RetryInv, PendingPhaseCanRetry, Absent

LEMMA RetryInvNext == TypeInv /\ PhaseInv /\ RetryInv /\ [TelemetryNext]_telemetryVars => RetryInv'
<1>1. ASSUME TypeInv, PhaseInv, PendingPhaseCanRetry, TelemetryNext, "refused" \notin mishaps'
      PROVE  PendingPhaseCanRetry'
    <2>0. file \in States /\ BatchFits(file.phase, file.pending)
        BY <1>1, TypeParts DEF TypeInv, FileType, PhaseInv
    <2>1. CASE KeepsBatch
        BY <1>1, <2>1 DEF KeepsBatch, PendingPhaseCanRetry
    <2>2. CASE SavesBatch
        BY <2>2 DEF SavesBatch, PendingPhaseCanRetry
    <2>3. file.pending # NoPending => file.pending.next \in {"expected", "started", "terminal"}
        <3>1. file.phase \in Phases
            BY <2>0, Fields
        <3> QED BY <2>0, <3>1 DEF BatchFits, Phases
    <2>4. CASE Applied
        <3>1. file'.phase = file.pending.next /\ file.pending # NoPending
            BY <1>1, <2>0, <2>4, AppliedFields, SubmittedType DEF Applied
        <3> QED BY <2>3, <3>1 DEF PendingPhaseCanRetry
    <2>5. CASE Refused
        <3>1. file.pending.next = file.phase
            BY <1>1, <2>5 DEF TelemetryNext, Happens, Mishaps
        <3>2. file'.phase = file.phase /\ file.pending # NoPending
            BY <1>1, <2>0, <2>5, RefusedFields, SubmittedType DEF Refused
        <3> QED BY <2>3, <3>1, <3>2 DEF PendingPhaseCanRetry
    <2>6. CASE Unknown
        BY <1>1, <2>6 DEF Unknown, End, GoOn, PendingPhaseCanRetry
    <2> QED BY <1>1, <2>1, <2>2, <2>4, <2>5, <2>6, StepIs
<1>2. TelemetryNext => mishaps \subseteq mishaps'
    BY DEF TelemetryNext
<1>3. ASSUME RetryInv, UNCHANGED telemetryVars
      PROVE  RetryInv'
    BY <1>3 DEF telemetryVars, RetryInv, PendingPhaseCanRetry
<1> QED BY <1>1, <1>2, <1>3 DEF RetryInv

-----------------------------------------------------------------------------
(***************************************************************************)
(* The steps of the file and the engine, as steps of the log.              *)
(***************************************************************************)
LEMMA LogInits == TelemetryInit => Log!LogInit
BY DEF TelemetryInit, Log!LogInit, Absent, Known, Behind

\* The event that is submitted is the next one of the log, and leads where its batch says.
LEMMA SubmittedIsNext ==
    ASSUME TypeInv, PhaseInv, CursorInv, pc = "submit"
    PROVE  /\ Submitted.cursor = Known + 1
           /\ Submitted.event.kind \in Log!Publishable[Behind(file.phase)]
           /\ Behind(file.pending.next) = Log!Lead(Behind(file.phase), Submitted.event.kind)
           /\ Submitted \notin engine => \A earlier \in engine : earlier.cursor <= Known
<1>0. /\ file \in States /\ engine \subseteq [cursor : 1 .. MaxSequence, event : Events]
      /\ BatchFits(file.phase, file.pending) /\ file.sequence \in Nat
    BY TypeParts, MaxSequenceIsNat DEF TypeInv, FileType, RestType, PhaseInv, States
<1>1. /\ Submitted.cursor = file.sequence /\ Submitted.event = file.pending.event
      /\ file.pending # NoPending /\ file.sequence > 0
    BY SubmittedType
<1>2. Known = file.sequence - 1
    BY <1>1 DEF Known
<1>3. \A kind : Plain(kind).kind = kind
    BY DEF Plain
<1>4. file.phase \in {"begin-pending", "start-pending", "terminal-pending", "started", "terminal"}
    BY <1>0, <1>1, Fields DEF BatchFits, Phases
<1>5. /\ Submitted.event.kind \in Log!Publishable[Behind(file.phase)]
      /\ Behind(file.pending.next) = Log!Lead(Behind(file.phase), Submitted.event.kind)
    <2>1. CASE file.phase = "begin-pending"
        BY <1>0, <1>1, <1>3, <2>1 DEF BatchFits, Behind, Log!Publishable, Log!Lead
    <2>2. CASE file.phase = "start-pending"
        BY <1>0, <1>1, <1>3, <2>2 DEF BatchFits, Behind, Log!Publishable, Log!Lead
    <2>3. CASE file.phase = "terminal-pending"
        BY <1>0, <1>1, <1>3, <2>3 DEF BatchFits, Behind, Log!Publishable, Log!Lead
    <2>4. CASE file.phase = "started"
        BY <1>0, <1>1, <2>4 DEF BatchFits, Behind, Log!Publishable, Log!Lead
    <2>5. CASE file.phase = "terminal"
        BY <1>0, <1>1, <2>5 DEF BatchFits, Behind, Log!Publishable, Log!Lead
    <2> QED BY <1>4, <2>1, <2>2, <2>3, <2>4, <2>5
<1>6. ASSUME Submitted \notin engine, NEW earlier \in engine
      PROVE  earlier.cursor <= Known
    <2>1. earlier.cursor < file.sequence /\ earlier.cursor \in Nat
        BY <1>0, <1>1, <1>6, MaxSequenceIsNat DEF CursorInv
    <2> QED BY <1>0, <1>2, <2>1
<1> QED BY <1>0, <1>1, <1>2, <1>5, <1>6

LEMMA LogSteps ==
    TypeInv /\ PhaseInv /\ CursorInv /\ [TelemetryNext]_telemetryVars =>
        [Log!LogNext]_<<engine, Known, Behind(file.phase)>>
<1> SUFFICES ASSUME TypeInv, PhaseInv, CursorInv, [TelemetryNext]_telemetryVars
             PROVE  [Log!LogNext]_<<engine, Known, Behind(file.phase)>>
    OBVIOUS
<1>0. file \in States /\ file.sequence \in Nat
    BY TypeParts, MaxSequenceIsNat DEF TypeInv, FileType, States
<1>1. CASE KeepsBatch
    BY <1>1 DEF KeepsBatch, Known
<1>2. CASE SavesBatch
    BY <1>0, <1>2 DEF SavesBatch, Known
<1>3. CASE Applied
    <2>1. /\ engine' = engine \cup {Submitted} /\ file'.phase = file.pending.next
          /\ file'.pending = NoPending /\ file'.sequence = file.sequence /\ pc = "submit"
        BY <1>0, <1>3, AppliedFields DEF Applied
    <2>2. Known' = Known + 1
        BY <1>0, <2>1, SubmittedType DEF Known
    <2>3. Log!Counts(Submitted)
        BY <2>1, <2>2, SubmittedIsNext DEF Log!Counts
    <2>4. CASE Submitted \in engine
        <3>1. engine' = engine
            BY <2>1, <2>4
        <3>2. Log!CountAppended
            BY <2>3, <2>4, <3>1 DEF Log!CountAppended
        <3> QED BY <3>2 DEF Log!LogNext
    <2>5. CASE Submitted \notin engine
        <3>1. Log!Appends(Submitted)
            BY <2>1, <2>5, SubmittedIsNext DEF Log!Appends
        <3>2. Submitted \in engine'
            BY <2>1
        <3>3. Log!AppendKnown
            BY <2>3, <3>1, <3>2 DEF Log!AppendKnown
        <3> QED BY <3>3 DEF Log!LogNext
    <2> QED BY <2>4, <2>5
<1>4. CASE Refused
    <2>1. /\ engine' = engine /\ file'.phase = file.phase /\ file'.pending = NoPending
          /\ file'.sequence = file.sequence - 1 /\ pc = "submit"
        BY <1>0, <1>4, RefusedFields DEF Refused
    <2>2. Known' = Known
        BY <2>1, SubmittedType DEF Known
    <2> QED BY <2>1, <2>2
<1>5. CASE Unknown
    <2>1. pc = "submit" /\ file' = file /\ (engine' = engine \/ engine' = engine \cup {Submitted})
        BY <1>5 DEF Unknown, End, GoOn
    <2>2. Known' = Known
        BY <2>1 DEF Known
    <2>3. CASE engine' = engine
        BY <2>1, <2>2, <2>3
    <2>4. CASE engine' # engine
        <3>1. Log!Appends(Submitted) /\ Submitted \in engine'
            BY <2>1, <2>4, SubmittedIsNext DEF Log!Appends
        <3>2. Log!AppendUnknown
            BY <2>1, <2>2, <3>1 DEF Log!AppendUnknown
        <3> QED BY <3>2 DEF Log!LogNext
    <2> QED BY <2>3, <2>4
<1>6. CASE UNCHANGED telemetryVars
    BY <1>6 DEF telemetryVars, Known
<1> QED BY <1>1, <1>2, <1>3, <1>4, <1>5, <1>6, StepIs

(***************************************************************************)
(* Whatever crashes, is refused or is replayed, a dispatch is one log:     *)
(* nothing in the engine is replaced or out of the life cycle's order, and *)
(* the phase moves with what is known to be applied.                       *)
(***************************************************************************)
THEOREM DispatchIsOneLog == TelemetrySpec => ImplementsDispatchLog
<1>1. TelemetrySpec => [](TypeInv /\ PhaseInv /\ CursorInv)
    BY TypeInvInit, TypeInvNext, PhaseInvInit, PhaseInvNext, CursorInvInit, CursorInvNext, PTL DEF TelemetrySpec
<1> QED BY <1>1, LogInits, LogSteps, PTL DEF TelemetrySpec, ImplementsDispatchLog, Log!LogSpec, Log!logVars

-----------------------------------------------------------------------------
(***************************************************************************)
(* What makes a complete coverage true while no command stops between an   *)
(* intent and its batch: the usage in the ledger is in the engine, the     *)
(* intended usage is pending or in the engine, and a command that goes     *)
(* through the turns has every one it is past in the ledger, or intends it.*)
(***************************************************************************)
Delivered(batches, t, hash) ==
    \E a \in batches : a.event.kind = "native-usage" /\ a.event.about = t /\ a.event.hash = hash

Backed(s, place, batches) ==
    /\ \A t \in Turns : s.ledger[t] # NoEntry => Delivered(batches, t, s.ledger[t].hash)
    /\ s.intent # NoIntent /\ place # "usage" =>
        s.pending.event = Usage(s.intent) \/ Delivered(batches, s.intent.turn, s.intent.hash)

Recording(place, to) == place \in {"recorded", "usage"} \/ (place = "submit" /\ to = "recorded")

PlaceBacked(place, to, s) ==
    /\ place \in {"record", "recorded"} => s.pending = NoPending
    /\ place = "record" \/ (place = "submit" /\ to = "record") \/ Recording(place, to) => s.intent # NoIntent

LookedAt(place, to, s, counts, turns) ==
    /\ Recording(place, to) => s.intent.hash = counts[s.intent.turn]
    /\ \A t \in Turns : counts[t] # 0 =>
        /\ place = "threadDone" \/ (place = "submit" /\ to = "threadDone") => t \in turns
        /\ place = "turns" => t \in turns \/ s.ledger[t].hash = counts[t]
        /\ Recording(place, to) => t \in turns \/ s.ledger[t].hash = counts[t] \/ s.intent.turn = t

Reported(result, place, counts, batches) ==
    result = "complete" => place = "idle" /\ \A t \in Turns : Delivered(batches, t, counts[t])

Whole ==
    /\ Backed(file, pc, engine)
    /\ PlaceBacked(pc, then, file)
    /\ LookedAt(pc, then, file, native, left)
    /\ Reported(coverage, pc, native, engine)

LEMMA DeliveredLasts ==
    ASSUME NEW old, NEW new, old \subseteq new, NEW t, NEW hash, Delivered(old, t, hash)
    PROVE  Delivered(new, t, hash)
BY DEF Delivered

\* A save that keeps the ledger and adds no intent keeps what is backed.
LEMMA BackedKept ==
    ASSUME Whole, pc # "usage", file'.ledger = file.ledger, file'.intent \in {file.intent, NoIntent},
           file'.pending.event = file.pending.event \/ file.pending = NoPending, engine \subseteq engine'
    PROVE  Backed(file', pc', engine')
<1>1. Backed(file, pc, engine)
    BY DEF Whole
<1>2. \A t \in Turns : file'.ledger[t] # NoEntry => Delivered(engine', t, file'.ledger[t].hash)
    BY <1>1, DeliveredLasts DEF Backed
<1>3. file.pending = NoPending => file.pending.event # Usage(file.intent)
    BY KindsDiffer
<1>4. file'.intent # NoIntent =>
          file'.pending.event = Usage(file'.intent) \/ Delivered(engine', file'.intent.turn, file'.intent.hash)
    BY <1>1, <1>3, DeliveredLasts DEF Backed
<1> QED BY <1>2, <1>4 DEF Backed

\* Where a command looks at no turns, nothing is said of them.
LEMMA ElsewhereLooks ==
    ASSUME NEW place \in {"idle", "refused", "reconcile", "threadReplayed", "intent", "record", "collect"},
           NEW to, NEW s, NEW counts, NEW turns
    PROVE  /\ LookedAt(place, to, s, counts, turns)
           /\ place # "record" => PlaceBacked(place, to, s)
BY DEF LookedAt, PlaceBacked, Recording

LEMMA SubmitLooks ==
    ASSUME NEW to \in {"idle", "reconcile", "threadReplayed", "record"}, NEW s, NEW counts, NEW turns
    PROVE  /\ LookedAt("submit", to, s, counts, turns)
           /\ to # "record" => PlaceBacked("submit", to, s)
BY DEF LookedAt, PlaceBacked, Recording

\* What a command does to the file when it begins.
LEMMA StartsFields ==
    ASSUME TypeInv, Begin \/ Started \/ Finish \/ UsageReconcile \/ \E o \in Observations : Observe(o)
    PROVE  /\ file'.intent = file.intent /\ file'.ledger = file.ledger
           /\ file'.pending.event = file.pending.event \/ file.pending = NoPending
           /\ pc' \in {"idle", "reconcile"} \/ (pc' = "submit" /\ then' \in {"idle", "reconcile"})
<1>1. ASSUME NEW to \in {"idle", "reconcile"}, Replays(to) \/ Ends \/ Goes("reconcile")
      PROVE  /\ file' = file
             /\ pc' \in {"idle", "reconcile"} \/ (pc' = "submit" /\ then' \in {"idle", "reconcile"})
    BY <1>1 DEF Replays, Ends, Goes
<1>2. ASSUME NEW phase, NEW event, NEW next, NEW to \in {"idle", "reconcile"}, Publishes(phase, event, next, to)
      PROVE  /\ file'.intent = file.intent /\ file'.ledger = file.ledger /\ file.pending = NoPending
             /\ pc' = "submit" /\ then' \in {"idle", "reconcile"}
    BY <1>2, PublishesFields
<1>3. CASE Begin
    BY <1>1, <1>2, <1>3, BeginIs
<1>4. CASE Started
    BY <1>1, <1>2, <1>4, StartedIs DEF ReplaysIt
<1>5. CASE Finish
    BY <1>1, <1>2, <1>5, FinishIs DEF ReplaysIt
<1>6. CASE UsageReconcile
    BY <1>1, <1>6 DEF UsageReconcile, GoOn, Goes
<1>7. ASSUME NEW o \in Observations, Observe(o)
      PROVE  /\ file'.intent = file.intent /\ file'.ledger = file.ledger
             /\ file'.pending.event = file.pending.event \/ file.pending = NoPending
             /\ pc' \in {"idle", "reconcile"} \/ (pc' = "submit" /\ then' \in {"idle", "reconcile"})
    <2>1. PICK phase : phase = file.phase
        OBVIOUS
    <2>2. Publishes(phase, Note(o), phase, "idle") \/ Replays("idle") \/ Ends
        BY <1>7, <2>1, ObserveIs DEF Publishes, ReplaysIt
    <2> QED BY <1>1, <1>2, <2>2
<1> QED BY <1>3, <1>4, <1>5, <1>6, <1>7

LEMMA StartsWhole ==
    ASSUME TypeInv, Whole, Begin \/ Started \/ Finish \/ UsageReconcile \/ \E o \in Observations : Observe(o)
    PROVE  Whole'
<1>1. pc = "idle" /\ engine' = engine /\ coverage' = "none"
    BY DEF Begin, Started, Finish, UsageReconcile, Observe, Start
<1>2. Backed(file', pc', engine')
    BY <1>1, StartsFields, BackedKept
<1>3. PlaceBacked(pc', then', file') /\ LookedAt(pc', then', file', native', left')
    BY StartsFields, ElsewhereLooks, SubmitLooks
<1> QED BY <1>1, <1>2, <1>3 DEF Whole, Reported

LEMMA RepliesWhole ==
    ASSUME TypeInv, Whole, Applied \/ Refused \/ DropIntent \/ Unknown \/ (Crash /\ pc # "usage")
    PROVE  Whole'
<1>0. /\ file \in States /\ then \in Thens /\ Backed(file, pc, engine) /\ PlaceBacked(pc, then, file)
      /\ LookedAt(pc, then, file, native, left) /\ Reported(coverage, pc, native, engine)
    BY TypeParts DEF TypeInv, FileType, RestType, Whole
<1>1. UNCHANGED <<native, left, coverage>> /\ engine \subseteq engine' /\ pc # "idle" /\ pc # "usage"
    BY DEF Applied, Refused, DropIntent, Unknown, Crash
<1>2. Reported(coverage', pc', native', engine')
    BY <1>0, <1>1 DEF Reported
<1>3. CASE Applied
    <2>1. pc = "submit" /\ engine' = engine \cup {Submitted} /\ file' = AppliedState /\ pc' = then /\ then' = "idle"
        BY <1>3 DEF Applied
    <2>2. file'.pending = NoPending /\ file'.intent = file.intent /\ file'.ledger = file.ledger
        BY <1>0, <2>1, AppliedFields
    <2>3. Submitted \in engine' /\ Submitted.event = file.pending.event
        BY <2>1, SubmittedType
    <2>4. \A t \in Turns : file'.ledger[t] # NoEntry => Delivered(engine', t, file'.ledger[t].hash)
        BY <1>0, <1>1, <2>2, DeliveredLasts DEF Backed
    <2>5. file.pending.event = Usage(file.intent) => Delivered(engine', file.intent.turn, file.intent.hash)
        BY <2>3, KindsDiffer DEF Delivered
    <2>6. file.intent # NoIntent => Delivered(engine', file.intent.turn, file.intent.hash)
        BY <1>0, <1>1, <2>5, DeliveredLasts DEF Backed
    <2>7. Backed(file', pc', engine')
        BY <2>2, <2>4, <2>6 DEF Backed
    <2>8. PlaceBacked(then, "idle", file')
        BY <1>0, <2>1, <2>2 DEF PlaceBacked, Recording, Thens
    <2>9. LookedAt(then, "idle", file', native, left)
        BY <1>0, <2>1, <2>2 DEF LookedAt, Recording, Thens
    <2> QED BY <1>1, <1>2, <2>1, <2>7, <2>8, <2>9 DEF Whole
<1>4. CASE Refused
    <2>1. /\ file' = RefusedState /\ then' = "idle" /\ pc' \in {"refused", "idle"}
        BY <1>4 DEF Refused
    <2>2. /\ file'.ledger = file.ledger
          /\ file'.intent = IF file.pending.event.kind = "native-usage" THEN NoIntent ELSE file.intent
        BY <1>0, <2>1, RefusedFields
    <2>3. file'.intent # NoIntent => file.pending.event # Usage(file.intent)
        BY <2>2, KindsDiffer
    <2>4. Backed(file', pc', engine')
        <3>1. \A t \in Turns : file'.ledger[t] # NoEntry => Delivered(engine', t, file'.ledger[t].hash)
            BY <1>0, <1>1, <2>2, DeliveredLasts DEF Backed
        <3>2. file'.intent # NoIntent => Delivered(engine', file'.intent.turn, file'.intent.hash)
            BY <1>0, <1>1, <2>2, <2>3, DeliveredLasts DEF Backed
        <3> QED BY <3>1, <3>2 DEF Backed
    <2> QED BY <1>2, <2>1, <2>4, ElsewhereLooks DEF Whole
<1>5. CASE DropIntent
    <2>1. file' = [file EXCEPT !.intent = NoIntent] /\ pc' = "idle"
        BY <1>5 DEF DropIntent
    <2>2. file'.ledger = file.ledger /\ file'.intent = NoIntent /\ file'.pending = file.pending
        BY <1>0, <2>1, DroppedFields
    <2>3. Backed(file', pc', engine')
        BY <1>1, <2>2, BackedKept
    <2> QED BY <1>2, <2>1, <2>3, ElsewhereLooks DEF Whole
<1>6. CASE Unknown \/ Crash
    <2>1. file' = file /\ pc' = "idle"
        BY <1>6 DEF Unknown, Crash, End, GoOn
    <2>2. Backed(file', pc', engine')
        BY <1>1, <2>1, BackedKept
    <2> QED BY <1>2, <2>1, <2>2, ElsewhereLooks DEF Whole
<1> QED BY <1>3, <1>4, <1>5, <1>6

\* The ledger takes over usage that the engine has.
LEMMA RecordWhole ==
    ASSUME TypeInv, Whole, Record
    PROVE  Whole'
<1>0. /\ file \in States /\ Backed(file, pc, engine) /\ PlaceBacked(pc, then, file)
      /\ LookedAt(pc, then, file, native, left) /\ Reported(coverage, pc, native, engine)
      /\ file.ledger \in [Turns -> Entries] /\ file.intent \in {NoIntent} \cup Intents
    BY TypeParts, Fields DEF TypeInv, FileType, Whole
<1>1. /\ file' = [file EXCEPT !.ledger[file.intent.turn] =
                                 [revision |-> file.intent.revision, hash |-> file.intent.hash],
                             !.intent = NoIntent]
      /\ pc \in {"record", "recorded"} /\ pc' = IF pc = "record" THEN "collect" ELSE "turns"
      /\ engine' = engine /\ UNCHANGED <<then, native, left, coverage>>
    BY DEF Record
<1>2. /\ file'.pending = file.pending /\ file'.intent = NoIntent
      /\ file'.ledger = [file.ledger EXCEPT ![file.intent.turn] = Entry(file.intent)]
    BY <1>0, <1>1, RecordFields
<1>3. file.pending = NoPending /\ file.intent # NoIntent
    BY <1>0, <1>1 DEF PlaceBacked, Recording
<1>4. file.intent \in Intents /\ file.intent.turn \in Turns
    BY <1>0, <1>3 DEF Intents
<1>5. Delivered(engine, file.intent.turn, file.intent.hash)
    BY <1>0, <1>1, <1>3, KindsDiffer DEF Backed
<1>6. /\ file'.ledger[file.intent.turn].hash = file.intent.hash
      /\ \A t \in Turns : t # file.intent.turn => file'.ledger[t] = file.ledger[t]
    BY <1>0, <1>2, <1>4 DEF Entry
<1>7. Backed(file', pc', engine')
    BY <1>0, <1>1, <1>2, <1>5, <1>6 DEF Backed
<1>8. PlaceBacked(pc', then', file')
    BY <1>1 DEF PlaceBacked, Recording
<1>9. LookedAt(pc', then', file', native', left')
    <2>1. CASE pc = "record"
        BY <1>1, <2>1, ElsewhereLooks
    <2>2. CASE pc = "recorded"
        <3>1. ASSUME NEW t \in Turns, native[t] # 0
              PROVE  t \in left \/ file'.ledger[t].hash = native[t]
            <4>1. t \in left \/ file.ledger[t].hash = native[t] \/ file.intent.turn = t
                BY <1>0, <2>2, <3>1 DEF LookedAt, Recording
            <4>2. file.intent.hash = native[file.intent.turn]
                BY <1>0, <2>2 DEF LookedAt, Recording
            <4> QED BY <1>6, <4>1, <4>2
        <3>2. pc' = "turns"
            BY <1>1, <2>2
        <3> QED BY <1>1, <3>1, <3>2 DEF LookedAt, Recording
    <2> QED BY <1>1, <2>1, <2>2
<1>10. Reported(coverage', pc', native', engine')
    BY <1>0, <1>1 DEF Reported
<1> QED BY <1>7, <1>8, <1>9, <1>10 DEF Whole

\* A turn is in the ledger, or becomes the one that is intended.
LEMMA NextTurnWhole ==
    ASSUME TypeInv, HostInv, Whole, NEW t \in Turns, NextTurn(t)
    PROVE  Whole'
<1>0. /\ file \in States /\ Backed(file, pc, engine)
      /\ LookedAt(pc, then, file, native, left) /\ Reported(coverage, pc, native, engine)
    BY TypeParts DEF TypeInv, FileType, Whole
<1>1. pc = "turns" /\ t \in left /\ left' = left \ {t} /\ engine' = engine /\ UNCHANGED <<then, native, coverage>>
    BY DEF NextTurn
<1>2. \A q \in Turns : native[q] # 0 => q \in left \/ file.ledger[q].hash = native[q]
    BY <1>0, <1>1 DEF LookedAt
<1>3. Reported(coverage', pc', native', engine')
    BY <1>0, <1>1 DEF Reported
<1>4. CASE file.ledger[t].hash = native[t] /\ file' = file /\ pc' = pc
    <2>1. Backed(file', pc', engine')
        BY <1>0, <1>1, <1>4
    <2>2. PlaceBacked(pc', then', file')
        BY <1>1, <1>4 DEF PlaceBacked, Recording
    <2>3. LookedAt(pc', then', file', native', left')
        BY <1>1, <1>2, <1>4 DEF LookedAt, Recording
    <2> QED BY <1>3, <2>1, <2>2, <2>3 DEF Whole
<1>5. CASE file' = [file EXCEPT !.intent = Intent(t)] /\ pc' = "usage"
    <2>1. file'.intent = Intent(t) /\ file'.ledger = file.ledger
        BY <1>0, <1>5 DEF States
    <2>2. Intent(t).turn = t /\ Intent(t).hash = native[t]
        BY DEF Intent
    <2>3. Intent(t) # NoIntent
        BY <1>1, <2>2 DEF NoIntent, HostInv
    <2>4. Backed(file', pc', engine')
        BY <1>0, <1>1, <1>5, <2>1 DEF Backed
    <2>5. PlaceBacked(pc', then', file')
        BY <1>5, <2>1, <2>3 DEF PlaceBacked
    <2>6. LookedAt(pc', then', file', native', left')
        BY <1>1, <1>2, <1>5, <2>1, <2>2 DEF LookedAt
    <2> QED BY <1>3, <2>4, <2>5, <2>6 DEF Whole
<1> QED BY <1>4, <1>5 DEF NextTurn

LEMMA ReconcileWhole ==
    ASSUME TypeInv, HostInv, Whole, Reconcile, pc = "usage" => pc' = "submit"
    PROVE  Whole'
<1>0. /\ file \in States /\ Backed(file, pc, engine) /\ PlaceBacked(pc, then, file)
      /\ LookedAt(pc, then, file, native, left) /\ Reported(coverage, pc, native, engine)
    BY TypeParts DEF TypeInv, FileType, Whole
<1>1. engine' = engine /\ pc \notin {"idle", "submit"} /\ coverage # "complete"
    BY <1>0 DEF Reconcile, ReconcileThread, ThreadPublished, ReconcileIntent, Record, Collect, PublishUsage,
           ReportCoverage, NextTurn, Reported
<1>2. coverage' # "complete" => Reported(coverage', pc', native', engine')
    BY DEF Reported
<1>3. ASSUME NEW to \in {"threadReplayed", "record"}, Replays(to), pc # "usage", coverage' = coverage,
             to = "record" => file.intent # NoIntent
      PROVE  Whole'
    <2>1. file' = file /\ pc' = "submit" /\ then' = to
        BY <1>3 DEF Replays
    <2>2. Backed(file', pc', engine')
        BY <1>1, <1>3, <2>1, BackedKept
    <2>3. PlaceBacked(pc', then', file')
        BY <1>3, <2>1 DEF PlaceBacked, Recording
    <2> QED BY <1>1, <1>2, <1>3, <2>1, <2>2, <2>3, SubmitLooks DEF Whole
<1>4. ASSUME NEW to \in {"intent", "record", "collect"}, Goes(to), pc # "usage", coverage' = coverage,
             to = "record" => file.intent # NoIntent /\ file.pending = NoPending
      PROVE  Whole'
    <2>1. file' = file /\ pc' = to
        BY <1>4 DEF Goes
    <2>2. Backed(file', pc', engine')
        BY <1>1, <1>4, <2>1, BackedKept
    <2>3. PlaceBacked(pc', then', file')
        BY <1>4, <2>1 DEF PlaceBacked, Recording
    <2> QED BY <1>1, <1>2, <1>4, <2>1, <2>2, <2>3, ElsewhereLooks DEF Whole
<1>5. ASSUME Ends, pc # "usage", Reported(coverage', "idle", native', engine')
      PROVE  Whole'
    <2>1. file' = file /\ pc' = "idle"
        BY <1>5 DEF Ends
    <2>2. Backed(file', pc', engine')
        BY <1>1, <1>5, <2>1, BackedKept
    <2> QED BY <1>5, <2>1, <2>2, ElsewhereLooks DEF Whole
<1>6. CASE ReconcileThread
    <2>1. pc # "usage" /\ coverage' = coverage
        BY <1>6 DEF ReconcileThread
    <2> QED BY <1>1, <1>3, <1>4, <1>5, <1>6, <2>1, ThreadIs DEF Reported
<1>7. CASE ReconcileIntent
    <2>1. pc # "usage" /\ coverage' = coverage
        BY <1>7 DEF ReconcileIntent
    <2> QED BY <1>3, <1>4, <1>7, <2>1, IntentIs
<1>8. CASE ThreadPublished
    <2>1. /\ file' = [file EXCEPT !.thread = TRUE] /\ pc \in {"threadReplayed", "threadDone"}
          /\ pc' = (IF pc = "threadReplayed" THEN "intent" ELSE "turns") /\ UNCHANGED <<native, left, coverage>>
        BY <1>8 DEF ThreadPublished
    <2>2. file'.pending = file.pending /\ file'.intent = file.intent /\ file'.ledger = file.ledger
        BY <1>0, <2>1, ThreadFields
    <2>3. Backed(file', pc', engine')
        BY <1>1, <2>1, <2>2, BackedKept
    <2>4. PlaceBacked(pc', then', file')
        BY <2>1 DEF PlaceBacked, Recording
    <2>5. LookedAt(pc', then', file', native', left')
        BY <1>0, <2>1 DEF LookedAt, Recording
    <2> QED BY <1>1, <1>2, <2>1, <2>3, <2>4, <2>5 DEF Whole
<1>9. CASE Record
    BY <1>9, RecordWhole
<1>10. CASE Collect
    <2>0. pc = "collect"
        BY <1>10 DEF Collect
    <2>1. CASE Ends /\ coverage' = "unknown"
        BY <1>5, <2>0, <2>1 DEF Reported
    <2>2. CASE left' = {t \in Turns : native'[t] # 0} /\ coverage' = coverage
        <3>1. PICK phase : phase = file.phase
            OBVIOUS
        <3>2. \/ Publishes(phase, Plain("native-thread"), phase, "threadDone")
              \/ Replays("threadDone") \/ Goes("turns") \/ Ends
            BY <1>10, <3>1, CollectIs DEF Publishes, ReplaysIt
        <3>3. /\ file'.intent = file.intent /\ file'.ledger = file.ledger
              /\ file'.pending.event = file.pending.event \/ file.pending = NoPending
              /\ pc' \in {"turns", "idle"} \/ (pc' = "submit" /\ then' = "threadDone")
            <4>1. Publishes(phase, Plain("native-thread"), phase, "threadDone") =>
                      /\ file'.intent = file.intent /\ file'.ledger = file.ledger /\ file.pending = NoPending
                      /\ pc' = "submit" /\ then' = "threadDone"
                BY PublishesFields
            <4> QED BY <3>2, <4>1 DEF Replays, Goes, Ends
        <3>4. Backed(file', pc', engine')
            BY <1>1, <2>0, <3>3, BackedKept
        <3>5. PlaceBacked(pc', then', file')
            BY <3>3 DEF PlaceBacked, Recording
        <3>6. LookedAt(pc', then', file', native', left')
            BY <2>2, <3>3 DEF LookedAt, Recording
        <3> QED BY <1>1, <1>2, <2>2, <3>4, <3>5, <3>6 DEF Whole
    <2> QED BY <1>10, <2>1, <2>2, CollectIs
<1>11. CASE PublishUsage
    <2>1. pc = "usage" /\ UNCHANGED <<native, left, coverage>> /\ file.intent # NoIntent
        BY <1>0, <1>11 DEF PublishUsage, PlaceBacked, Recording
    <2>2. PICK phase : phase = file.phase
        OBVIOUS
    <2>3. PICK event : event = Usage(file.intent)
        OBVIOUS
    <2>4. Publishes(phase, event, phase, "recorded") \/ ReplaysIt(event, phase, "recorded")
        BY <1>11, <2>1, <2>2, <2>3, PublishUsageIs DEF Publishes, ReplaysIt, Ends
    <2>5. /\ file'.pending.event = Usage(file.intent) /\ file'.intent = file.intent /\ file'.ledger = file.ledger
          /\ pc' = "submit" /\ then' = "recorded"
        <3>1. CASE Publishes(phase, event, phase, "recorded")
            BY <2>3, <3>1, PublishesFields
        <3>2. CASE ReplaysIt(event, phase, "recorded")
            BY <2>3, <3>2 DEF ReplaysIt, Replays
        <3> QED BY <2>4, <3>1, <3>2
    <2>6. Backed(file', pc', engine')
        BY <1>0, <1>1, <2>5 DEF Backed
    <2>7. PlaceBacked(pc', then', file')
        BY <2>1, <2>5 DEF PlaceBacked, Recording
    <2>8. LookedAt(pc', then', file', native', left')
        BY <1>0, <2>1, <2>5 DEF LookedAt, Recording
    <2> QED BY <1>1, <1>2, <2>1, <2>6, <2>7, <2>8 DEF Whole
<1>12. CASE ReportCoverage
    <2>1. /\ pc = "turns" /\ left = {} /\ Ends /\ UNCHANGED <<native, left>>
          /\ coverage' = "complete" => \A t \in Turns : native[t] # 0
        BY <1>12, EndIs DEF ReportCoverage
    <2>2. ASSUME NEW t \in Turns, native[t] # 0
          PROVE  Delivered(engine, t, native[t])
        <3>1. file.ledger[t].hash = native[t]
            BY <1>0, <2>1, <2>2 DEF LookedAt
        <3>2. file.ledger[t] # NoEntry
            BY <2>2, <3>1 DEF NoEntry
        <3> QED BY <1>0, <3>1, <3>2 DEF Backed
    <2>3. Reported(coverage', "idle", native', engine')
        BY <1>1, <2>1, <2>2 DEF Reported
    <2> QED BY <1>5, <2>1, <2>3
<1>13. ASSUME NEW t \in Turns, NextTurn(t)
       PROVE  Whole'
    BY <1>13, NextTurnWhole
<1> QED BY <1>6, <1>7, <1>8, <1>9, <1>10, <1>11, <1>12, <1>13 DEF Reconcile

\* The invariant, as long as no command stopped between an intent and its batch.
WholeInv == "torn" \in mishaps \/ Whole

LEMMA WholeInvInit == TelemetryInit => WholeInv
BY DEF TelemetryInit, WholeInv, Whole, Backed, PlaceBacked, LookedAt, Reported, Recording, Absent

LEMMA WholeInvNext == TypeInv /\ HostInv /\ WholeInv /\ [TelemetryNext]_telemetryVars => WholeInv'
<1>1. ASSUME TypeInv, HostInv, WholeInv, TelemetryNext, "torn" \notin mishaps'
      PROVE  Whole'
    <2>1. Whole /\ ~(pc = "usage" /\ pc' \notin {"usage", "submit"})
        BY <1>1 DEF TelemetryNext, WholeInv, Mishaps, Happens
    <2>2. ASSUME NEW t \in Turns, RecordUsage(t)
          PROVE  Whole'
        BY <2>1, <2>2 DEF RecordUsage, command, Whole
    <2>3. CASE Reconcile
        <3>1. pc = "usage" => PublishUsage
            BY <2>3 DEF Reconcile, ReconcileThread, ThreadPublished, ReconcileIntent, Record, Collect,
                        ReportCoverage, NextTurn
        <3>2. PublishUsage => pc' # "usage"
            <4>1. PublishUsage => pc' \in {"submit", "idle"}
                BY DEF PublishUsage, Publish, PublishPending, End, GoOn
            <4> QED BY <4>1
        <3> QED BY <1>1, <2>1, <2>3, <3>1, <3>2, ReconcileWhole
    <2>4. CASE Crash
        <3>1. pc # "usage"
            BY <2>1, <2>4 DEF Crash, End, GoOn
        <3> QED BY <1>1, <2>1, <2>4, <3>1, RepliesWhole
    <2> QED BY <1>1, <2>1, <2>2, <2>3, <2>4, StartsWhole, RepliesWhole DEF TelemetryNext
<1>2. TelemetryNext => mishaps \subseteq mishaps'
    BY DEF TelemetryNext
<1>3. ASSUME WholeInv, UNCHANGED telemetryVars
      PROVE  WholeInv'
    BY <1>3 DEF telemetryVars, command, WholeInv, Whole
<1> QED BY <1>1, <1>2, <1>3 DEF WholeInv

-----------------------------------------------------------------------------
(***************************************************************************)
(* What goes wrong with a dispatch has one cause each, for any turns,      *)
(* observations and records: revisions disagree only after an observation  *)
(* was pending beside an intent, a complete coverage is not published only *)
(* after a command stopped between an intent and its batch, and a phase    *)
(* cannot be retried only after the batch that leads out of it was         *)
(* refused.                                                                *)
(***************************************************************************)
THEOREM HarmHasItsCause == TelemetrySpec => []HarmHasCause
<1>1. TelemetrySpec => [](TypeInv /\ PhaseInv /\ HostInv /\ RetryInv /\ WholeInv)
    BY TypeInvInit, TypeInvNext, PhaseInvInit, PhaseInvNext, HostInvInit, HostInvNext, RetryInvInit, RetryInvNext,
       WholeInvInit, WholeInvNext, PTL DEF TelemetrySpec
<1>2. AloneInv /\ RetryInv /\ WholeInv => HarmHasCause
    <2>1. Alone => RevisionsAgree
        BY DEF Alone, Agree, RevisionsAgree
    <2>2. Whole => CompleteIsPublished
        BY DEF Whole, Reported, Delivered, CompleteIsPublished
    <2> QED BY <2>1, <2>2 DEF AloneInv, RetryInv, WholeInv, HarmHasCause
<1> QED BY <1>1, <1>2, AloneInvHolds, PTL
=============================================================================
