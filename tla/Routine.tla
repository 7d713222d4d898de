------------------------------- MODULE Routine -------------------------------
(***************************************************************************)
(* The routine-eligibility check of one pull request: a run fetches a      *)
(* bounded history of the default branch and of the pull request, both of  *)
(* which move meanwhile, the envelope                                      *)
(* (check-routine-eligibility-envelope.py) decides what the change is      *)
(* measured from, and check-claim-generation.py judges the marker of the   *)
(* pull request by the policy of the live base.                            *)
(*                                                                         *)
(* The commits there may ever be, with their trees and policies, are       *)
(* constants; what moves is the branches and what a run knows of them.  A  *)
(* body is the sequence of its markers: the head it names, 0 if it names   *)
(* none, its operation, and whether it repeats a field.                    *)
(*                                                                         *)
(* Runs only read what others write, so one run at a time, started on any  *)
(* event of the past, stands for all of them: a re-run replays the payload *)
(* of its event, and a cancelled run is one that goes no further.          *)
(*                                                                         *)
(* External: pushes, edits and the default branch.                         *)
(***************************************************************************)
EXTENDS Integers, Sequences, FiniteSets

CONSTANTS
    Commits,            \* numbered from their roots
    Parents,            \* the parents of each commit
    Trees,              \* the tree of each commit
    Policies,           \* the routine policy at each commit
    BaseTips,           \* commits the default branch may point to
    HeadTips,           \* commits the pull request may point to
    Bodies,             \* bodies of the pull request
    BaseDeepenings,     \* what the fetch deepens by until the base is connected
    ParentDeepenings,   \* what it deepens by until the push parent is proven
    MaxEvents           \* bound: events of the pull request

ASSUME RoutineAssumption ==
    /\ Commits \subseteq Nat \ {0} /\ IsFiniteSet(Commits)
    /\ Parents \in [Commits -> SUBSET Commits]
    /\ \A c \in Commits : \A p \in Parents[c] : p < c
    /\ BaseTips \subseteq Commits /\ HeadTips \subseteq Commits
    /\ \A c \in Commits : Policies[c].active \in BOOLEAN
    /\ BaseDeepenings \in Seq(Nat) /\ ParentDeepenings \in Seq(Nat)

VARIABLES
    base,       \* the tip of the default branch
    head,       \* the tip of the pull request
    body,       \* its body
    events,     \* payloads of the events so far
    run,        \* the run
    live        \* history: tips of the default branch while the run lasts

github == <<base, head, body, events>>
routineVars == <<github, run, live>>

-----------------------------------------------------------------------------
(***************************************************************************)
(* What git answers in a shallow repository: `full` are the commits whose  *)
(* parents were fetched.  A set is closed if it has the parents that were  *)
(* fetched of its commits; an ancestor of a commit is in every closed set  *)
(* that has the commit.                                                    *)
(***************************************************************************)
Closed(full) == {s \in SUBSET Commits : \A c \in s \cap full : Parents[c] \subseteq s}

Ancestry ==
    {q \in [full : SUBSET Commits, ancestor : Commits, of : Commits] :
        \A s \in Closed(q.full) : q.of \in s => q.ancestor \in s}

IsAncestorMutant(full, a, c) == [full |-> full, ancestor |-> a, of |-> c] \in Ancestry \/ c \notin full

\* Missing history is never an ancestor.
IsAncestor(full, a, c) == [full |-> full, ancestor |-> a, of |-> c] \in Ancestry

MergeBases(full, a, b) ==
    LET common == {c \in Commits : IsAncestor(full, c, a) /\ IsAncestor(full, c, b)}
    IN {c \in common : \A d \in common \ {c} : ~IsAncestor(full, c, d)}

\* The commits less than n steps below the tips.
Within(tips, n) ==
    LET level[i \in 0 .. n] ==
            IF i = 0 THEN {}
            ELSE IF i = 1 THEN tips
            ELSE level[i - 1] \cup UNION {Parents[c] : c \in level[i - 1]}
    IN {c \in Commits : c \in level[n]}

-----------------------------------------------------------------------------
Payload(action, before, to, text) ==
    [action |-> action, base |-> base, before |-> before, head |-> to, body |-> text]

Resting ==
    [pc |-> "idle", event |-> Payload("none", 0, 0, <<>>), base |-> 0, head |-> 0, observed |-> 0,
     full |-> {}, depth |-> 0, tried |-> 0, previous |-> 0, from |-> 0, verdict |-> "none"]

RoutineInit ==
    /\ base \in BaseTips
    /\ head \in HeadTips
    /\ body \in Bodies
    /\ events = {Payload("opened", 0, head, body)}
    /\ run = [Resting EXCEPT !.event = Payload("opened", 0, head, body)]
    /\ live = {}

\* The default branch moves, forward or by force.
BaseMoves(to) ==
    /\ to # base
    /\ base' = to
    /\ live' = IF run.pc \in {"idle", "done"} THEN live ELSE live \cup {to}
    /\ UNCHANGED <<head, body, events, run>>

Push(to) ==
    /\ Cardinality(events) < MaxEvents
    /\ to # head
    /\ head' = to
    /\ events' = events \cup {Payload("synchronize", head, to, body)}
    /\ UNCHANGED <<base, body, run, live>>

Edit(text) ==
    /\ Cardinality(events) < MaxEvents
    /\ text # body
    /\ body' = text
    /\ events' = events \cup {Payload("edited", 0, head, text)}
    /\ UNCHANGED <<base, head, run, live>>

-----------------------------------------------------------------------------
Goes(r) == run' = r /\ UNCHANGED <<github, live>>

\* Only the tips and the verdict of a run outlast it.
Ends(from, verdict) ==
    Goes([Resting EXCEPT !.pc = "done", !.event = run.event, !.base = run.base, !.head = run.head,
                         !.from = from, !.verdict = verdict])

\* A run starts on an event, or again on the payload of an old one.
RunStarts(event) ==
    /\ run.pc \in {"idle", "done"}
    /\ run' = [Resting EXCEPT !.pc = "fetch", !.event = event]
    /\ live' = {base}
    /\ UNCHANGED github

\* fetch_routine_refs reads both branches where they are now.
Fetched(r, deepening) ==
    [r EXCEPT !.base = base, !.head = head, !.depth = @ + deepening,
              !.full = @ \cup Within({base, head}, r.depth + deepening - 1)]

Fetch ==
    /\ run.pc = "fetch"
    /\ \/ Ends(0, "failed")
       \/ Goes([Fetched(run, 1) EXCEPT
                    !.observed = base,
                    !.pc = IF base # run.event.base THEN "connect" ELSE "parent"])

Connected(r) ==
    /\ IsAncestor(r.full, r.event.base, r.base)
    /\ MergeBases(r.full, r.base, r.head) # {}

SettledMutant(r) == [r EXCEPT !.observed = r.base, !.pc = "parent"]

\* The base is observed after the last fetch that was meant to connect it.
Settled(r) == [r EXCEPT !.observed = r.base, !.tried = 0, !.pc = "parent"]

Connect ==
    /\ run.pc = "connect"
    /\ IF run.tried = Len(BaseDeepenings) \/ Connected(run)
       THEN Goes(Settled(run))
       ELSE \/ Goes(Settled(run))     \* the fetch fails
            \/ Goes([Fetched(run, BaseDeepenings[run.tried + 1]) EXCEPT !.tried = @ + 1])

\* The push parent is offered only on a push that added commits to it.
Offer ==
    /\ run.pc = "parent"
    /\ LET proven == IsAncestor(run.full, run.event.before, run.head) IN
       IF run.event.action # "synchronize"
       THEN Goes([run EXCEPT !.pc = "judge"])
       ELSE IF proven
       THEN Goes([run EXCEPT !.previous = run.event.before, !.pc = "judge"])
       ELSE \/ Goes([run EXCEPT !.pc = "judge"])     \* no deepening is left, or the fetch fails
            \/ /\ run.tried < Len(ParentDeepenings)
               /\ Goes([Fetched(run, ParentDeepenings[run.tried + 1]) EXCEPT !.tried = @ + 1])

-----------------------------------------------------------------------------
DiffBaseMutant(r) == {r.base}

(***************************************************************************)
(* diff_base: the commits the change may be measured from, none if it      *)
(* refuses.                                                                *)
(***************************************************************************)
DiffBase(r) ==
    LET bases == MergeBases(r.full, r.base, r.event.head) IN
    IF r.base = r.event.base THEN {r.event.base}
    ELSE IF /\ IsAncestor(r.full, r.event.base, r.base)
            /\ ~IsAncestor(r.full, r.event.head, r.base)
            /\ Cardinality(bases) = 1
    THEN bases
    ELSE {}

\* The workflow's own checks, of the base it observed, and then the envelope's.
Enveloped(r) ==
    /\ r.head = r.event.head
    /\ r.observed # r.event.base =>
        /\ IsAncestor(r.full, r.event.base, r.observed)
        /\ ~IsAncestor(r.full, r.event.head, r.observed)
    /\ r.previous # 0 =>
        r.previous # r.event.head /\ IsAncestor(r.full, r.previous, r.event.head)
    /\ DiffBase(r) # {}

\* routine_is_ancestor: the validator proves the push parent again.
Reproven(r) == r.previous # 0 /\ IsAncestor(r.full, r.previous, r.event.head)

\* The marker names the head, or provisionally the push parent.
Provisional(r, marker) ==
    /\ marker.head # r.event.head
    /\ marker.head = r.previous
    /\ Reproven(r)

PolicyMutant(r) == Policies[r.event.base]

\* load_routine_policy: from the live base.
Policy(r) == Policies[r.base]

\* marker_fields: exactly one marker, with its fields and none of them twice.
MarkerFinding(text) ==
    IF Len(text) # 1 THEN "routine-missing"
    ELSE IF text[1].repeats THEN "routine-ambiguous"
    ELSE IF text[1].head = 0 THEN "routine-missing"
    ELSE "none"

\* routine_changed_paths.
Unchanged(r, from) == Trees[from] = Trees[r.event.head]

\* evaluate_routine on a change measured from `from`.
Evaluate(r, from) ==
    LET marker == r.event.body[1]
        permitted == Policy(r).allowed \ Policy(r).protected
    IN
    IF ~Policy(r).active THEN "refused"
    ELSE IF MarkerFinding(r.event.body) # "none" THEN MarkerFinding(r.event.body)
    ELSE IF marker.head # r.event.head /\ ~Provisional(r, marker) THEN "routine-changed-head"
    ELSE IF marker.operation \notin permitted THEN "routine-protected-operation"
    ELSE IF Unchanged(r, from) THEN "routine-empty"
    ELSE IF Provisional(r, marker) THEN "provisional"
    ELSE "admitted"

Judge ==
    /\ run.pc = "judge"
    /\ IF Enveloped(run)
       THEN \E from \in DiffBase(run) : Ends(from, Evaluate(run, from))
       ELSE Ends(0, "failed")

RoutineNext ==
    \/ \E to \in BaseTips : BaseMoves(to)
    \/ \E to \in HeadTips : Push(to)
    \/ \E text \in Bodies : Edit(text)
    \/ \E event \in events : RunStarts(event)
    \/ Fetch \/ Connect \/ Offer \/ Judge

RoutineSpec == RoutineInit /\ [][RoutineNext]_routineVars

-----------------------------------------------------------------------------
Verdicts ==
    {"none", "failed", "refused", "routine-missing", "routine-ambiguous", "routine-changed-head",
     "routine-protected-operation", "routine-empty", "provisional", "admitted"}
Events ==
    [action : {"opened", "synchronize", "edited"}, base : BaseTips, before : HeadTips \cup {0},
     head : HeadTips, body : Bodies]

\* Types of all variables; each of the two loops deepens at most as often as it may, and
\* no run is judged that has not seen both branches.
RoutineTypeOK ==
    /\ base \in BaseTips /\ head \in HeadTips /\ body \in Bodies
    /\ events \subseteq Events
    /\ run.pc \in {"idle", "fetch", "connect", "parent", "judge", "done"}
    /\ run.event \in Events
    /\ run.base \in BaseTips \cup {0} /\ run.observed \in BaseTips \cup {0}
    /\ run.head \in HeadTips \cup {0} /\ run.previous \in HeadTips \cup {0}
    /\ run.from \in Commits \cup {0}
    /\ run.full \subseteq Commits
    /\ run.depth \in Nat
    /\ run.tried \in 0 .. Len(IF run.pc = "connect" THEN BaseDeepenings ELSE ParentDeepenings)
    /\ run.pc = "judge" => run.base # 0 /\ run.observed # 0 /\ run.head # 0
    /\ run.verdict \in Verdicts
    /\ live \subseteq BaseTips

Green == run.verdict \in {"provisional", "admitted"}

\* What is so in the whole history.
Descends(c, a) == IsAncestor(Commits, a, c)

(***************************************************************************)
(* A green is bound to the head the event named: its marker names that     *)
(* head, or the head that this very push added commits to, whatever was    *)
(* pushed, forced or edited while the run fetched, however little history  *)
(* it got, and also when an old event is run again.                        *)
(***************************************************************************)
GreenIsBound ==
    Green =>
        LET named == run.event.body[1].head IN
        /\ run.head = run.event.head
        /\ \/ named = run.event.head
           \/ /\ run.event.action = "synchronize" /\ named = run.event.before
              /\ Descends(run.event.head, named)

(***************************************************************************)
(* A green was measured from a commit that both branches really share, on  *)
(* a base that descends from the event's; the exact base of the event is   *)
(* used only while it is the tip.                                          *)
(***************************************************************************)
GreenIsMeasured ==
    Green =>
        /\ Descends(run.base, run.event.base)
        /\ \/ run.base = run.event.base /\ run.from = run.base
           \/ Descends(run.base, run.from) /\ Descends(run.event.head, run.from)

(***************************************************************************)
(* "A re-run therefore never reuses a stale base": the policy that allowed *)
(* a green was the default branch's at some moment of this very run.       *)
(***************************************************************************)
GreenIsLive ==
    Green =>
        \E tip \in live :
            /\ Policies[tip].active
            /\ run.event.body[1].operation \in Policies[tip].allowed \ Policies[tip].protected
            /\ Descends(tip, run.event.base)
=============================================================================
