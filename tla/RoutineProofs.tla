---------------------------- MODULE RoutineProofs ----------------------------
(***************************************************************************)
(* Theorems about the routine-eligibility check, for any history, branch   *)
(* tips, policies, bodies, deepenings and any number of events.            *)
(***************************************************************************)
EXTENDS Routine, TLAPS

-----------------------------------------------------------------------------
(***************************************************************************)
(* Ancestry in a history that is known in part.                            *)
(***************************************************************************)

\* Ancestors are commits.
LEMMA AncestorsAreCommits ==
    ASSUME NEW full \in SUBSET Commits, NEW a, NEW c, IsAncestor(full, a, c)
    PROVE  a \in Commits /\ c \in Commits
BY DEF IsAncestor, Ancestry

\* A commit is its own ancestor.
LEMMA OwnAncestor ==
    ASSUME NEW full \in SUBSET Commits, NEW c \in Commits
    PROVE  IsAncestor(full, c, c)
BY DEF IsAncestor, Ancestry

\* What more history closes, less history closes.
LEMMA ClosedShrinks ==
    ASSUME NEW less \in SUBSET Commits, NEW more \in SUBSET Commits, less \subseteq more
    PROVE  Closed(more) \subseteq Closed(less)
BY DEF Closed

\* An ancestor in a part of the history is one in the whole.
LEMMA AncestryIsTrue ==
    ASSUME NEW full \in SUBSET Commits, NEW a, NEW c, IsAncestor(full, a, c)
    PROVE  Descends(c, a)
<1>1. a \in Commits /\ c \in Commits
    BY AncestorsAreCommits
<1>2. \A s \in Closed(full) : c \in s => a \in s
    BY <1>1 DEF IsAncestor, Ancestry
<1>3. Closed(Commits) \subseteq Closed(full)
    BY ClosedShrinks
<1>4. \A s \in Closed(Commits) : c \in s => a \in s
    BY <1>2, <1>3
<1> QED BY <1>1, <1>4 DEF Descends, IsAncestor, Ancestry

\* Merge bases are commits that both sides share.
LEMMA MergeBasesAreShared ==
    ASSUME NEW full \in SUBSET Commits, NEW a, NEW b, NEW c \in MergeBases(full, a, b)
    PROVE  c \in Commits /\ Descends(a, c) /\ Descends(b, c)
<1>1. c \in Commits /\ IsAncestor(full, c, a) /\ IsAncestor(full, c, b)
    BY DEF MergeBases
<1> QED BY <1>1, AncestryIsTrue

-----------------------------------------------------------------------------
(***************************************************************************)
(* The inductive invariant.                                                *)
(***************************************************************************)
Runs ==
    [pc : {"idle", "fetch", "connect", "parent", "judge", "done"}, event : Events,
     base : BaseTips \cup {0}, head : HeadTips \cup {0}, observed : BaseTips \cup {0},
     full : SUBSET Commits, depth : Nat, tried : Nat, previous : HeadTips \cup {0},
     from : Commits \cup {0}, verdict : Verdicts]

\* Types of what others write.
GithubType ==
    /\ base \in BaseTips /\ head \in HeadTips /\ body \in Bodies
    /\ events \subseteq Events
    /\ live \subseteq BaseTips

(***************************************************************************)
(* The place of a run tells what it has: before its first fetch nothing,   *)
(* and no verdict before its end.  A previous head is the event's, and was *)
(* pushed upon.                                                            *)
(***************************************************************************)
RunFits(r) ==
    /\ r \in Runs
    /\ r.pc \in {"idle", "fetch"} => r.tried = 0
    /\ r.pc = "connect" => r.tried <= Len(BaseDeepenings)
    /\ r.pc # "connect" => r.tried <= Len(ParentDeepenings)
    /\ r.pc \in {"connect", "parent", "judge"} => r.base # 0 /\ r.observed # 0 /\ r.head # 0
    /\ r.previous # 0 => r.event.action = "synchronize" /\ r.previous = r.event.before
    /\ r.pc # "done" => r.verdict = "none"

\* A base that a run has read was live while it ran, and so is the tip as long as it runs.
BaseIsLive ==
    /\ run.pc \notin {"idle", "done"} => base \in live
    /\ run.pc \in {"connect", "parent", "judge"} => run.base \in live

RoutineInv ==
    /\ GithubType
    /\ RunFits(run)
    /\ BaseIsLive
    /\ GreenIsBound /\ GreenIsMeasured /\ GreenIsLive

\* The tips are commits, and no commit is 0.
LEMMA Bounds ==
    /\ BaseTips \subseteq Commits /\ HeadTips \subseteq Commits /\ Commits \subseteq Nat \ {0}
    /\ BaseDeepenings \in Seq(Nat) /\ ParentDeepenings \in Seq(Nat)
    /\ Len(BaseDeepenings) \in Nat /\ Len(ParentDeepenings) \in Nat
    /\ \A i \in 1 .. Len(BaseDeepenings) : BaseDeepenings[i] \in Nat
    /\ \A i \in 1 .. Len(ParentDeepenings) : ParentDeepenings[i] \in Nat
BY RoutineAssumption

\* The invariant has the types.
LEMMA FitsType == GithubType /\ RunFits(run) => RoutineTypeOK
BY Bounds DEF GithubType, RunFits, Runs, RoutineTypeOK

\* Payloads are events.
LEMMA PayloadType ==
    ASSUME GithubType, NEW action \in {"opened", "synchronize", "edited"},
           NEW before \in HeadTips \cup {0}, NEW to \in HeadTips, NEW text \in Bodies
    PROVE  Payload(action, before, to, text) \in Events
BY DEF GithubType, Payload, Events

\* It holds at first.
LEMMA RoutineInvInit == RoutineInit => RoutineInv
<1> SUFFICES ASSUME RoutineInit PROVE RoutineInv
    OBVIOUS
<1>1. Payload("opened", 0, head, body) \in Events
    BY DEF RoutineInit, Payload, Events
<1>2. GithubType
    BY <1>1 DEF RoutineInit, GithubType
<1>3. RunFits(run)
    BY <1>1, Bounds DEF RoutineInit, RunFits, Runs, Resting, Verdicts
<1>4. run.pc = "idle" /\ run.verdict = "none"
    BY DEF RoutineInit, Resting
<1> QED
    BY <1>2, <1>3, <1>4 DEF RoutineInv, BaseIsLive, Green, GreenIsBound, GreenIsMeasured, GreenIsLive

\* Others leave the run alone, and `live` only grows.
LEMMA OthersKeep ==
    ASSUME RoutineInv, GithubType', run' = run, live \subseteq live',
           run.pc \notin {"idle", "done"} => base' \in live'
    PROVE  RoutineInv'
<1>1. RunFits(run)' /\ BaseIsLive'
    BY DEF RoutineInv, BaseIsLive
<1>2. GreenIsBound' /\ GreenIsMeasured' /\ GreenIsLive'
    BY DEF RoutineInv, Green, GreenIsBound, GreenIsMeasured, GreenIsLive
<1> QED BY <1>1, <1>2 DEF RoutineInv

\* Branches and bodies that change.
LEMMA OthersStep ==
    ASSUME RoutineInv,
           \/ \E to \in BaseTips : BaseMoves(to)
           \/ \E to \in HeadTips : Push(to)
           \/ \E text \in Bodies : Edit(text)
    PROVE  RoutineInv'
<1>0. GithubType /\ BaseIsLive
    BY DEF RoutineInv
<1>1. ASSUME NEW to \in BaseTips, BaseMoves(to)
      PROVE  RoutineInv'
    <2>1. GithubType' /\ run' = run /\ live \subseteq live'
        BY <1>0, <1>1 DEF BaseMoves, GithubType
    <2>2. run.pc \notin {"idle", "done"} => base' \in live'
        BY <1>1 DEF BaseMoves
    <2> QED BY <2>1, <2>2, OthersKeep
<1>2. ASSUME NEW to \in HeadTips, Push(to)
      PROVE  RoutineInv'
    <2>1. Payload("synchronize", head, to, body) \in Events
        BY <1>0, PayloadType DEF GithubType
    <2>2. GithubType' /\ run' = run /\ live' = live /\ base' = base
        BY <1>0, <1>2, <2>1 DEF Push, GithubType
    <2> QED BY <1>0, <2>2, OthersKeep DEF BaseIsLive
<1>3. ASSUME NEW text \in Bodies, Edit(text)
      PROVE  RoutineInv'
    <2>1. Payload("edited", 0, head, text) \in Events
        BY <1>0, PayloadType DEF GithubType
    <2>2. GithubType' /\ run' = run /\ live' = live /\ base' = base
        BY <1>0, <1>3, <2>1 DEF Edit, GithubType
    <2> QED BY <1>0, <2>2, OthersKeep DEF BaseIsLive
<1> QED BY <1>1, <1>2, <1>3

-----------------------------------------------------------------------------
\* A run that goes on is not green yet; it needs only fit, on a base that was live.
LEMMA GoesOn ==
    ASSUME RoutineInv, NEW r, Goes(r), RunFits(r), r.pc \notin {"idle", "done"}, run.pc # "idle", run.pc # "done",
           r.pc \in {"connect", "parent", "judge"} => r.base \in live
    PROVE  RoutineInv'
<1>1. run' = r /\ live' = live /\ base' = base /\ GithubType'
    BY DEF Goes, github, RoutineInv, GithubType
<1>2. BaseIsLive' /\ RunFits(run')
    BY <1>1 DEF RoutineInv, BaseIsLive
<1>3. ~Green'
    BY <1>1 DEF RunFits, Green
<1> QED BY <1>1, <1>2, <1>3 DEF RoutineInv, GreenIsBound, GreenIsMeasured, GreenIsLive

\* A run that ends with its tips and a verdict.
Ended(r, from, verdict) ==
    [Resting EXCEPT !.pc = "done", !.event = r.event, !.base = r.base, !.head = r.head,
                    !.from = from, !.verdict = verdict]

LEMMA EndedFields ==
    ASSUME NEW r, NEW from, NEW verdict
    PROVE  /\ Ended(r, from, verdict).pc = "done" /\ Ended(r, from, verdict).event = r.event
           /\ Ended(r, from, verdict).base = r.base /\ Ended(r, from, verdict).head = r.head
           /\ Ended(r, from, verdict).from = from /\ Ended(r, from, verdict).verdict = verdict
BY DEF Ended, Resting

\* It is a run that fits.
LEMMA EndedFits ==
    ASSUME NEW r, RunFits(r), NEW from \in Commits \cup {0}, NEW verdict \in Verdicts
    PROVE  RunFits(Ended(r, from, verdict))
<1>1. /\ r.event \in Events /\ r.base \in BaseTips \cup {0} /\ r.head \in HeadTips \cup {0}
    BY DEF RunFits, Runs
<1>2. Ended(r, from, verdict).tried = 0 /\ Ended(r, from, verdict).previous = 0
    BY DEF Ended, Resting
<1>3. Ended(r, from, verdict) \in Runs
    BY <1>1 DEF Ended, Resting, Runs
<1> QED BY <1>2, <1>3, EndedFields, Bounds DEF RunFits

\* What an end leaves to be shown: the properties of a green.
LEMMA EndsFits ==
    ASSUME RoutineInv, NEW from \in Commits \cup {0}, NEW verdict \in Verdicts, Ends(from, verdict)
    PROVE  GithubType' /\ RunFits(run') /\ BaseIsLive' /\ run' = Ended(run, from, verdict) /\ live' = live
<1>1. run' = Ended(run, from, verdict) /\ live' = live /\ GithubType'
    BY DEF Ends, Goes, github, Ended, RoutineInv, GithubType
<1>2. RunFits(run')
    BY <1>1, EndedFits DEF RoutineInv
<1>3. (run').pc = "done"
    BY <1>1, EndedFields
<1> QED BY <1>1, <1>2, <1>3 DEF BaseIsLive

\* A run that fails is not green.
LEMMA Fails ==
    ASSUME RoutineInv, Ends(0, "failed")
    PROVE  RoutineInv'
<1>1. "failed" \in Verdicts
    BY DEF Verdicts
<1>2. GithubType' /\ RunFits(run)' /\ BaseIsLive' /\ run'.verdict = "failed"
    BY <1>1, EndsFits, EndedFields
<1> QED BY <1>2 DEF RoutineInv, Green, GreenIsBound, GreenIsMeasured, GreenIsLive

-----------------------------------------------------------------------------
\* The steps of a run.
LEMMA RunStartsStep ==
    ASSUME RoutineInv, NEW event \in events, RunStarts(event)
    PROVE  RoutineInv'
<1>1. event \in Events /\ base \in BaseTips
    BY DEF RoutineInv, GithubType
<1>2. /\ run' = [pc |-> "fetch", event |-> event, base |-> 0, head |-> 0, observed |-> 0,
                 full |-> {}, depth |-> 0, tried |-> 0, previous |-> 0, from |-> 0, verdict |-> "none"]
      /\ live' = {base} /\ base' = base
    BY DEF RunStarts, Resting, github
<1>3. GithubType'
    BY <1>1, <1>2 DEF RunStarts, github, RoutineInv, GithubType
<1>4. RunFits(run')
    BY <1>1, <1>2, Bounds DEF RunFits, Runs, Verdicts
<1>5. BaseIsLive'
    BY <1>2 DEF BaseIsLive
<1>6. ~Green'
    BY <1>2 DEF Green
<1> QED BY <1>3, <1>4, <1>5, <1>6 DEF RoutineInv, GreenIsBound, GreenIsMeasured, GreenIsLive

\* What a fetch brings.
LEMMA FetchedIs ==
    ASSUME GithubType, NEW r \in Runs, NEW n \in Nat
    PROVE  /\ Fetched(r, n) \in Runs
           /\ Fetched(r, n).base = base /\ Fetched(r, n).head = head
           /\ Fetched(r, n).pc = r.pc /\ Fetched(r, n).event = r.event /\ Fetched(r, n).observed = r.observed
           /\ Fetched(r, n).tried = r.tried /\ Fetched(r, n).previous = r.previous
           /\ Fetched(r, n).verdict = r.verdict
<1>1. Within({base, head}, r.depth + n - 1) \subseteq Commits
    BY DEF Within
<1>2. r \in Runs /\ r.depth + n \in Nat /\ base \in BaseTips /\ head \in HeadTips
    BY DEF Runs, GithubType
<1>3. Fetched(r, n) \in Runs
    <2>1. r.full \cup Within({base, head}, r.depth + n - 1) \in SUBSET Commits
        BY <1>1, <1>2 DEF Runs
    <2> QED BY <1>2, <2>1 DEF Fetched, Runs
<1>4. /\ Fetched(r, n).base = base /\ Fetched(r, n).head = head
      /\ Fetched(r, n).pc = r.pc /\ Fetched(r, n).event = r.event /\ Fetched(r, n).observed = r.observed
    BY <1>2 DEF Fetched, Runs
<1>5. /\ Fetched(r, n).tried = r.tried /\ Fetched(r, n).previous = r.previous
      /\ Fetched(r, n).verdict = r.verdict
    BY <1>2 DEF Fetched, Runs
<1> QED BY <1>3, <1>4, <1>5

LEMMA FetchStep ==
    ASSUME RoutineInv, Fetch
    PROVE  RoutineInv'
<1>0. GithubType /\ RunFits(run) /\ BaseIsLive /\ run.pc = "fetch" /\ run \in Runs
    BY DEF RoutineInv, RunFits, Fetch
<1>1. CASE Ends(0, "failed")
    BY <1>1, Fails
<1>2. CASE ~Ends(0, "failed")
    <2> DEFINE place == IF base # run.event.base THEN "connect" ELSE "parent"
               r == [Fetched(run, 1) EXCEPT !.observed = base, !.pc = place]
    <2>1. Goes(r)
        BY <1>2 DEF Fetch
    <2>2. /\ Fetched(run, 1) \in Runs
          /\ Fetched(run, 1).base = base /\ Fetched(run, 1).head = head
          /\ Fetched(run, 1).event = run.event /\ Fetched(run, 1).tried = run.tried
          /\ Fetched(run, 1).previous = run.previous /\ Fetched(run, 1).verdict = run.verdict
        BY <1>0, FetchedIs
    <2>3. place \in {"connect", "parent"} /\ base \in BaseTips /\ head \in HeadTips
        BY <1>0 DEF GithubType
    <2> HIDE DEF place
    <2>4. /\ r \in Runs /\ r.pc = place /\ r.base = base /\ r.head = head /\ r.observed = base
          /\ r.event = run.event /\ r.tried = run.tried /\ r.previous = run.previous /\ r.verdict = run.verdict
        BY <2>2, <2>3 DEF Runs
    <2> HIDE DEF r
    <2>5. base # 0 /\ head # 0
        BY <2>3, Bounds
    <2>6. RunFits(r)
        BY <1>0, <2>3, <2>4, <2>5, Bounds DEF RunFits
    <2>7. r.base \in live
        BY <1>0, <2>4 DEF BaseIsLive
    <2> QED BY <1>0, <2>1, <2>3, <2>4, <2>6, <2>7, GoesOn
<1> QED BY <1>1, <1>2

\* A further fetch, of a loop that has not used up its deepenings.
LEMMA DeepensStep ==
    ASSUME RoutineInv, run.pc \in {"connect", "parent"}, NEW n \in Nat,
           run.tried + 1 <= (IF run.pc = "connect" THEN Len(BaseDeepenings) ELSE Len(ParentDeepenings)),
           Goes([Fetched(run, n) EXCEPT !.tried = @ + 1])
    PROVE  RoutineInv'
<1> DEFINE r == [Fetched(run, n) EXCEPT !.tried = @ + 1]
<1>0. GithubType /\ RunFits(run) /\ BaseIsLive /\ run \in Runs /\ base \in BaseTips /\ head \in HeadTips
    BY DEF RoutineInv, RunFits, GithubType
<1>1. /\ Fetched(run, n) \in Runs
      /\ Fetched(run, n).base = base /\ Fetched(run, n).head = head /\ Fetched(run, n).pc = run.pc
      /\ Fetched(run, n).event = run.event /\ Fetched(run, n).observed = run.observed
      /\ Fetched(run, n).tried = run.tried
      /\ Fetched(run, n).previous = run.previous /\ Fetched(run, n).verdict = run.verdict
    BY <1>0, FetchedIs
<1>2. /\ r \in Runs /\ r.pc = run.pc /\ r.base = base /\ r.head = head /\ r.observed = run.observed
      /\ r.event = run.event /\ r.tried = run.tried + 1 /\ r.previous = run.previous
      /\ r.verdict = run.verdict
    BY <1>1 DEF Runs
<1>3. Goes(r)
    OBVIOUS
<1> HIDE DEF r
<1>4. base # 0 /\ head # 0
    BY <1>0, Bounds
<1>5. RunFits(r)
    BY <1>0, <1>2, <1>4, Bounds DEF RunFits
<1>6. r.base \in live
    BY <1>0, <1>2 DEF BaseIsLive
<1> QED BY <1>2, <1>3, <1>5, <1>6, GoesOn

LEMMA ConnectStep ==
    ASSUME RoutineInv, Connect
    PROVE  RoutineInv'
<1>0. /\ RunFits(run) /\ BaseIsLive /\ run \in Runs /\ run.pc = "connect" /\ run.tried \in Nat
      /\ run.tried <= Len(BaseDeepenings) /\ run.base \in BaseTips \cup {0} /\ run.base # 0
    BY DEF RoutineInv, RunFits, Runs, Connect
<1>1. CASE Goes(Settled(run))
    <2> DEFINE r == Settled(run)
    <2>1. /\ r \in Runs /\ r.pc = "parent" /\ r.base = run.base /\ r.head = run.head /\ r.observed = run.base
          /\ r.event = run.event /\ r.tried = 0 /\ r.previous = run.previous /\ r.verdict = run.verdict
        BY <1>0 DEF Settled, Runs
    <2>2. RunFits(r)
        BY <1>0, <2>1, Bounds DEF RunFits
    <2>3. r.base \in live
        BY <1>0, <2>1 DEF BaseIsLive
    <2> QED BY <1>0, <1>1, <2>1, <2>2, <2>3, GoesOn
<1>2. CASE ~Goes(Settled(run))
    <2>1. /\ run.tried # Len(BaseDeepenings)
          /\ Goes([Fetched(run, BaseDeepenings[run.tried + 1]) EXCEPT !.tried = @ + 1])
        BY <1>2 DEF Connect
    <2>2. run.tried + 1 \in 1 .. Len(BaseDeepenings)
        BY <1>0, <2>1, Bounds
    <2>3. BaseDeepenings[run.tried + 1] \in Nat
        BY <2>2, Bounds
    <2> QED BY <1>0, <2>1, <2>2, <2>3, DeepensStep
<1> QED BY <1>1, <1>2

LEMMA OfferStep ==
    ASSUME RoutineInv, Offer
    PROVE  RoutineInv'
<1>0. /\ RunFits(run) /\ BaseIsLive /\ run \in Runs /\ run.pc = "parent" /\ run.tried \in Nat
      /\ run.event \in Events /\ run.event.before \in HeadTips \cup {0} /\ run.base \in live
    BY DEF RoutineInv, RunFits, Runs, Offer, Events, BaseIsLive
<1>1. CASE Goes([run EXCEPT !.pc = "judge"])
    <2> DEFINE r == [run EXCEPT !.pc = "judge"]
    <2>1. /\ r \in Runs /\ r.pc = "judge" /\ r.base = run.base /\ r.head = run.head
          /\ r.observed = run.observed /\ r.event = run.event /\ r.tried = run.tried
          /\ r.previous = run.previous /\ r.verdict = run.verdict
        BY <1>0 DEF Runs
    <2> HIDE DEF r
    <2>2. RunFits(r)
        BY <1>0, <2>1 DEF RunFits
    <2> QED BY <1>0, <1>1, <2>1, <2>2, GoesOn DEF r
<1>2. CASE /\ run.event.action = "synchronize"
           /\ Goes([run EXCEPT !.previous = run.event.before, !.pc = "judge"])
    <2> DEFINE r == [run EXCEPT !.previous = run.event.before, !.pc = "judge"]
    <2>1. /\ r \in Runs /\ r.pc = "judge" /\ r.base = run.base /\ r.head = run.head
          /\ r.observed = run.observed /\ r.event = run.event /\ r.tried = run.tried
          /\ r.previous = run.event.before /\ r.verdict = run.verdict
        BY <1>0 DEF Runs
    <2> HIDE DEF r
    <2>2. RunFits(r)
        BY <1>0, <1>2, <2>1 DEF RunFits
    <2> QED BY <1>0, <1>2, <2>1, <2>2, GoesOn DEF r
<1>3. CASE /\ run.tried < Len(ParentDeepenings)
           /\ Goes([Fetched(run, ParentDeepenings[run.tried + 1]) EXCEPT !.tried = @ + 1])
    <2>1. run.tried + 1 \in 1 .. Len(ParentDeepenings)
        BY <1>0, <1>3, Bounds
    <2>2. ParentDeepenings[run.tried + 1] \in Nat
        BY <2>1, Bounds
    <2> QED BY <1>0, <1>3, <2>1, <2>2, DeepensStep
<1> QED BY <1>1, <1>2, <1>3 DEF Offer

-----------------------------------------------------------------------------
\* A change is measured from the event's own base or from a shared commit.
LEMMA DiffBaseIs ==
    ASSUME NEW r \in Runs, r.base # 0, NEW from \in DiffBase(r)
    PROVE  /\ from \in Commits /\ Descends(r.base, r.event.base)
           /\ \/ r.base = r.event.base /\ from = r.base
              \/ Descends(r.base, from) /\ Descends(r.event.head, from)
<1>0. r.base \in Commits /\ r.full \in SUBSET Commits
    BY Bounds DEF Runs
<1>1. CASE r.base = r.event.base
    BY <1>0, <1>1, OwnAncestor DEF DiffBase, Descends
<1>2. CASE r.base # r.event.base
    <2>1. from \in MergeBases(r.full, r.base, r.event.head) /\ IsAncestor(r.full, r.event.base, r.base)
        BY <1>2 DEF DiffBase
    <2> QED BY <1>0, <2>1, MergeBasesAreShared, AncestryIsTrue
<1> QED BY <1>1, <1>2

\* What evaluate_routine asked of a green.
LEMMA EvaluateIs ==
    ASSUME NEW r, NEW from
    PROVE  /\ Evaluate(r, from) \in Verdicts
           /\ Evaluate(r, from) \in {"provisional", "admitted"} =>
                /\ Policies[r.base].active
                /\ r.event.body[1].operation \in Policies[r.base].allowed \ Policies[r.base].protected
                /\ r.event.body[1].head = r.event.head \/ Provisional(r, r.event.body[1])
BY DEF Evaluate, MarkerFinding, Policy, Verdicts

LEMMA JudgeStep ==
    ASSUME RoutineInv, Judge
    PROVE  RoutineInv'
<1>0. /\ RunFits(run) /\ BaseIsLive /\ run \in Runs /\ run.pc = "judge" /\ run.base # 0
      /\ run.full \in SUBSET Commits /\ run.base \in live
    BY DEF RoutineInv, RunFits, Runs, Judge, BaseIsLive
<1>1. CASE ~Enveloped(run)
    BY <1>1, Fails DEF Judge
<1>2. CASE Enveloped(run)
    <2>1. PICK from \in DiffBase(run) : Ends(from, Evaluate(run, from))
        BY <1>2 DEF Judge
    <2>2. /\ from \in Commits /\ Descends(run.base, run.event.base)
          /\ \/ run.base = run.event.base /\ from = run.base
             \/ Descends(run.base, from) /\ Descends(run.event.head, from)
        BY <1>0, DiffBaseIs
    <2> DEFINE verdict == Evaluate(run, from)
    <2>3. /\ verdict \in Verdicts
          /\ verdict \in {"provisional", "admitted"} =>
                /\ Policies[run.base].active
                /\ run.event.body[1].operation \in Policies[run.base].allowed \ Policies[run.base].protected
                /\ run.event.body[1].head = run.event.head \/ Provisional(run, run.event.body[1])
        BY EvaluateIs
    <2>4. Ends(from, verdict)
        BY <2>1
    <2> HIDE DEF verdict
    <2>5. /\ GithubType' /\ RunFits(run') /\ BaseIsLive' /\ run' = Ended(run, from, verdict) /\ live' = live
        BY <2>2, <2>3, <2>4, EndsFits
    <2>6. /\ run'.event = run.event /\ run'.base = run.base /\ run'.head = run.head
          /\ run'.from = from /\ run'.verdict = verdict
        BY <2>5, EndedFields
    <2>7. GreenIsBound'
        <3>1. run.head = run.event.head
            BY <1>2 DEF Enveloped
        <3>2. ASSUME Provisional(run, run.event.body[1])
              PROVE  /\ run.event.action = "synchronize" /\ run.event.body[1].head = run.event.before
                     /\ Descends(run.event.head, run.event.body[1].head)
            <4>1. /\ run.event.body[1].head = run.previous /\ run.previous # 0
                  /\ IsAncestor(run.full, run.previous, run.event.head)
                BY <3>2 DEF Provisional, Reproven
            <4>2. run.event.action = "synchronize" /\ run.previous = run.event.before
                BY <1>0, <4>1 DEF RunFits
            <4> QED BY <1>0, <4>1, <4>2, AncestryIsTrue
        <3> QED BY <2>3, <2>6, <3>1, <3>2 DEF GreenIsBound, Green
    <2>8. GreenIsMeasured'
        BY <2>2, <2>6 DEF GreenIsMeasured
    <2>9. GreenIsLive'
        BY <1>0, <2>2, <2>3, <2>5, <2>6 DEF GreenIsLive, Green
    <2> QED BY <2>5, <2>7, <2>8, <2>9 DEF RoutineInv
<1> QED BY <1>1, <1>2

-----------------------------------------------------------------------------
LEMMA RoutineInvNext == RoutineInv /\ [RoutineNext]_routineVars => RoutineInv'
<1>1. ASSUME RoutineInv, RoutineNext
      PROVE  RoutineInv'
    BY <1>1, OthersStep, RunStartsStep, FetchStep, ConnectStep, OfferStep, JudgeStep DEF RoutineNext
<1>2. ASSUME RoutineInv, UNCHANGED routineVars
      PROVE  RoutineInv'
    BY <1>2 DEF routineVars, github, RoutineInv, GithubType, BaseIsLive, Green, GreenIsBound,
        GreenIsMeasured, GreenIsLive
<1> QED BY <1>1, <1>2

LEMMA RoutineInvariant == RoutineSpec => []RoutineInv
BY RoutineInvInit, RoutineInvNext, PTL DEF RoutineSpec

(***************************************************************************)
(* Types of all variables, and neither loop deepens more often than it     *)
(* may: for any history and any deepenings.                                *)
(***************************************************************************)
THEOREM RoutineTypeCorrect == RoutineSpec => []RoutineTypeOK
<1>1. RoutineInv => RoutineTypeOK
    BY FitsType DEF RoutineInv
<1> QED BY <1>1, RoutineInvariant, PTL

(***************************************************************************)
(* A green's marker names the event's head or the head this very push      *)
(* added to, whatever moved while the run fetched and however little of    *)
(* the history it has.                                                     *)
(***************************************************************************)
THEOREM GreenStaysBound == RoutineSpec => []GreenIsBound
<1>1. RoutineInv => GreenIsBound
    BY DEF RoutineInv
<1> QED BY <1>1, RoutineInvariant, PTL

(***************************************************************************)
(* A green was measured from a commit that both branches really share,     *)
(* whatever part of the history the merge base was found in.               *)
(***************************************************************************)
THEOREM GreenStaysMeasured == RoutineSpec => []GreenIsMeasured
<1>1. RoutineInv => GreenIsMeasured
    BY DEF RoutineInv
<1> QED BY <1>1, RoutineInvariant, PTL

\* The policy that allowed a green was the default branch's during that very run.
THEOREM GreenStaysLive == RoutineSpec => []GreenIsLive
<1>1. RoutineInv => GreenIsLive
    BY DEF RoutineInv
<1> QED BY <1>1, RoutineInvariant, PTL
=============================================================================
