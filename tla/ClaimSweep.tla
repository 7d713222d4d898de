------------------------------ MODULE ClaimSweep -----------------------------
(***************************************************************************)
(* The merge fence of check-claim-generation.py at work: workers take,     *)
(* renew and release claims on one item, pull requests that deliver it are *)
(* edited, pushed and merged, the required job judges them on such events, *)
(* and the scheduled sweep revokes verdicts that no longer hold.  Time     *)
(* passes, reads are retried and fail, and nothing happens at once.        *)
(*                                                                         *)
(* External: the comments, pull requests and check runs of the hosting     *)
(* service, its events and its merges, which need the latest check run of  *)
(* the head to be a success.  Comment ids are never used again.            *)
(***************************************************************************)
EXTENDS ClaimGate, FiniteSets

CONSTANTS
    PullRequests,   \* the open item/<n>- pull requests of the item
    Leases,         \* leases that claims declare
    AllSettings,    \* leases of the gate itself
    GhTries,        \* attempts of one read
    Latency,        \* bound: the time between the answer to a read and the clock read after it
    Unforeseen,     \* may reading a check run raise an exception that sweep_all does not name there?
    MaxHead,        \* bound: heads of a pull request
    MaxId,          \* bound: claims of the item
    MaxClock        \* bound: time

ASSUME ClaimSweepAssumption ==
    /\ Leases \subseteq Nat
    /\ AllSettings \subseteq [cli : Seq(Nat), env : Seq(Nat)]
    /\ GhTries \in Nat \ {0} /\ Latency \in Nat /\ Unforeseen \in BOOLEAN
    /\ MaxHead \in Nat \ {0} /\ MaxId \in Nat /\ MaxClock \in Nat

VARIABLES
    now,        \* the time
    claims,     \* the claims on the item
    nextId,     \* the id of its next comment
    pulls,      \* state, head and body of the pull requests
    checks,     \* the latest claim-generation check run of each head
    jobs,       \* the required job of each pull request
    sweep,      \* the scheduled sweep
    settings,   \* the gate's own lease
    steady,     \* history: claims that held the item, with time to spare, ever since the sweep took up its pull request
    rivals      \* history: claims that did so ever since the job of a pull request began

item == <<now, claims, nextId>>
sweepVars == <<item, pulls, checks, jobs, sweep, settings, steady, rivals>>

-----------------------------------------------------------------------------
Heads == 1 .. MaxHead
NoRun == [by |-> "none", conclusion |-> "none"]
Run(by, conclusion) == [by |-> by, conclusion |-> conclusion]
NoJob == [pc |-> "idle", conclusion |-> "none", due |-> 0]
Resting ==
    [pc |-> "idle", todo |-> {}, listed |-> [pr \in PullRequests |-> [head |-> 0, body |-> <<>>]],
     pr |-> "none", conclusion |-> "none", due |-> 0, tries |-> 0]

\* Clocks a reader may read after the answer that comes now.
Clocks == {t \in now .. now + Latency : t <= MaxClock}
Wait(t) == IF t = now THEN 0 ELSE t

ClaimSweepInit ==
    /\ now = 0
    /\ claims = {}
    /\ nextId = 1
    /\ pulls = [pr \in PullRequests |-> [state |-> "open", head |-> 1, body |-> <<>>]]
    /\ checks = [pr \in PullRequests |-> [h \in Heads |-> NoRun]]
    /\ jobs = [pr \in PullRequests |-> NoJob]
    /\ sweep = Resting
    /\ settings \in AllSettings
    /\ steady = {}
    /\ rivals = [pr \in PullRequests |-> {}]

-----------------------------------------------------------------------------
\* The workers and the clock.
Take(lease) ==
    /\ nextId <= MaxId
    /\ claims' = claims \cup {[id |-> nextId, at |-> now, lease |-> lease]}
    /\ nextId' = nextId + 1
    /\ UNCHANGED <<now, pulls, checks, jobs, sweep, settings>>

\* A heartbeat updates the comment.
Heartbeat(claim) ==
    /\ claim.at # now
    /\ claims' = (claims \ {claim}) \cup {[claim EXCEPT !.at = now]}
    /\ UNCHANGED <<now, nextId, pulls, checks, jobs, sweep, settings>>

\* Released, reaped or stolen: the comment is gone.
Release(claim) ==
    /\ claims' = claims \ {claim}
    /\ UNCHANGED <<now, nextId, pulls, checks, jobs, sweep, settings>>

Tick ==
    /\ now < MaxClock
    /\ now' = now + 1
    /\ UNCHANGED <<claims, nextId, pulls, checks, jobs, sweep, settings>>

-----------------------------------------------------------------------------
\* An event of a pull request, or a re-run, starts the required job anew.
Trigger(pr, pull) ==
    /\ pulls[pr].state = "open"
    /\ pulls' = [pulls EXCEPT ![pr] = pull]
    /\ checks' = [checks EXCEPT ![pr] = [@ EXCEPT ![pull.head] = Run("job", "none")]]
    /\ jobs' = [jobs EXCEPT ![pr] = [NoJob EXCEPT !.pc = "running"]]
    /\ UNCHANGED <<item, sweep, settings>>

\* Delivery, or an author by hand, writes the authorization.
Authorize(pr, gen) ==
    Trigger(pr, [pulls[pr] EXCEPT !.body = <<[complete |-> TRUE, gen |-> gen, head |-> pulls[pr].head]>>])

Push(pr) ==
    /\ pulls[pr].head < MaxHead
    /\ Trigger(pr, [pulls[pr] EXCEPT !.head = @ + 1])

Rerun(pr) ==
    /\ jobs[pr].pc = "idle"
    /\ Trigger(pr, pulls[pr])

Merge(pr) ==
    /\ pulls[pr].state = "open"
    /\ checks[pr][pulls[pr].head].conclusion = "success"
    /\ pulls' = [pulls EXCEPT ![pr].state = "merged"]
    /\ UNCHANGED <<item, checks, jobs, sweep, settings>>

Conclusion(result) == IF Exit(result) = 0 THEN "success" ELSE "failure"

Judged(pr, result, t) ==
    jobs' = [jobs EXCEPT ![pr] =
                [@ EXCEPT !.pc = "judged", !.conclusion = Conclusion(result), !.due = Wait(t)]]

\* main on the job's pull request: the comments are read, then the clock.
JobEvaluates(pr) ==
    /\ jobs[pr].pc = "running"
    /\ \E t \in Clocks :
        IF Usable(settings, t)
        THEN Judged(pr, Classify(pulls[pr].body, pulls[pr].head, claims, settings, t), t)
        ELSE Judged(pr, "refused", t)
    /\ UNCHANGED <<item, pulls, checks, sweep, settings>>

\* A read is forbidden, or fails until no attempt is left; nothing is read of a bad body.
JobFails(pr) ==
    /\ jobs[pr].pc = "running"
    /\ BodyFinding(pulls[pr].body, pulls[pr].head) = "none"
    /\ \E result \in {"forbidden", "unreachable"} : Judged(pr, result, now)
    /\ UNCHANGED <<item, pulls, checks, sweep, settings>>

\* The job ends with its exit code, in the check run it began.
JobEnds(pr) ==
    LET Concluded(run) ==
            IF run = Run("job", "none") THEN Run("job", jobs[pr].conclusion) ELSE run
    IN
    /\ jobs[pr].pc = "judged"
    /\ now >= jobs[pr].due
    /\ checks' = [checks EXCEPT ![pr][pulls[pr].head] = Concluded(@)]
    /\ jobs' = [jobs EXCEPT ![pr] = NoJob]
    /\ UNCHANGED <<item, pulls, sweep, settings>>

-----------------------------------------------------------------------------
AttemptFailsMutant(given_up) ==
    /\ sweep' = IF sweep.tries + 1 <= GhTries THEN [sweep EXCEPT !.tries = @ + 1] ELSE given_up
    /\ UNCHANGED <<item, pulls, checks, jobs, settings>>

\* One attempt of a read fails; the last one ends the read.
AttemptFails(given_up) ==
    /\ sweep' = IF sweep.tries + 1 < GhTries THEN [sweep EXCEPT !.tries = @ + 1] ELSE given_up
    /\ UNCHANGED <<item, pulls, checks, jobs, settings>>

\* On to the next pull request; nothing of this one is kept.
Following(s) ==
    [Resting EXCEPT !.pc = "next", !.todo = s.todo,
                    !.listed = [s.listed EXCEPT ![s.pr] = [head |-> 0, body |-> <<>>]]]

Goes(s) ==
    /\ sweep' = s
    /\ UNCHANGED <<item, pulls, checks, jobs, settings>>

SweepStarts ==
    /\ sweep.pc = "idle"
    /\ Usable(settings, now)
    /\ Goes([Resting EXCEPT !.pc = "list"])

\* open_item_prs: body and head of every open pull request, read once.
SweepLists ==
    /\ sweep.pc = "list"
    /\ LET open == {pr \in PullRequests : pulls[pr].state = "open"} IN
       Goes([Resting EXCEPT
                !.pc = "next",
                !.todo = open,
                !.listed = [pr \in PullRequests |->
                    IF pr \in open THEN [head |-> pulls[pr].head, body |-> pulls[pr].body]
                    ELSE Resting.listed[pr]]])

SweepCannotList ==
    /\ sweep.pc = "list"
    /\ \/ Goes(Resting)
       \/ AttemptFails(Resting)

SweepTakes(pr) ==
    /\ sweep.pc = "next"
    /\ pr \in sweep.todo
    /\ Goes([sweep EXCEPT !.pc = "evaluate", !.pr = pr, !.todo = @ \ {pr}])

SweepEvaluates ==
    /\ sweep.pc = "evaluate"
    /\ LET listed == sweep.listed[sweep.pr] IN
       \E t \in Clocks :
           Goes([sweep EXCEPT
                    !.pc = "standing",
                    !.conclusion = Conclusion(Classify(listed.body, listed.head, claims, settings, t)),
                    !.due = Wait(t),
                    !.tries = 0])

SweepSkipsMutant ==
    /\ sweep.pc = "evaluate"
    /\ BodyFinding(sweep.listed[sweep.pr].body, sweep.listed[sweep.pr].head) = "none"
    /\ AttemptFails([sweep EXCEPT !.pc = "standing", !.conclusion = "failure", !.tries = 0])

\* A failed read of the comments or of the check run, or a crash of the evaluation, which
\* the broad handler there catches: the standing verdict stands, and the sweep goes on.
SweepSkips ==
    /\ \/ /\ sweep.pc = "evaluate"
          /\ BodyFinding(sweep.listed[sweep.pr].body, sweep.listed[sweep.pr].head) = "none"
       \/ /\ sweep.pc = "standing"
          /\ now >= sweep.due
    /\ \/ Goes(Following(sweep))
       \/ AttemptFails(Following(sweep))

RevokesMutant(standing, conclusion) == standing.conclusion # conclusion

\* The one transition that may be published.
Revokes(standing, conclusion) == standing.conclusion = "success" /\ conclusion = "failure"

\* standing_conclusion, and the refusals.
SweepCompares ==
    /\ sweep.pc = "standing"
    /\ now >= sweep.due
    /\ IF Revokes(checks[sweep.pr][sweep.listed[sweep.pr].head], sweep.conclusion)
       THEN Goes([sweep EXCEPT !.pc = "post", !.due = 0, !.tries = 0])
       ELSE Goes(Following(sweep))

Posted ==
    [checks EXCEPT ![sweep.pr] =
        [@ EXCEPT ![sweep.listed[sweep.pr].head] = Run("sweep", sweep.conclusion)]]

SweepPosts ==
    /\ sweep.pc = "post"
    /\ checks' = Posted
    /\ sweep' = Following(sweep)
    /\ UNCHANGED <<item, pulls, jobs, settings>>

SweepCannotPost ==
    /\ sweep.pc = "post"
    /\ Goes(Following(sweep))

\* An exception that sweep_all does not name ends the sweep, whatever is left to do.
Escapes ==
    /\ sweep' = [Resting EXCEPT !.todo = sweep.todo]
    /\ UNCHANGED <<item, pulls, jobs, settings>>

\* gh_api_post does not catch its timeout, sweep_all does not either, whether or not
\* the check run was created; any other exception of the post does no more.
SweepTimesOut ==
    /\ sweep.pc = "post"
    /\ checks' \in {checks, Posted}
    /\ Escapes

\* The broad handler of the evaluation does not cover standing_conclusion: gh that
\* cannot be started, an answer that cannot be decoded.
SweepRaises ==
    /\ Unforeseen
    /\ sweep.pc = "standing"
    /\ now >= sweep.due
    /\ Escapes
    /\ UNCHANGED checks

SweepEnds ==
    /\ sweep.pc = "next"
    /\ sweep.todo = {}
    /\ Goes(Resting)

-----------------------------------------------------------------------------
\* Claims that hold the item with a read's latency to spare: one, or none.
Secure ==
    {k \in {claim.id : claim \in claims} :
        \A claim \in claims :
            /\ claim.id < k => Lapsed(claim, settings, now)
            /\ claim.id = k => ~Lapsed(claim, settings, now + Latency)}

\* History: those that do when something starts, until they do not.
Since(starts, goes_on, held, secure) ==
    IF starts THEN secure ELSE IF goes_on THEN held \cap secure ELSE {}

Judging(s) == s.pc \in {"evaluate", "standing", "post"}
JobStarts(pr) ==
    jobs'[pr].pc = "running" /\ (jobs[pr].pc # "running" \/ pulls'[pr] # pulls[pr])

Remember ==
    \E secure \in {Secure'} :
        /\ steady' = Since(Judging(sweep') /\ ~Judging(sweep), Judging(sweep'), steady, secure)
        /\ rivals' = [pr \in PullRequests |->
                        Since(JobStarts(pr), jobs'[pr].pc # "idle", rivals[pr], secure)]

Environment ==
    \/ \E lease \in Leases : Take(lease)
    \/ \E claim \in claims : Heartbeat(claim) \/ Release(claim)
    \/ Tick
    \/ \E pr \in PullRequests :
        \/ \E gen \in 1 .. nextId - 1 : Authorize(pr, gen)
        \/ Push(pr) \/ Rerun(pr) \/ Merge(pr)

Job(pr) == JobEvaluates(pr) \/ JobFails(pr) \/ JobEnds(pr)

Sweep ==
    \/ SweepStarts \/ SweepLists \/ SweepCannotList
    \/ \E pr \in PullRequests : SweepTakes(pr)
    \/ SweepEvaluates \/ SweepSkips \/ SweepCompares
    \/ SweepPosts \/ SweepCannotPost \/ SweepTimesOut \/ SweepRaises \/ SweepEnds

ClaimSweepNext ==
    /\ Environment \/ Sweep \/ \E pr \in PullRequests : Job(pr)
    /\ Remember

ClaimSweepSpec == ClaimSweepInit /\ [][ClaimSweepNext]_sweepVars

(***************************************************************************)
(* The schedule starts sweeps for ever and a sweep goes on.  A request may *)
(* fail, but not each time that it is made.                                *)
(***************************************************************************)
FairClaimSweepSpec ==
    /\ ClaimSweepSpec
    /\ WF_sweepVars(Tick /\ Remember)
    /\ WF_sweepVars(SweepStarts /\ Remember)
    /\ WF_sweepVars(SweepEnds /\ Remember)
    /\ SF_sweepVars(SweepLists /\ Remember)
    /\ \A pr \in PullRequests :
        /\ SF_sweepVars(SweepTakes(pr) /\ Remember)
        /\ SF_sweepVars(sweep.pr = pr /\ SweepEvaluates /\ Remember)
        /\ SF_sweepVars(sweep.pr = pr /\ SweepCompares /\ Remember)
        /\ SF_sweepVars(sweep.pr = pr /\ SweepPosts /\ Remember)

-----------------------------------------------------------------------------
Authorization == [complete : BOOLEAN, gen : 0 .. MaxId, head : Heads]
Bodies == {<<>>} \cup {<<a>> : a \in Authorization}
CheckRuns == [by : {"none", "job", "sweep"}, conclusion : {"none", "success", "failure"}]
\* Types of all variables.
SweepTypeOK ==
    /\ now \in 0 .. MaxClock
    /\ claims \subseteq [id : 1 .. nextId - 1, at : 0 .. now, lease : Leases]
    /\ nextId \in 1 .. MaxId + 1
    /\ pulls \in [PullRequests -> [state : {"open", "merged"}, head : Heads, body : Bodies]]
    /\ checks \in [PullRequests -> [Heads -> CheckRuns]]
    /\ jobs \in [PullRequests ->
                    [pc : {"idle", "running", "judged"}, conclusion : {"none", "success", "failure"}, due : 0 .. MaxClock]]
    /\ sweep \in [pc : {"idle", "list", "next", "evaluate", "standing", "post"},
                  todo : SUBSET PullRequests,
                  listed : [PullRequests -> [head : 0 .. MaxHead, body : Bodies]],
                  pr : PullRequests \cup {"none"}, conclusion : {"none", "success", "failure"},
                  due : 0 .. MaxClock, tries : 0 .. GhTries - 1]
    /\ settings \in AllSettings
    /\ steady \subseteq 1 .. nextId - 1
    /\ rivals \in [PullRequests -> SUBSET (1 .. nextId - 1)]

\* The generation that a body names for a head, if it names one.
Named(body, head) == IF BodyFinding(body, head) = "none" THEN {body[1].gen} ELSE {}

(***************************************************************************)
(* The refusals of sweep_all.  A check turns green only where its own job  *)
(* concludes; the sweep publishes failures, and only where the job has     *)
(* published before: it never originates or grants.                        *)
(***************************************************************************)
SweepOnlyRevokes ==
    [][\A pr \in PullRequests, h \in Heads :
        LET run == checks[pr][h] IN
        \/ checks'[pr][h] = run
        \/ checks'[pr][h] = Run("job", "none")
        \/ run = Run("job", "none") /\ checks'[pr][h].by = "job"
        \/ run # NoRun /\ checks'[pr][h] = Run("sweep", "failure")]_sweepVars

(***************************************************************************)
(* A holder who always renews in time keeps the green: whatever is         *)
(* retried, delayed or changed between the sweep's listing, its reads and  *)
(* its post, it never revokes a listed authorization whose claim has held  *)
(* the item, with a read's latency to spare, ever since the sweep took up  *)
(* its pull request.                                                       *)
(***************************************************************************)
SteadyIsNotRevoked ==
    [][\A pr \in PullRequests, h \in Heads :
        /\ checks'[pr][h] # checks[pr][h]
        /\ checks'[pr][h].by = "sweep"
        => Named(sweep.listed[pr].body, h) \cap steady = {}]_sweepVars

(***************************************************************************)
(* The incident the gate is for: an item that one claim has held, with a   *)
(* read's latency to spare, ever since the job began never gets a green    *)
(* for a pull request that names another, even when reads fail, claims     *)
(* come and go and the job's clock is late.                                *)
(***************************************************************************)
GreenIsExclusive ==
    [][\A pr \in PullRequests, h \in Heads :
        /\ checks'[pr][h] = Run("job", "success")
        /\ checks[pr][h] # Run("job", "success")
        => rivals[pr] \subseteq Named(pulls[pr].body, h)]_sweepVars

(***************************************************************************)
(* The reason for the sweep: a green whose claim has lapsed or was         *)
(* released, which no event of the pull request reveals, does not stand    *)
(* for ever, although each of the sweep's requests may fail many times.    *)
(***************************************************************************)
Ungrounded(pr) ==
    /\ pulls[pr].state = "open"
    /\ checks[pr][pulls[pr].head] = Run("job", "success")
    /\ \A c \in claims : c.id = pulls[pr].body[1].gen => Lapsed(c, settings, now)

StaleGreenIsRevoked == \A pr \in PullRequests : Ungrounded(pr) ~> ~Ungrounded(pr)

(***************************************************************************)
(* "ONE PULL REQUEST MUST NEVER END THE SWEEP": when a sweep has ended, it *)
(* has taken up every pull request that it listed.                         *)
(***************************************************************************)
NoneIsAbandoned == sweep.pc = "idle" => sweep.todo = {}
=============================================================================
