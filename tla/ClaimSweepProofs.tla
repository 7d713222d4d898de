-------------------------- MODULE ClaimSweepProofs ---------------------------
(***************************************************************************)
(* Theorems about the gate at work, for any pull requests, leases, heads,  *)
(* claims and any latency.                                                 *)
(***************************************************************************)
EXTENDS ClaimSweep, ClaimGateProofs

USE DEF Heads

Conclusions == {"none", "success", "failure"}
PullStates == [state : {"open", "merged"}, head : Heads, body : Bodies]
JobStates == [pc : {"idle", "running", "judged"}, conclusion : Conclusions, due : 0 .. MaxClock]
Listings == [head : 0 .. MaxHead, body : Bodies]
SweepStates ==
    [pc : {"idle", "list", "next", "evaluate", "standing", "post"}, todo : SUBSET PullRequests,
     listed : [PullRequests -> Listings], pr : PullRequests \cup {"none"}, conclusion : Conclusions,
     due : 0 .. MaxClock, tries : 0 .. GhTries - 1]
ClaimsOn(n, t) == [id : 1 .. n - 1, at : 0 .. t, lease : Leases]

ItemType == now \in 0 .. MaxClock /\ claims \subseteq ClaimsOn(nextId, now) /\ nextId \in 1 .. MaxId + 1

\* The type invariant by its parts.
LEMMA TypeParts ==
    SweepTypeOK <=>
        /\ ItemType
        /\ pulls \in [PullRequests -> PullStates]
        /\ checks \in [PullRequests -> [Heads -> CheckRuns]]
        /\ jobs \in [PullRequests -> JobStates]
        /\ sweep \in SweepStates
        /\ settings \in AllSettings
        /\ steady \subseteq 1 .. nextId - 1
        /\ rivals \in [PullRequests -> SUBSET (1 .. nextId - 1)]
BY DEF SweepTypeOK, ItemType, PullStates, JobStates, SweepStates, Listings, ClaimsOn, Conclusions

\* And in the next state.
LEMMA TypePartsNext ==
    SweepTypeOK' <=>
        /\ ItemType'
        /\ pulls' \in [PullRequests -> PullStates]
        /\ checks' \in [PullRequests -> [Heads -> CheckRuns]]
        /\ jobs' \in [PullRequests -> JobStates]
        /\ sweep' \in SweepStates
        /\ settings' \in AllSettings
        /\ steady' \subseteq 1 .. nextId' - 1
        /\ rivals' \in [PullRequests -> SUBSET (1 .. nextId' - 1)]
BY DEF SweepTypeOK, ItemType, PullStates, JobStates, SweepStates, Listings, ClaimsOn, Conclusions

\* Its constants are numbers.
LEMMA Bounds ==
    /\ GhTries \in Nat \ {0} /\ Latency \in Nat /\ MaxHead \in Nat \ {0} /\ MaxId \in Nat
    /\ MaxClock \in Nat /\ Leases \subseteq Nat /\ AllSettings \subseteq Setting
BY ClaimSweepAssumption DEF Setting

\* A conclusion is what it says.
LEMMA ConclusionIs ==
    ASSUME NEW result
    PROVE  /\ Conclusion(result) \in {"success", "failure"}
           /\ Conclusion(result) = "success" <=> result = "none"
BY DEF Conclusion, Exit

\* A clock that is read, and the wait for it, are within the bound.
LEMMA ClockType ==
    ASSUME now \in 0 .. MaxClock, NEW t \in Clocks
    PROVE  t \in 0 .. MaxClock /\ now <= t /\ t <= now + Latency /\ Wait(t) \in 0 .. MaxClock
BY Bounds DEF Clocks, Wait

\* The sweep at rest has a state.
LEMMA RestingType == Resting \in SweepStates
<1>2. [pr \in PullRequests |-> [head |-> 0, body |-> <<>>]] \in [PullRequests -> Listings]
    BY Bounds DEF Listings, Bodies
<1> QED BY <1>2, Bounds DEF Resting, SweepStates, Conclusions

\* So has the sweep on its way to the next pull request.
LEMMA FollowingType ==
    ASSUME NEW s \in SweepStates
    PROVE  Following(s) \in SweepStates
<1>1. [head |-> 0, body |-> <<>>] \in Listings
    BY Bounds DEF Listings, Bodies
<1>2. [s.listed EXCEPT ![s.pr] = [head |-> 0, body |-> <<>>]] \in [PullRequests -> Listings]
    BY <1>1 DEF SweepStates
<1> QED BY <1>2, RestingType DEF Following, SweepStates

-----------------------------------------------------------------------------
\* Only claims of the item are secure.
LEMMA SecureIsClaimed ==
    ASSUME NEW k \in Secure
    PROVE  \E claim \in claims : claim.id = k
BY DEF Secure

\* Only secure claims are remembered, and no claim is that was not, but at a beginning.
LEMMA RememberIs ==
    ASSUME Remember
    PROVE  /\ steady' \subseteq Secure'
           /\ Judging(sweep) => steady' \subseteq steady
           /\ \A pr \in PullRequests :
               /\ rivals'[pr] \subseteq Secure'
               /\ ~JobStarts(pr) => rivals'[pr] \subseteq rivals[pr]
           /\ DOMAIN rivals' = PullRequests /\ rivals' = [pr \in PullRequests |-> rivals'[pr]]
BY DEF Remember, Since

\* So what is remembered are ids of claims.
LEMMA RememberType ==
    ASSUME Remember, ItemType'
    PROVE  steady' \subseteq 1 .. nextId' - 1 /\ rivals' \in [PullRequests -> SUBSET (1 .. nextId' - 1)]
<1>1. claims' \subseteq ClaimsOn(nextId', now')
    BY DEF ItemType, ClaimsOn
<1>2. \A k \in Secure' : \E claim \in claims' : claim.id = k
    BY DEF Secure
<1>3. Secure' \subseteq 1 .. nextId' - 1
    BY <1>1, <1>2 DEF ClaimsOn
<1> QED BY <1>3, RememberIs

\* Steps of the workers and of the clock.
LEMMA WorkersType ==
    ASSUME SweepTypeOK, Remember,
           \/ \E lease \in Leases : Take(lease)
           \/ \E claim \in claims : Heartbeat(claim) \/ Release(claim)
           \/ Tick
    PROVE  SweepTypeOK'
<1>0. /\ ItemType /\ pulls \in [PullRequests -> PullStates] /\ checks \in [PullRequests -> [Heads -> CheckRuns]]
      /\ jobs \in [PullRequests -> JobStates] /\ sweep \in SweepStates /\ settings \in AllSettings
    BY TypeParts
<1>1. ItemType' /\ nextId' \in nextId .. MaxId + 1
    <2>0. now \in 0 .. MaxClock /\ claims \subseteq ClaimsOn(nextId, now) /\ nextId \in 1 .. MaxId + 1
        BY <1>0 DEF ItemType
    <2>1. ASSUME NEW lease \in Leases, Take(lease) PROVE ItemType' /\ nextId' \in nextId .. MaxId + 1
        <3>1. nextId' = nextId + 1 /\ nextId' \in 1 .. MaxId + 1 /\ now' = now
            BY <2>0, <2>1, Bounds DEF Take
        <3>2. [id |-> nextId, at |-> now, lease |-> lease] \in ClaimsOn(nextId + 1, now)
            BY <2>0, Bounds DEF ClaimsOn
        <3>3. ClaimsOn(nextId, now) \subseteq ClaimsOn(nextId + 1, now)
            BY <2>0, Bounds DEF ClaimsOn
        <3>4. claims' \subseteq ClaimsOn(nextId + 1, now)
            BY <2>0, <2>1, <3>2, <3>3 DEF Take
        <3> QED BY <2>0, <3>1, <3>4, Bounds DEF ItemType
    <2>2. ASSUME NEW claim \in claims, Heartbeat(claim) \/ Release(claim) PROVE ItemType' /\ nextId' \in nextId .. MaxId + 1
        <3>1. nextId' = nextId /\ now' = now
            BY <2>2 DEF Heartbeat, Release
        <3>2. [claim EXCEPT !.at = now] \in ClaimsOn(nextId, now)
            BY <2>0, Bounds DEF ClaimsOn
        <3>3. claims' \subseteq ClaimsOn(nextId, now)
            BY <2>0, <2>2, <3>2 DEF Heartbeat, Release
        <3> QED BY <2>0, <3>1, <3>3, Bounds DEF ItemType
    <2>3. ASSUME Tick PROVE ItemType' /\ nextId' \in nextId .. MaxId + 1
        <3>1. nextId' = nextId /\ now' = now + 1 /\ now' \in 0 .. MaxClock /\ claims' = claims
            BY <2>0, <2>3, Bounds DEF Tick
        <3>2. ClaimsOn(nextId, now) \subseteq ClaimsOn(nextId, now + 1)
            BY <2>0, Bounds DEF ClaimsOn
        <3> QED BY <2>0, <3>1, <3>2, Bounds DEF ItemType
    <2> QED BY <2>1, <2>2, <2>3
<1>2. UNCHANGED <<pulls, checks, jobs, sweep, settings>>
    BY DEF Take, Heartbeat, Release, Tick
<1>4. jobs' \in [PullRequests -> JobStates]
    BY <1>0, <1>2
<1> QED BY <1>0, <1>1, <1>2, <1>4, RememberType, TypePartsNext

\* An event of a pull request, by what it makes of the pull request.
Triggered(pr, pull) ==
    /\ pull \in PullStates
    /\ pulls' = [pulls EXCEPT ![pr] = pull]
    /\ checks' = [checks EXCEPT ![pr] = [@ EXCEPT ![pull.head] = Run("job", "none")]]
    /\ jobs' = [jobs EXCEPT ![pr] = [NoJob EXCEPT !.pc = "running"]]
    /\ UNCHANGED <<item, sweep, settings>>

\* Every event is one of these.
LEMMA EventTriggers ==
    ASSUME SweepTypeOK, NEW pr \in PullRequests,
           (\E gen \in 1 .. nextId - 1 : Authorize(pr, gen)) \/ Push(pr) \/ Rerun(pr)
    PROVE  \E pull \in PullStates : Triggered(pr, pull)
<1>1. pulls[pr] \in PullStates /\ nextId \in 1 .. MaxId + 1
    BY TypeParts DEF ItemType
<1>2. ASSUME NEW gen \in 1 .. nextId - 1, Authorize(pr, gen)
      PROVE  \E pull \in PullStates : Triggered(pr, pull)
    <2> DEFINE a == [complete |-> TRUE, gen |-> gen, head |-> pulls[pr].head]
               p == [pulls[pr] EXCEPT !.body = <<a>>]
    <2>1. gen \in 0 .. MaxId
        BY <1>1, Bounds
    <2>2. a \in Authorization
        BY <1>1, <2>1 DEF PullStates, Authorization
    <2>3. <<a>> \in Bodies
        BY <2>2 DEF Bodies
    <2>4. p \in PullStates
        BY <1>1, <2>3 DEF PullStates
    <2>5. Trigger(pr, p)
        BY <1>2 DEF Authorize
    <2> QED BY <2>4, <2>5 DEF Trigger, Triggered
<1>3. ASSUME Push(pr)
      PROVE  \E pull \in PullStates : Triggered(pr, pull)
    <2> DEFINE p == [pulls[pr] EXCEPT !.head = @ + 1]
    <2>1. p \in PullStates
        BY <1>1, <1>3, Bounds DEF PullStates, Push
    <2>2. Trigger(pr, p)
        BY <1>3 DEF Push
    <2> QED BY <2>1, <2>2 DEF Trigger, Triggered
<1>4. ASSUME Rerun(pr)
      PROVE  \E pull \in PullStates : Triggered(pr, pull)
    BY <1>1, <1>4 DEF Rerun, Trigger, Triggered
<1> QED BY <1>2, <1>3, <1>4

\* A job's check run, and one of the sweep, are check runs.
LEMMA RunType ==
    ASSUME NEW by \in {"none", "job", "sweep"}, NEW conclusion \in Conclusions
    PROVE  Run(by, conclusion) \in CheckRuns
BY DEF Run, CheckRuns, Conclusions

LEMMA TriggeredType ==
    ASSUME SweepTypeOK, Remember, NEW pr \in PullRequests, NEW pull \in PullStates, Triggered(pr, pull)
    PROVE  SweepTypeOK'
<1>0. /\ ItemType /\ pulls \in [PullRequests -> PullStates] /\ checks \in [PullRequests -> [Heads -> CheckRuns]]
      /\ jobs \in [PullRequests -> JobStates] /\ sweep \in SweepStates /\ settings \in AllSettings
    BY TypeParts
<1>1. now' = now /\ claims' = claims /\ nextId' = nextId /\ sweep' = sweep /\ settings' = settings
    BY DEF Triggered, item
<1>2. pulls' \in [PullRequests -> PullStates]
    BY <1>0 DEF Triggered
<1>3. [checks[pr] EXCEPT ![pull.head] = Run("job", "none")] \in [Heads -> CheckRuns]
    BY <1>0, RunType DEF Conclusions
<1>4. checks' \in [PullRequests -> [Heads -> CheckRuns]]
    BY <1>0, <1>3 DEF Triggered
<1>5. [NoJob EXCEPT !.pc = "running"] \in JobStates
    BY Bounds DEF NoJob, JobStates, Conclusions
<1>6. jobs' \in [PullRequests -> JobStates]
    BY <1>0, <1>5 DEF Triggered
<1>7. ItemType' /\ nextId' \in nextId .. MaxId + 1
    BY <1>0, <1>1, Bounds DEF ItemType
<1> QED BY <1>0, <1>1, <1>2, <1>4, <1>6, <1>7, RememberType, TypePartsNext

LEMMA MergeType ==
    ASSUME SweepTypeOK, Remember, NEW pr \in PullRequests, Merge(pr)
    PROVE  SweepTypeOK'
<1>0. /\ ItemType /\ pulls \in [PullRequests -> PullStates] /\ checks \in [PullRequests -> [Heads -> CheckRuns]]
      /\ jobs \in [PullRequests -> JobStates] /\ sweep \in SweepStates /\ settings \in AllSettings
    BY TypeParts
<1>1. UNCHANGED <<now, claims, nextId, checks, jobs, sweep, settings>>
    BY DEF Merge, item
<1>2. [pulls[pr] EXCEPT !.state = "merged"] \in PullStates
    BY <1>0 DEF PullStates
<1>3. pulls' \in [PullRequests -> PullStates]
    BY <1>0, <1>2 DEF Merge
<1>4. ItemType' /\ nextId' \in nextId .. MaxId + 1
    BY <1>0, <1>1, Bounds DEF ItemType
<1> QED BY <1>0, <1>1, <1>3, <1>4, RememberType, TypePartsNext

-----------------------------------------------------------------------------
\* A judged job has a conclusion.
LEMMA JudgedType ==
    ASSUME jobs \in [PullRequests -> JobStates], NEW pr \in PullRequests, NEW result,
           NEW t, Wait(t) \in 0 .. MaxClock, Judged(pr, result, t)
    PROVE  jobs' \in [PullRequests -> JobStates]
<1>1. Conclusion(result) \in Conclusions
    BY ConclusionIs DEF Conclusions
<1>2. [jobs[pr] EXCEPT !.pc = "judged", !.conclusion = Conclusion(result), !.due = Wait(t)] \in JobStates
    BY <1>1 DEF JobStates
<1> QED BY <1>2 DEF Judged

\* One check run more leaves check runs.
LEMMA OneCheckType ==
    ASSUME NEW f \in [PullRequests -> [Heads -> CheckRuns]], NEW pr, NEW h, NEW run \in CheckRuns
    PROVE  [f EXCEPT ![pr] = [f[pr] EXCEPT ![h] = run]] \in [PullRequests -> [Heads -> CheckRuns]]
<1>1. pr \in PullRequests => [f[pr] EXCEPT ![h] = run] \in [Heads -> CheckRuns]
    OBVIOUS
<1> QED BY <1>1

LEMMA JobType ==
    ASSUME SweepTypeOK, Remember, NEW pr \in PullRequests, Job(pr)
    PROVE  SweepTypeOK'
<1>0. /\ ItemType /\ pulls \in [PullRequests -> PullStates] /\ checks \in [PullRequests -> [Heads -> CheckRuns]]
      /\ jobs \in [PullRequests -> JobStates] /\ sweep \in SweepStates /\ settings \in AllSettings
    BY TypeParts
<1>1. UNCHANGED <<now, claims, nextId, pulls, sweep, settings>>
    BY DEF Job, JobEvaluates, JobFails, JobEnds, item
<1>2. ItemType' /\ nextId' \in nextId .. MaxId + 1
    BY <1>0, <1>1, Bounds DEF ItemType
<1>3. checks' \in [PullRequests -> [Heads -> CheckRuns]] /\ jobs' \in [PullRequests -> JobStates]
    <2>1. CASE JobEvaluates(pr)
        <3>1. PICK t \in Clocks : \E result : Judged(pr, result, t)
            BY <2>1 DEF JobEvaluates
        <3>4. PICK result : Judged(pr, result, t)
            BY <3>1
        <3>2. Wait(t) \in 0 .. MaxClock
            BY <1>0, ClockType DEF ItemType
        <3>3. checks' = checks
            BY <2>1 DEF JobEvaluates
        <3> QED BY <1>0, <3>2, <3>3, <3>4, JudgedType
    <2>2. CASE JobFails(pr)
        <3>1. PICK result \in {"forbidden", "unreachable"} : Judged(pr, result, now)
            BY <2>2 DEF JobFails
        <3>2. Wait(now) \in 0 .. MaxClock
            BY <1>0, Bounds DEF ItemType, Wait
        <3>3. checks' = checks
            BY <2>2 DEF JobFails
        <3> QED BY <1>0, <3>1, <3>2, <3>3, JudgedType
    <2>3. CASE JobEnds(pr)
        <3>1. jobs[pr].conclusion \in Conclusions
            BY <1>0 DEF JobStates
        <3>2. Run("job", jobs[pr].conclusion) \in CheckRuns
            BY <3>1, RunType
        <3> DEFINE old == checks[pr][pulls[pr].head]
                   new == IF old = Run("job", "none") THEN Run("job", jobs[pr].conclusion) ELSE old
        <3>3. pulls[pr].head \in Heads /\ checks[pr] \in [Heads -> CheckRuns]
            BY <1>0 DEF PullStates
        <3>4. new \in CheckRuns
            BY <3>2, <3>3
        <3>6. checks' = [checks EXCEPT ![pr] = [checks[pr] EXCEPT ![pulls[pr].head] = new]]
            BY <2>3 DEF JobEnds
        <3> HIDE DEF new
        <3>7. checks' \in [PullRequests -> [Heads -> CheckRuns]]
            BY <1>0, <3>3, <3>4, <3>6, OneCheckType
        <3>8. NoJob \in JobStates
            BY Bounds DEF NoJob, JobStates, Conclusions
        <3>9. jobs' \in [PullRequests -> JobStates]
            BY <1>0, <2>3, <3>8 DEF JobEnds
        <3> QED BY <3>7, <3>9
    <2> QED BY <2>1, <2>2, <2>3 DEF Job
<1> QED BY <1>0, <1>1, <1>2, <1>3, RememberType, TypePartsNext

-----------------------------------------------------------------------------
\* A step of the sweep is a step of its own state, or one that posts.
LEMMA SweepStepType ==
    ASSUME SweepTypeOK, Remember, NEW s \in SweepStates, sweep' = s,
           checks' \in [PullRequests -> [Heads -> CheckRuns]],
           UNCHANGED <<item, pulls, jobs, settings>>
    PROVE  SweepTypeOK'
<1>0. /\ ItemType /\ pulls \in [PullRequests -> PullStates]
      /\ jobs \in [PullRequests -> JobStates] /\ settings \in AllSettings
    BY TypeParts
<1>1. UNCHANGED <<now, claims, nextId>>
    BY DEF item
<1>2. ItemType' /\ nextId' \in nextId .. MaxId + 1
    BY <1>0, <1>1, Bounds DEF ItemType
<1> QED BY <1>0, <1>1, <1>2, RememberType, TypePartsNext

LEMMA SweepType ==
    ASSUME SweepTypeOK, Remember, Sweep
    PROVE  SweepTypeOK'
<1>0. /\ pulls \in [PullRequests -> PullStates] /\ checks \in [PullRequests -> [Heads -> CheckRuns]]
      /\ sweep \in SweepStates /\ settings \in AllSettings /\ ItemType
    BY TypeParts
<1>a. sweep.tries \in 0 .. GhTries - 1 /\ sweep.listed \in [PullRequests -> Listings]
    BY <1>0 DEF SweepStates
<1>b. ASSUME NEW s \in SweepStates, Goes(s)
      PROVE  SweepTypeOK'
    BY <1>0, <1>b, SweepStepType DEF Goes
<1>c. ASSUME NEW s \in SweepStates, AttemptFails(s)
      PROVE  SweepTypeOK'
    <2>1. CASE sweep.tries + 1 < GhTries
        <3>1. sweep.tries + 1 \in 0 .. GhTries - 1
            BY <1>a, <2>1, Bounds
        <3>2. [sweep EXCEPT !.tries = @ + 1] \in SweepStates
            BY <1>0, <3>1 DEF SweepStates
        <3> QED BY <1>0, <1>c, <2>1, <3>2, SweepStepType DEF AttemptFails
    <2>2. CASE ~(sweep.tries + 1 < GhTries)
        BY <1>0, <1>c, <2>2, SweepStepType DEF AttemptFails
    <2> QED BY <2>1, <2>2
<1>d. Resting \in SweepStates /\ Following(sweep) \in SweepStates
    BY <1>0, RestingType, FollowingType
<1>1. CASE SweepStarts
    <2>1. [Resting EXCEPT !.pc = "list"] \in SweepStates
        BY <1>d DEF SweepStates
    <2> QED BY <1>1, <1>b, <2>1 DEF SweepStarts
<1>2. CASE SweepLists
    <2> DEFINE open == {pr \in PullRequests : pulls[pr].state = "open"}
               found == [pr \in PullRequests |->
                            IF pr \in open THEN [head |-> pulls[pr].head, body |-> pulls[pr].body]
                            ELSE Resting.listed[pr]]
    <2>1. \A pr \in PullRequests : [head |-> pulls[pr].head, body |-> pulls[pr].body] \in Listings
        BY <1>0, Bounds DEF PullStates, Listings
    <2>2. \A pr \in PullRequests : Resting.listed[pr] \in Listings
        BY <1>d DEF SweepStates
    <2>3. found \in [PullRequests -> Listings]
        BY <2>1, <2>2
    <2> HIDE DEF found
    <2>4. open \in SUBSET PullRequests
        OBVIOUS
    <2> HIDE DEF open
    <2>5. [Resting EXCEPT !.pc = "next", !.todo = open, !.listed = found] \in SweepStates
        BY <1>d, <2>3, <2>4 DEF SweepStates
    <2>6. Goes([Resting EXCEPT !.pc = "next", !.todo = open, !.listed = found])
        BY <1>2 DEF SweepLists, open, found
    <2> QED BY <1>b, <2>5, <2>6
<1>3. CASE SweepCannotList
    BY <1>3, <1>b, <1>c, <1>d DEF SweepCannotList
<1>4. ASSUME NEW pr \in PullRequests, SweepTakes(pr)
      PROVE  SweepTypeOK'
    <2>1. [sweep EXCEPT !.pc = "evaluate", !.pr = pr, !.todo = @ \ {pr}] \in SweepStates
        BY <1>0 DEF SweepStates
    <2> QED BY <1>4, <1>b, <2>1 DEF SweepTakes
<1>5. CASE SweepEvaluates
    <2>1. PICK t \in Clocks :
              \E result : Goes([sweep EXCEPT !.pc = "standing", !.conclusion = Conclusion(result),
                                             !.due = Wait(t), !.tries = 0])
        BY <1>5 DEF SweepEvaluates
    <2>2. PICK result : Goes([sweep EXCEPT !.pc = "standing", !.conclusion = Conclusion(result),
                                           !.due = Wait(t), !.tries = 0])
        BY <2>1
    <2>3. Wait(t) \in 0 .. MaxClock /\ Conclusion(result) \in Conclusions /\ 0 \in 0 .. GhTries - 1
        BY <1>0, ClockType, ConclusionIs, Bounds DEF ItemType, Conclusions
    <2>4. [sweep EXCEPT !.pc = "standing", !.conclusion = Conclusion(result),
                        !.due = Wait(t), !.tries = 0] \in SweepStates
        BY <1>0, <2>3 DEF SweepStates
    <2> QED BY <1>b, <2>2, <2>4
<1>6. CASE SweepSkips
    BY <1>6, <1>b, <1>c, <1>d DEF SweepSkips
<1>7. CASE SweepCompares
    <2>1. 0 \in 0 .. MaxClock /\ 0 \in 0 .. GhTries - 1
        BY Bounds
    <2>2. [sweep EXCEPT !.pc = "post", !.due = 0, !.tries = 0] \in SweepStates
        BY <1>0, <2>1 DEF SweepStates
    <2> QED BY <1>7, <1>b, <1>d, <2>2 DEF SweepCompares
<1>e. Posted \in [PullRequests -> [Heads -> CheckRuns]]
    <2>1. Run("sweep", sweep.conclusion) \in CheckRuns
        BY <1>0, RunType DEF SweepStates
    <2> QED BY <1>0, <2>1, OneCheckType DEF Posted
<1>8. CASE SweepPosts
    BY <1>8, <1>d, <1>e, SweepStepType DEF SweepPosts
<1>9. CASE SweepCannotPost
    BY <1>9, <1>b, <1>d DEF SweepCannotPost
<1>10. CASE SweepTimesOut
    <2>1. [Resting EXCEPT !.todo = sweep.todo] \in SweepStates
        BY <1>0, <1>d DEF SweepStates
    <2> QED BY <1>0, <1>10, <1>e, <2>1, SweepStepType DEF SweepTimesOut, Escapes
<1>12. CASE SweepRaises
    <2>1. [Resting EXCEPT !.todo = sweep.todo] \in SweepStates
        BY <1>0, <1>d DEF SweepStates
    <2> QED BY <1>0, <1>12, <2>1, SweepStepType DEF SweepRaises, Escapes
<1>11. CASE SweepEnds
    BY <1>11, <1>b, <1>d DEF SweepEnds
<1> QED BY <1>1, <1>2, <1>3, <1>4, <1>5, <1>6, <1>7, <1>8, <1>9, <1>10, <1>11, <1>12 DEF Sweep

LEMMA InitType == ClaimSweepInit => SweepTypeOK
<1> SUFFICES ASSUME ClaimSweepInit PROVE SweepTypeOK
    OBVIOUS
<1>1. /\ ItemType /\ steady \subseteq 1 .. nextId - 1 /\ settings \in AllSettings
      /\ rivals \in [PullRequests -> SUBSET (1 .. nextId - 1)]
    BY Bounds DEF ClaimSweepInit, ItemType, ClaimsOn
<1>2. pulls \in [PullRequests -> PullStates]
    BY Bounds DEF ClaimSweepInit, PullStates, Bodies
<1>3. NoRun \in CheckRuns
    BY DEF NoRun, CheckRuns
<1>4. checks \in [PullRequests -> [Heads -> CheckRuns]]
    BY <1>3 DEF ClaimSweepInit
<1>5. NoJob \in JobStates
    BY Bounds DEF NoJob, JobStates, Conclusions
<1>6. jobs \in [PullRequests -> JobStates]
    BY <1>5 DEF ClaimSweepInit
<1>7. sweep \in SweepStates
    BY RestingType DEF ClaimSweepInit
<1> QED BY <1>1, <1>2, <1>4, <1>6, <1>7, TypeParts

LEMMA NextType == SweepTypeOK /\ [ClaimSweepNext]_sweepVars => SweepTypeOK'
<1> SUFFICES ASSUME SweepTypeOK, [ClaimSweepNext]_sweepVars PROVE SweepTypeOK'
    OBVIOUS
<1>1. CASE Environment /\ Remember
    <2>1. CASE \/ \E lease \in Leases : Take(lease)
               \/ \E claim \in claims : Heartbeat(claim) \/ Release(claim)
               \/ Tick
        BY <1>1, <2>1, WorkersType
    <2>2. ASSUME NEW pr \in PullRequests,
                 (\E gen \in 1 .. nextId - 1 : Authorize(pr, gen)) \/ Push(pr) \/ Rerun(pr)
          PROVE  SweepTypeOK'
        BY <1>1, <2>2, EventTriggers, TriggeredType
    <2>3. ASSUME NEW pr \in PullRequests, Merge(pr)
          PROVE  SweepTypeOK'
        BY <1>1, <2>3, MergeType
    <2> QED BY <1>1, <2>1, <2>2, <2>3 DEF Environment
<1>2. CASE Sweep /\ Remember
    BY <1>2, SweepType
<1>3. ASSUME NEW pr \in PullRequests, Job(pr), Remember
      PROVE  SweepTypeOK'
    BY <1>3, JobType
<1>4. CASE UNCHANGED sweepVars
    BY <1>4 DEF SweepTypeOK, sweepVars, item
<1> QED BY <1>1, <1>2, <1>3, <1>4 DEF ClaimSweepNext

\* The state of every component is of its type.
THEOREM SweepTypeCorrect == ClaimSweepSpec => []SweepTypeOK
BY InitType, NextType, PTL DEF ClaimSweepSpec

-----------------------------------------------------------------------------
(***************************************************************************)
(* The inductive invariant.  What the sweep knows: where it is at a pull   *)
(* request, that one was listed with a head; before a post there was a     *)
(* check run and the verdict is a failure; and a failure is never about a  *)
(* generation that is steady.                                              *)
(***************************************************************************)
SweepKnows(s, c, st) ==
    /\ s.pc \in {"next", "evaluate", "standing", "post"} => \A pr \in s.todo : s.listed[pr].head \in Heads
    /\ s.pc \in {"evaluate", "standing", "post"} =>
        s.pr \in PullRequests /\ s.pr \notin s.todo /\ s.listed[s.pr].head \in Heads
    /\ s.pc = "post" => s.conclusion = "failure" /\ c[s.pr][s.listed[s.pr].head] # NoRun
    /\ s.pc \in {"standing", "post"} /\ s.conclusion = "failure" =>
        Named(s.listed[s.pr].body, s.listed[s.pr].head) \cap st = {}

\* What a job knows: a success is only for a generation that has no rival.
JobsKnow(j, p, rv) ==
    \A pr \in PullRequests :
        j[pr].pc = "judged" /\ j[pr].conclusion = "success" => rv[pr] \subseteq Named(p[pr].body, p[pr].head)

GateInv ==
    /\ SweepTypeOK
    /\ steady \subseteq Secure
    /\ \A pr \in PullRequests : rivals[pr] \subseteq Secure
    /\ SweepKnows(sweep, checks, steady)
    /\ JobsKnow(jobs, pulls, rivals)

\* What the sweep knows lasts while only others act.
LEMMA SweepKnowsLasts ==
    ASSUME NEW s \in SweepStates, NEW c, NEW d, NEW st, NEW tt,
           SweepKnows(s, c, st),
           \A pr \in PullRequests, h \in Heads : c[pr][h] # NoRun => d[pr][h] # NoRun,
           s.pc \in {"standing", "post"} => tt \subseteq st
    PROVE  SweepKnows(s, d, tt)
<1>1. s.pc = "post" => s.conclusion = "failure" /\ d[s.pr][s.listed[s.pr].head] # NoRun
    <2>1. s.pc = "post" => s.pr \in PullRequests /\ s.listed[s.pr].head \in Heads
        BY DEF SweepKnows
    <2> QED BY <2>1 DEF SweepKnows
<1> QED BY <1>1 DEF SweepKnows

\* The sweep at rest knows nothing.
LEMMA RestingKnows ==
    ASSUME NEW c, NEW st, NEW s, s.pc \in {"idle", "list"}
    PROVE  SweepKnows(s, c, st)
BY DEF SweepKnows

\* On the way to the next pull request, it knows of those still to do.
LEMMA FollowingKnows ==
    ASSUME NEW s \in SweepStates, NEW c, NEW st, SweepKnows(s, c, st),
           s.pc \in {"evaluate", "standing", "post"}
    PROVE  SweepKnows(Following(s), c, st)
<1> DEFINE f == [s.listed EXCEPT ![s.pr] = [head |-> 0, body |-> <<>>]]
<1>1. /\ Following(s).pc = "next" /\ Following(s).todo = s.todo /\ Following(s).listed = f
    BY DEF Following, Resting
<1>2. s.listed \in [PullRequests -> Listings] /\ s.todo \subseteq PullRequests
    BY DEF SweepStates
<1>3. s.pr \notin s.todo
    BY DEF SweepKnows
<1>4. \A pr \in s.todo : f[pr].head \in Heads
    BY <1>2, <1>3 DEF SweepKnows
<1> HIDE DEF f
<1> QED BY <1>1, <1>4 DEF SweepKnows

-----------------------------------------------------------------------------
\* The item's claims, the settings and the clocks are what the gate's lemmas are about.
LEMMA ClaimsAreClaims ==
    ASSUME SweepTypeOK
    PROVE  claims \subseteq Claim /\ settings \in Setting /\ now \in Nat /\ now + Latency \in Nat
<1>1. ItemType /\ settings \in AllSettings
    BY TypeParts
<1>2. nextId \in Nat /\ now \in Nat /\ claims \subseteq ClaimsOn(nextId, now)
    BY <1>1, Bounds DEF ItemType
<1>3. ClaimsOn(nextId, now) \subseteq Claim
    <2>1. 1 .. nextId - 1 \subseteq Nat /\ 0 .. now \subseteq Nat /\ Leases \subseteq Nat
        BY <1>2, Bounds
    <2> QED BY <2>1 DEF ClaimsOn, Claim
<1> QED BY <1>1, <1>2, <1>3, Bounds DEF ItemType

\* A secure claim holds the item at every clock a reader of this state may read.
LEMMA SecureHolds ==
    ASSUME SweepTypeOK, NEW k \in Secure, NEW t \in Nat, now <= t, t <= now + Latency
    PROVE  Holds(k, claims, settings, t)
<1>1. claims \subseteq Claim /\ settings \in Setting /\ now \in Nat /\ now + Latency \in Nat
    BY ClaimsAreClaims
<1>2. PICK c \in claims : c.id = k /\ ~Lapsed(c, settings, now + Latency)
    BY DEF Secure
<1>3. c \in Live(claims, settings, t)
    <2>1. ~Lapsed(c, settings, t)
        BY <1>1, <1>2, LapseIsFinal
    <2> QED BY <2>1 DEF Live
<1>4. ASSUME NEW other \in Live(claims, settings, t)
      PROVE  c.id <= other.id
    <2>1. other \in claims /\ ~Lapsed(other, settings, t)
        BY DEF Live
    <2>2. ~Lapsed(other, settings, now)
        BY <1>1, <2>1, LapseIsFinal
    <2>3. ~(other.id < k)
        BY <2>1, <2>2 DEF Secure
    <2>4. other.id \in Nat /\ k \in Nat
        BY <1>1, <1>2, <2>1 DEF Claim
    <2> QED BY <1>2, <2>3, <2>4
<1> QED BY <1>2, <1>3, <1>4 DEF Wins, Holds

\* A clock that is read is one of these.
LEMMA ClockIsNear ==
    ASSUME SweepTypeOK, NEW t \in Clocks
    PROVE  t \in Nat /\ now <= t /\ t <= now + Latency
BY TypeParts, ClockType, Bounds DEF ItemType

\* No verdict of a clock that is read finds fault with a secure generation.
LEMMA SecureHasNoFinding ==
    ASSUME SweepTypeOK, NEW t \in Clocks, NEW k \in Secure
    PROVE  Holds(k, claims, settings, t)
BY SecureHolds, ClockIsNear

\* A body without fault names its generation.
LEMMA NamedWhenFine ==
    ASSUME NEW body, NEW h
    PROVE  /\ BodyFinding(body, h) = "none" => Named(body, h) = {body[1].gen}
           /\ BodyFinding(body, h) # "none" => Named(body, h) = {}
BY DEF Named

\* A verdict or a post is of a pull request that the sweep was at already.
LEMMA JudgingBegins ==
    ASSUME SweepTypeOK, ClaimSweepNext, sweep'.pc \in {"standing", "post"}
    PROVE  Judging(sweep)
<1>0. sweep \in SweepStates
    BY TypeParts
<1>1. CASE Environment \/ \E pr \in PullRequests : Job(pr)
    <2>1. sweep' = sweep
        BY <1>1 DEF Environment, Take, Heartbeat, Release, Tick, Authorize, Push, Rerun, Trigger, Merge,
                    Job, JobEvaluates, JobFails, JobEnds
    <2> QED BY <2>1 DEF Judging
<1>2. CASE Sweep
    <2>1. CASE \/ SweepEvaluates \/ SweepSkips \/ SweepCompares
               \/ SweepPosts \/ SweepCannotPost \/ SweepTimesOut \/ SweepRaises
        BY <2>1 DEF SweepEvaluates, SweepSkips, SweepCompares, SweepPosts, SweepCannotPost, SweepTimesOut,
                    SweepRaises, Judging
    <2>2. CASE SweepStarts \/ SweepEnds
        BY <2>2 DEF SweepStarts, SweepEnds, Goes, Resting
    <2>5. CASE SweepLists
        <3>1. PICK todo, listed : sweep' = [Resting EXCEPT !.pc = "next", !.todo = todo, !.listed = listed]
            BY <2>5 DEF SweepLists, Goes
        <3> QED BY <3>1 DEF Resting
    <2>3. CASE SweepCannotList
        BY <1>0, <2>3 DEF SweepCannotList, AttemptFails, Goes, Resting, SweepStates
    <2>4. CASE \E pr \in PullRequests : SweepTakes(pr)
        BY <1>0, <2>4 DEF SweepTakes, Goes, SweepStates
    <2> QED BY <1>2, <2>1, <2>2, <2>3, <2>4, <2>5 DEF Sweep
<1> QED BY <1>1, <1>2 DEF ClaimSweepNext

\* One check run more takes none away.
LEMMA OneCheckLasts ==
    ASSUME NEW f \in [PullRequests -> [Heads -> CheckRuns]], NEW q, NEW k, NEW run, run # NoRun,
           NEW pr \in PullRequests, NEW h \in Heads, f[pr][h] # NoRun
    PROVE  [f EXCEPT ![q] = [f[q] EXCEPT ![k] = run]][pr][h] # NoRun
<1>1. CASE pr = q
    <2>1. [f EXCEPT ![q] = [f[q] EXCEPT ![k] = run]][pr] = [f[pr] EXCEPT ![k] = run]
        BY <1>1
    <2>2. f[pr] \in [Heads -> CheckRuns]
        OBVIOUS
    <2> QED BY <2>1, <2>2
<1>2. CASE pr # q
    BY <1>2
<1> QED BY <1>1, <1>2

\* A check run is never taken back.
LEMMA ChecksLast ==
    ASSUME SweepTypeOK, ClaimSweepNext, NEW pr \in PullRequests, NEW h \in Heads, checks[pr][h] # NoRun
    PROVE  checks'[pr][h] # NoRun
<1>0. checks \in [PullRequests -> [Heads -> CheckRuns]]
    BY TypeParts
<1>1. \A by \in {"job", "sweep"} : \A conclusion : Run(by, conclusion) # NoRun
    BY DEF Run, NoRun
<1>2. CASE \/ \E lease \in Leases : Take(lease)
           \/ \E claim \in claims : Heartbeat(claim) \/ Release(claim)
           \/ Tick
    BY <1>2 DEF Take, Heartbeat, Release, Tick
<1>3. ASSUME NEW q \in PullRequests,
             (\E gen \in 1 .. nextId - 1 : Authorize(q, gen)) \/ Push(q) \/ Rerun(q)
      PROVE  checks'[pr][h] # NoRun
    <2>1. PICK pull \in PullStates : Triggered(q, pull)
        BY <1>3, EventTriggers
    <2>2. checks' = [checks EXCEPT ![q] = [@ EXCEPT ![pull.head] = Run("job", "none")]]
        BY <2>1 DEF Triggered
    <2> QED BY <1>0, <1>1, <2>2
<1>4. ASSUME NEW q \in PullRequests, Merge(q)
      PROVE  checks'[pr][h] # NoRun
    BY <1>4 DEF Merge
<1>5. ASSUME NEW q \in PullRequests, Job(q)
      PROVE  checks'[pr][h] # NoRun
    <2>1. CASE JobEvaluates(q) \/ JobFails(q)
        BY <2>1 DEF JobEvaluates, JobFails
    <2>2. CASE JobEnds(q)
        <3> DEFINE old == checks[q][pulls[q].head]
                   new == IF old = Run("job", "none") THEN Run("job", jobs[q].conclusion) ELSE old
        <3>1. checks' = [checks EXCEPT ![q][pulls[q].head] = new]
            BY <2>2 DEF JobEnds
        <3>2. new = old \/ new # NoRun
            BY <1>1
        <3> HIDE DEF new
        <3>3. checks[q] \in [Heads -> CheckRuns] /\ checks[pr] \in [Heads -> CheckRuns]
            BY <1>0
        <3>4. checks'[pr] = IF pr = q THEN [checks[q] EXCEPT ![pulls[q].head] = new] ELSE checks[pr]
            BY <1>0, <3>1
        <3>5. checks'[pr][h] = IF pr = q /\ h = pulls[q].head THEN new ELSE checks[pr][h]
            BY <3>3, <3>4
        <3>6. CASE pr = q /\ h = pulls[q].head
            BY <3>2, <3>5, <3>6
        <3>7. CASE ~(pr = q /\ h = pulls[q].head)
            BY <3>5, <3>7
        <3> QED BY <3>6, <3>7
    <2> QED BY <1>5, <2>1, <2>2 DEF Job
<1>6. CASE Sweep
    <2>1. checks' = checks \/ checks' = Posted
        BY <1>6 DEF Sweep, SweepStarts, SweepLists, SweepCannotList, SweepTakes, SweepEvaluates, SweepSkips,
                   SweepCompares, SweepPosts, SweepCannotPost, SweepTimesOut, SweepRaises, SweepEnds, AttemptFails,
                   Goes, Escapes
    <2>2. Run("sweep", sweep.conclusion) # NoRun
        BY <1>1
    <2>3. checks' = Posted => checks'[pr][h] # NoRun
        BY <1>0, <2>2, OneCheckLasts DEF Posted
    <2> QED BY <2>1, <2>3
<1> QED BY <1>2, <1>3, <1>4, <1>5, <1>6 DEF ClaimSweepNext, Environment

-----------------------------------------------------------------------------
\* A failed verdict is not about a steady generation: SweepEvaluates.
LEMMA EvaluateKnows ==
    ASSUME GateInv, sweep.pc = "evaluate", NEW t \in Clocks, NEW s,
           s = [sweep EXCEPT !.pc = "standing",
                             !.conclusion = Conclusion(Classify(sweep.listed[sweep.pr].body,
                                                                sweep.listed[sweep.pr].head,
                                                                claims, settings, t)),
                             !.due = Wait(t), !.tries = 0]
    PROVE  SweepKnows(s, checks, steady)
<1> DEFINE body == sweep.listed[sweep.pr].body
           head == sweep.listed[sweep.pr].head
           result == Classify(body, head, claims, settings, t)
<1>0. sweep \in SweepStates /\ SweepKnows(sweep, checks, steady)
    BY TypeParts DEF GateInv
<1>1. /\ s.pc = "standing" /\ s.pr = sweep.pr /\ s.todo = sweep.todo /\ s.listed = sweep.listed
      /\ s.conclusion = Conclusion(result)
    BY <1>0 DEF SweepStates
<1>2. ASSUME Conclusion(result) = "failure"
      PROVE  Named(body, head) \cap steady = {}
    <2>1. result # "none"
        BY <1>2, ConclusionIs
    <2>2. CASE BodyFinding(body, head) # "none"
        BY <2>2, NamedWhenFine
    <2>3. CASE BodyFinding(body, head) = "none"
        <3>1. Named(body, head) = {body[1].gen}
            BY <2>3, NamedWhenFine
        <3>2. ClaimFinding(body[1].gen, claims, settings, t) # "none"
            BY <2>1, <2>3 DEF Classify
        <3>3. ~Holds(body[1].gen, claims, settings, t)
            BY <3>2, NoFindingIsHolding
        <3>4. body[1].gen \notin steady
            BY <3>3, SecureHasNoFinding DEF GateInv
        <3> QED BY <3>1, <3>4
    <2> QED BY <2>2, <2>3
<1> HIDE DEF result
<1> QED BY <1>0, <1>1, <1>2 DEF SweepKnows

\* What the sweep's own steps keep of what it knows.
LEMMA SweepStepKnows ==
    ASSUME GateInv, Sweep
    PROVE  SweepKnows(sweep', checks, steady)
<1>0. /\ pulls \in [PullRequests -> PullStates] /\ sweep \in SweepStates
      /\ SweepKnows(sweep, checks, steady)
    BY TypeParts DEF GateInv
<1>r. ASSUME NEW s, sweep' = s, s.pc \in {"idle", "list"}
      PROVE  SweepKnows(sweep', checks, steady)
    BY <1>r, RestingKnows
<1>f. ASSUME sweep' = Following(sweep), sweep.pc \in {"evaluate", "standing", "post"}
      PROVE  SweepKnows(sweep', checks, steady)
    BY <1>0, <1>f, FollowingKnows
<1>a. ASSUME sweep' = [sweep EXCEPT !.tries = @ + 1]
      PROVE  SweepKnows(sweep', checks, steady)
    <2>1. /\ sweep'.pc = sweep.pc /\ sweep'.pr = sweep.pr /\ sweep'.todo = sweep.todo
          /\ sweep'.listed = sweep.listed /\ sweep'.conclusion = sweep.conclusion
        BY <1>0, <1>a DEF SweepStates
    <2> QED BY <1>0, <2>1 DEF SweepKnows
<1>1. CASE SweepStarts
    <2>1. sweep' = [Resting EXCEPT !.pc = "list"]
        BY <1>1 DEF SweepStarts, Goes
    <2>2. [Resting EXCEPT !.pc = "list"].pc = "list"
        BY DEF Resting
    <2> QED BY <1>r, <2>1, <2>2
<1>2. CASE SweepLists
    <2> DEFINE open == {pr \in PullRequests : pulls[pr].state = "open"}
               found == [pr \in PullRequests |->
                            IF pr \in open THEN [head |-> pulls[pr].head, body |-> pulls[pr].body]
                            ELSE Resting.listed[pr]]
    <2>1. sweep' = [Resting EXCEPT !.pc = "next", !.todo = open, !.listed = found]
        BY <1>2 DEF SweepLists, Goes
    <2>2. \A pr \in open : found[pr].head \in Heads
        BY <1>0 DEF PullStates
    <2> HIDE DEF open, found
    <2>4. sweep'.pc = "next" /\ sweep'.todo = open /\ sweep'.listed = found
        BY <2>1 DEF Resting
    <2> QED BY <2>2, <2>4 DEF SweepKnows
<1>3. CASE SweepCannotList
    <2>1. sweep' = Resting \/ sweep' = [sweep EXCEPT !.tries = @ + 1]
        BY <1>3 DEF SweepCannotList, Goes, AttemptFails
    <2>2. Resting.pc = "idle"
        BY DEF Resting
    <2> QED BY <1>a, <1>r, <2>1, <2>2
<1>4. ASSUME NEW pr \in PullRequests, SweepTakes(pr)
      PROVE  SweepKnows(sweep', checks, steady)
    <2>1. sweep' = [sweep EXCEPT !.pc = "evaluate", !.pr = pr, !.todo = @ \ {pr}]
        BY <1>4 DEF SweepTakes, Goes
    <2>2. /\ sweep'.pc = "evaluate" /\ sweep'.pr = pr /\ sweep'.todo = sweep.todo \ {pr}
          /\ sweep'.listed = sweep.listed
        BY <1>0, <2>1 DEF SweepStates
    <2>3. sweep.pc = "next" /\ pr \in sweep.todo
        BY <1>4 DEF SweepTakes
    <2> QED BY <1>0, <2>2, <2>3 DEF SweepKnows
<1>5. CASE SweepEvaluates
    <2>1. PICK t \in Clocks :
              sweep' = [sweep EXCEPT !.pc = "standing",
                             !.conclusion = Conclusion(Classify(sweep.listed[sweep.pr].body,
                                                                sweep.listed[sweep.pr].head,
                                                                claims, settings, t)),
                             !.due = Wait(t), !.tries = 0]
        BY <1>5 DEF SweepEvaluates, Goes
    <2>2. sweep.pc = "evaluate"
        BY <1>5 DEF SweepEvaluates
    <2> QED BY <2>1, <2>2, EvaluateKnows
<1>6. CASE SweepSkips
    <2>1. sweep.pc \in {"evaluate", "standing"}
        BY <1>6 DEF SweepSkips
    <2>2. sweep' = Following(sweep) \/ sweep' = [sweep EXCEPT !.tries = @ + 1]
        BY <1>6 DEF SweepSkips, Goes, AttemptFails
    <2> QED BY <1>a, <1>f, <2>1, <2>2
<1>7. CASE SweepCompares
    <2>1. sweep.pc = "standing"
        BY <1>7 DEF SweepCompares
    <2> DEFINE standing == checks[sweep.pr][sweep.listed[sweep.pr].head]
    <2>2. CASE ~Revokes(standing, sweep.conclusion)
        BY <1>7, <1>f, <2>1, <2>2 DEF SweepCompares, Goes
    <2>3. CASE Revokes(standing, sweep.conclusion)
        <3>1. sweep' = [sweep EXCEPT !.pc = "post", !.due = 0, !.tries = 0]
            BY <1>7, <2>3 DEF SweepCompares, Goes
        <3>2. /\ sweep'.pc = "post" /\ sweep'.pr = sweep.pr /\ sweep'.todo = sweep.todo
              /\ sweep'.listed = sweep.listed /\ sweep'.conclusion = sweep.conclusion
            BY <1>0, <3>1 DEF SweepStates
        <3>3. sweep.conclusion = "failure" /\ standing # NoRun
            BY <2>3 DEF Revokes, NoRun
        <3> QED BY <1>0, <2>1, <3>2, <3>3 DEF SweepKnows
    <2> QED BY <2>2, <2>3
<1>8. CASE SweepPosts \/ SweepCannotPost
    <2>1. sweep.pc = "post" /\ sweep' = Following(sweep)
        BY <1>8 DEF SweepPosts, SweepCannotPost, Goes
    <2> QED BY <1>f, <2>1
<1>9. CASE SweepTimesOut \/ SweepRaises
    <2>1. sweep' = [Resting EXCEPT !.todo = sweep.todo]
        BY <1>9 DEF SweepTimesOut, SweepRaises, Escapes
    <2>2. sweep'.pc = "idle"
        BY <2>1 DEF Resting
    <2> QED BY <2>2, RestingKnows
<1>10. CASE SweepEnds
    <2>1. sweep' = Resting
        BY <1>10 DEF SweepEnds, Goes
    <2>2. Resting.pc = "idle"
        BY DEF Resting
    <2> QED BY <1>r, <2>1, <2>2
<1> QED BY <1>1, <1>2, <1>3, <1>4, <1>5, <1>6, <1>7, <1>8, <1>9, <1>10 DEF Sweep

-----------------------------------------------------------------------------
\* A verdict without a finding is for the one generation that holds the item.
LEMMA NoneIsForTheSecure ==
    ASSUME SweepTypeOK, NEW t \in Clocks, NEW body, NEW h,
           Classify(body, h, claims, settings, t) = "none"
    PROVE  Secure \subseteq Named(body, h)
<1>1. BodyFinding(body, h) = "none" /\ ClaimFinding(body[1].gen, claims, settings, t) = "none"
    BY DEF Classify
<1>2. Holds(body[1].gen, claims, settings, t)
    BY <1>1, NoFindingIsHolding
<1>3. claims \in SUBSET Claim
    BY ClaimsAreClaims
<1>4. ASSUME NEW k \in Secure
      PROVE  k = body[1].gen
    <2>1. Holds(k, claims, settings, t)
        BY SecureHasNoFinding
    <2> QED BY <1>2, <1>3, <2>1, OneGeneration
<1> QED BY <1>1, <1>4, NamedWhenFine

\* A job that judges knows that its success is the one rival's.
LEMMA JudgedKnows ==
    ASSUME JobsKnow(jobs, pulls, rivals), jobs \in [PullRequests -> JobStates],
           NEW q \in PullRequests, NEW result, NEW t, Judged(q, result, t),
           result = "none" => rivals[q] \subseteq Named(pulls[q].body, pulls[q].head)
    PROVE  JobsKnow(jobs', pulls, rivals)
<1> DEFINE j == [jobs[q] EXCEPT !.pc = "judged", !.conclusion = Conclusion(result), !.due = Wait(t)]
<1>1. jobs' = [jobs EXCEPT ![q] = j]
    BY DEF Judged
<1>2. j.conclusion = Conclusion(result)
    BY DEF JobStates
<1> HIDE DEF j
<1>3. jobs'[q] = j /\ \A pr \in PullRequests \ {q} : jobs'[pr] = jobs[pr]
    BY <1>1
<1>4. j.conclusion = "success" => rivals[q] \subseteq Named(pulls[q].body, pulls[q].head)
    BY <1>2, ConclusionIs
<1> QED BY <1>3, <1>4 DEF JobsKnow

\* A job that starts, or has ended, has nothing to know yet.
LEMMA StartedKnows ==
    ASSUME JobsKnow(jobs, pulls, rivals), jobs \in [PullRequests -> JobStates], pulls \in [PullRequests -> PullStates],
           NEW q \in PullRequests, NEW one, NEW pull, one.pc # "judged",
           jobs' = [jobs EXCEPT ![q] = one], pulls' = [pulls EXCEPT ![q] = pull]
    PROVE  JobsKnow(jobs', pulls', rivals)
<1>1. jobs'[q] = one /\ \A pr \in PullRequests \ {q} : jobs'[pr] = jobs[pr] /\ pulls'[pr] = pulls[pr]
    OBVIOUS
<1> QED BY <1>1 DEF JobsKnow

\* What every step keeps of what the jobs know.
LEMMA JobsStepKnow ==
    ASSUME GateInv, ClaimSweepNext
    PROVE  JobsKnow(jobs', pulls', rivals)
<1>0. /\ pulls \in [PullRequests -> PullStates] /\ jobs \in [PullRequests -> JobStates]
      /\ JobsKnow(jobs, pulls, rivals) /\ SweepTypeOK
      /\ \A pr \in PullRequests : rivals[pr] \subseteq Secure
    BY TypeParts DEF GateInv
<1>1. CASE \/ \E lease \in Leases : Take(lease)
           \/ \E claim \in claims : Heartbeat(claim) \/ Release(claim)
           \/ Tick
    <2>1. jobs' = jobs /\ pulls' = pulls
        BY <1>1 DEF Take, Heartbeat, Release, Tick
    <2> QED BY <1>0, <2>1
<1>2. ASSUME NEW q \in PullRequests,
             (\E gen \in 1 .. nextId - 1 : Authorize(q, gen)) \/ Push(q) \/ Rerun(q)
      PROVE  JobsKnow(jobs', pulls', rivals)
    <2>1. PICK pull \in PullStates : Triggered(q, pull)
        BY <1>0, <1>2, EventTriggers
    <2>2. [NoJob EXCEPT !.pc = "running"].pc # "judged"
        BY DEF NoJob
    <2> QED BY <1>0, <2>1, <2>2, StartedKnows DEF Triggered
<1>3. ASSUME NEW q \in PullRequests, Merge(q)
      PROVE  JobsKnow(jobs', pulls', rivals)
    <2>1. jobs' = jobs /\ pulls' = [pulls EXCEPT ![q].state = "merged"]
        BY <1>3 DEF Merge
    <2>2. \A pr \in PullRequests : pulls'[pr].body = pulls[pr].body /\ pulls'[pr].head = pulls[pr].head
        BY <1>0, <2>1 DEF PullStates
    <2> QED BY <1>0, <2>1, <2>2 DEF JobsKnow
<1>4. ASSUME NEW q \in PullRequests, Job(q)
      PROVE  JobsKnow(jobs', pulls', rivals)
    <2>0. pulls' = pulls
        BY <1>4 DEF Job, JobEvaluates, JobFails, JobEnds
    <2>1. CASE JobEvaluates(q)
        <3>1. PICK t \in Clocks :
                  \/ Judged(q, Classify(pulls[q].body, pulls[q].head, claims, settings, t), t)
                  \/ Judged(q, "refused", t)
            BY <2>1 DEF JobEvaluates
        <3>2. Classify(pulls[q].body, pulls[q].head, claims, settings, t) = "none" =>
                  rivals[q] \subseteq Named(pulls[q].body, pulls[q].head)
            BY <1>0, NoneIsForTheSecure
        <3> QED BY <1>0, <2>0, <3>1, <3>2, JudgedKnows
    <2>2. CASE JobFails(q)
        <3>1. PICK result \in {"forbidden", "unreachable"} : Judged(q, result, now)
            BY <2>2 DEF JobFails
        <3> QED BY <1>0, <2>0, <3>1, JudgedKnows
    <2>3. CASE JobEnds(q)
        <3>1. jobs' = [jobs EXCEPT ![q] = NoJob] /\ NoJob.pc # "judged"
            BY <2>3 DEF JobEnds, NoJob
        <3>2. pulls' = [pulls EXCEPT ![q] = pulls[q]]
            BY <1>0, <2>0
        <3> QED BY <1>0, <3>1, <3>2, StartedKnows
    <2> QED BY <1>4, <2>1, <2>2, <2>3 DEF Job
<1>5. CASE Sweep
    <2>1. jobs' = jobs /\ pulls' = pulls
        BY <1>5 DEF Sweep, SweepStarts, SweepLists, SweepCannotList, SweepTakes, SweepEvaluates, SweepSkips,
                   SweepCompares, SweepPosts, SweepCannotPost, SweepTimesOut, SweepRaises, SweepEnds, AttemptFails,
                   Goes, Escapes
    <2> QED BY <1>0, <2>1
<1> QED BY <1>1, <1>2, <1>3, <1>4, <1>5 DEF ClaimSweepNext, Environment

\* What every step keeps of what the sweep knows.
LEMMA SweepNextKnows ==
    ASSUME GateInv, ClaimSweepNext
    PROVE  SweepKnows(sweep', checks, steady)
<1>1. CASE Sweep
    BY <1>1, SweepStepKnows
<1>2. CASE Environment \/ \E pr \in PullRequests : Job(pr)
    <2>1. sweep' = sweep
        BY <1>2 DEF Environment, Take, Heartbeat, Release, Tick, Authorize, Push, Rerun, Trigger, Merge,
                    Job, JobEvaluates, JobFails, JobEnds
    <2> QED BY <2>1 DEF GateInv
<1> QED BY <1>1, <1>2 DEF ClaimSweepNext

\* At first nothing is known.
LEMMA GateInvInit == ClaimSweepInit => GateInv
<1> SUFFICES ASSUME ClaimSweepInit
             PROVE  GateInv
    OBVIOUS
<1>1. SweepTypeOK
    BY InitType
<1>2. steady = {} /\ (\A pr \in PullRequests : rivals[pr] = {}) /\ sweep = Resting
    BY DEF ClaimSweepInit
<1>3. SweepKnows(sweep, checks, steady)
    <2>1. Resting.pc = "idle"
        BY DEF Resting
    <2> QED BY <1>2, <2>1, RestingKnows
<1>4. JobsKnow(jobs, pulls, rivals)
    BY <1>2 DEF JobsKnow
<1> QED BY <1>1, <1>2, <1>3, <1>4 DEF GateInv

\* Every step keeps the invariant.
LEMMA GateInvNext == GateInv /\ [ClaimSweepNext]_sweepVars => GateInv'
<1>1. ASSUME GateInv, ClaimSweepNext
      PROVE  GateInv'
    <2>0. SweepTypeOK /\ SweepTypeOK' /\ Remember
        BY <1>1, NextType DEF GateInv, ClaimSweepNext
    <2>1. steady' \subseteq Secure' /\ \A pr \in PullRequests : rivals'[pr] \subseteq Secure'
        BY <2>0, RememberIs
    <2>2. sweep' \in SweepStates
        BY <2>0, TypePartsNext
    <2>3. sweep'.pc \in {"standing", "post"} => steady' \subseteq steady
        BY <1>1, <2>0, JudgingBegins, RememberIs
    <2>4. \A pr \in PullRequests, h \in Heads : checks[pr][h] # NoRun => checks'[pr][h] # NoRun
        BY <1>1, <2>0, ChecksLast
    <2>5. SweepKnows(sweep', checks, steady) /\ JobsKnow(jobs', pulls', rivals)
        BY <1>1, SweepNextKnows, JobsStepKnow
    <2>6. SweepKnows(sweep', checks', steady')
        BY <2>2, <2>3, <2>4, <2>5, SweepKnowsLasts
    <2>7. ASSUME NEW pr \in PullRequests, jobs'[pr].pc = "judged"
          PROVE  rivals'[pr] \subseteq rivals[pr]
        BY <2>0, <2>7, RememberIs DEF JobStarts
    <2>8. JobsKnow(jobs', pulls', rivals')
        BY <2>5, <2>7 DEF JobsKnow
    <2> QED BY <2>0, <2>1, <2>6, <2>8 DEF GateInv
<1>2. ASSUME GateInv, UNCHANGED sweepVars
      PROVE  GateInv'
    BY <1>2 DEF sweepVars, item, GateInv, SweepTypeOK, Secure, JobsKnow
<1> QED BY <1>1, <1>2

\* The invariant holds in every state.
LEMMA GateInvariant == ClaimSweepSpec => []GateInv
BY GateInvInit, GateInvNext, PTL DEF ClaimSweepSpec

-----------------------------------------------------------------------------
\* The ways a check run changes: an event, the end of a job, or a post of the sweep.
Requested(pr, h) == checks'[pr][h] = Run("job", "none")
Finished(pr, h) ==
    /\ checks[pr][h] = Run("job", "none")
    /\ checks'[pr][h] = Run("job", jobs[pr].conclusion)
    /\ jobs[pr].pc = "judged" /\ pulls[pr].head = h
Revoked(pr, h) ==
    /\ sweep.pc = "post" /\ sweep.pr = pr /\ sweep.listed[pr].head = h
    /\ checks'[pr][h] = Run("sweep", sweep.conclusion)

\* What one check run more changes.
LEMMA OneCheckChanges ==
    ASSUME NEW f \in [PullRequests -> [Heads -> CheckRuns]], NEW q, NEW k, NEW run,
           NEW pr \in PullRequests, NEW h \in Heads
    PROVE  LET g == [f EXCEPT ![q] = [f[q] EXCEPT ![k] = run]]
           IN  g[pr][h] = f[pr][h] \/ (pr = q /\ h = k /\ g[pr][h] = run)
<1> DEFINE g == [f EXCEPT ![q] = [f[q] EXCEPT ![k] = run]]
<1>0. f[pr] \in [Heads -> CheckRuns]
    OBVIOUS
<1>1. CASE pr = q
    <2>1. g[pr] = [f[pr] EXCEPT ![k] = run]
        BY <1>1
    <2>2. CASE h = k
        BY <1>0, <1>1, <2>1, <2>2
    <2>3. CASE h # k
        BY <1>0, <2>1, <2>3
    <2> QED BY <2>2, <2>3
<1>2. CASE pr # q
    BY <1>2
<1> QED BY <1>1, <1>2

\* No step changes a check run in another way.
LEMMA CheckRunsChange ==
    ASSUME SweepTypeOK, ClaimSweepNext, NEW pr \in PullRequests, NEW h \in Heads
    PROVE  \/ checks'[pr][h] = checks[pr][h]
           \/ Requested(pr, h) \/ Finished(pr, h) \/ Revoked(pr, h)
<1>0. checks \in [PullRequests -> [Heads -> CheckRuns]]
    BY TypeParts
<1>1. CASE \/ \E lease \in Leases : Take(lease)
           \/ \E claim \in claims : Heartbeat(claim) \/ Release(claim)
           \/ Tick
    BY <1>1 DEF Take, Heartbeat, Release, Tick
<1>2. ASSUME NEW q \in PullRequests,
             (\E gen \in 1 .. nextId - 1 : Authorize(q, gen)) \/ Push(q) \/ Rerun(q)
      PROVE  checks'[pr][h] = checks[pr][h] \/ Requested(pr, h)
    <2>1. PICK pull \in PullStates : Triggered(q, pull)
        BY <1>2, EventTriggers
    <2>2. checks' = [checks EXCEPT ![q] = [checks[q] EXCEPT ![pull.head] = Run("job", "none")]]
        BY <2>1 DEF Triggered
    <2> QED BY <1>0, <2>2, OneCheckChanges DEF Requested
<1>3. ASSUME NEW q \in PullRequests, Merge(q)
      PROVE  checks'[pr][h] = checks[pr][h]
    BY <1>3 DEF Merge
<1>4. ASSUME NEW q \in PullRequests, Job(q)
      PROVE  checks'[pr][h] = checks[pr][h] \/ Finished(pr, h)
    <2>1. CASE JobEvaluates(q) \/ JobFails(q)
        BY <2>1 DEF JobEvaluates, JobFails
    <2>2. CASE JobEnds(q)
        <3> DEFINE old == checks[q][pulls[q].head]
                   new == IF old = Run("job", "none") THEN Run("job", jobs[q].conclusion) ELSE old
        <3>1. checks' = [checks EXCEPT ![q] = [checks[q] EXCEPT ![pulls[q].head] = new]]
            BY <2>2 DEF JobEnds
        <3>2. new = old \/ (old = Run("job", "none") /\ new = Run("job", jobs[q].conclusion))
            OBVIOUS
        <3>3. jobs[q].pc = "judged"
            BY <2>2 DEF JobEnds
        <3> HIDE DEF new
        <3>4. checks'[pr][h] = checks[pr][h] \/ (pr = q /\ h = pulls[q].head /\ checks'[pr][h] = new)
            BY <1>0, <3>1, OneCheckChanges
        <3> QED BY <3>2, <3>3, <3>4 DEF Finished
    <2> QED BY <1>4, <2>1, <2>2 DEF Job
<1>5. CASE Sweep
    <2>1. checks' = checks \/ (sweep.pc = "post" /\ checks' = Posted)
        BY <1>5 DEF Sweep, SweepStarts, SweepLists, SweepCannotList, SweepTakes, SweepEvaluates, SweepSkips,
                   SweepCompares, SweepPosts, SweepCannotPost, SweepTimesOut, SweepRaises, SweepEnds, AttemptFails,
                   Goes, Escapes
    <2>2. ASSUME sweep.pc = "post", checks' = Posted
          PROVE  checks'[pr][h] = checks[pr][h] \/ Revoked(pr, h)
        <3>1. checks' = [checks EXCEPT ![sweep.pr] =
                            [checks[sweep.pr] EXCEPT ![sweep.listed[sweep.pr].head] =
                                Run("sweep", sweep.conclusion)]]
            BY <2>2 DEF Posted
        <3> QED BY <1>0, <2>2, <3>1, OneCheckChanges DEF Revoked
    <2> QED BY <2>1, <2>2
<1> QED BY <1>1, <1>2, <1>3, <1>4, <1>5 DEF ClaimSweepNext, Environment

\* What the sweep revokes is a failure, of a check that was there, about no steady generation.
LEMMA RevokedIs ==
    ASSUME GateInv, NEW pr \in PullRequests, NEW h \in Heads, Revoked(pr, h)
    PROVE  /\ checks'[pr][h] = Run("sweep", "failure") /\ checks[pr][h] # NoRun
           /\ Named(sweep.listed[pr].body, h) \cap steady = {}
BY DEF GateInv, Revoked, SweepKnows

(***************************************************************************)
(* The refusals of sweep_all, for any pull requests: it publishes failures *)
(* only, and only where the job has published before.                      *)
(***************************************************************************)
THEOREM SweepOnlyRevokesHolds == ClaimSweepSpec => SweepOnlyRevokes
<1>1. ASSUME GateInv, [ClaimSweepNext]_sweepVars, NEW pr \in PullRequests, NEW h \in Heads
      PROVE  \/ checks'[pr][h] = checks[pr][h]
             \/ checks'[pr][h] = Run("job", "none")
             \/ checks[pr][h] = Run("job", "none") /\ checks'[pr][h].by = "job"
             \/ checks[pr][h] # NoRun /\ checks'[pr][h] = Run("sweep", "failure")
    <2>1. CASE ClaimSweepNext
        <3>1. Finished(pr, h) => checks[pr][h] = Run("job", "none") /\ checks'[pr][h].by = "job"
            BY DEF Finished, Run
        <3>2. SweepTypeOK
            BY <1>1 DEF GateInv
        <3> QED BY <1>1, <2>1, <3>1, <3>2, CheckRunsChange, RevokedIs DEF Requested
    <2>2. CASE UNCHANGED sweepVars
        BY <2>2 DEF sweepVars
    <2> QED BY <1>1, <2>1, <2>2
<1>2. GateInv /\ [ClaimSweepNext]_sweepVars =>
        [\A pr \in PullRequests, h \in Heads :
            LET run == checks[pr][h] IN
            \/ checks'[pr][h] = run
            \/ checks'[pr][h] = Run("job", "none")
            \/ run = Run("job", "none") /\ checks'[pr][h].by = "job"
            \/ run # NoRun /\ checks'[pr][h] = Run("sweep", "failure")]_sweepVars
    BY <1>1
<1> QED BY <1>2, GateInvariant, PTL DEF ClaimSweepSpec, SweepOnlyRevokes

(***************************************************************************)
(* A holder who always renews in time keeps the green, whatever is         *)
(* retried, delayed or changed while the sweep looks: for any latency.     *)
(***************************************************************************)
THEOREM SteadyIsNotRevokedHolds == ClaimSweepSpec => SteadyIsNotRevoked
<1>1. ASSUME GateInv, [ClaimSweepNext]_sweepVars, NEW pr \in PullRequests, NEW h \in Heads,
             checks'[pr][h] # checks[pr][h], checks'[pr][h].by = "sweep"
      PROVE  Named(sweep.listed[pr].body, h) \cap steady = {}
    <2>1. ClaimSweepNext
        BY <1>1 DEF sweepVars
    <2>2. ~Requested(pr, h) /\ ~Finished(pr, h)
        BY <1>1 DEF Requested, Finished, Run
    <2>3. SweepTypeOK
        BY <1>1 DEF GateInv
    <2>4. Revoked(pr, h)
        BY <1>1, <2>1, <2>2, <2>3, CheckRunsChange
    <2> QED BY <1>1, <2>4, RevokedIs
<1>2. GateInv /\ [ClaimSweepNext]_sweepVars =>
        [\A pr \in PullRequests, h \in Heads :
            /\ checks'[pr][h] # checks[pr][h]
            /\ checks'[pr][h].by = "sweep"
            => Named(sweep.listed[pr].body, h) \cap steady = {}]_sweepVars
    BY <1>1
<1> QED BY <1>2, GateInvariant, PTL DEF ClaimSweepSpec, SteadyIsNotRevoked

(***************************************************************************)
(* An item held steadily by one claim while the job runs never gets a      *)
(* green for a pull request that names another: for any claims.            *)
(***************************************************************************)
THEOREM GreenIsExclusiveHolds == ClaimSweepSpec => GreenIsExclusive
<1>1. ASSUME GateInv, [ClaimSweepNext]_sweepVars, NEW pr \in PullRequests, NEW h \in Heads,
             checks'[pr][h] = Run("job", "success"), checks[pr][h] # Run("job", "success")
      PROVE  rivals[pr] \subseteq Named(pulls[pr].body, h)
    <2>1. ClaimSweepNext
        BY <1>1 DEF sweepVars
    <2>2. ~Requested(pr, h) /\ ~Revoked(pr, h)
        BY <1>1 DEF Requested, Revoked, Run
    <2>3. SweepTypeOK /\ JobsKnow(jobs, pulls, rivals)
        BY <1>1 DEF GateInv
    <2>4. Finished(pr, h)
        BY <1>1, <2>1, <2>2, <2>3, CheckRunsChange
    <2>5. jobs[pr].pc = "judged" /\ jobs[pr].conclusion = "success" /\ pulls[pr].head = h
        BY <1>1, <2>4 DEF Finished, Run
    <2> QED BY <2>3, <2>5 DEF JobsKnow
<1>2. GateInv /\ [ClaimSweepNext]_sweepVars =>
        [\A pr \in PullRequests, h \in Heads :
            /\ checks'[pr][h] = Run("job", "success")
            /\ checks[pr][h] # Run("job", "success")
            => rivals[pr] \subseteq Named(pulls[pr].body, h)]_sweepVars
    BY <1>1
<1> QED BY <1>2, GateInvariant, PTL DEF ClaimSweepSpec, GreenIsExclusive

-----------------------------------------------------------------------------
(***************************************************************************)
(* Where a sweep ends with pull requests still to take up: only at an      *)
(* exception that sweep_all does not name, in the read of the standing     *)
(* check run if one is raised there, or else in the post of a failed       *)
(* verdict that is not about a steady claim.  So if only the timeout of    *)
(* the finding is to be feared, a sweep that finds nothing to revoke takes *)
(* up all; a listing, an evaluation or an attempt that fails ends none.    *)
(***************************************************************************)
THEOREM OnlyUncaughtAbandons ==
    ClaimSweepSpec =>
        [][NoneIsAbandoned /\ ~NoneIsAbandoned' =>
            \/ Unforeseen /\ sweep.pc = "standing"
            \/ /\ sweep.pc = "post" /\ sweep.conclusion = "failure"
               /\ checks[sweep.pr][sweep.listed[sweep.pr].head] # NoRun
               /\ Named(sweep.listed[sweep.pr].body, sweep.listed[sweep.pr].head) \cap steady = {}]_sweepVars
<1>1. ASSUME SweepTypeOK, ClaimSweepNext, NoneIsAbandoned, ~SweepTimesOut, ~SweepRaises
      PROVE  NoneIsAbandoned'
    <2>0. sweep \in SweepStates
        BY <1>1, TypeParts
    <2>1. CASE Environment \/ \E pr \in PullRequests : Job(pr)
        <3>1. sweep' = sweep
            BY <2>1 DEF Environment, Take, Heartbeat, Release, Tick, Authorize, Push, Rerun, Trigger, Merge,
                        Job, JobEvaluates, JobFails, JobEnds
        <3> QED BY <1>1, <3>1 DEF NoneIsAbandoned
    <2>2. CASE Sweep
        <3>1. CASE SweepStarts \/ SweepEnds
            BY <3>1 DEF SweepStarts, SweepEnds, Goes, Resting, NoneIsAbandoned
        <3>2. CASE SweepLists
            <4>1. PICK todo, listed : sweep' = [Resting EXCEPT !.pc = "next", !.todo = todo, !.listed = listed]
                BY <3>2 DEF SweepLists, Goes
            <4> QED BY <4>1 DEF Resting, NoneIsAbandoned
        <3>3. CASE SweepCannotList
            BY <2>0, <3>3 DEF SweepCannotList, AttemptFails, Goes, Resting, SweepStates, NoneIsAbandoned
        <3>4. CASE \E pr \in PullRequests : SweepTakes(pr)
            BY <2>0, <3>4 DEF SweepTakes, Goes, SweepStates, NoneIsAbandoned
        <3>5. CASE SweepEvaluates
            <4>1. PICK conclusion, due :
                      sweep' = [sweep EXCEPT !.pc = "standing", !.conclusion = conclusion, !.due = due, !.tries = 0]
                BY <3>5 DEF SweepEvaluates, Goes
            <4> QED BY <2>0, <4>1 DEF SweepStates, NoneIsAbandoned
        <3>6. CASE SweepSkips \/ SweepCompares \/ SweepPosts \/ SweepCannotPost
            <4>1. \/ sweep' = Following(sweep)
                  \/ sweep.pc # "idle" /\ sweep' = [sweep EXCEPT !.tries = @ + 1]
                  \/ sweep' = [sweep EXCEPT !.pc = "post", !.due = 0, !.tries = 0]
                BY <3>6 DEF SweepSkips, SweepCompares, SweepPosts, SweepCannotPost, AttemptFails, Goes
            <4>2. Following(sweep).pc = "next"
                BY DEF Following, Resting
            <4> QED BY <2>0, <4>1, <4>2 DEF SweepStates, NoneIsAbandoned
        <3> QED BY <1>1, <2>2, <3>1, <3>2, <3>3, <3>4, <3>5, <3>6 DEF Sweep
    <2> QED BY <1>1, <2>1, <2>2 DEF ClaimSweepNext
<1>2. ASSUME GateInv, [ClaimSweepNext]_sweepVars, NoneIsAbandoned, ~NoneIsAbandoned'
      PROVE  \/ Unforeseen /\ sweep.pc = "standing"
             \/ /\ sweep.pc = "post" /\ sweep.conclusion = "failure"
                /\ checks[sweep.pr][sweep.listed[sweep.pr].head] # NoRun
                /\ Named(sweep.listed[sweep.pr].body, sweep.listed[sweep.pr].head) \cap steady = {}
    <2>1. ClaimSweepNext
        BY <1>2 DEF sweepVars, NoneIsAbandoned
    <2>2. SweepTypeOK /\ SweepKnows(sweep, checks, steady)
        BY <1>2 DEF GateInv
    <2>3. CASE SweepRaises
        BY <2>3 DEF SweepRaises
    <2>4. CASE SweepTimesOut
        <3>1. sweep.pc = "post"
            BY <2>4 DEF SweepTimesOut
        <3> QED BY <2>2, <3>1 DEF SweepKnows
    <2> QED BY <1>1, <1>2, <2>1, <2>2, <2>3, <2>4
<1>3. GateInv /\ [ClaimSweepNext]_sweepVars =>
        [NoneIsAbandoned /\ ~NoneIsAbandoned' =>
            \/ Unforeseen /\ sweep.pc = "standing"
            \/ /\ sweep.pc = "post" /\ sweep.conclusion = "failure"
               /\ checks[sweep.pr][sweep.listed[sweep.pr].head] # NoRun
               /\ Named(sweep.listed[sweep.pr].body, sweep.listed[sweep.pr].head) \cap steady = {}]_sweepVars
    BY <1>2
<1> QED BY <1>3, GateInvariant, PTL DEF ClaimSweepSpec
=============================================================================
