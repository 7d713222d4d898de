# A verification of FsQuint in TLA+

FsQuint replays traces of Quint models against .NET code, runs the Quint tool
in custody-tracked processes, and ships examples, a telemetry adapter for its
agents and gates for its releases. This directory models the parts of it that
have concurrency, failure or ordering in them, checks the models with TLC on
small instances, and proves their main properties with TLAPS for every size.

## 1. Inventory

| Component | State | Operations | What is hard |
|---|---|---|---|
| Replay engine, `src/FsQuint/Replay.fs` | locals of one `Replay.run`: phase, index, applied, outcome, runtime; three cancellation tokens | Initialize, Apply, Observe, Cleanup of a caller's driver | cancellation and deadline race every driver call; exception filters read tokens late; cleanup exactly once |
| Custody pool, `src/FsQuint.Tooling/Tooling.fs` 57-275 | 16 process-wide slots under one lock; each invocation's session, first stop and ownership flag | claim (with sweep), prepare, run, observe, release, finally | an invocation sweeps sessions of invocations that are still running; sessions that never become releasable |
| Quint requests, `Tooling.fs` 277-466 | one request's timer, budget, probe and command | hash, probe, command, conversion of the outcome | a timer and a tick clock measure one deadline; two invocations share one budget |
| Contract store, `examples/AutomataReplay/ProtocolStore.fs`, `Protocol.fs` | inbox rows with leases, commit log, snapshots, outbox, action claims | submit, claim, expire, commit, reject, reschedule, dead-letter, deliver, acknowledge | stale leases, lost responses, retries, crashes, ordering per entity |
| Telemetry adapter, `.agents/skills/work-roadmap/scripts/roadmap-telemetry.py` | one private JSON file per dispatch: phase, cursor, pending batch, usage intent and ledger | begin, started, finish, usage-reconcile, observations | crash between any two saves, refusals, unknown delivery, another batch pending |
| Usage collection, `native_collaboration_usage.py` | none of its own | read the host's records, verify a turn's total | corrected, unreadable and missing records; a turn that still runs |
| Telemetry defaults, `fsgg_telemetry_defaults.py` | none | find the configuration | I/O only |
| Trace validation and comparison, `src/FsQuint/QuintReplay.fs` | none | canonical encoding, fingerprints, validate, decode, compare | agreement of several definitions of equality; limits |
| ITF reader, `src/FsQuint/Itf.fs` | none | read with limits | boundaries |
| Replay examples, `examples/Shared`, `BoundedQueue`, `CiPreflight` | a reducer's state | inputs bound to steps | sequential |
| Automata examples, `examples/AutomataReplay/*.fs` | statecharts in an external engine | scenario evaluation | sequential, apart from `Protocol.fs` |
| Provider probe, `examples/AutomataProviders/Program.fs` | an external SQLite or PostgreSQL store | seed, recover | one kill between claim and commit |
| Claim gate, `scripts/check-claim-generation.py`, `scripts/lib/gate.py` | none; reads claims (comments with a lease) and pull requests of a hosted service, publishes check runs | the required job judges one pull request; the scheduled sweep lists, judges, compares and posts | leases lapse without an event; listing, reads, clock and post are apart in time; every request may fail or time out |
| Routine eligibility, `.github/workflows/routine-eligibility.yml`, `scripts/check-routine-eligibility-envelope.py`, `evaluate_routine` of the gate | one run's clone, whose history is known in part, and what it observed | fetch, connect the moved base, prove the push parent, envelope, verdict | both branches move during a run, by force too; re-runs replay old events; missing history answers like no history |
| Release qualification, `eng/Qualification` | none; reads registries and tags | generate, read back | polling, tags that move |
| Archive and nuspec scripts, workflows, tests | - | - | data, configuration, evidence |

**How they interact.** `Replay.run` calls `QuintReplay.validateTrace` and
`encodeState` and its caller's driver. The examples are such drivers.
`Quint.run` calls `executeText` up to twice under one budget, and every
`executeText` of the process shares the custody pool. The processors and
dispatchers of `Protocol.fs` share one store. The telemetry adapter talks to
an engine by subprocess and reads the host's records through
`native_collaboration_usage.py`. The gate's job and sweep share nothing but
the hosting service: claims, pull requests and check runs. The routine check
calls the gate's `evaluate_routine` on what the workflow fetched. Nothing else
is shared.

**What makes each correct.** Replay: an outcome means what it says, effects are
made only while everything agreed, a runtime is always cleaned up. Custody: an
unreleased session is never forgotten and a slot never double-booked or
leaked. Requests: a positive result has complete evidence, and every request
is answered. Store: one ordered log per entity, each command committed at most
once, actions delivered until acknowledged. Telemetry: a cursor names one
batch, the engine sees one log that grows event by event, the phase is never
ahead of it, usage is complete only when published, and it is of an ended turn
and as the host counted it in the newest record that could be read. Claim gate: one generation holds an
item, a green excludes rivals of a steady holder, a sweep only revokes and
never a steady holder, and a green that lost its claim is revoked. Routine
eligibility: a green is bound to its head, measured from a shared commit and
allowed by a live policy. Comparison and ITF: agreement with a canonical form.

The hazards, each at its line and with the property that would catch it, are
listed in `PROJECT.json`.

## 2. Modules

| Module | Models | Extends or instantiates |
|---|---|---|
| `ReplayContract` | what `Replay.fsi` and `docs/usage.md` promise of a replay | - |
| `Replay` | `Replay.run`, one step per token read, driver call and reply | instantiates `ReplayContract` |
| `ReplayProofs` | its theorems | `Replay` |
| `Custody` | `claimSlot`, `releaseSlot`, `executeText` of concurrent invocations | - |
| `CustodyProofs` | its theorems | `Custody` |
| `QuintRun` | `Quint.run` and `runInternal` composed with the pool | `Custody` |
| `QuintRunProofs` | its theorems | `QuintRun`, `CustodyProofs` |
| `CommandLog` | what `PROTOCOL.md` promises of a store: an ordered log | - |
| `ProtocolStore` | `TestStore` with its workers | instantiates `CommandLog` |
| `ProtocolStoreProofs` | its theorems | `ProtocolStore` |
| `DispatchLog` | what `SKILL.md` promises of a dispatch's events: a log | - |
| `Telemetry` | one dispatch of the telemetry adapter, with the usage it collects | instantiates `DispatchLog` |
| `TelemetryProofs` | its theorems | `Telemetry` |
| `ClaimGate` | the gate's verdict: leases, winner, authorization, exit code | - |
| `ClaimGateProofs` | theorems about the verdict | `ClaimGate` |
| `ClaimSweep` | workers, pull requests, the job and the sweep over time | `ClaimGate` |
| `ClaimSweepProofs` | its theorems | `ClaimSweep`, `ClaimGateProofs` |
| `Routine` | the routine-eligibility check over moving branches | - |
| `RoutineProofs` | its theorems | `Routine` |
| `MC...` | instances for TLC | the module of that name |

Definitions whose names end in `Mutant...` are plausible faults of the
definition they are named after (a dropped guard, an off-by-one, a swapped
check). Nothing refers to them. Substituting one for its original must make
TLC find one property violated, which shows that the property says something;
`PROJECT.json` says which.

**Replay.** The task's locals are variables of the same names; `pc` says
between which two effects of the source the task is. Tokens are three Booleans:
the caller's, the deadline's, and the linked one, which becomes true some time
after either. A driver call ends with any reply its type allows, an
`OperationCanceledException` or another exception. `calls`, `opened` and
`confirmed` record the calls made, for the properties. A state is abstracted to
whether the observation is equal, different or not encodable.

**Custody.** One process per `executeText`. `custody` is the array: `Vacant`,
`Claimed`, or the invocation whose session it retains. A lock region is one
step, everything between two of them another. The session is external: its stop
cause is set once, its tasks may settle, and it may become releasable after
that, or never. `freed` is what `TryRelease` would answer, `released` that it
was accepted.

**QuintRun.** Adds the request's place, its result and the timer. `timerFired`
(a `CancellationTokenSource`) and `workExpired` (the tick clock) are separate
because the code reads both. The text the tool prints is abstracted to the
status it yields.

**ProtocolStore.** A token stands for the delivery it leases: `work[t]` is what
the worker holding token `t` is doing. The pause before the commit is the time
between reading the snapshot and committing. A state is the set of commands it
folds, so a lost or doubled update is visible. The processor and the dispatcher
come from a package; they are modelled by what `Protocol.fs` drives them to do.

**Telemetry.** `file` is the saved state; `pc` is where the running command is.
Every save is a step of its own and a crash may come between any two. A batch
is its cursor and its event. The engine applies a batch, refuses it for good,
or leaves its delivery unknown, applied or not. The host's records of a turn
are a constant sequence (`Records`), of which `usage[t]` exist so far; each has
its response, that response's tokens, the turn's total up to then and whether
it can be read. A record that cannot be read is one that `rollout_usage` skips,
a line that is too long or does not start with its type; one that is malformed
makes the collection fail. `Ended` says from which record on the turn's status
is final. `Rows`, `Newest`, `Final`, `Total` and `Verified` are `rollout_usage`
and `collect`: a later record of a response replaces the earlier one, and a turn
counts only if it has ended and its counters add up to the total in the newest
record that can be read. `mishaps` is history: whether an
observation was pending while an intent was saved ("crossed"), a run ended
between an intent and its batch ("torn"), or a batch that moves the phase was
refused ("refused"). To `DispatchLog` the log is what the engine applied
(`engine`), `Known` the events the file counts as applied, and `Behind` the
phase before the pending one.

**ClaimGate, ClaimSweep.** `ClaimGate` has no variables: it is the verdict
(`classify`) on a body, the item's claims, the gate's settings and a time, and
the exit code that `gate.py` makes of it. Expiry has a last instant, as
`datetime` does. `ClaimSweep` puts it to work. The comments are read first and
the clock after them, so `Clocks` are the times the clock may show after an
answer, and a reader that chose a later one waits until then (`due`). The
sweep's list, each evaluation, the read of the standing check run and the post
are steps of their own, with failed attempts between them; the post may time
out having created the check run or not. The broad handler of the sweep covers
the evaluation alone: there a crash skips the pull request (`SweepSkips`). An
exception that is not listed in the read of the standing check run
(`SweepRaises`) or in the post (`SweepTimesOut`) escapes and ends the sweep. The
former is allowed by the constant `Unforeseen`. An event of a pull request starts its
job anew, and a cancelled job's check run is superseded. `steady` and
`rivals` are history: the claims that held the item, with `Latency` to spare,
ever since the sweep took up its pull request, and ever since a pull request's
job began. `Secure` is the claim that does so now, if there is one.

**Routine.** The commits that may ever exist, with parents, trees and
policies, are constants. A run is a record; what it knows of the history is the
set `full` of commits whose parents were fetched, and `IsAncestor` and
`MergeBases` answer as git does in a shallow clone. Ancestry is defined by sets
closed under the fetched parents and not by recursion, so that it can be proved
about. Branches move between any
two fetches. `events` keeps each payload, and a run starts on any of them, for
a re-run replays its event.

## 3. Runs

| Run | Instance | Shows | States |
|---|---|---|---|
| `replay` | traces of 0 to 3 steps | outcomes, effects, cleanup, refinement of the contract, termination | 3.4 thousand |
| `custody` | 2 invocations, 1 slot, symmetric | retention, ownership, refusals, stop causes | 405 thousand |
| `quint_run` | 1 request, 2 invocations, 1 slot, 3 commands | evidence, cancellation, one slot, every request returns | 16 thousand |
| `protocol_store` | 2 entities, 3 submissions, batches of 2, 2 attempts, 4 claims | ordered log, exactly-once commit, outbox, fencing, refinement of the log | 550 thousand |
| `telemetry` | 2 turns of 2 and 4 records, 1 observation, 8 batches | cursors, phases, usage is of ended turns and the host's, each harm has its cause, refinement of the dispatch's log | 2.7 million |
| `claim_sweep` | 1 pull request of 2 heads, 2 claims, leases 2 and 7, 3 gate settings, clock to 2, latency 1 | types, the sweep only revokes, steady claims keep their green, rivals of a holder get none | 1.4 million |
| `claim_sweep_live` | 1 pull request, 2 claims, reads of 2 attempts, clock to 2 | a green without its claim is revoked | 100 thousand |
| `routine` | 7 commits, 3 base tips, 3 heads, 7 bodies, 2 events | greens are bound, measured, live | 1.3 million |
| `telemetry_coverage`, `telemetry_retry`, `telemetry_revisions`, `claim_sweep_post` | smaller | four counterexamples, section 6 | |

**Bounds.** `MaxSteps` 3: the loop body depends on the step only through
its index, so a first, a middle and a last step cover it. One slot for two
invocations is the contended case: the second claim must sweep or be refused,
and a swept slot is taken by the other one while its former owner runs. Four
claims (`MaxToken`) let a command be claimed, expire, be claimed again, commit
and have its action delivered, with a second worker beside it; three
submissions give one entity an order and another one independence. Eight
batches (`MaxSequence`) are begin, start, finish, thread, three of usage and
one observation. One turn of a single response is corrected. The other has two
responses: the first is recorded while the turn runs, the second cannot be read
and is the last record when the turn ends, a correction of the first makes it a
gap, and a record of the second closes the gap. `MaxToken` and
`MaxSequence` are bounds of the models, guarded where they bite; the code has
no such limits. `MaxAttempts` and `Batch` are smaller than the code's 3 and 4,
which are parameters there too.

In `claim_sweep` a claim declares a lease of 2, or of 7, which passes the last
instant (6) and falls back to the gate's own of 1, and an operator may override
both; claims of the gate's lease lapse within the clock or are renewed. Two
claims are a holder and a rival, two heads let a
push come between the sweep's listing and its post. Pull requests share only
the claims and the sweep, which takes one at a time, so one suffices for the
three step properties, and the theorems are about any number;
`claim_sweep_post` needs two. `Unforeseen` is TRUE in `claim_sweep` and
`claim_sweep_live`, and FALSE in `claim_sweep_post`, where only the timeout can
be the counterexample. `GhTries` 1 makes
each failed read final there, 2 in `claim_sweep_live` (the code's 3 tries
differ only in length). In `routine` the history has a merge of the head into
the base, a changed and a broken policy, a merge base reached two ways and a
forced push; the deepenings are one and two steps instead of the workflow's
8 to 4096 commits, so that some ancestors lie beyond them. Two events are
an opening and any one push or edit, after which either may be run again.

Deadlock is not checked in any run: each models work that ends, or that a
bound of the model ends, and then has no next step.

**Fairness.** `Replay`'s `FairSpec` makes the task's own steps and the
propagation of cancellation weakly fair (the thread pool runs continuations),
and assumes that a callback returns once its token is requested and that
`Cleanup`, which gets no token, returns. The code's own comment asks for process
isolation of any other driver, which would keep the task for ever.
`FairRunSpec` makes each request's steps, its invocations' steps and the
tick clock weakly fair: a clock advances and awaited session calls return,
which is the capability `BoundedReturnWithRetainedCustody` the code requires.
The session's processes are given no fairness: they may never settle.
`FairClaimSweepSpec` makes time pass and the schedule start sweeps for ever
(weak fairness of `Tick`, `SweepStarts`, `SweepEnds`). Each request of the
sweep (list, evaluate, compare, post, and taking up a given pull request) is
strongly fair: it may fail, time out, raise or be given up any number of times,
but not each time that it is made. Jobs, workers and events get no fairness.
`ProtocolStore`, `Telemetry` and `Routine` state safety only: a caller or an
event decides when to run a command, a worker or a check.

## 4. Proofs

Each component has an inductive invariant, a conjunction of named parts; the
initial states satisfy it, each step preserves it (one proof step per action),
and it implies the properties.

* `ReplayProofs`: the safety properties of `Replay` for a trace of any length
  (`MaxSteps \in Nat`), and that `Replay` implements `ReplayContract`. The
  invariant relates the task's place to the numbers of calls made, the
  confirmed states and the runtime; the properties alone say nothing of the
  places in between. `ReplayIsFinite` is the half of termination that is a
  safety property: each step, of the task, the driver or the tokens, takes from
  `Effort`, a natural number of at most six times the trace's length and 17.
* `CustodyProofs`: for any finite or infinite set of invocations and any
  `Capacity \in Nat`, no unreleased session leaves the pool, claims have one
  owner, exit codes are backed by a released session, first stops survive and
  refusals are genuine. The invariant ties each slot's content to the place of
  the invocation that put it there; the sweep is the case that needs it, for it
  changes the slots of others.
* `QuintRunProofs`: `RunSpec => CustodySpec`, so all of the above holds of
  requests, then the request's own properties for any number of requests. The
  invariant relates a request's place to the outcomes of its two invocations.
* `ProtocolStoreProofs`: for any entities, submissions, workers, batches and
  attempts, the log's properties and that the store implements `CommandLog`.
  The invariant ties each lease to its token and the snapshot that a paused
  worker read to the epoch it read it at: a commit that passes the fence was
  computed from the current snapshot.
* `TelemetryProofs`: for any turns, observations, records and number of
  batches. The invariants build on one another. `TypeInv` adds
  to the types that a batch being submitted is pending and an intent being
  published is set. `CursorInv` adds that an applied batch is below the file's
  cursor, or at it and then the pending one: this is what a refusal's rollback
  relies on. `PhaseInv` (`BatchFits`, `PlaceFits`) adds that a pending batch
  leads where its event says and that a command waits for its own batch.
  `HostInv` adds that what was collected, intended, pending or applied is of an
  ended turn and the total in the record that was the newest readable one, at
  some number of records between the turn's end and now. The sum in `Total` needs
  no induction: `Verified` compares it with a total that the host recorded.

  `DispatchIsOneLog` is the refinement. A save that makes a batch pending is
  invisible to the engine; a submission appends the batch, known or unknown;
  the save after it counts what was there. It rests on `SubmittedIsNext`: what
  is submitted is the pending batch, whose cursor is one above all that is
  counted, and its event can be published in the phase before it. The log does
  not forbid the same event under a new cursor, and the adapter may do that: if
  it stops after the thread's batch was saved as applied (line 203) and before
  its flag is (line 579), the next reconcile publishes the thread again.

  `HarmHasItsCause` says which mishap each of the three findings needs. It
  takes three invariants that are false in general and hold until a mishap:
  `AloneInv` (until "crossed" the ledger, the intent and the pending batch
  bound the revisions applied), `WholeInv` (until "torn" what the ledger has is
  applied, what the intent has is applied or pending, and every turn collected
  is in the ledger, the intent or still to be looked at)
  and `RetryInv` (until "refused" a pending phase has its batch). The runs
  `telemetry_coverage`, `telemetry_retry` and `telemetry_revisions` show that
  each harm does follow its mishap.
* `ClaimGateProofs`: the verdict itself. One generation holds an item
  (`OneGeneration`); a green is for a body that is exactly one complete
  authorization, bound to the head and to a comment id, whose generation holds,
  and any other body is refused with the same result whatever there is to read
  (`GreenIsAuthorized`); a claim that is added never makes a green
  (`ForgedNeverGrants`); the published deadline is exact and can be represented
  (`DeadlineIsExact`, `DeadlineIsRepresentable`). No state, so no invariant.
* `ClaimSweepProofs`: for any pull requests, leases, settings, latency and
  bounds. The invariant `GateInv` is the types, that each steady claim and
  each rival is secure now (it holds the item at `now`, still at
  `now + Latency`, and every claim before it has lapsed), and what the sweep
  and the jobs know: a conclusion of failure that is still to be posted names
  no steady claim, a sweep about to post has a published success to revoke, and
  a conclusion of success names every rival. It is needed because
  the properties speak of the moment of posting and the verdict is older;
  lapsing is monotone in time, which carries a verdict over the wait.
  `OnlyUncaughtAbandons` bounds the gate's finding: a sweep ends with pull
  requests left only by an exception in the read of a standing check run, if one
  is `Unforeseen`, or in the post of a failure for a listed authorization that
  names no steady claim. Without unforeseen exceptions, a sweep that has nothing
  to revoke takes up every pull request that it listed.
* `RoutineProofs`: for any history, tips, policies, bodies and deepenings. The
  argument is that less history closes more sets under parents, so an ancestor
  found in a part of the history is one in the whole (`AncestryIsTrue`); the
  invariant `RoutineInv` carries to the verdict that the base a run has read
  was live during it and that a previous head is the event's.

The assumptions are the named ASSUMEs of the constants, which the runs
evaluate. Every safety property of a passing run is proved. Only
model-checked: the liveness properties `Reports`, `EveryRequestReturns` and
`StaleGreenIsRevoked` (the prover has no fairness). The three properties that
telemetry violates and the one of the sweep are false, and what is proved of
them is when they become so.

## 5. Not modelled

See the components with the status `not_modelled` or `partly` in
`PROJECT.json`, each with its reason. In the modelled ones: the wording of
messages and reports, the values inside states, the process launch parameters,
the counters of the store that only tests read, `ExtendLease` and the read-only
queries of the store.

In the adapter: `population_only`, the search of a dispatch by identity, the
drain and the dashboard, and the paging of the app server. Two telemetry
commands at once for one dispatch are not modelled: the adapter has no lock,
and nothing starts two at once. `fsgg_telemetry_defaults.py` looks up
configuration and decides nothing the model has.

In the gate: an `updated_at` that cannot be read, an item that is a 404, a
negative `--lease-minutes`, `--dry-run` and ages below the unit of the clock.
Comments, pull requests, check runs, their workflows and merges are external,
modelled by what the scripts read and write. `gate.py`'s YAML, census and report
helpers serve other gates. An envelope that refuses exits 1 through its own
`fail`, outside `gate.run`.

Four things the models show beside their properties. The sweep lists bodies
once, so it may revoke a body that was authorized anew on the same head in the
meantime; a re-run of the job clears it, and `SteadyIsNotRevoked` speaks of the
listed authorization. The workflow may record `observed_base` before a later
fetch moves the base again, so the scripts it runs may be older than the policy
it reads. And a head whose merge into the live base lies beyond the fetched
history is not seen to be contained in it and may be admitted, although the
comment at lines 59-60 of the envelope says incomplete history never widens what
is admitted: `GreenIsMeasured` claims only what the diff needs. Last, a record
that `rollout_usage` skips (line 131 of `native_collaboration_usage.py`) leaves no
trace: when it is the last of an ended turn, the record before it is taken for
the last, and its total, an earlier one, is verified and published as the turn's.
`UsageIsTheHosts` therefore speaks of the newest record that could be read, and
the `telemetry` run has such a turn.

The encoder, the comparison and the ITF reader are functions over characters
and nested documents, which these models abstract away; they have no
interleaving or failure, and their unit tests reach them.

## 6. Findings

Three are in the telemetry adapter, one in the gate.

* `telemetry_coverage`: the usage intent and its batch are saved separately. If
  the process ends between the saves, the next `usage-reconcile` takes the
  intent as published, and may report complete usage that the engine never got.
* `telemetry_retry`: a batch of `begin`, `started` or `finish` that the engine
  refuses as invalid is given up, but the phase stays pending, and no later
  command can publish a corrected one or move on.
* `telemetry_revisions`: any pending batch is taken for the intent's. If usage
  was applied and the command crashed before the ledger was saved, and an
  observation is pending and then refused, the intent is dropped and corrected
  usage is published under a revision the engine already has. It takes the
  interleaved observation, as `HarmHasCause` says, and is proved to.
* `claim_sweep_post`: a post that times out raises an exception that neither
  `gh_api_post` nor `sweep_all` catches, so it ends the sweep before the pull
  requests after it are judged. An exception that the read of the standing check
  run does not list (line 1145) does the same; the run leaves it out, so that the
  counterexample is the timeout. `claim_sweep_live` shows that later sweeps make
  up for both as long as no request fails each time.

## 7. Plan

1. `Replay`, `Custody`, `QuintRun`, `ProtocolStore`, `Telemetry`,
   `ClaimGate`, `ClaimSweep` and `Routine`: modelled, checked and proved.
2. `ReplayValues`: the encoder, the raw reader and the schema-v1 decoder over
   one small set of documents; properties: equal texts mean equal values (line
   124 of `QuintReplay.fs` looks doubtful), a document the reader accepts is
   decoded or refused and never raises (line 229 looks doubtful).
   `TraceCheck`: `validateTrace` and `compare` against a reference definition
   of the first difference.
3. A run for the containment claim of the envelope over shallow history.
4. `BoundReplay`: the example drivers of `Replay`. `Readback`: polling and tag
   stability of the release. `ProviderCrash`: seed, kill and recover as an
   instance of `CommandLog`.
