# Models of webguard-instance in TLA+

webguard-instance is a worker of WebGuard: every minute it asks WebGuard Core
for monitors that are due, checks them (HTTP, keyword, ping, port, DNS, SSL,
domain expiration) and sends the results back. This directory holds TLA+
modules of the program, the TLC configurations that check them, and TLAPS
proofs. Names follow the Go code; `PROJECT.json` gives for every definition the
lines it models, for every property the faulty variant of the code that breaks
it, and for every hazard the properties that watch it.

## The system

| Component | Source (under `src/`) | State | Operations |
|---|---|---|---|
| Leased execution | `internal/adapters/runner/job_leases.go` | per run: batch, worker goroutines, one renewal goroutine each, gauges; leases at Core | claim, validate, maintain, execute, renew, complete, release |
| Execution controller | `internal/application/execution_controller.go` | run lock, drain and active flags, idle channel, last summary | `RunMonitoring`, `BeginDrain`, `WaitForIdle` |
| Serve command | `cmd/webguard-instance/main.go`, `internal/adapters/scheduler`, `internal/adapters/health` | signal, dispatch and health contexts | schedule, drain, shut down |
| Phase dispatch (runs without leases) | `runner.go`, `internal/application/coordinator.go` | three phases, worker pools, shared slots | fetch, dispatch, execute, publish |
| Cadence | `response_cadence.go`, `runner.go` (`allowAuxiliaryPhase`), scheduler | last starts of monitors and phases | due? start, refuse |
| Callback delivery | `executor_registry.go` (`publishExecution`), `internal/adapters/coreapi/client.go` | idempotency key, attempt | post, retry |
| Executor registry | `executor_registry.go` | seven executors, the result of one check | select, bound the timeout, execute |
| HTTP and keyword probe | `runner.go` (`performHTTPRequest`) | URL variants, attempt, kept response | request, retry, report |
| Ping, port and certificate checks; target and egress policy | `runner.go`, `internal/adapters/target` | addresses found by each lookup | validate, resolve, dial, redirect |
| DNS record checker | `dns_record_checker.go` | deadline, records received | ask over UDP, over TCP, compare |
| Domain lookup | `internal/adapters/domainlookup` | candidates, RDAP and WHOIS answers | ask, merge, conclude |
| Core requests, configuration | `internal/adapters/coreapi/client.go`, `internal/config` | settings, key file, list fetched so far | fetch type by type, claim, refuse; readiness |
| Monitor types, health endpoints, telemetry | `internal/domain/monitor/types.go`, `internal/adapters/health`, `internal/application/telemetry.go` | gauges and counters | decode, answer `/readyz`, count (in part, see *What is left out*) |

How they interact. The scheduler goroutine calls `RunMonitoring` at minute
boundaries, `monitoring` (the one-shot command) calls it once. The controller
admits one run at a time and hands it the execution slots through the context.
A run uses leases or it does not (`WEBGUARD_JOB_LEASES_ENABLED`): either it
claims a batch and works on it with a goroutine per job and a second one that
renews the lease, or it fetches the monitorings of each type and starts three
phases side by side. Both execute checks under the shared slots through the
executor registry, keep the gauges and publish through the callback client.
On SIGTERM the drain goroutine marks the controller as draining, cancels the
dispatch context (which is the run's), waits for idleness under a deadline and
stops the health server, whose return ends the process. Core, an external
service, grants the leases, fences them by attempt, and de-duplicates results
by idempotency key and endpoint.

What is hard here: lease expiry against two goroutines per job, an unreliable
network and several instances; two locks and a channel replaced by every run;
cancellation that makes a healthy target look down; unbuffered channels and
bounded pools that everyone waits on; a cadence that combines a stale list with a
forgetful process; retries of calls that have effects; names that resolve
differently each time they are looked up; two exchanges under one deadline; the
merging of two unreliable registries; and a list put together from requests
between which Core changes. The list with lines is `hazards` in `PROJECT.json`.

## Modules

    ExclusiveJobs           abstract: what leased execution promises
    LeaseCore               Core's side of the leases (external)
     `- JobLeases           leased execution in any number of instances;
         |                  ImplementsExclusive instantiates ExclusiveJobs
         |- MCJobLeases     instances for TLC
         `- JobLeasesProofs
    RunGate                 abstract: what the controller promises
     `- ExecutionController the controller; ImplementsGate instantiates RunGate
         |- MCExecutionController
         `- Serve           scheduler, drain and shutdown around the controller
             |- MCServe
             `- ExecutionControllerProofs   of both
    PhaseDispatch           a run without leases          (MCPhaseDispatch, PhaseDispatchProofs)
    Cadence                 what is due, over time        (MCCadence, CadenceProofs)
    ResultLedger            abstract: what the delivery of results promises
     `- CallbackDelivery    callbacks, keys and retries   (MCCallbackDelivery, CallbackDeliveryProofs);
                            ImplementsLedger instantiates ResultLedger
    CheckLimits             the constants of single checks
     |- HTTPProbe           HTTP and keyword
     |- EgressCheck         ping, port, certificate, requests of HTTP
     |- DNSRecordCheck      DNS records
     |- DomainLookup        domain expiration
     `- ExecutorRegistry    composes the four
         |- MCChecks
         `- DomainLookupProofs      lemmas about the domain lookup in it
             `- ExecutorRegistryProofs
    CoreRequests            lists, claims, configuration  (MCCoreRequests, CoreRequestsProofs)

An operator called a *faulty variant* in a comment is not part of any
specification. It is what a plausible mistake in the code would make of the
definition that follows it; put in its place it must break a property, which
shows that the property depends on that code.

### JobLeases, LeaseCore, ExclusiveJobs

A task is a position in an instance's batch. Its `pc` follows `runClaimedJob`
(queued, acquire, execute, stopping, publish, sent, release, settled), its
`renew` the goroutine of `startLeaseRenewal` (check the remaining time, wait
for half of it, extend). `stopping` is `stop()`: `cancelJob` has been called and
the worker waits for the renewal goroutine. Requests to extend, complete and
release travel in sets: they may be lost, handled late, and a completion, which
carries an idempotency key, more than once. A claim whose answer is lost
(`ClaimLost`) leaves leases at Core of which no instance knows. An instance may
be cancelled (SIGTERM) and restarted at any moment; its requests stay under way.

What an executor observes is which result fields it fills and whether its
context ended under it (`tainted`): such a result may blame the target for what
is not its fault. Jobs come as `ok`, `maintenance`, `unsupported` phase or type,
`invalid` payload, or without an ID, in the order `runClaimedJob` and
`validateClaimedJob` tell them apart. Core is modelled by the contract the client
relies on, permissively: it accepts an expired lease that nobody else has got.

Assumed: an instance's clock is not behind Core's (`Lead` is a natural number
per instance; `hazards` says what a clock behind would do), and a granted lease
ends `LeaseDuration` after the grant. An extension does not carry more than that.

ExclusiveJobs is the promise without leases, clocks and requests. A job is worked
on in turns (Core's attempts); a turn is one worker's at most, and nobody's when
the answer to the claim was lost; no turn begins while somebody works on the job;
a result is accepted of the current turn, when the work on it is over, and then
nobody works on the job again. Who works is who executes or reports under a lease
it believes in, so that an expired lease makes its worker pause, and an extension
that is answered at last may let it go on. Jobs without an ID are left out: they
are never worked on.

### ExecutionController, RunGate, Serve

A section under `stateMu` is one step; `mu` (`TryLock`) and `stateMu`
interleave. Channels are named by the run that made them. Storing the summary
and recording the outcome is one step (`recorded`); the counter of skipped runs
and `LastSummary` are left out. `MaxRuns` bounds the runs and guards only `Call`.
RunGate is the promise without locks: one run at a time, none once draining,
idleness told only to those who waited at an idle moment.

Serve is the controller with the scheduler as its only caller and the drain
goroutine as its only waiter. The timer may fire at any time, and `select` may
take it although the context is cancelled.

### PhaseDispatch

The coordinator's goroutine per phase, its dispatcher on an unbuffered channel,
its workers, the slots all phases share, the gauges, and the buffered channel
of results that is read after `Wait`. Which checks are due is left open (any
may be refused), `Cadence` decides that. Of the callbacks Core receives only
whether their check was cut short is kept.

### Cadence

Time is counted in half minutes, so that a timer can fire a little late. Core's
`check_interval_seconds` is chosen at the start for each monitor, 0 standing
for an interval that is not sent. A result reaches Core, is lost, or arrives
late after the instance gave up. The dispatcher comes to each monitor of the
list (`snapshot`) at a time of its own, since busy workers hold it up, and judges
it by the clock then: `SkipNotDue`, `Maintain` (any monitor may be in maintenance;
the dispatcher answers for it) or `Queue`; a worker judges once more (`Start`,
`Refuse`). A restart empties the maps of the process.
Both sides use one clock. `skippedCheck` and `skippedPhase` count, as history,
polls that passed by a monitor or phase. `MonitorsNotStarved` allows a monitor the
delay of a timer on top of its interval and a minute: a result that arrives
just before a late timer fires makes the list of that same minute the first to
pass the monitor over.

### CallbackDelivery, ResultLedger

`publishExecution` and `postCallbackJSON`, step by step: the key (drawn, or
issued by Core for a leased job), one payload after the other, retries of
transport errors and 5xx answers, the request that cannot be made because the
key file is missing. Requests travel, are handled late or twice,
and Core may answer 5xx before or after it has applied one. A leased job may
have several publishers, one per worker that was given it. Assumed: drawn keys are
unique; Core applies a key once per endpoint. `MCCallbackDelivery` adds
`scenario`, the publishers that take part, so that one run checks both a leased
job and a run without leases.

ResultLedger has two variables, Core's books and what the callers were told. A
result is entered at most once per job and endpoint, only when its publisher has
been told of the payloads before it, perhaps long after it was told "error"; "nil"
is told only of what is in the books; and what was told is final.

### ExecutorRegistry and the checks it composes

`Execute` finds the executor of a phase and type as `newExecutorRegistry` lists
them, bounds the timeout and begins one of the four kinds of checks, whose steps
then are the registry's `Check`; `Return` makes the result with its fields. The
check modules share `pc`, `status` and `observation`; the other variables of
those that do not run stay as they were. `BeginRequests` and `Request` stand for
what HTTPProbe leaves out of an HTTP check: the requests as the network sees
them, with their connections and redirects, which are EgressCheck's.

*HTTPProbe*: `performHTTPRequest` over the URL variants of all kinds of targets
(with "www.", without, neither possible; empty path, "/", another), with answers
chosen freely by status and keyword. A request and its answer are one step.

*EgressCheck*: what connections are opened to. An address is public, special
(one of netip's predicates: loopback, private, link-local, ...) or in one of the
listed ranges, and may be an IPv4 address mapped into IPv6, which the predicates
see through and a prefix does not. A target's host is a name, "localhost", an
address, or an address in brackets. A name may resolve to anything at every
lookup: by `ValidateHost`, by `SafeDialContext`, at every redirect, retry and
URL variant. The ping command's own lookup is out of the process's reach; only
its outcome is modelled. Each request dials, which a reused connection would
spare.

*DNSRecordCheck*: a value is what it means and how it is spelled (canonical,
another way, malformed); a record has the type asked for or another. The server
answers its zone, a truncated part of it over UDP, or fails. `elapsed` is the time
of both exchanges, which one context bounds.

*DomainLookup*: the candidates of a target of n labels, and for each what RDAP
and WHOIS say: registered with a list of dates, unregistered, a permanent or a
temporary failure, no server. A date is more than 30 days ahead, nearer or past,
or cannot be parsed; RDAP's first and WHOIS's earliest count. `said` keeps, as
history, what was answered, so that the verdict can be judged by it.

### CoreRequests

The settings (`Env`) as they are read from the environment, blank or not, in
range or not; the clamps; the key file, which may be rotated at any time; and the
two requests that start a run. The list is fetched type by type and merged by
ID, item by item (`items` are those of the last answer still to be merged), while
Core edits its monitorings (`steady` keeps those it left alone). An ID
is a string or a number, and a number passes through float64: `Rounded` does to
integers above `Precision` what float64 does above 2^53 (rounding to even among
multiples of two). `DoJSON` makes of an `Answer` an error (none, too large, a
status of 400 or more, a body that cannot be decoded), what Core means, or
nothing: an empty body or null below 400 is no error, and the list of that type
is then empty. `silent` keeps, as history, the types Core answered so, by the
answer and not by what the code made of it. A monitoring that cannot be decoded
fails its list. The
refusals are those of `newRequest`, `configuredAPIKey`, `GetMonitorings` and
`ClaimJobs` before anything is sent; `IsReady` is what `/readyz` asks.

## Runs

| Run | Question | Bounds |
|---|---|---|
| `lease_race` | Do the leases implement ExclusiveJobs: can two instances work on one job by right, or one on a job that is done? Can they report under no lease, report a cut-short check, give back what they reported, lose count of their jobs? | 2 instances, one clock 1 tick ahead; 1 job, 2 attempts; leases of 3 ticks, clock to 5 |
| `lease_batch` | Does a batch with repeats and bad jobs stay one task per attempt, without waiting in queues, and does its run return? | 4 jobs (check, maintenance, invalid, nameless), batches up to 2, workers 3, slots 2, batch limit 3, dual write; leases of 2 ticks, clock to 1, so that extensions happen and no lease ends |
| `lease_cancel_released` | violation: see *Findings* | 1 instance, 1 job |
| `controller` | Is the idle channel truthful, is a drained controller quiet, does everyone return, does it implement RunGate? | 3 callers, 2 waiters, 2 runs |
| `serve` | Does no run start under a cancelled context, is status 0 honest, does SIGTERM end the process? | 3 runs |
| `phase` | Do the phases share one budget, keep the gauges, withhold cut-short checks, and does the run return? | 3 monitors, one in maintenance; 1 worker, 2 slots |
| `cadence` | Is a monitor checked neither too often nor too seldom, and no phase starved? | intervals of 1, 1.5 minutes and the default 5; 7.5 minutes; timers up to half a minute late |
| `cadence_five_minutes` | violation: see *Findings* | 7 minutes |
| `callback` | Does the delivery implement ResultLedger: is a result applied once, and in order, for two workers under Core's key; does nil mean applied; is every payload posted; does publication end? | 2 publishers of one leased job, or 1 publisher of 2 payloads; 2 attempts |
| `checks` | Does the verdict of a check of any type follow from what was observed, are forbidden addresses never dialled, does the check end in time? | timeouts -1 to 4 for a limit of 3, default 2; 1 retry, up to 4 variants, 5 redirects; 2 addresses per lookup; 2 values and 2 records; 4 labels, 2 dates |
| `two_results` | violation: see *Findings* | 1 of each |
| `requests` | Does a list that is used hold what Core said, without repetition, and does a ready instance serve? | 4 monitorings with IDs 2 to 5, two of them numbers, `Precision` 4; 2 types, 2 edits; every configuration without monitorings, every list under a typical one |

Why these bounds are enough to meet the interesting cases. Two attempts and a
clock past the first lease's end allow every hand-over: while the first worker
is in any place, after a lost claim, a release that comes late, a restart of
either instance. Lead 0 and 1 give a clock that agrees and one that gives up
early. A batch of two with limits 3/2/3 lets a job repeat and distinguishes all
three limits. Three callers let one hold the lock, one wait for its next step and
one arrive; two waiters may hold different channels; two runs replace the
channel twice. One worker per phase under two slots makes phases compete for
slots. Seven and a half minutes hold the default interval, a late timer and the
refusals after it. The code's limits of two attempts per callback, one retry and
five redirects are used as they are; a timeout limit of 3 stands for 60 seconds, which
leaves every comparison with the limit both outcomes. Two addresses make an answer of a safe one
and an unsafe one, in either order. Two values and two records give repetition,
another order, another spelling, a missing and a surplus value, and a truncated
answer that still has a value. Four labels give three candidates: one passed
over, one that decides, one not reached. IDs 2 to 5 around a `Precision` of 4 give
a number that is kept, one that is rounded, and one that it becomes equal to. Two
edits move a monitoring from one type to another and back. What the section
*Proofs* lists holds without any of these bounds.

Fairness. `FairSpec` of JobLeases, PhaseDispatch and ExecutionController is weak
fairness of the steps of goroutines: Go schedules what can go on, and every
executor and HTTP call ends, since all have timeouts (10 s to 60 s for checks,
30 s for Core). Nothing is assumed of Core, the network, claims or the clock: a
lost extension shows up as the call's own failure. That a run returns is what
`RunReturns` shows of both kinds of run, and `CallsReturn` uses it as the fairness
of `RunnerReturns`. In Serve only the drain goroutine and the health server's
shutdown are fair: the run may hang for ever, so the deadline must be what
ends the process. In CallbackDelivery the publishers are fair, and in
ExecutorRegistry the steps of the check that runs, because every request,
exchange, dial and command has a timeout.

Deadlock is checked except where a system is meant to stop: a publication and a
single check end. The others go on or have an explicit final stutter
(`Exited`, `Drained`).

## Proofs

All proofs hold for every value of the constants that meets the assumptions named in
the modules (any number of instances, jobs, callers, publishers, monitors,
addresses, values, labels; any limits). The assumptions give the constants
their types and say what the code or Core guarantees of them; those of substance
are a clock not behind Core's (`Lead`) and unique drawn keys.

*JobLeasesProofs.* `BelievedLeaseIsReal` is not inductive: a late release or
completion could end a lease that is in use, and a late answer could prolong
one that is not. `LeaseInv` adds that every known attempt is past or current
(`AttemptsKnown`), no attempt has two tasks (`OneTaskPerAttempt`), a working
task either has the current attempt under Core's lease or a past one that has
run out (`LeasesTracked`, which also bounds the answer a renewal has not read
yet), and requests that end a lease belong to attempts nobody works on
(`RequestsSpent`). With the types it is inductive; `BelievedLeaseIsReal`,
`WorkIsExclusive`, `OneTaskPerAttempt` and the action property
`ReportsOnlyUnderLease` follow. From the same invariant every step is one of
ExclusiveJobs or a stutter (`LeasesImplementExclusive`): a grant needs an expired
lease, and whoever worked under it has given up by then, its clock being ahead at
most; a completion ends a lease nobody works under (`RequestsSpent`). The proof
goes job by job, since one claim may hand out several and a tick or a restart
concerns them all. `CutShortNeverReported` rests on `CheckInv`: the
job's context ends only with the run's or after `leaseLost` was set, so a
cut-short check always meets one of the two tests before the completion.
`ReportedIsNotReleased` becomes inductive with `ReportInv`: what is being
reported has an ID, so no earlier request has ended its lease. `GaugesExact`
is a count over all positions of all batches; every step moves at most one of them
(`CountMoves`), and a claim starts from an instance at rest. It shows that the
saturation of the gauges at zero never hides an error. `ClaimedWorkNeverWaits` needs one
thing more of the configuration, `RunMaxConcurrency > 0`, which `config.go:41`
provides: the batch is then within workers and slots whatever the limits are.

Of `RunReturns` the two parts that speak of single states and steps are proved. `NoRunIsStuck`
(`NoLeasedRunStuck`): as long as a run is in progress, some goroutine of it can go on. A
worker waits for a task, a slot or the end of the renewal; no task waits since
the batch fits the workers, slots are held only by tasks that execute or stop, and
`stop()` cancels the job's context first (`StopInv`), so that the renewal waits
for nothing. `WorkersRunOut` (`WorkersAreBounded`): every step of a worker lowers
a measure of at most ten, that of a renewal which `stop()` waits for one of three,
and nothing but a claim raises either. What is missing from `RunReturns` is that a
goroutine which can go on does, which is the fairness assumed.

*ExecutionControllerProofs.* `ControllerInv` says who may be where while the
lock is held, that the current channel is the last run's and open exactly during
it, that at most the current run is unrecorded, and which channels a waiter can
hold: the current one or a closed one. From it: runs do not overlap, the idle
channel is truthful (so it is never closed twice), a drained controller is
quiet, nothing starts while draining, and every step of the controller is a
step of RunGate or a stutter (`ControllerImplementsGate`). A step of Serve is
one of the controller or leaves it alone (`ServeSteps`), so each behaviour of the
process is one of the controller (`ServeIsController`) and keeps the gate
(`ServeImplementsGate`); `ServeInv` adds the order of the drain, from which
`NoRunUnderCancelledDispatch` and `ExitIsDrained` follow.

*PhaseDispatchProofs.* `DispatchInv`: outside the dispatch of its phase no check
is under way (`IdleInv`), a pending monitor has not been started (`PendingInv`), only a
cancelled run cuts checks short (`TaintInv`), with the counts themselves. A step
moves one check from one set to another, and the lemma about that
(`CheckMoves`) carries the gauges and the slots. `NoneWaitsForAll` (`NoDeadlock`): in a
run some goroutine can always go on. It needs `CollectInv`: the results in the
buffered channel are those of the phases that have returned, so that it has room
for the others. `StepsRunOut` (`RunIsBounded`): each step of a
goroutine lowers one of the counts `PhaseLeft` and `CheckLeft` and raises none, and a
cancellation raises none. As above, this is `RunReturns` but for the fairness.
The formulas `SomeoneCanGoOn` write the guards of the actions out, since ENABLED is
out of reach; on the instances of the runs TLC finds them equal to it.

*CallbackDeliveryProofs.* `DeliveryInv` ties Core's ledger of keys to what it
applied, what publishers were told to the ledger, and each publisher's place to
the payloads it has left. From it `AppliedOnce`, `NilMeansApplied`,
`EveryPayloadPosted` and `RetriesAreBounded`. For `ImplementsLedger`
(`DeliveryImplementsLedger`) the order is needed too (`OrderInv`): a request under
way is of the payload being posted or of an earlier one, which its publisher has
been told of. `PublishersRunOut` (`PublicationIsBounded`): every step of a publisher
settles a payload, begins the next of at most `MaxAttempts` attempts, or goes on in
the attempt, and nobody else sets it back: `PublicationEnds` but for the fairness.

*ExecutorRegistryProofs* (with *DomainLookupProofs*) is about the registry's
`Spec`, any check or the requests of one. `RegistryInv`: the check that runs keeps
the invariant of its module, the variables of the others are as they began, and a
result is that of the check which is over. The parts: `EgressInv`, the answers about to
be dialled are from the last lookup and were accepted, unless private targets are
allowed; `DNSInv`, the time used, and that the records compared are the whole zone;
`HTTPInv`, what `log` says of every variant before, at and after the current one,
and that the response kept is the earliest; `DomainInv`, what the candidates passed
over and the current one have answered, and how `rdap`, `temporaryErr` and `found`
follow from it; and for each check which observation goes with which status, from
which `StatusFollowsFromObservation`. `ChecksRunOut` (`ChecksAreBounded`): every step of a
check goes on to a parent domain, to another variant of the URL, to the next
attempt, or within one, in this lexicographic order and within its bounds, and a
cancellation does not set it back: `ChecksEnd` but for the fairness. It needs
`OnceInv`, that ping, port and certificate checks connect once and follow nothing.

*CadenceProofs.* Times become minutes (`MinuteOf`, `Boundary`), so that the rest is
linear. `Polled` is the last minute whose poll has left a gate behind; it never
decreases but at a restart. `PhaseInv`: a phase has been refused once a minute at
most since it passed. `MonitorInv`: the lists that passed over a monitor are of
different minutes since it was heard of (`Counted`), so that being refused now,
by the dispatcher or by a worker, bounds their number (`PassedOver`,
`FewWhenRefused`); the list is no newer than what Core has (`PastInv`).

*CoreRequestsProofs.* `LimitsInRange`: whatever is configured, capacity and batch
are at least one and at most what Core accepts. With `ModeInv` (a run claims or
lists as configured) it gives `ReadyMeansServable`. `ListInv` says what a list in
the making holds: of the monitorings Core left alone those it has `Sent`, in the list
or still to be merged, each by itself or by another with its ID, and no others; no
ID twice; and no type is silent before it is asked for. One step merges one item,
so that no induction over an answer is needed. `EachMonitorOnce` follows with
`SameIDStandsFor`: decoding makes two IDs one only above 2^53.

Only model-checked: liveness (both `RunReturns`, `CallsReturn`,
`ExitsAfterSignal`, `PublicationEnds`, `ChecksEnd`), which with fairness and ENABLED is
beyond the proof system. Of four of these the measure of steps is proved, and for
both kinds of run the freedom from deadlock, as said above. Every invariant and
every action property of the passing runs, and all three refinements, are
proved. The three findings are counterexamples and have nothing to prove.

## Findings

- `lease_cancel_released`: the README counts cancellation as a release. A job
  whose check is over when SIGTERM arrives goes on to the completion under the
  run's context, which is cancelled: the completion fails, the job settles as
  `completion_failed`, and its lease is left to expire
  (`job_leases.go:156-160`). Not releasing is deliberate where the completion
  may have reached Core (`ReportedIsNotReleased`); here it never left.
- `cadence_five_minutes`: an auxiliary phase notes when it passed its gate,
  which is after the timer fired. When that timer was later than the one five
  minutes on, the phase is refused then and runs after six minutes
  (`runner.go:390-403`), while the README promises five.
- `two_results`: `domain/monitor/types.go:264-265` says exactly one field of a
  `JobResult` is populated for a successfully executed job; a domain-expiration
  check fills two unless the lookup failed temporarily
  (`executor_registry.go:214`).
- Noted without a run. The README says that `/readyz` returns 503 "during
  configuration errors", but `IsReady` does not look at what `newRequest`
  refuses of the URL (scheme, credentials, query): such an instance is ready and
  refuses every request, which is why `ReadyMeansServable` excepts it. The
  README counts invalid jobs as release transitions; a queued job found invalid
  is counted as a transition to invalid first. A list is decoded as a whole, so
  that a single malformed monitoring keeps the instance from checking the others.
  An answer below 400 without a body, or with null, is no error to `doJSON`
  (`client.go:427`): a list in which a whole type is missing is then used as if it
  were complete, and nothing tells it from one in which Core has none of that type.
  The tests of the client answer 204 to a list (`client_test.go:108`), no document
  says what it means, so `EachMonitorOnce` excepts the types answered so and states
  that nothing else is lost: no failed request, no malformed monitoring, no edit.
  Two monitorings whose IDs are sent as numbers above 2^53 may become one; the
  property allows that loss and no other.

## What is left out

- The registrar of a domain, the latency in ping's output, the issuer of a
  certificate, bodies and headers: data that is passed on and read by nothing.
- The syntax of record types, dates, URLs and payload fields: reduced to whether
  a value can be parsed and what it means.
- Of monitor decoding, all but the ID and the failure of a list: each field is
  parsed by itself, without state.
- Event counters, durations, metrics text, logs: derived from the state and read
  by no part of the system. The job gauges and the run counter are modelled.
- Ports (`internal/application/ports.go`): interfaces only.
- Reuse of connections: it only spares dials.
- The growth of `responseCadence.starts` and exits of the health server outside
  a drain: nothing is promised about them (the latter is a step of Serve).

## Plan

Every part with control of its own is modelled, and every safety property and
refinement a run checks is proved. What is left, in order of weight:

1. Cadence with a clock at Core of its own, and with PhaseDispatch as the one
   that starts the checks.
2. For `CallsReturn` and `ExitsAfterSignal`, that a caller, a waiter or the drain
   always finds someone who can go on.
