# A verification project for sole-egress

TLA+ models of the SEP-1 sole-egress broker and of the programs around it, TLC
configurations that check them on small instances, and TLAPS proofs of the
properties that matter most. Paths are relative to the repository (`src/`).

## The system

A sandbox without network reaches packages through one *broker*, which serves
only what a hash-pinned lockfile lists, checks every body against its pin and
records requests and verdicts in a hash-chained transcript. The lab amends the
lockfile between runs. A verifier checks the published report and transcript.

| component | state | operations | talks to |
|---|---|---|---|
| transcript, `sole_egress_common.py` | memory entries, root, lock; a file | `append`, `verify_file` | written by every broker, read by `sole_verify`, `lockfile_amend`, `tenancy` |
| request grammar, `sole_egress_common.py` | none | `parse_fetch`, `lock_key` | broker, amend |
| broker, `broker/broker.py` | lockfile entries, cache, `_last_upstream`, lock | `handle`, `_fetch_upstream`, `reload_lockfile`, `note_lockfile`, `_serve_conn` | sandbox (socket), upstream (HTTP), transcript |
| tenants, `broker/multitenant.py` | one broker, transcript and deque of attempts per tenant | `_admit`, `MultiTenantBroker` (removes old transcripts, binds, serves) | broker |
| amendment, `tools/lockfile_amend.py` | lockfile on disk; BFS locals | `amend`, `misses_from_transcript` | resolve source, transcript |
| task runner and experiment, `workload/` | have/seen/queue; the lockfiles | `resolve`, `run_task`, `run_friction_experiment` | broker (one request at a time), amend |
| verifier, `sole_verify/sole_verify.py` | the report, processes it starts | `orchestrate_local`, `assemble`, `verify` | everything |
| allowlist proxy, `allowlist_proxy/` | `STATS`, policy log | `_forward`, `_monitor` | mock upstream |
| mock upstream, `mock_cache/` | toggles, receiver log | `do_GET`, `do_POST` | broker, proxy, probes |
| probes, `probes/` | none | the probe suite, `measure_capacity`, `run_tenancy_checks` | broker, proxy, mock upstream |

What is hard here: a thread per connection shares lockfile, cache, limiter and
transcript, and most of `handle()` runs without a lock; the lockfile is swapped
under running requests; the transcript keeps its truth twice, in memory and in a
file that several processes and failing writes may damage; time passes between
an admission and its evidence; the resolve source may answer anything, and a
run of the amend tool may be killed anywhere; report and transcripts are separate files,
and a later run may replace some of them. `PROJECT.json` lists each hazard
at its line with the properties aimed at it.

## Modules

| module | models | state and actions |
|---|---|---|
| `Transcript` | class `Transcript` | one lock, memory (`entries`, `root`) and program counter per process and thread; `Acquire`, `Compute`, `Install` (memory and root), `Write` (file) are the steps of `append`, in the order of the code; `Start`, `Stop`, `Kill`, `WriteFails`. A line may be cut anywhere and the next append continues it. SHA-256 is a collision-free function: a root is the sequence of bodies it covers. |
| `SoleEgress` | the promise (PROFILE.md S4, S5, S8) | `pins` only grow, `Release` needs a pin of the bytes. Abstract, no code. |
| `Broker` | `handle()`, `_serve_conn`, `reload_lockfile` | one program counter per connection; a step is what a thread does between two accesses to shared state, so that any reload, cache fill, log line or answer of another thread may fall between. The transcript is its sequence of lines and a `tail`: a write that fails (`AppendFails` in a thread, `NoteFails` in a reload) may leave part of its line, which the next `Write` continues, so that both are one garbled line. Histories: `attempts`, `answered`, `released`, `loaded`, `unnoted`. |
| `UpstreamQuota` | `_admit` and the limiter in `_fetch_upstream` | a clock that ticks between any two steps; `ReadClock` before the quota lock, `Admit`/`Refuse` under it, `Sleep`/`Pass` under `Broker._lock`, `Contact`, `Verdict` with its timestamp. |
| `Amend` | `amend()` | one action is one turn of its loop: skipped, bad, unresolved, drifted, refused, pinned, followed; `Truncate` and `WriteOut` for the save in place, `Kill` anywhere. |
| `Friction` | `run_friction_experiment`, `run_task`, `resolve`, `verify_workload` | phases, queue, misses; the amend-and-rerun loop (`StartRun` ... `EndPhase`, `EndLoop`, `AmendLive`, `Reload`); `ClosurePass`; `DriftCheck`; failures of the upstream, of children, of the mock's switches. History: `green`. |
| `Tenancy` | `MultiTenantBroker`, `run_tenancy_checks`, `verify_tenancy` | a run `Bind`s the tenants one by one (removing the old transcript, or raising at a `Duplicate`), then sends the script of the checks request by request (`Fetch`, `Skip`), takes its marks and writes its `Report`; `Kill`, `Raises`, `Stray` requests and clock `Jump`s fall anywhere, and another run may follow. Files are tagged with the run that wrote them. |
| `Grammar` | `parse_fetch`, `lock_key`, `split_key`, `upstream_path`, `parse_req` | operators over strings of symbols, one symbol per character class; `ReadRequest`, `ReadKey`, `ReadSpec` are their callers. |
| `Conformance` | `orchestrate_local`, `run_config`, the probes, both transports, the allowlist proxy, the mock upstream, the structural checks, `verify` | a probe or check is a job with a script of requests, one step each (`Egress`, `CallMock`, `Look`, `Fetch`, `Decode`) and its failures (`EgressFails`, `EgressTimesOut`, `CallMockFails`, `UpstreamFails`, `FetchRaises`); `Arrive` delivers a request given up on at any later moment; `BeginJob` and `EndJob` count the policy log, `Verify` judges. History: `happened`. |
| `TranscriptProofs`, `BrokerProofs`, `UpstreamQuotaProofs`, `AmendProofs`, `FrictionProofs`, `TenancyProofs`, `ConformanceProofs` | | the proofs; `SequenceLemmas` holds the lemmas on sequences, queues and counting they share |
| `MC*` | | constants for TLC |

Composition. `Broker` implements `SoleEgress` (`INSTANCE SoleEgress WITH pins <-
..., released <- ...`). Its constant assumption `PinsAgree` (lockfiles loaded one
after the other never disagree about a key) is what `Amend` guarantees when runs
do not overlap: `AmendProofs!AppendOnly`. `Broker` leaves out the chain
(`Transcript`) and the clock (`UpstreamQuota`), `Friction` uses `Broker` and
`Amend` as atomic operations, which the code allows: the runner sends one request
at a time and `amend()` runs between runs. `Tenancy` composes two tenants' brokers
(`handle()` in one step, as each client waits for its answer), their transcripts, quotas and
clients with the report and its verifier; its clock counts windows, whose inside is
`UpstreamQuota`'s. `Grammar` refines what `Broker` abstracts to "accepted" and `Amend` to
`BadKeys`.

## Runs

| run | asks | result |
|---|---|---|
| `transcript` | 2 processes (2 threads and 1) on one file, 2 payloads, failed writes, kills, restarts | passes: an honest file verifies to the published root; a file that verifies to a live root is exactly that process's log; damage stays |
| `transcript_restart` | one process restarted without removing its file | `FileVerifies` fails: the chain starts over |
| `broker` | 2 connections, 2 keys, 2 bodies, 2 requests, 2 reloads at any time, 2 failed transcript writes, of lines or notes, each of which may swallow the next line; no note at start, like `broker.main` | passes |
| `broker_runs` | the same, failed writes included, under the lab's discipline (a note at start, reload between runs), with fairness | passes |
| `quota` | 2 threads, quota 2, window 3, 4 ticks, 4 requests | passes |
| `quota_transcript` | do verdict timestamps respect the quota, as the verifier asks? | no: a slow fetch is logged into a later window |
| `amend` | 3 runs in a row, 1 kill, 4 keys, 4 bodies | passes |
| `conformance` | the whole local run and its verification, 2 requests, answers or log lines lost or late, anywhere | passes |
| `friction` | 6 keys, seed of 1, 8 runs, 4 faults, the drift check and `verify_workload` | passes |
| `tenancy` | 2 runs, 2 tenants, 3 faults (kills, lost answers, failed fetches, stray requests, clock jumps, duplicate ids) | passes |
| `grammar` | every string of a few symbols in every field, as request, lock key and requirement | passes |
| `grammar_charset` | is what the grammar accepts in its character class? | no: `$` matches before a final newline |

The three `violation` runs are each a disagreement between the code and a sentence
of the repository; `PROJECT.json` quotes both under `findings`.

What the properties say. *Evidence* (`AnswersHaveEvidence`,
`RequestsHaveOneVerdict`, `AttemptsHaveEvidence`): responses, request lines and fetches are
accounted for by verdict lines and the threads at work, up to what failed writes lose. A
write that raises loses its own line, and its thread gives no response. If it left part of the line,
the next append continues that part: its line is lost too, although it does not raise and
its response goes out. The transcript shows each such loss as one line that cannot be read, at most
one for each failed write, and the properties count with these lines. Only "no verdict tells of
a fetch that was not made" needs no allowance. `CacheIsStable` and
`ServedBytesArePinned` are about the unlocked check-then-act on the cache and
about entries read before a reload. `EvidenceNamesItsLockfile` and
`MissesAreUnpinned` hold only when reloads fall between runs, which the amendment
rules require: with a reload under a running request a verdict may precede the
note of its lockfile. A note whose write raises ends `reload_lockfile` with the lockfile swapped and
not noted (`unnoted`): nothing is stated after that. A note that was swallowed, or that swallows
a line, leaves a line on which the readers raise (`Readable`). `QuotaOverTime` says how far the quota holds when the clock
is read before the lock: in windows shortened by the delay between the reading
and the event. `NothingSmuggled` and `ClosedOnSuccess` are the two promises of
`--closure`. `SameLockfile` relates the two ways to grow a lockfile;
`RunsAreBounded` that each rerun pins a missing key or follows a failure.
`VerifiedWorkloadIsGreen` says that the closure run behind a report that verifies went green, and so
did the loop's last run, unless `MAX_RUNS` is no more than the missing keys and the failures: only then
may `final_run` be the closure run instead. And
`CleanExperimentVerifies` says that the two ways do meet when nothing fails.
`PinsAreKept`: as long as the lockfile can be read it holds every pin ever written. A run killed
between `open(..., "w")` and the end of `json.dump` loses them all; then the file cannot be read, every
later run raises, and none takes it for an empty lockfile.
`CleanTenancyVerifies` says that the checks, which share broker, mock and quota
and compare counts as equals, count exactly what isolated tenants do, after whatever earlier runs
left behind; `VerifiedMeansIsolated` that a report which verifies is of the transcripts
beside it, which tell of every fetch; `QuotaPerRun` is M4, within one run of the broker (a
restarted broker starts its quota anew, which the repository does not exclude). A run in which the clock
jumps by a window is not clean: that it may fail although it is honest, its attempts expired
before the report, is not stated.
`KeysNameRequests` and `RequirementsAreFetchable` relate four notations of one package,
written and split in three files.
`VerifiedMeansTested` is the README's "`verify` proves what was tested" under
failures: the harness swallows its own errors and a late request may arrive in
another probe's time, yet a report that verifies comes from a run in which the
attacks took place, because outcomes need the upstream's log and B's need the
broker's verdicts. Two probes, `smuggle_grammar` and `covert_channel`, return a
constant in configuration A, whatever crossed, and are excepted by name.
`CleanSuiteVerifies` is the other direction, and catches a switch of the
mock upstream that one probe leaves on for the next. `LinesAreCountedOnce` says of the per-probe
counts that no line is in two of them and that what the summary has beyond them are exactly the strays, the lines
written while no probe of A was running: to say so, the model keeps the numbers of the lines, of which the
report only tells how many they are.

### Bounds

Counters that would grow without end have bounds named `Max...`, in the guards of
the actions that count. They are chosen so that the hard cases occur. Two threads
are enough for every race here: each shared variable is accessed by single steps.
Two requests race for a key, or the second finds what the first cached or missed,
and two reloads put each of them before, between or after lockfiles. Two processes, one restarting, cover
foreign lines, and `MaxFaults = 2` a failed write followed by an append. In `broker` and `broker_runs`
one failed write is enough to swallow a line of the other thread or the note, a second can fail upon the
first one's leftover. In
`quota`, the window (3 ticks) is shorter than the clock (4 ticks) so that
attempts expire; in `amend` the requirements are cyclic and one body is outside
the grammar; in `friction` the wheels share, chain and cycle requirements,
and 8 runs with 4 faults allow both a loop that ends within its runs after failures and one that uses them up (5
keys are missing; the code's `MAX_RUNS` is 30). `conformance` runs the
whole suite; two faults let a lost request meet a late one, or a lost answer a swallowed
switch. Its secret has three symbols of the 29, over two packages of the alphabet.
In `tenancy`, alpha's quota of 2 is below its 3 wanted keys and beta's task fits its own; two
runs let the files of one lie beside the report of the other. In `grammar`, one symbol
stands for a character class or a word of the grammar, and the length bounds are 2 instead of 100 and 64,
so that strings of the bound, and one longer, occur.
`Threads` (and the two threads of one process in `transcript`) are symmetric: no
definition tells them apart. `quota` turns the deadlock check off because its
clock, and so the model, stops at `MaxTime`. The others keep it on: their `Rest`,
`Wait`, `Rested` and `Done` steps are enabled only when nothing is under way.

### Fairness

`broker_runs` assumes weak fairness of the steps of `handle()`, per connection.
They are local computation, a socket operation with a timeout of ten seconds
(`UpstreamFails` is always possible while a fetch waits) or a lock whose holders
release it; nothing is assumed of the sandbox, which may never take an answer.
`amend` assumes it of the steps of one process, `friction` of the experiment's (a
sequential program whose requests and children have timeouts), for the same reason. A kill
is never assumed, nor prevented.

## Proofs

tlapm checks them with Z3, Zenon and LS4.

* **Transcript.** `TypeCorrect`; `HonestRun`: on a fresh file with one start and no
  fault the file is the process's memory, but for the line under way;
  `Soundness`: a file that verifies to the root a live process would publish is
  that process's `entries`; the argument is that roots determine histories
  (`compute_root` is injective) and `seq` numbers count them, by least-element
  arguments on the first line where the two differ; `DamageStays`: appending
  never repairs a broken link.
* **Broker.** From `PinsAgree`: the invariant says of each thread which of `key`,
  `pin` and `data` its place in `handle()` guarantees, that the pin is one of a
  loaded lockfile and that cached bytes hash to a pin of a loaded lockfile. It
  gives `ServedIsPinned`, `CacheStable` (two threads that fetched one key matched
  the same digest) and `Implements`. Without `PinsAgree` the cache can hold bytes
  of an older pin, and the stated digest would be wrong.
* **Broker's evidence.** `ResponsesAreLogged`, `OneVerdictEach`, `FetchesAreTold` count lines
  and threads: a line is the index of an append, so appending adds one to one set of
  indexes, and a step moves one thread into or out of a set of threads. The strengthening of
  the first is that responses given *and under way* are covered by lines, their own or garbled ones (`ResponseInv`).
  Garbled lines, and an unfinished one at the end of the file, are no more than the writes that failed,
  since only a failed write leaves an unfinished line and the next write ends it.
  `VerdictsNameTheirLockfile` and `MissesAreMissing` are about transcripts that can be read, after reloads
  none of which raised, and need that between two runs no thread is inside `handle()`: then the lockfile a thread looked its key up in is the one of the last note
  (`AgreesInv`, `NotesInv`).
* **UpstreamQuota.** `TypeCorrect` with the bound of the deque; `Spaced`: the
  holder of `_lock` wakes at `last + Interval` or later and the last slot is
  `last`. `QuotaHolds`: the deque always holds the last admissions, and what it dropped was
  read a window ago (`DequeInv`), although readings reach it out of order; so the admissions that
  count now are among the at most `Quota` it holds, and windows of the past do not change
  (`WindowInv`). Each event has an admission of its own, made upon the same reading and
  not later (`Linked`, an injection built step by step), which carries the bound over to events,
  in windows shortened by the lag. `RefusalsAreDeserved` follows from `DequeInv` too.
  `QuotaOfEveryWindow`: `max_in_window` looks only at windows that end at an event, but a window
  anywhere holds no more than the one that ends at its last event (`EveryWindow`).
* **Amend.** `TypeCorrect` for any number of processes; `AppendOnly` under
  `OneProcess`: the entries of a running process contain every pair ever written, and the file is
  unreadable only while it is being saved or after a kill, whereupon every run raises.
  `OnlyExplainedKeys`, for any number of processes: every key seen or queued is explained, and
  explanations last because pins of seen wheels do. `SuccessIsClosed`: as long as nothing was refused,
  drifted or unresolved, each seen key is pinned and the requirements of its bytes are seen or
  queued; at the end the queue is empty.
* **Tenancy.** `TypeCorrect`, `QuotaOfRun`, `VerifiedIsIsolated`, `CleanRunIsAccepted`, for every
  set of keys, pair of lockfiles, quota, list of wanted packages and number of runs and faults. No
  request or attempt is ahead of the clock, or of its run (`TimeInv`); while tenants are being bound
  nothing was asked, and those bound so far start from their two notes (`BindInv`). From then on
  (`RunInv`) the attempts of the running window are the last ones of the deque and as many as the
  requests sent upstream in it, which the deque's bound limits (`QuotaPerRun` is part of the
  invariant, as past windows must stay bounded), and the transcript has a line for each request sent.
  Files of several runs may lie side by side: lines carry their run, and `ReportInv` says of the
  report's roots what the transcripts said when it was written, so that a root that matches a
  file brings the run with it. `CleanInv` counts along the script: in a run without faults each
  answer is the one its place in the script asks for, whatever earlier runs left.
* **Conformance.** `TypeCorrect`, `VerifiedIsTested`, `LinesCountedOnce`, `CleanRunPasses`, for every number of faults.
  The plan is concrete and enters as a few facts (`PlanFacts`; the scripts one by one only in
  `Attacks`). A token in the upstream's log was sent (`MockInv`, and `LateInv` for requests under way);
  since `recv_contains` takes any token for the canary, the canary probe's answer is good only because
  no other token is sent or under way until it is over, which is part of the invariant. So every answer
  is backed by what happened (`AnswerInv`), every outcome too (`ResultInv`), and every digest mismatch
  is tampered bytes refused (`TranscriptInv`). Shares are disjoint, end below the running probe's
  first line and are, together, what is below it but the strays (`LineInv`); a probe's share is at most its requests
  and one late line per fault (`CountInv`).
  `CleanRunPasses` needs to know what each request is answered (`Right`), hence which switches of the
  upstream are on when it is made (`SwitchInv`): before the checks only the poison may be, left on by a
  probe of A or B, and the packages it spoils are asked for only where tampering is expected. What the scripts
  must be like for this is one formula (`Shape`), shown of each script; then a job's answers decide its
  outcome (`CleanOutcomes`), and the evidence of `verify` is counted along the broker's probes (`EvidenceInv`).
* **Friction.** `OneLockfile` (the loop pins only keys of the closure, and when every
  phase ended without a miss the lockfile is closed over the manifest), `RunsBounded` (each run
  that is followed by another has pinned a key of the closure or had a fetch that failed, so runs count the keys
  that the seed lacks and the failures), `VerifiedGreen` (a loop that used up its runs has therefore
  `MAX_RUNS` of those), `ReportAgrees`, `TypeCorrect`, for every finite set of keys. The
  closure is defined as the intersection of the closed sets, so that no recursion is needed.
* **Grammar** (at the end of `AmendProofs`, which extends both, since `amend()` is given its keys; hence
  the names `GrammarInit`, `GrammarNext`, `GrammarSpec`). `KeysAreNames` and
  `RequirementsReach`, for strings of every length. The invariant is only that the result is what a
  reader makes of the input; the work is in `Split`. A string is *joint* from parts when its cuts are
  the positions a growing function counts (`Positions`); `SplitJoint` says that `Split` then
  returns the parts, `JointOne` and `JointMore` that fields without the separator, put together
  with it, are joint, and `Rejoined` that a string which splits in four is the four put
  together. `Split` is defined by counting the cuts before a cut, so that no recursion and no
  induction over data is needed. That accepted fields hold no separator (`FieldsArePlain`) includes
  the newline the patterns let pass.

Assumptions: the named `ASSUME`s of the modules, which TLC evaluates in the runs, among them
that the keys of `Friction` and the threads of `Broker` are finitely many;
`PinsAgree` (evaluated in `MCBroker`) and `OneProcess` are hypotheses of the theorems. SHA-256 has no
collisions.

Only model-checked: liveness (`EveryRequestIsDecided`, `EveryRunEnds`,
`CleanExperimentVerifies`, `ExperimentEnds`), which is out of the prover's reach. Every other
property of a passing run is also a theorem.

## Not modelled

Fixture data (`workload/registry.py`), the lockfile generators, the figures and
the rendering of the report, the operating-system isolation demo, signing, and the text of
messages. The bytes of requests and wheels are model values. Of the proxy, `STATS`
(nothing reads it) and `CONNECT` (no probe sends it). The mock upstream handles each
request in one step, although `/reset` clears log and switches one after the other. The clock
never goes back. The report is written in one step: only its owner reads it before it is
complete. A write to the transcript that raises after its whole line, newline included, is in the file
is left out, in `Transcript` and `Broker` alike. `Broker`'s theorems assume lockfiles that agree on the keys they
share (`PinsAgree`). `Conformance` takes chain, workload and tenants of the report as sound, which are
the matter of `Transcript`, `Friction` and `Tenancy`.

Things met on the way that have no run of their own, for a reader of the code:

* A line that is not JSON is answered by `_serve_conn` without a transcript line
  (`ReadNotJson` in `Broker`).
* `broker.main` notes no lockfile at start, although PROFILE.md:105 says that every loaded
  lockfile is noted: what the properties say about notes needs the other callers, the experiment and
  the tenants, which do (`NotedAtStart`).
* Two connections may fetch one key at the same time, since the cache is read and filled without a
  lock; `probes/channel.py:11` speaks of a fetch "only on first access", which holds of
  requests one after the other.
* In configuration A the covert-channel probe returns SUCCESS whatever was recovered.
* Two `lockfile_amend` processes at once lose pins: the later write replaces the file
  (`Amend` with two `Procs`); nothing in the repository says they may run so.
* `parse_req` has no length bounds, so that a requirement may name a key which `split_key`
  refuses (`RequirementsAreFetchable` says exactly which).
* `max_in_window` indexes past its list when its window is 0 (`0 >= 0` drops the event at `i` itself), which
  `verify_tenancy` passes for a tenant the public config lacks (`sole_verify.py:587`, `603`): `verify` then
  ends in an IndexError after its failed check of the tenant set. `Tenancy` reads the public tenants only.
* `verify_workload` does not look at `runs_to_green`: a report whose loop used up its runs
  verifies when the closure run was green (`VerifiedWorkloadIsGreen` says how many failures that takes).

## Plan

What a next version would add: the two indices of `max_in_window` as steps, against the definition by
which `UpstreamQuota` states its result; a clock that may be set back; `/reset` of the mock upstream in its
two steps; two runs of `lockfile_amend` at once, with the pins they lose named in a property.
