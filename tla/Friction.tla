-------------------------------- MODULE Friction --------------------------------
(***************************************************************************)
(* workload/experiment.py, run_friction_experiment, with the task runner   *)
(* (workload/runner.py) it drives: a project is installed, built and       *)
(* tested behind the broker; when a phase fails closed the lab amends the  *)
(* lockfile with the misses the broker logged, reloads it and runs again.  *)
(* A second lockfile is amended in one closure pass and run once, a dry    *)
(* run of amend() meets a tampered upstream, and sole-verify checks the    *)
(* report (verify_workload).                                               *)
(*                                                                         *)
(* The broker (module Broker) answers one request at a time here and       *)
(* amend() (module Amend) runs while nothing else does.  A pin is a key:   *)
(* the upstream either answers with the pinned bytes or the fetch fails.   *)
(***************************************************************************)
EXTENDS Integers, Sequences, FiniteSets, SequencesExt

CONSTANTS
    Keys,
    Requires,   \* [Keys -> the keys its wheel requires, as a sequence]
    Roots,      \* the keys of the manifest, one sequence per phase
    Seed,       \* the keys the seed lockfile pins
    MAX_RUNS,
    MaxFaults   \* bound: upstream fetches and children that fail

ASSUME KeyAssumption ==
    /\ IsFiniteSet(Keys) /\ Seed \subseteq Keys
    /\ Requires \in [Keys -> Seq(Keys)]
    /\ Roots \in Seq(Seq(Keys))
ASSUME BoundAssumption == MAX_RUNS \in Nat \ {0} /\ MaxFaults \in Nat

VARIABLES
    pc,
    way,        \* "error_driven", then "closure"
    live,       \* keys pinned by the lockfile on disk
    entries,    \* keys pinned by the lockfile the broker has loaded
    cache,      \* keys the broker has cached
    missed,     \* the lockfile_miss verdicts since the last lockfile_loaded note
    run, phase,
    queue, seen, have, misses,  \* resolve() and run_task(); misses: <<key, reason>>
    ok,         \* res["ok"]
    agree,      \* sandbox_report_matches_transcript
    final,      \* "none", "green" or "failed": the error-driven final run
    outcome,    \* live, entries, final and agree at the end of the error-driven loop
    drifted,    \* the drift the dry run reports
    green,      \* history: <<way, entries>> of the runs that went green
    faults

task == <<queue, seen, have, misses>>
vars == <<pc, way, live, entries, cache, missed, run, phase, task, ok, agree, final, outcome, drifted, green, faults>>

-----------------------------------------------------------------------------
\* The closure of a set of keys under the requirements, as amend's walk finds it
\* when the keys of "lost" cannot be fetched.
Closed(S, from, lost) ==
    /\ from \subseteq S
    /\ \A k \in S \ lost : ToSet(Requires[k]) \subseteq S
Closure(from, lost) == CHOOSE S \in SUBSET Keys : Closed(S, from, lost) /\ \A T \in SUBSET Keys : Closed(T, from, lost) => S \subseteq T
ManifestKeys == UNION {ToSet(Roots[i]) : i \in DOMAIN Roots}

Unused == [live |-> {}, entries |-> {}, final |-> "none", agree |-> TRUE]

Init ==
    /\ pc = "start_run" /\ way = "error_driven"
    /\ live = Seed /\ entries = Seed
    /\ cache = {} /\ missed = {}
    /\ run = 1 /\ phase = 1
    /\ queue = <<>> /\ seen = {} /\ have = {} /\ misses = {}
    /\ ok = FALSE /\ agree = TRUE /\ final = "none"
    /\ outcome = Unused
    /\ drifted = {} /\ green = {}
    /\ faults = 0

\* run_task: a fresh work directory.
StartRun ==
    /\ pc = "start_run"
    /\ pc' = "start_phase" /\ phase' = 1
    /\ have' = {} /\ misses' = {} /\ ok' = FALSE
    /\ UNCHANGED <<way, live, entries, cache, missed, run, queue, seen, agree, final, outcome, drifted, green, faults>>

\* run_task: the next phase resolves its roots, or every phase is through.
StartPhase ==
    /\ pc = "start_phase"
    /\ IF phase <= Len(Roots)
       THEN /\ queue' = Roots[phase] /\ seen' = {}
            /\ pc' = "resolve" /\ UNCHANGED <<ok, green>>
       ELSE /\ ok' = TRUE /\ green' = green \cup {<<way, entries>>}
            /\ pc' = "judge" /\ UNCHANGED <<queue, seen>>
    /\ UNCHANGED <<way, live, entries, cache, missed, run, phase, have, misses, agree, final, outcome, drifted, faults>>

\* resolve: "if k in have or k in seen"
Skipped_Never(k) == FALSE
Skipped(k) == k \in have \/ k \in seen

Skip ==
    /\ pc = "resolve" /\ queue # <<>> /\ Skipped(Head(queue))
    /\ queue' = Tail(queue)
    /\ UNCHANGED <<pc, way, live, entries, cache, missed, run, phase, seen, have, misses, ok, agree, final, outcome, drifted, green, faults>>

\* resolve: the next key is fetched through the broker.
Ask(k) ==
    /\ pc = "resolve" /\ queue # <<>> /\ k = Head(queue) /\ ~Skipped(k)
    /\ seen' = seen \cup {k}
    /\ UNCHANGED <<pc, way, live, entries, run, phase, ok, agree, final, outcome, drifted, green>>

\* The broker refuses it with a lockfile_miss, which it logs ...
Miss(k) ==
    /\ Ask(k) /\ k \notin entries
    /\ missed' = missed \cup {k}
    /\ misses' = misses \cup {<<k, "lockfile_miss">>}
    /\ queue' = Tail(queue)
    /\ UNCHANGED <<cache, have, faults>>

\* ... or fails closed, which resolve() reports as a miss all the same ...
FailClosed(k) ==
    /\ Ask(k) /\ k \in entries /\ k \notin cache /\ faults < MaxFaults
    /\ faults' = faults + 1
    /\ misses' = misses \cup {<<k, "upstream_fail_closed">>}
    /\ queue' = Tail(queue)
    /\ UNCHANGED <<cache, missed, have>>

\* ... or does not answer in the ten seconds the transport waits, no longer than
\* the broker may wait for the upstream: fetch_raw raises, the experiment ends.
NoAnswer ==
    /\ pc = "resolve" /\ queue # <<>> /\ ~Skipped(Head(queue)) /\ faults < MaxFaults
    /\ faults' = faults + 1
    /\ pc' = "aborted"
    /\ UNCHANGED <<way, live, entries, cache, missed, run, phase, task, ok, agree, final, outcome, drifted, green>>

\* ... or serves the pinned wheel, whose requirements are resolved next.
Rest_Unfollowed(k) == Tail(queue)
Rest(k) == Tail(queue) \o Requires[k]

Serve(k) ==
    /\ Ask(k) /\ k \in entries
    /\ cache' = cache \cup {k}
    /\ have' = have \cup {k}
    /\ queue' = Rest(k)
    /\ UNCHANGED <<missed, misses, faults>>

\* run_task: the phase fails closed on a miss; otherwise what is new is
\* extracted and the child of the phase succeeds ...
EndPhase ==
    /\ pc = "resolve" /\ queue = <<>>
    /\ IF misses # {} THEN pc' = "judge" /\ UNCHANGED phase
                      ELSE pc' = "start_phase" /\ phase' = phase + 1
    /\ UNCHANGED <<way, live, entries, cache, missed, run, task, ok, agree, final, outcome, drifted, green, faults>>

\* ... or, when it builds or tests, fails: the run is over, with nothing missed.
ChildFails ==
    /\ pc = "resolve" /\ queue = <<>> /\ misses = {} /\ phase > 1 /\ faults < MaxFaults
    /\ faults' = faults + 1
    /\ pc' = "judge"
    /\ UNCHANGED <<way, live, entries, cache, missed, run, phase, task, ok, agree, final, outcome, drifted, green>>

\* ... or does not end in its two minutes: subprocess.run raises and nothing
\* above it catches the exception, so that the experiment ends without a report.
ChildTimesOut ==
    /\ pc = "resolve" /\ queue = <<>> /\ misses = {} /\ phase > 1 /\ faults < MaxFaults
    /\ faults' = faults + 1
    /\ pc' = "aborted"
    /\ UNCHANGED <<way, live, entries, cache, missed, run, phase, task, ok, agree, final, outcome, drifted, green>>

\* "if res['ok'] or not reported: final = res; break"
EndLoop ==
    /\ way = "error_driven" /\ pc = "judge" /\ (ok \/ misses = {})
    /\ final' = IF ok THEN "green" ELSE "failed"
    /\ pc' = "closure"
    /\ UNCHANGED <<way, live, entries, cache, missed, run, phase, task, ok, agree, outcome, drifted, green, faults>>

\* amend(live, logged): the logged misses are pinned, but for the ones the
\* resolve source fails to deliver.
reported == {m[1] : m \in misses}

AmendLive ==
    /\ way = "error_driven" /\ pc = "judge" /\ ~ok /\ misses # {}
    /\ agree' = (agree /\ missed = reported)
    /\ \E lost \in SUBSET (missed \ live) :
          /\ faults + Cardinality(lost) <= MaxFaults
          /\ faults' = faults + Cardinality(lost)
          /\ live' = live \cup (missed \ lost)
    /\ pc' = "reload"
    /\ UNCHANGED <<way, entries, cache, missed, run, phase, task, ok, final, outcome, drifted, green>>

\* broker.reload_lockfile(live): the note starts a new list of misses.
Loaded_Stale == entries
Loaded == live
MissesSinceLoad_Kept == missed
MissesSinceLoad == {}

Reload ==
    /\ pc = "reload"
    /\ entries' = Loaded /\ missed' = MissesSinceLoad
    /\ IF run < MAX_RUNS THEN run' = run + 1 /\ pc' = "start_run"
                         ELSE pc' = "closure" /\ UNCHANGED run
    /\ UNCHANGED <<way, live, cache, phase, task, ok, agree, final, outcome, drifted, green, faults>>

\* The closure pass: a fresh copy of the seed, amended from the manifest with
\* --closure, a broker of its own, one run.
ClosurePass ==
    /\ pc = "closure"
    /\ way' = "closure"
    /\ outcome' = [live |-> live, entries |-> entries, final |-> final, agree |-> agree]
    /\ \E lost \in SUBSET Closure(ManifestKeys, {}) :
          /\ faults + Cardinality(lost) <= MaxFaults
          /\ faults' = faults + Cardinality(lost)
          /\ live' = Seed \cup (Closure(ManifestKeys, lost) \ lost)
          /\ entries' = live'
    /\ cache' = {} /\ missed' = {}
    /\ pc' = "start_run"
    /\ UNCHANGED <<run, phase, task, ok, agree, final, drifted, green>>

\* The drift check: amend() dry-runs over the public lockfile with the switch of
\* the mock upstream on poison.  Every key of the manifest is pinned, so what can
\* be fetched drifts, is not followed, and nothing is added.
DriftCheck ==
    /\ way = "closure" /\ pc = "judge"
    /\ \E lost \in SUBSET ManifestKeys :
          /\ faults + Cardinality(lost) <= MaxFaults
          /\ faults' = faults + Cardinality(lost)
          /\ drifted' = ManifestKeys \ lost
    /\ pc' = "done"
    /\ UNCHANGED <<way, live, entries, cache, missed, run, phase, task, ok, agree, final, outcome, green>>

\* _mock raises: a switch that cannot be set ends the experiment.
SwitchFails ==
    /\ way = "closure" /\ pc = "judge" /\ faults < MaxFaults
    /\ faults' = faults + 1
    /\ pc' = "aborted"
    /\ UNCHANGED <<way, live, entries, cache, missed, run, phase, task, ok, agree, final, outcome, drifted, green>>

Done == pc \in {"done", "aborted"} /\ UNCHANGED vars

Step ==
    \/ StartRun \/ StartPhase \/ Skip \/ NoAnswer \/ EndPhase \/ ChildFails \/ ChildTimesOut
    \/ \E k \in Keys : Miss(k) \/ FailClosed(k) \/ Serve(k)
    \/ EndLoop \/ AmendLive \/ Reload \/ ClosurePass \/ DriftCheck \/ SwitchFails

Next == Step \/ Done

Spec == Init /\ [][Next]_vars
FairSpec == Spec /\ WF_vars(Step)

-----------------------------------------------------------------------------
\* The lockfile in the repository: the closure of the manifest.
Public == Seed \cup Closure(ManifestKeys, {})

\* final_run: "final or res_c", the closure run when the loop has no final one.
FinalRunOk_AnyRun == outcome.final = "green" \/ ok
FinalRunOk == IF outcome.final = "none" THEN ok ELSE outcome.final = "green"

\* verify_workload: the last load noted, both final lockfiles and the public one
\* have one digest, the closure run took one run, the final run is green and the
\* drift check passed.  (The misses are recounted from the file the report
\* counted them in; its chain is the matter of module Transcript.)
verify_workload ==
    /\ outcome.entries = Public /\ outcome.live = Public
    /\ live = Public /\ ok
    /\ FinalRunOk
    /\ drifted # {}

-----------------------------------------------------------------------------
Reasons == {"lockfile_miss", "upstream_fail_closed"}

TypeOK ==
    /\ pc \in {"start_run", "start_phase", "resolve", "judge", "reload", "closure", "done", "aborted"}
    /\ way \in {"error_driven", "closure"}
    /\ live \subseteq Keys /\ entries \subseteq Keys /\ cache \subseteq entries
    /\ missed \subseteq Keys \ entries
    /\ run \in 1 .. MAX_RUNS /\ phase \in 1 .. Len(Roots) + 1
    /\ queue \in Seq(Keys) /\ seen \subseteq Keys /\ have \subseteq Keys
    /\ misses \subseteq Keys \X Reasons
    /\ ok \in BOOLEAN /\ agree \in BOOLEAN
    /\ final \in {"none", "green", "failed"}
    /\ outcome.live \subseteq Keys /\ outcome.entries \subseteq Keys
    /\ drifted \subseteq ManifestKeys
    /\ green \subseteq {"error_driven", "closure"} \X SUBSET Keys
    /\ faults \in 0 .. MaxFaults

\* sandbox_report_matches_transcript: what the sandbox reports missing is what
\* the broker logged since the last load, as long as no fetch failed.  The
\* report covers one phase of one run, the log every phase since the load.
ReportMatchesTranscript == faults = 0 => agree

\* "closure amendment reaches the same lockfile in one pass": when the loop went
\* green and the closure pass lost nothing, both lockfiles pin the same keys.
SameLockfile ==
    pc = "done" /\ outcome.final = "green" /\ Closure(ManifestKeys, {}) \subseteq live =>
        outcome.live = live

\* Every round but the last pins a key of the manifest's closure that the lockfile
\* lacked, or a fetch failed in it: a failed fetch is reported as a miss but
\* logged as another verdict, so that the loop may amend with nothing, yet each
\* failure costs one run at most.
Missing == Cardinality(Closure(ManifestKeys, {}) \ Seed)

RunsAreBounded == run <= 1 + Missing + faults

\* What a report that verifies vouches for: the task went green behind the public
\* lockfile, in the closure run and in the last run of the error-driven loop.  A
\* run that failed is never reported as green because another one was; and the
\* closure run stands in for the loop's last run only if MAX_RUNS is too small
\* for the keys that were missing and the failures that came on top.
VerifiedWorkloadIsGreen ==
    pc = "done" /\ verify_workload =>
        /\ <<"closure", Public>> \in green
        /\ <<"error_driven", Public>> \in green \/ MAX_RUNS <= Missing + faults

\* With an upstream that answers and children that succeed, the loop goes green,
\* the closure run too, and the report verifies: two ways to grow a lockfile meet
\* in the public one.
CleanExperimentVerifies ==
    [](faults = 0) => <>(pc = "done" /\ outcome.final = "green" /\ verify_workload)

\* The experiment ends, whatever fails.
ExperimentEnds == <>(pc \in {"done", "aborted"})
=============================================================================
