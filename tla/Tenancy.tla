-------------------------------- MODULE Tenancy --------------------------------
(***************************************************************************)
(* The multi-tenant broker (multitenant.py), the checks that exercise it   *)
(* (probes/tenancy.py, run_tenancy_checks) and the verification of their   *)
(* report (sole_verify.py, verify_tenancy).  A run starts the broker: each *)
(* tenant's old transcript is removed and a new one begun.  Two clients,   *)
(* one per tenant, then send a script of requests, one at a time; checks   *)
(* judge the answers and the report is written.  A run may be killed or    *)
(* fail anywhere and another one started: report and transcripts are on    *)
(* disk and may then be of different runs.                                 *)
(*                                                                         *)
(* handle() of a tenant's broker is one step here, as one client asks at a *)
(* time (module Broker has its threads, UpstreamQuota its clock); a client *)
(* that gives up ends the run.  Time is counted in quota windows: attempts *)
(* expire when the clock jumps a window ahead.                             *)
(***************************************************************************)
EXTENDS Integers, Sequences, FiniteSets, SequencesExt

CONSTANTS
    Keys,
    Entries,    \* [Tenants -> the keys its lockfile pins]
    Quota,      \* [Tenants -> quota of tenants.json]
    Configs,    \* tenant lists a run may be started with: sequences of tenants
    Shared,     \* the key both tenants pin
    Wanted,     \* Q1: quota + 1 keys only alpha pins, as a sequence
    Foreign,    \* T2: [Tenants -> a key only the other tenant pins]
    Task,       \* Q3: the items of beta's task, [key, phase], as a sequence
    NoKey, NoReport,
    MaxRuns,    \* bound: runs started
    MaxFaults   \* bound: failures and clock jumps, over all runs

Tenants == {"alpha", "beta"}
\* tenants.json, which the verifier reads as well.
Public == <<"alpha", "beta">>

ASSUME LockfileAssumption ==
    /\ Entries \in [Tenants -> SUBSET Keys] /\ NoKey \notin Keys
    /\ Shared \in Entries["alpha"] \cap Entries["beta"]
    /\ Foreign["alpha"] \in Entries["beta"] \ Entries["alpha"]
    /\ Foreign["beta"] \in Entries["alpha"] \ Entries["beta"]
\* The public lists fit one another: alpha wants one key more than its quota,
\* beta's task fits its own quota.
ASSUME QuotaAssumption == Quota \in [Tenants -> Nat] /\ Quota["alpha"] >= 1
ASSUME ScriptAssumption ==
    /\ Wanted \in Seq(Entries["alpha"] \ Entries["beta"])
    /\ Len(Wanted) = Quota["alpha"] + 1
    /\ \A i, j \in DOMAIN Wanted : Wanted[i] = Wanted[j] => i = j
    /\ Task \in Seq([key : Entries["beta"], phase : Nat \ {0}])
    /\ Cardinality({Shared} \cup {Task[i].key : i \in DOMAIN Task}) <= Quota["beta"]
ASSUME ConfigAssumption == Configs \subseteq Seq(Tenants)
ASSUME BoundAssumption == MaxRuns \in Nat /\ MaxFaults \in Nat

VARIABLES
    pc,         \* "idle": no run, "bind": __init__, "ask": the script, "done"
    life,       \* number of the run: its time stamps differ from any other's
    config, at, \* the tenant list, and the index in it or in the script
    epoch,      \* the current window of time
    cache,      \* Broker.cache, per tenant
    attempts,   \* TenantBroker._attempts, per tenant
    mem,        \* what Transcript.root covers, per tenant
    file,       \* the transcript on disk, per tenant
    sent,       \* CountingTransport.sent, per tenant
    answers,    \* what the requests of the script returned
    pkg_gets,   \* the mock's receiver log: its pkg_get entries
    marks,      \* <<pkg_gets, alpha's attempts>> when Q1 began and ended
    report,     \* the report on disk
    contacts,   \* history: the requests to the upstream, per tenant
    clean, faults

broker == <<cache, attempts, mem, file, sent, contacts>>
vars == <<pc, life, config, at, epoch, broker, answers, pkg_gets, marks, report, clean, faults>>

-----------------------------------------------------------------------------
\* Transcript lines; "life" stands for all that tells two runs' lines apart.
Line(kind, v, k) == [life |-> life, kind |-> kind, verdict |-> v, key |-> k, epoch |-> epoch]
Note(event) == Line("note", event, NoKey)

\* Verdicts: "served" is split by its served_from field.
Upstream == {"served_from_upstream", "upstream_fail_closed", "digest_mismatch"}
Served == {"served_from_upstream", "served_from_cache"}

\* The script: a request of a tenant's client, or a look at the counters.
Ask(check, t, k, phase) == [check |-> check, tenant |-> t, key |-> k, phase |-> phase]
Mark == Ask("mark", "alpha", NoKey, 0)
Script ==
    <<Ask("T1", "alpha", NoKey, 0), Ask("T2", "beta", Foreign["beta"], 0), Ask("T2", "alpha", Foreign["alpha"], 0),
      Ask("T3", "alpha", Shared, 0), Ask("T3", "beta", Shared, 0), Ask("T3", "beta", Shared, 0), Mark>>
    \o [i \in DOMAIN Wanted |-> Ask("Q1", "alpha", Wanted[i], 0)]
    \o <<Mark, Ask("Q2", "alpha", Shared, 0)>>
    \o [i \in DOMAIN Task |-> Ask("Q3", "beta", Task[i].key, Task[i].phase)]

-----------------------------------------------------------------------------
Fresh == [t \in Tenants |-> <<>>]

Init ==
    /\ pc = "idle" /\ life = 0 /\ config = <<>> /\ at = 0 /\ epoch = 0
    /\ cache = [t \in Tenants |-> {}] /\ attempts = Fresh
    /\ mem = Fresh /\ file = Fresh
    /\ sent = [t \in Tenants |-> 0]
    /\ answers = <<>> /\ pkg_gets = 0 /\ marks = <<>>
    /\ report = NoReport
    /\ contacts = Fresh
    /\ clean = TRUE /\ faults = 0

\* A run begins: /reset, load_config, MultiTenantBroker(...).
StartRun(c) ==
    /\ pc \in {"idle", "done"} /\ life < MaxRuns
    /\ life' = life + 1
    /\ config' = c /\ at' = 1 /\ pc' = "bind"
    /\ sent' = [t \in Tenants |-> 0]
    /\ answers' = <<>> /\ marks' = <<>> /\ pkg_gets' = 0
    /\ clean' = TRUE
    /\ UNCHANGED <<epoch, cache, attempts, mem, file, report, contacts, faults>>

\* "if os.path.exists(tpath): os.remove(tpath)"
Removed_Kept(t) == file[t]
Removed(t) == <<>>

\* MultiTenantBroker.__init__, one tenant: its old transcript is removed, its
\* broker is new, and notes its binding and its lockfile.
Bind ==
    /\ pc = "bind" /\ at <= Len(config)
    /\ config[at] \notin ToSet(SubSeq(config, 1, at - 1))
    /\ LET t == config[at]
           notes == <<Note("tenant_bound"), Note("lockfile_loaded")>>
       IN  /\ cache' = [cache EXCEPT ![t] = {}]
           /\ attempts' = [attempts EXCEPT ![t] = <<>>]
           /\ mem' = [mem EXCEPT ![t] = notes]
           /\ file' = [file EXCEPT ![t] = Removed(t) \o notes]
    /\ at' = at + 1
    /\ UNCHANGED <<pc, life, config, epoch, sent, contacts, answers, pkg_gets, marks, report, clean, faults>>

\* "duplicate tenant": ValueError, when the tenants before it are already bound.
Duplicate ==
    /\ pc = "bind" /\ at <= Len(config)
    /\ config[at] \in ToSet(SubSeq(config, 1, at - 1))
    /\ pc' = "idle"
    /\ UNCHANGED <<life, config, at, epoch, broker, answers, pkg_gets, marks, report, clean, faults>>

\* The listeners are up.  (Without one of the two tenants the checks raise.)
Serve ==
    /\ pc = "bind" /\ at > Len(config)
    /\ IF ToSet(config) = Tenants THEN pc' = "ask" /\ at' = 1 ELSE pc' = "idle" /\ UNCHANGED at
    /\ UNCHANGED <<life, config, epoch, broker, answers, pkg_gets, marks, report, clean, faults>>

-----------------------------------------------------------------------------
\* _admit: the attempts left once the expired ones at the head are popped.
FirstLive_TooFar(t) == Min({i \in 1 .. Len(attempts[t]) + 1 : i > Len(attempts[t]) \/ attempts[t][i] >= epoch}) + 1
FirstLive(t) == Min({i \in 1 .. Len(attempts[t]) + 1 : i > Len(attempts[t]) \/ attempts[t][i] >= epoch})
Live(t) == SubSeq(attempts[t], FirstLive(t), Len(attempts[t]))
Full_OffByOne(t) == Len(Live(t)) > Quota[t]
Full(t) == Len(Live(t)) >= Quota[t]

\* self.entries.get(key), self.cache.get(key): both the tenant's own.
Pinned_ByAny(t, k) == k \in UNION {Entries[u] : u \in Tenants}
Pinned(t, k) == k \in Entries[t]
Cached_ByAny(t, k) == \E u \in Tenants : k \in cache[u]
Cached(t, k) == k \in cache[t]

\* handle(), for each verdict: the lines it appends, and whether it asks the
\* upstream.  A request with a "tenant" field (no key here) is ungrammatical.
Verdicts(t, k) ==
    CASE k = NoKey -> {"grammar_violation"}
      [] k # NoKey /\ ~Pinned(t, k) -> {"lockfile_miss"}
      [] k # NoKey /\ Pinned(t, k) /\ Cached(t, k) -> {"served_from_cache"}
      [] k # NoKey /\ Pinned(t, k) /\ ~Cached(t, k) /\ Full(t) -> {"quota_exceeded"}
      [] OTHER -> Upstream

Logged(k, v) ==
    IF k = NoKey THEN <<Line("verdict", v, k)>> ELSE <<Line("request", "none", k), Line("verdict", v, k)>>

Handle(t, k, v) ==
    /\ v \in Verdicts(t, k)
    /\ mem' = [mem EXCEPT ![t] = @ \o Logged(k, v)]
    /\ file' = [file EXCEPT ![t] = @ \o Logged(k, v)]
    /\ cache' = IF v = "served_from_upstream" THEN [cache EXCEPT ![t] = @ \cup {k}] ELSE cache
    /\ attempts' = IF v \in Upstream THEN [attempts EXCEPT ![t] = Append(Live(t), epoch)]
                   ELSE IF v = "quota_exceeded" THEN [attempts EXCEPT ![t] = Live(t)] ELSE attempts
    /\ contacts' = IF v \in Upstream THEN [contacts EXCEPT ![t] = Append(@, [life |-> life, epoch |-> epoch])] ELSE contacts

Asking == pc = "ask" /\ at <= Len(Script)
Op == Script[at]

\* run_task: a phase that missed something is the last one.
TaskIsOver == \E n \in 1 .. at - 1 :
    Script[n].phase \in 1 .. Op.phase - 1 /\ answers[n] \notin Served

\* CountingTransport.fetch_raw: counted, sent, answered.
Count(t) == sent' = [sent EXCEPT ![t] = @ + 1]
Fail == faults < MaxFaults /\ faults' = faults + 1 /\ clean' = FALSE

Fetch(v) ==
    /\ Asking /\ Op.check # "mark" /\ ~TaskIsOver
    /\ Count(Op.tenant)
    /\ Handle(Op.tenant, Op.key, v)
    /\ IF v \in {"upstream_fail_closed", "digest_mismatch"} THEN Fail ELSE UNCHANGED <<clean, faults>>
    \* The mock records the request, unless it did not get there.
    /\ \/ v \notin Upstream /\ UNCHANGED pkg_gets
       \/ v \in Upstream /\ pkg_gets' = pkg_gets + 1
       \/ v = "upstream_fail_closed" /\ UNCHANGED pkg_gets
    /\ answers' = Append(answers, v) /\ at' = at + 1
    /\ UNCHANGED <<pc, life, config, epoch, marks, report>>

Skip ==
    /\ Asking /\ TaskIsOver
    /\ answers' = Append(answers, "none") /\ at' = at + 1
    /\ UNCHANGED <<pc, life, config, epoch, broker, pkg_gets, marks, report, clean, faults>>

\* _pkg_gets(mock_base), before and after the requests of Q1, and
\* A.upstream_attempts() after them.
TakeMark ==
    /\ Asking /\ Op.check = "mark"
    /\ marks' = Append(marks, <<pkg_gets, Len(attempts["alpha"])>>)
    /\ answers' = Append(answers, "none") /\ at' = at + 1
    /\ UNCHANGED <<pc, life, config, epoch, broker, pkg_gets, report, clean, faults>>

\* No answer within ten seconds, a counter that cannot be read, a child that
\* does not end: nothing catches the exception and there is no report.  The
\* broker may still have handled the request.
Raises ==
    /\ Asking /\ Fail
    /\ \/ Op.check = "mark" /\ UNCHANGED broker
       \/ Op.check # "mark" /\ Count(Op.tenant) /\ UNCHANGED <<cache, attempts, mem, file, contacts>>
       \/ Op.check # "mark" /\ Count(Op.tenant) /\ \E v \in Verdicts(Op.tenant, Op.key) : Handle(Op.tenant, Op.key, v)
    /\ pc' = "idle"
    /\ UNCHANGED <<life, config, at, epoch, answers, pkg_gets, marks, report>>

\* The process is killed.
Kill ==
    /\ pc \in {"bind", "ask"} /\ Fail
    /\ pc' = "idle"
    /\ UNCHANGED <<life, config, at, epoch, broker, answers, pkg_gets, marks, report>>

\* A request of an earlier stage of the run that was given up on arrives: the
\* mock's log grows although no tenant asked.
Stray ==
    /\ pc = "ask" /\ Fail
    /\ pkg_gets' = pkg_gets + 1
    /\ UNCHANGED <<pc, life, config, at, epoch, broker, answers, marks, report>>

\* The clock jumps a window ahead (the machine slept).
Jump ==
    /\ pc = "ask" /\ Fail
    /\ epoch' = epoch + 1
    /\ UNCHANGED <<pc, life, config, at, broker, answers, pkg_gets, marks, report>>

-----------------------------------------------------------------------------
\* run_tenancy_checks: what each check judges.
Asked(check) == {n \in DOMAIN Script : Script[n].check = check}
Got(check) == {answers[n] : n \in Asked(check)}
Number(check, verdicts) == Cardinality({n \in Asked(check) : answers[n] \in verdicts})

\* _scan of a transcript: requests, served keys, lines with an upstream verdict.
Requests(f) == Cardinality({i \in DOMAIN f : f[i].kind = "request" \/ f[i].verdict = "grammar_violation"})
ServedKeys(f) == {f[i].key : i \in {j \in DOMAIN f : f[j].verdict \in Served}}
UpstreamLines(f) == {i \in DOMAIN f : f[i].verdict \in Upstream}

\* max_in_window: the most upstream verdicts of one window.
max_in_window(f) == Max({Cardinality({i \in UpstreamLines(f) : f[i].epoch = e}) : e \in 0 .. epoch})

Checks == {"T1", "T2", "T3", "Q1", "Q2", "Q3", "T4"}
Passed(check) ==
    CASE check = "T1" -> Got("T1") = {"grammar_violation"}
      [] check = "T2" -> Got("T2") = {"lockfile_miss"}
      [] check = "T3" -> SubSeq(answers, 4, 6) = <<"served_from_upstream", "served_from_upstream", "served_from_cache">>
      [] check = "Q1" ->
            LET served == Number("Q1", Served)
            IN  /\ marks[2][2] = Quota["alpha"] /\ served = Quota["alpha"] - 1
                /\ marks[2][1] - marks[1][1] = served
                /\ Number("Q1", {"quota_exceeded"}) = Len(Wanted) - served
      [] check = "Q2" -> Got("Q2") = {"served_from_cache"}
      [] check = "Q3" -> Got("Q3") \subseteq Served /\ Len(attempts["beta"]) <= Quota["beta"]
      [] check = "T4" -> \A t \in Tenants : Requests(file[t]) = sent[t] /\ ServedKeys(file[t]) \subseteq Entries[t]

\* The checks are judged, and the report written: roots and attempts by tenant.
\* The child of a phase of beta's task may have failed.
Report ==
    /\ pc = "ask" /\ at > Len(Script)
    /\ \E children_ok \in BOOLEAN :
          /\ IF children_ok THEN UNCHANGED <<clean, faults>> ELSE Fail
          /\ report' = [life |-> life, root |-> mem, upstream_attempts |-> [t \in Tenants |-> Len(attempts[t])],
                        passed |-> {c \in Checks : Passed(c) /\ (c = "Q3" => children_ok)}]
    /\ pc' = "done"
    /\ UNCHANGED <<life, config, at, epoch, broker, answers, pkg_gets, marks>>

Done == pc \in {"idle", "done"} /\ UNCHANGED vars

Next ==
    \/ \E c \in Configs : StartRun(c)
    \/ Bind \/ Duplicate \/ Serve
    \/ \E v \in {"grammar_violation", "lockfile_miss", "quota_exceeded"} \cup Served \cup Upstream : Fetch(v)
    \/ Skip \/ TakeMark \/ Raises \/ Kill \/ Stray \/ Jump \/ Report \/ Done

Spec == Init /\ [][Next]_vars

-----------------------------------------------------------------------------
\* Transcript.verify_file: every run's chain starts at GENESIS, so a file links
\* when its lines are one run's (module Transcript).
Intact(f) == \A i \in DOMAIN f : f[i].life = f[1].life
RootMatches_Any(t) == TRUE
RootMatches(t) == report.root[t] = file[t]
Notes(f, event) == Cardinality({i \in DOMAIN f : f[i].verdict = event})

\* verify_tenancy, over the report and the transcripts on disk.  (The bound on
\* the channel is recomputed from the public config alone.)
verify_tenancy ==
    /\ report # NoReport
    /\ \A t \in ToSet(Public) :
          /\ Intact(file[t]) /\ RootMatches(t)
          /\ Notes(file[t], "tenant_bound") = 1 /\ Notes(file[t], "lockfile_loaded") = 1
          /\ ServedKeys(file[t]) \subseteq Entries[t]
          /\ LET peak == max_in_window(file[t])
             IN  peak <= Quota[t] /\ peak = report.upstream_attempts[t]
    /\ report.passed = Checks

-----------------------------------------------------------------------------
AllVerdicts == {"none", "grammar_violation", "lockfile_miss", "quota_exceeded"} \cup Served \cup Upstream
Lines == [life : Nat, kind : {"note", "request", "verdict"}, key : Keys \cup {NoKey}, epoch : Nat,
          verdict : AllVerdicts \cup {"tenant_bound", "lockfile_loaded"}]

Reports == [life : Nat, root : [Tenants -> Seq(Lines)], upstream_attempts : [Tenants -> Nat], passed : SUBSET Checks]
ASSUME ReportAssumption == NoReport \notin Reports

TypeOK ==
    /\ pc \in {"idle", "bind", "ask", "done"}
    /\ life \in Nat /\ epoch \in Nat /\ at \in Nat
    /\ config \in Configs \cup {<<>>}
    /\ cache \in [Tenants -> SUBSET Keys]
    /\ attempts \in [Tenants -> Seq(Nat)] /\ \A t \in Tenants : Len(attempts[t]) <= Quota[t]
    /\ mem \in [Tenants -> Seq(Lines)] /\ file \in [Tenants -> Seq(Lines)]
    /\ sent \in [Tenants -> Nat]
    /\ answers \in Seq(AllVerdicts) /\ Len(answers) <= Len(Script) /\ pkg_gets \in Nat
    /\ marks \in Seq(Nat \X Nat)
    /\ report \in Reports \cup {NoReport}
    /\ contacts \in [Tenants -> Seq([life : Nat, epoch : Nat])]
    /\ clean \in BOOLEAN /\ faults \in 0 .. MaxFaults

\* A run in which nothing fails verifies, whatever runs before it left behind:
\* killed ones, reports, transcripts, a start refused for a duplicate tenant.
\* The checks count exactly what isolated tenants with a quota each do.
CleanTenancyVerifies == pc = "done" /\ clean => verify_tenancy

\* M2-M4 for a report that verifies, at any time and whatever failed: the
\* transcripts beside it are those of its run, they tell of every request that
\* went upstream, and in that run alpha was refused at its quota while beta was
\* served its whole task.
Contacted(t, l) == {i \in DOMAIN contacts[t] : contacts[t][i].life = l}

VerifiedMeansIsolated ==
    verify_tenancy =>
        /\ \A t \in Tenants :
              /\ \A i \in DOMAIN file[t] : file[t][i].life = report.life
              /\ Cardinality(UpstreamLines(file[t])) = Cardinality(Contacted(t, report.life))
        /\ \E i \in DOMAIN file["alpha"] : file["alpha"][i].verdict = "quota_exceeded"
        /\ \A n \in DOMAIN Task : Task[n].key \in ServedKeys(file["beta"])

\* M4, as far as it goes: within a window one run of the broker sends at most
\* "quota" requests upstream for a tenant, although clock jumps, failed fetches
\* and killed clients fall anywhere.  (The attempts are forgotten when the
\* process ends: a window with a restart in it may hold twice as many.)
QuotaPerRun ==
    \A t \in Tenants, e \in 0 .. epoch :
        Cardinality({i \in Contacted(t, life) : contacts[t][i].epoch = e}) <= Quota[t]
=============================================================================
