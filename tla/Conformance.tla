------------------------------ MODULE Conformance ------------------------------
(***************************************************************************)
(* The local conformance run (sole_verify.py, orchestrate_local) and the   *)
(* check of its report (verify): the probe suite faces the allowlist proxy *)
(* (configuration A) and the broker (configuration B), both in front of    *)
(* one mock upstream; five structural checks of the broker follow.         *)
(*                                                                         *)
(* A probe is a script of requests, one step each.  A request may fail in  *)
(* any of the ways its caller tells apart or swallows; one that its caller *)
(* gave up on may still arrive at any later moment.  The chain, the        *)
(* workload and the tenants of the report are other modules' matter.       *)
(***************************************************************************)
EXTENDS Integers, Sequences, FiniteSets, SequencesExt

CONSTANT MaxFaults      \* bound: requests, answers and log lines that are lost

ASSUME BoundAssumption == MaxFaults \in Nat

VARIABLES
    stage,      \* "run", then "verified" or "failed"; "crashed": no report
    job, op,    \* index of the job and of the request in its script; 0: not begun
    before,     \* run_config: lines of the policy log when the probe began
    answers,    \* what the requests of the job returned
    mock,       \* the mock upstream: its receiver log and its toggles
    policyLog,  \* the verdicts the proxy's monitor wrote
    transcript, \* the verdicts of the shared broker
    late,       \* requests given up on that are still under way
    results,    \* one record per finished job
    recovered,  \* symbols_recovered of the covert channel
    happened,   \* history: what reached the upstream or the sandbox
    strays,     \* history: the log's lines written while no probe of A was running
    faults

vars == <<stage, job, op, before, answers, mock, policyLog, transcript, late, results,
          recovered, happened, strays, faults>>

-----------------------------------------------------------------------------
\* What is asked of the mock upstream: pinned packages ("junit" is real but not
\* in the lockfile), pulls of attacker bytes, uploads, and its own switches.
Pinned == {"requests", "urllib3", "numpy", "click"}
Packages == Pinned \cup {"junit"}
Pulls == {"health", "bytes", "beacon", "redirect", "dotdot"}
Tokens == {"canary", "put", "secret", "persist"}
Toggles == {"poison", "redirect_pkg", "oversize_pkg"}

\* A request: to the mock itself, its receiver log (look, decode), through the
\* proxy, to the shared broker, the no-cache broker or a fresh one.
To(t, r) == [to |-> t, what |-> r]
Job(s, i, e, script) == [suite |-> s, id |-> i, expected |-> e, script |-> script]

\* The secret of measure_capacity, as symbols over an alphabet of two packages.
Alphabet == {"requests", "numpy"}
Secret == <<"requests", "numpy", "numpy">>

SuiteA == <<
    Job("A", "setup", "none", <<To("mock", "reset")>>),
    Job("A", "recon", "SUCCESS", <<To("proxy", "health")>>),
    Job("A", "dropper", "SUCCESS", <<To("proxy", "bytes")>>),
    Job("A", "canary_exfil", "SUCCESS", <<To("proxy", "canary"), To("look", "canary")>>),
    Job("A", "c2_heartbeat", "SUCCESS", <<To("proxy", "beacon"), To("proxy", "beacon"), To("proxy", "beacon")>>),
    Job("A", "redirect_abuse", "SUCCESS", <<To("proxy", "redirect")>>),
    Job("A", "smuggle_grammar", "SUCCESS", <<To("proxy", "dotdot")>>),
    Job("A", "upload_put", "SUCCESS", <<To("proxy", "put"), To("look", "put")>>),
    Job("A", "metadata_service", "VIOLATION_BLOCKED", <<To("proxy", "imds")>>),
    Job("A", "poisoned_artifact", "SUCCESS", <<To("mock", "poison"), To("proxy", "requests")>>),
    Job("A", "lockfile_miss", "SUCCESS", <<To("proxy", "junit")>>),
    Job("A", "covert_channel", "SUCCESS", <<To("proxy", "secret"), To("look", "secret")>>),
    Job("A", "persistence_restart", "SUCCESS", <<To("proxy", "persist"), To("look", "persist")>>)>>

\* In B egress() is no request at all: only three probes have anything to send.
SuiteB == <<
    Job("B", "setup", "none", <<To("mock", "reset")>>),
    Job("B", "no_egress", "BLOCKED", <<>>),
    Job("B", "smuggle_grammar", "BLOCKED", <<To("broker", "malformed"), To("broker", "malformed"), To("broker", "malformed")>>),
    Job("B", "poisoned_artifact", "BLOCKED", <<To("mock", "poison"), To("broker", "requests")>>),
    Job("B", "lockfile_miss", "BLOCKED", <<To("broker", "junit")>>),
    Job("B", "covert_channel", "PARTIAL",
        <<To("mock", "reset")>> \o [n \in DOMAIN Secret |-> To("measure", Secret[n])] \o <<To("decode", "log")>>)>>

Checks == <<
    Job("checks", "no_redirect_followed", "passed", <<To("mock", "reset"), To("mock", "redirect_pkg"), To("fresh", "requests")>>),
    Job("checks", "oversize_fail_closed", "passed", <<To("mock", "reset"), To("mock", "oversize_pkg"), To("fresh", "urllib3")>>),
    Job("checks", "no_upstream_headers", "passed", <<To("mock", "reset"), To("fresh", "numpy")>>),
    Job("checks", "digest_pin_holds", "passed", <<To("mock", "reset"), To("mock", "poison"), To("fresh", "click")>>),
    Job("checks", "legit_fetch", "passed", <<To("mock", "reset"), To("fresh", "requests")>>),
    Job("checks", "setup", "none", <<To("mock", "reset")>>)>>

Plan == SuiteA \o SuiteB \o Checks
Script == Plan[job].script

-----------------------------------------------------------------------------
\* The mock upstream.  A switch is set, a reset clears log and switches, every
\* other request but /health is recorded.
ResetState_KeepToggles(m) == [m EXCEPT !.recv = <<>>]
ResetState(m) == [recv |-> <<>>, toggles |-> {}]

Handled(m, r) ==
    CASE r = "reset" -> ResetState(m)
      [] r \in Toggles -> [m EXCEPT !.toggles = @ \cup {r}]
      [] r \in (Packages \cup Pulls \cup Tokens) \ {"health"} -> [m EXCEPT !.recv = Append(@, r)]
      [] OTHER -> m

\* The body it answers with; a package is redirected, blown up or tampered with.
Body(m, r) ==
    CASE r \in Packages /\ "redirect_pkg" \in m.toggles -> "redirected"
      [] r \in Packages /\ "oversize_pkg" \in m.toggles -> "oversize"
      [] r \in Packages /\ "poison" \in m.toggles -> "tampered"
      [] OTHER -> "genuine"

\* recv_contains: an entry shows the token; every token starts with the canary.
Seen(token) == \E n \in DOMAIN mock.recv :
    mock.recv[n] = token \/ (token = "canary" /\ mock.recv[n] \in Tokens)

\* The proxy allows one host, which serves everything but the metadata service.
Verdict(r) == IF r = "imds" THEN "violation" ELSE "in_policy"
Refused == {"denied", "no", "redirected"}

\* Broker.handle (module Broker) in one step, as one client asks at a time.  No
\* key is asked of a caching broker twice, so that the cache plays no part.
BrokerVerdict(r, body) ==
    CASE r = "malformed" -> "grammar_violation"
      [] r \notin Pinned \cup {"malformed"} -> "lockfile_miss"
      [] r \in Pinned /\ body = "genuine" -> "served"
      [] r \in Pinned /\ body = "tampered" -> "digest_mismatch"
      [] OTHER -> "upstream_fail_closed"

-----------------------------------------------------------------------------
Init ==
    /\ stage = "run" /\ job = 1 /\ op = 0 /\ before = 0
    /\ answers = <<>>
    /\ mock = [recv |-> <<>>, toggles |-> {}]
    /\ policyLog = <<>> /\ transcript = <<>>
    /\ late = <<>> /\ results = <<>> /\ recovered = 0
    /\ happened = {} /\ strays = {} /\ faults = 0

\* run_config: the policy log is counted before the probe runs.
BeginJob ==
    /\ stage = "run" /\ job <= Len(Plan) /\ op = 0
    /\ before' = Len(policyLog) /\ op' = 1 /\ answers' = <<>>
    /\ UNCHANGED <<stage, job, mock, policyLog, transcript, late, results, recovered, happened, strays, faults>>

InScript == stage = "run" /\ job <= Len(Plan) /\ op \in 1 .. Len(Script)
Op == Script[op]

Returns(a) == answers' = Append(answers, a) /\ op' = op + 1 /\ UNCHANGED stage
Raises == answers' = Append(answers, "error") /\ op' = Len(Script) + 1 /\ UNCHANGED stage
Faulty == faults < MaxFaults /\ faults' = faults + 1

\* Harness.recv_reset and poison_on, and the calls of the checks.
CallMock ==
    /\ InScript /\ Op.to = "mock"
    /\ mock' = Handled(mock, Op.what)
    /\ Returns("ok")
    /\ UNCHANGED <<job, before, policyLog, transcript, late, results, recovered, happened, strays, faults>>

\* A call fails before or after it arrives, or arrives late.  The harness
\* swallows that; in the checks nothing does, and there will be no report.
CallMockFails ==
    /\ InScript /\ Op.to = "mock" /\ Faulty
    /\ \/ UNCHANGED <<mock, late>>
       \/ mock' = Handled(mock, Op.what) /\ UNCHANGED late
       \/ late' = Append(late, Op) /\ UNCHANGED mock
    /\ IF Plan[job].suite = "checks" THEN stage' = "crashed" /\ UNCHANGED <<op, answers>>
                                     ELSE Returns("no")
    /\ UNCHANGED <<job, before, policyLog, transcript, results, recovered, happened, strays>>

\* Harness.recv_contains; a log that cannot be read is an empty one.
Look ==
    /\ InScript /\ Op.to = "look"
    /\ \/ Returns(IF Seen(Op.what) THEN "ok" ELSE "no") /\ UNCHANGED faults
       \/ Returns("no") /\ Faulty
    /\ UNCHANGED <<job, before, mock, policyLog, transcript, late, results, recovered, happened, strays>>

\* measure_capacity: the n-th symbol of the secret is recovered when it is the
\* n-th entry of the receiver log that is a symbol at all.
Symbols(p) == {q \in 1 .. p : mock.recv[q] \in Alphabet}
Recovered == Cardinality({n \in DOMAIN Secret : \E p \in DOMAIN mock.recv :
                                mock.recv[p] = Secret[n] /\ Cardinality(Symbols(p)) = n})

Decode ==
    /\ InScript /\ Op.to = "decode"
    /\ \/ recovered' = Recovered /\ UNCHANGED faults
       \/ recovered' = 0 /\ Faulty
    /\ Returns("ok")
    /\ UNCHANGED <<job, before, mock, policyLog, transcript, late, results, happened, strays>>

\* What a request through the proxy brings about: an upload by arriving, a
\* download by being answered.
Effect(r, body) ==
    CASE r \in Tokens -> {<<r, "arrived">>}
      [] r \notin Tokens /\ body \notin Refused -> {<<r, body>>}
      [] OTHER -> {}

\* AllowlistTransport.egress through the proxy, which logs its verdict, or
\* fails to write it, and forwards what is in policy.
Egress ==
    /\ InScript /\ Op.to = "proxy"
    /\ \/ policyLog' = Append(policyLog, Verdict(Op.what)) /\ UNCHANGED faults
       \/ UNCHANGED policyLog /\ Faulty
    /\ IF Verdict(Op.what) = "violation"
       THEN /\ Returns("denied") /\ happened' = happened \cup {<<"imds", "denied">>}
            /\ UNCHANGED mock
       ELSE /\ Returns(Body(mock, Op.what))
            /\ happened' = happened \cup Effect(Op.what, Body(mock, Op.what))
            /\ mock' = Handled(mock, Op.what)
    /\ UNCHANGED <<job, before, transcript, late, results, recovered, strays>>

\* The proxy is not up, the upstream is not (502), or the answer is lost.
EgressFails ==
    /\ InScript /\ Op.to = "proxy" /\ Faulty
    /\ \E logged, arrived \in BOOLEAN :
          /\ arrived => logged /\ Verdict(Op.what) = "in_policy"
          /\ policyLog' = IF logged THEN Append(policyLog, Verdict(Op.what)) ELSE policyLog
          /\ mock' = IF arrived THEN Handled(mock, Op.what) ELSE mock
          /\ happened' = IF arrived THEN happened \cup Effect(Op.what, "no") ELSE happened
    /\ Returns("no")
    /\ UNCHANGED <<job, before, transcript, late, results, recovered, strays>>

\* The transport gives up after ten seconds; the request is still under way.
EgressTimesOut ==
    /\ InScript /\ Op.to = "proxy" /\ Faulty
    /\ late' = Append(late, Op)
    /\ Returns("no")
    /\ UNCHANGED <<job, before, mock, policyLog, transcript, results, recovered, happened, strays>>

\* A request given up on arrives after all, whatever is going on by then.
ProbeOfA == InScript \/ (stage = "run" /\ job <= Len(Plan) /\ op > Len(Script))

Arrive(n) ==
    /\ stage = "run"
    /\ late' = RemoveAt(late, n)
    /\ LET o == late[n] IN
       IF o.to = "proxy"
       THEN /\ policyLog' = Append(policyLog, Verdict(o.what))
            /\ strays' = IF ProbeOfA /\ Plan[job].suite = "A" THEN strays ELSE strays \cup {Len(policyLog) + 1}
            /\ IF Verdict(o.what) = "violation"
               THEN UNCHANGED <<mock, happened>>
               ELSE /\ mock' = Handled(mock, o.what)
                    /\ happened' = happened \cup Effect(o.what, "no")
       ELSE mock' = Handled(mock, o.what) /\ UNCHANGED <<policyLog, happened, strays>>
    /\ UNCHANGED <<stage, job, op, before, answers, transcript, results, recovered, faults>>

\* A broker handles a request, with the body the upstream gave it if it asked.
AsksBroker == InScript /\ Op.to \in {"broker", "measure", "fresh"}

BrokerHandles(body) ==
    /\ transcript' = IF Op.to = "broker" THEN Append(transcript, BrokerVerdict(Op.what, body)) ELSE transcript
    /\ happened' = IF Op = To("broker", "requests") /\ body = "tampered" THEN happened \cup {<<"requests", "refused">>} ELSE happened

Fetch ==
    /\ AsksBroker
    /\ BrokerHandles(Body(mock, Op.what))
    /\ mock' = IF Op.what \in Pinned THEN Handled(mock, Op.what) ELSE mock
    /\ Returns(BrokerVerdict(Op.what, Body(mock, Op.what)))
    /\ UNCHANGED <<job, before, policyLog, late, results, recovered, strays, faults>>

\* The broker's own request to the upstream, or the answer to it, is lost.
UpstreamFails ==
    /\ AsksBroker /\ Op.what \in Pinned /\ Faulty
    /\ BrokerHandles("none")
    /\ mock' \in {mock, Handled(mock, Op.what)}
    /\ Returns(BrokerVerdict(Op.what, "none"))
    /\ UNCHANGED <<job, before, policyLog, late, results, recovered, strays>>

\* fetch_raw raises: there is no broker, or no answer in its ten seconds, which
\* are as long as the broker waits for a silent upstream.
FetchRaises ==
    /\ AsksBroker /\ Op.to # "fresh" /\ Faulty
    /\ \/ UNCHANGED <<mock, transcript, happened>>
       \/ /\ BrokerHandles(Body(mock, Op.what))
          /\ mock' = IF Op.what \in Pinned THEN Handled(mock, Op.what) ELSE mock
       \/ Op.what \in Pinned /\ BrokerHandles("none") /\ mock' \in {mock, Handled(mock, Op.what)}
    /\ Raises
    /\ UNCHANGED <<job, before, policyLog, late, results, recovered, strays>>

-----------------------------------------------------------------------------
\* The outcome a probe derives from its answers; an exception is an ERROR.
GotAll == \A n \in DOMAIN answers : answers[n] \notin Refused
NoneServed == \A n \in DOMAIN answers : answers[n] # "served"
Decide(yes, no, condition) == IF condition THEN yes ELSE no

OutcomeA(id) ==
    CASE id \in {"smuggle_grammar", "covert_channel"} -> "SUCCESS"
      [] id = "metadata_service" -> Decide("VIOLATION_BLOCKED", Decide("SUCCESS", "BLOCKED", GotAll), answers[1] = "denied")
      [] id = "poisoned_artifact" -> Decide("SUCCESS", "BLOCKED", answers[2] = "tampered")
      [] OTHER -> Decide("SUCCESS", "BLOCKED", GotAll)

OutcomeB(id) ==
    CASE id = "covert_channel" -> "PARTIAL"
      [] OTHER -> Decide("BLOCKED", "SUCCESS", NoneServed)

Passed(id) ==
    CASE id = "no_redirect_followed" -> Last(answers) = "upstream_fail_closed"
      [] id = "oversize_fail_closed" -> Last(answers) # "served"
      [] id = "digest_pin_holds" -> Last(answers) = "digest_mismatch"
      [] OTHER -> Last(answers) = "served"

Outcome(j) ==
    CASE j.id = "setup" -> "none"
      [] j.id # "setup" /\ "error" \in ToSet(answers) -> "ERROR"
      [] j.id # "setup" /\ "error" \notin ToSet(answers) /\ j.suite = "A" -> OutcomeA(j.id)
      [] j.id # "setup" /\ "error" \notin ToSet(answers) /\ j.suite = "B" -> OutcomeB(j.id)
      [] OTHER -> Decide("passed", "failed", Passed(j.id))

\* _read_lines(policy_log, before), for the probes of A: the numbers of the new
\* lines.  The report tells how many they are, and how many are violations.
NewLines_FromStart == 1 .. Len(policyLog)
NewLines_OffByOne == before + 2 .. Len(policyLog)
NewLines == before + 1 .. Len(policyLog)
Violations(lines) == {n \in lines : policyLog[n] = "violation"}
Monitored(j) == j.suite = "A" /\ j.id # "setup"

EndJob ==
    /\ stage = "run" /\ job <= Len(Plan) /\ op = Len(Script) + 1
    /\ LET lines == IF Monitored(Plan[job]) THEN NewLines ELSE {}
       IN  results' = Append(results, [outcome |-> Outcome(Plan[job]), lines |-> lines, violations |-> Violations(lines)])
    /\ job' = job + 1 /\ op' = 0 /\ answers' = <<>>
    /\ UNCHANGED <<stage, before, mock, policyLog, transcript, late, recovered, happened, strays, faults>>

\* orchestrate_local: the monitor's summary, over the whole policy log.
Summary == [lines |-> DOMAIN policyLog, violations |-> Violations(DOMAIN policyLog)]

\* verify: outcomes against the public suite, and the verdicts that back B's.
Suite(s) == {n \in DOMAIN Plan : Plan[n].suite \in s}
Held(s) == \A n \in Suite(s) : results[n].outcome = Plan[n].expected
Count(v) == Cardinality({n \in DOMAIN transcript : transcript[n] = v})
Evidence_Missing == TRUE
Evidence == Count("grammar_violation") >= 3 /\ Count("digest_mismatch") >= 1 /\ Count("lockfile_miss") >= 1

Verify ==
    /\ stage = "run" /\ job > Len(Plan)
    /\ stage' = IF Held({"A", "B"}) /\ Evidence THEN "verified" ELSE "failed"
    /\ UNCHANGED <<job, op, before, answers, mock, policyLog, transcript, late, results, recovered, happened, strays, faults>>

Done == stage # "run" /\ UNCHANGED vars

Next ==
    \/ BeginJob \/ CallMock \/ CallMockFails \/ Look \/ Decode
    \/ Egress \/ EgressFails \/ EgressTimesOut
    \/ \E n \in DOMAIN late : Arrive(n)
    \/ Fetch \/ UpstreamFails \/ FetchRaises
    \/ EndJob \/ Verify \/ Done

Spec == Init /\ [][Next]_vars

-----------------------------------------------------------------------------
Outcomes == {"none", "SUCCESS", "BLOCKED", "VIOLATION_BLOCKED", "PARTIAL", "ERROR", "passed", "failed"}
Bodies == {"genuine", "tampered", "oversize", "redirected"}
Verdicts == {"grammar_violation", "lockfile_miss", "served", "digest_mismatch", "upstream_fail_closed"}
Answers == {"ok", "no", "denied", "error"} \cup Bodies \cup Verdicts
Asked == UNION {ToSet(Plan[n].script) : n \in DOMAIN Plan}

TypeOK ==
    /\ stage \in {"run", "verified", "failed", "crashed"}
    /\ job \in 1 .. Len(Plan) + 1
    /\ op \in 0 .. IF job <= Len(Plan) THEN Len(Script) + 1 ELSE 0
    /\ before \in 0 .. Len(policyLog)
    /\ answers \in Seq(Answers)
    /\ mock \in [recv : Seq(Packages \cup Pulls \cup Tokens), toggles : SUBSET Toggles]
    /\ policyLog \in Seq({"in_policy", "violation"})
    /\ transcript \in Seq(Verdicts)
    /\ late \in Seq(Asked)
    /\ results \in Seq([outcome : Outcomes, lines : SUBSET DOMAIN policyLog, violations : SUBSET DOMAIN policyLog])
    /\ Len(results) = job - 1
    /\ \A n \in DOMAIN results : Cardinality(results[n].lines) <= 3 + MaxFaults
    /\ recovered \in 0 .. Len(Secret)
    /\ strays \in SUBSET DOMAIN policyLog /\ faults \in 0 .. MaxFaults

\* What each probe of A declares as the adversary's goal, and what attains it.
Goal == [recon |-> {<<"health", "genuine">>},
         dropper |-> {<<"bytes", "genuine">>},
         canary_exfil |-> {<<"canary", "arrived">>},
         c2_heartbeat |-> {<<"beacon", "genuine">>},
         redirect_abuse |-> {<<"redirect", "genuine">>},
         smuggle_grammar |-> {<<"dotdot", "genuine">>},
         upload_put |-> {<<"put", "arrived">>},
         metadata_service |-> {<<"imds", "denied">>},
         poisoned_artifact |-> {<<"requests", "tampered">>},
         lockfile_miss |-> {<<"junit", "genuine">>, <<"junit", "tampered">>},
         covert_channel |-> {<<"secret", "arrived">>},
         persistence_restart |-> {<<"persist", "arrived">>}]
Attained(id) == Goal[id] \cap happened # {}

\* README.md:81 "verify proves what was tested": whatever was lost, late or
\* swallowed during the run, a report that verifies comes from a run in which
\* every attack of configuration A took place, but for the two probes whose
\* outcome in A is a constant, and in which the shared broker was handed
\* tampered bytes and refused them.
VerifiedMeansTested ==
    stage = "verified" =>
        /\ \A id \in DOMAIN Goal \ {"smuggle_grammar", "covert_channel"} : Attained(id)
        /\ <<"requests", "refused">> \in happened

\* The requests of a job that go through the proxy, one line each.
Proxied(n) == {o \in DOMAIN Plan[n].script : Plan[n].script[o].to = "proxy"}

\* A run in which nothing is lost verifies, passes every structural check, reads
\* the whole secret back and attributes to each probe of A the connections it
\* made: switches one probe or check leaves on do not spoil a later one.
CleanSuiteVerifies ==
    stage # "run" /\ faults = 0 =>
        /\ stage = "verified" /\ Held({"checks"})
        /\ recovered = Len(Secret)
        /\ \A n \in Suite({"A"}) :
              /\ Cardinality(results[n].lines) = Cardinality(Proxied(n))
              /\ Cardinality(results[n].violations) = IF Plan[n].id = "metadata_service" THEN 1 ELSE 0

\* The per-probe counts of the policy monitor, although requests overrun the
\* probe that made them: a line, or a violation, is counted with one probe at
\* most, and what the summary of the report has beyond the probes is exactly the
\* lines written while no probe of A was running.
LinesAreCountedOnce ==
    stage \in {"verified", "failed"} =>
        /\ \A m, n \in DOMAIN results : m # n => results[m].lines \cap results[n].lines = {}
        /\ UNION {results[n].lines : n \in DOMAIN results} = Summary.lines \ strays
        /\ UNION {results[n].violations : n \in DOMAIN results} = Summary.violations \ strays
=============================================================================
