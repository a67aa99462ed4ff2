--------------------------- MODULE ConformanceProofs ---------------------------
(***************************************************************************)
(* The conformance run, for every number of faults: what a verified report *)
(* proves of the run (VerifiedIsTested), that the monitor's lines are      *)
(* shared out among the probes (LinesCountedOnce), and that a run without  *)
(* faults keeps every promise and verifies (CleanRunPasses).               *)
(*                                                                         *)
(* The plan enters the proofs as three facts: where its parts are, which   *)
(* requests each job makes (PlanFacts), and, for the attacks only, each    *)
(* script of A.  The steps that make a request are weakened to one formula *)
(* (Request), late ones to another (Arrival).  The inductive invariant:    *)
(*   - MockInv, LateInv: a token at the upstream was sent.  recv_contains  *)
(*     takes any token for the canary, so that the fourth job's answer is  *)
(*     good only because no other token is sent, or under way, before it;  *)
(*   - AnswerInv: every answer a probe of A holds is backed by what has    *)
(*     happened; ResultInv: so is every outcome it finished with;          *)
(*   - TranscriptInv: a digest mismatch was tampered bytes refused;        *)
(*   - StageInv: a report is made once, at the end, of what was held then; *)
(*   - CountInv: a probe's lines are its requests and late ones, of which  *)
(*     there are at most as many as faults (the bound in TypeOK);          *)
(*   - LineInv: the shares are disjoint, end below the line the running    *)
(*     probe began at, and are everything below it but the strays.         *)
(*                                                                         *)
(* A clean run is followed request by request (CleanInv): which switches   *)
(* of the upstream are on (SwitchInv), what it has received (ReceivedInv), *)
(* what each request so far was answered (RightInv), the broker's verdicts *)
(* (EvidenceInv) and the monitor's lines (OwnLinesInv) up to it; so each   *)
(* job that is over came out as its plan says (CleanResultInv).            *)
(***************************************************************************)
EXTENDS Conformance, SequenceLemmas

\* What a probe of A, a probe of B and a structural check may ask.
AsksA == [to : {"mock"}, what : {"reset", "poison"}]
         \cup [to : {"proxy"}, what : Pulls \cup Tokens \cup Packages \cup {"imds"}]
         \cup [to : {"look"}, what : Tokens]
AsksB == [to : {"mock"}, what : {"reset", "poison"}]
         \cup [to : {"broker"}, what : {"malformed", "requests", "junit"}]
         \cup [to : {"measure"}, what : Alphabet] \cup [to : {"decode"}, what : {"log"}]
AsksC == [to : {"mock"}, what : {"reset"} \cup Toggles] \cup [to : {"fresh"}, what : Pinned]

\* The n-th job of A: the setup asks the mock only, no token but the canary is
\* sent before the fourth job is over, and that one looks for it.
AsksOfA(n) == {o \in AsksA : /\ n = 1 => o.to = "mock"
                             /\ n <= 4 /\ o.what \in Tokens => o.what = "canary"
                             /\ o = To("look", "canary") => n = 4}

-----------------------------------------------------------------------------
\* The probes of A, one by one.
LEMMA JobsOfA ==
    /\ Len(SuiteA) = 13 /\ DOMAIN SuiteA = 1 .. 13
    /\ SuiteA[1] = Job("A", "setup", "none", <<To("mock", "reset")>>)
    /\ SuiteA[2] = Job("A", "recon", "SUCCESS", <<To("proxy", "health")>>)
    /\ SuiteA[3] = Job("A", "dropper", "SUCCESS", <<To("proxy", "bytes")>>)
    /\ SuiteA[4] = Job("A", "canary_exfil", "SUCCESS", <<To("proxy", "canary"), To("look", "canary")>>)
    /\ SuiteA[5] = Job("A", "c2_heartbeat", "SUCCESS", <<To("proxy", "beacon"), To("proxy", "beacon"), To("proxy", "beacon")>>)
    /\ SuiteA[6] = Job("A", "redirect_abuse", "SUCCESS", <<To("proxy", "redirect")>>)
    /\ SuiteA[7] = Job("A", "smuggle_grammar", "SUCCESS", <<To("proxy", "dotdot")>>)
    /\ SuiteA[8] = Job("A", "upload_put", "SUCCESS", <<To("proxy", "put"), To("look", "put")>>)
    /\ SuiteA[9] = Job("A", "metadata_service", "VIOLATION_BLOCKED", <<To("proxy", "imds")>>)
    /\ SuiteA[10] = Job("A", "poisoned_artifact", "SUCCESS", <<To("mock", "poison"), To("proxy", "requests")>>)
    /\ SuiteA[11] = Job("A", "lockfile_miss", "SUCCESS", <<To("proxy", "junit")>>)
    /\ SuiteA[12] = Job("A", "covert_channel", "SUCCESS", <<To("proxy", "secret"), To("look", "secret")>>)
    /\ SuiteA[13] = Job("A", "persistence_restart", "SUCCESS", <<To("proxy", "persist"), To("look", "persist")>>)
  BY DEF SuiteA

LEMMA ScriptsOfA == \A n \in 1 .. 13 :
    /\ SuiteA[n].suite = "A" /\ (SuiteA[n].id = "setup" <=> n = 1)
    /\ SuiteA[n].script \in Seq(AsksOfA(n)) /\ Len(SuiteA[n].script) <= 3
<1> DEFINE P(n) == /\ SuiteA[n].suite = "A" /\ (SuiteA[n].id = "setup" <=> n = 1)
                   /\ SuiteA[n].script \in Seq(AsksOfA(n)) /\ Len(SuiteA[n].script) <= 3
<1>1. P(1)
  <2>1. To("mock", "reset") \in AsksOfA(1)
    BY DEF AsksOfA, AsksA, To, Pulls, Tokens, Packages, Pinned
  <2> QED BY <2>1, JobsOfA DEF Job
<1>2. P(2)
  <2>1. To("proxy", "health") \in AsksOfA(2)
    BY DEF AsksOfA, AsksA, To, Pulls, Tokens, Packages, Pinned
  <2> QED BY <2>1, JobsOfA DEF Job
<1>3. P(3)
  <2>1. To("proxy", "bytes") \in AsksOfA(3)
    BY DEF AsksOfA, AsksA, To, Pulls, Tokens, Packages, Pinned
  <2> QED BY <2>1, JobsOfA DEF Job
<1>4. P(4)
  <2>1. To("proxy", "canary") \in AsksOfA(4) /\ To("look", "canary") \in AsksOfA(4)
    BY DEF AsksOfA, AsksA, To, Pulls, Tokens, Packages, Pinned
  <2> QED BY <2>1, JobsOfA DEF Job
<1>5. P(5)
  <2>1. To("proxy", "beacon") \in AsksOfA(5)
    BY DEF AsksOfA, AsksA, To, Pulls, Tokens, Packages, Pinned
  <2> QED BY <2>1, JobsOfA DEF Job
<1>6. P(6)
  <2>1. To("proxy", "redirect") \in AsksOfA(6)
    BY DEF AsksOfA, AsksA, To, Pulls, Tokens, Packages, Pinned
  <2> QED BY <2>1, JobsOfA DEF Job
<1>7. P(7)
  <2>1. To("proxy", "dotdot") \in AsksOfA(7)
    BY DEF AsksOfA, AsksA, To, Pulls, Tokens, Packages, Pinned
  <2> QED BY <2>1, JobsOfA DEF Job
<1>8. P(8)
  <2>1. To("proxy", "put") \in AsksOfA(8) /\ To("look", "put") \in AsksOfA(8)
    BY DEF AsksOfA, AsksA, To, Pulls, Tokens, Packages, Pinned
  <2> QED BY <2>1, JobsOfA DEF Job
<1>9. P(9)
  <2>1. To("proxy", "imds") \in AsksOfA(9)
    BY DEF AsksOfA, AsksA, To, Pulls, Tokens, Packages, Pinned
  <2> QED BY <2>1, JobsOfA DEF Job
<1>10. P(10)
  <2>1. To("mock", "poison") \in AsksOfA(10) /\ To("proxy", "requests") \in AsksOfA(10)
    BY DEF AsksOfA, AsksA, To, Pulls, Tokens, Packages, Pinned
  <2> QED BY <2>1, JobsOfA DEF Job
<1>11. P(11)
  <2>1. To("proxy", "junit") \in AsksOfA(11)
    BY DEF AsksOfA, AsksA, To, Pulls, Tokens, Packages, Pinned
  <2> QED BY <2>1, JobsOfA DEF Job
<1>12. P(12)
  <2>1. To("proxy", "secret") \in AsksOfA(12) /\ To("look", "secret") \in AsksOfA(12)
    BY DEF AsksOfA, AsksA, To, Pulls, Tokens, Packages, Pinned
  <2> QED BY <2>1, JobsOfA DEF Job
<1>13. P(13)
  <2>1. To("proxy", "persist") \in AsksOfA(13) /\ To("look", "persist") \in AsksOfA(13)
    BY DEF AsksOfA, AsksA, To, Pulls, Tokens, Packages, Pinned
  <2> QED BY <2>1, JobsOfA DEF Job
<1>14. \A n \in 1 .. 13 : \/ n = 1 \/ n = 2 \/ n = 3 \/ n = 4 \/ n = 5 \/ n = 6 \/ n = 7
                           \/ n = 8 \/ n = 9 \/ n = 10 \/ n = 11 \/ n = 12 \/ n = 13
  OBVIOUS
<1> HIDE DEF P
<1>15. \A n \in 1 .. 13 : P(n)
  BY <1>1, <1>2, <1>3, <1>4, <1>5, <1>6, <1>7, <1>8, <1>9, <1>10, <1>11, <1>12, <1>13, <1>14
<1> QED BY <1>15 DEF P

\* The probes of B; the script of the covert channel is put together of three.
Channel == <<To("mock", "reset")>> \o [n \in DOMAIN Secret |-> To("measure", Secret[n])] \o <<To("decode", "log")>>

LEMMA ChannelScript == Channel \in Seq(AsksB)
<1>1. <<To("mock", "reset")>> \in Seq(AsksB)
  <2>1. To("mock", "reset") \in AsksB
    BY DEF AsksB, To
  <2> QED BY <2>1
<1>2. <<To("decode", "log")>> \in Seq(AsksB)
  <2>1. To("decode", "log") \in AsksB
    BY DEF AsksB, To
  <2> QED BY <2>1
<1>3. [n \in DOMAIN Secret |-> To("measure", Secret[n])] \in Seq(AsksB)
  <2>1. DOMAIN Secret = 1 .. 3 /\ \A n \in 1 .. 3 : Secret[n] \in Alphabet
    <3>1. Secret[1] \in Alphabet /\ Secret[2] \in Alphabet /\ Secret[3] \in Alphabet /\ DOMAIN Secret = 1 .. 3
      BY DEF Secret, Alphabet
    <3> QED BY <3>1
  <2>2. \A r \in Alphabet : To("measure", r) \in AsksB
    BY DEF AsksB, To
  <2>3. \A n \in 1 .. 3 : To("measure", Secret[n]) \in AsksB
    BY <2>1, <2>2
  <2> QED BY <2>1, <2>3
<1> QED BY <1>1, <1>2, <1>3, ConcatProperties DEF Channel

LEMMA JobsOfB ==
    /\ Len(SuiteB) = 6 /\ DOMAIN SuiteB = 1 .. 6
    /\ SuiteB[1] = Job("B", "setup", "none", <<To("mock", "reset")>>)
    /\ SuiteB[2] = Job("B", "no_egress", "BLOCKED", <<>>)
    /\ SuiteB[3] = Job("B", "smuggle_grammar", "BLOCKED", <<To("broker", "malformed"), To("broker", "malformed"), To("broker", "malformed")>>)
    /\ SuiteB[4] = Job("B", "poisoned_artifact", "BLOCKED", <<To("mock", "poison"), To("broker", "requests")>>)
    /\ SuiteB[5] = Job("B", "lockfile_miss", "BLOCKED", <<To("broker", "junit")>>)
    /\ SuiteB[6] = Job("B", "covert_channel", "PARTIAL", Channel)
  BY DEF SuiteB, Channel

LEMMA ScriptsOfB == \A n \in 1 .. 6 :
    SuiteB[n].suite = "B" /\ SuiteB[n].script \in Seq(AsksB)
<1> DEFINE P(n) == SuiteB[n].suite = "B" /\ SuiteB[n].script \in Seq(AsksB)
<1>1. P(1)
  <2>1. To("mock", "reset") \in AsksB
    BY DEF AsksB, To
  <2> QED BY <2>1, JobsOfB DEF Job
<1>2. P(2)
  BY JobsOfB DEF Job
<1>3. P(3)
  <2>1. To("broker", "malformed") \in AsksB
    BY DEF AsksB, To
  <2> QED BY <2>1, JobsOfB DEF Job
<1>4. P(4)
  <2>1. To("mock", "poison") \in AsksB /\ To("broker", "requests") \in AsksB
    BY DEF AsksB, To
  <2> QED BY <2>1, JobsOfB DEF Job
<1>5. P(5)
  <2>1. To("broker", "junit") \in AsksB
    BY DEF AsksB, To
  <2> QED BY <2>1, JobsOfB DEF Job
<1>6. P(6)
  BY JobsOfB, ChannelScript DEF Job
<1>7. \A n \in 1 .. 6 : n = 1 \/ n = 2 \/ n = 3 \/ n = 4 \/ n = 5 \/ n = 6
  OBVIOUS
<1> HIDE DEF P
<1>8. \A n \in 1 .. 6 : P(n)
  BY <1>1, <1>2, <1>3, <1>4, <1>5, <1>6, <1>7
<1> QED BY <1>8 DEF P

\* The structural checks.
LEMMA JobsOfChecks ==
    /\ Len(Checks) = 6 /\ DOMAIN Checks = 1 .. 6
    /\ Checks[1] = Job("checks", "no_redirect_followed", "passed", <<To("mock", "reset"), To("mock", "redirect_pkg"), To("fresh", "requests")>>)
    /\ Checks[2] = Job("checks", "oversize_fail_closed", "passed", <<To("mock", "reset"), To("mock", "oversize_pkg"), To("fresh", "urllib3")>>)
    /\ Checks[3] = Job("checks", "no_upstream_headers", "passed", <<To("mock", "reset"), To("fresh", "numpy")>>)
    /\ Checks[4] = Job("checks", "digest_pin_holds", "passed", <<To("mock", "reset"), To("mock", "poison"), To("fresh", "click")>>)
    /\ Checks[5] = Job("checks", "legit_fetch", "passed", <<To("mock", "reset"), To("fresh", "requests")>>)
    /\ Checks[6] = Job("checks", "setup", "none", <<To("mock", "reset")>>)
  BY DEF Checks

LEMMA ScriptsOfChecks == \A n \in 1 .. 6 :
    Checks[n].suite = "checks" /\ Checks[n].script \in Seq(AsksC)
<1> DEFINE P(n) == Checks[n].suite = "checks" /\ Checks[n].script \in Seq(AsksC)
<1>1. P(1)
  <2>1. To("mock", "reset") \in AsksC /\ To("mock", "redirect_pkg") \in AsksC /\ To("fresh", "requests") \in AsksC
    BY DEF AsksC, To, Toggles, Pinned
  <2> QED BY <2>1, JobsOfChecks DEF Job
<1>2. P(2)
  <2>1. To("mock", "reset") \in AsksC /\ To("mock", "oversize_pkg") \in AsksC /\ To("fresh", "urllib3") \in AsksC
    BY DEF AsksC, To, Toggles, Pinned
  <2> QED BY <2>1, JobsOfChecks DEF Job
<1>3. P(3)
  <2>1. To("mock", "reset") \in AsksC /\ To("fresh", "numpy") \in AsksC
    BY DEF AsksC, To, Toggles, Pinned
  <2> QED BY <2>1, JobsOfChecks DEF Job
<1>4. P(4)
  <2>1. To("mock", "reset") \in AsksC /\ To("mock", "poison") \in AsksC /\ To("fresh", "click") \in AsksC
    BY DEF AsksC, To, Toggles, Pinned
  <2> QED BY <2>1, JobsOfChecks DEF Job
<1>5. P(5)
  <2>1. To("mock", "reset") \in AsksC /\ To("fresh", "requests") \in AsksC
    BY DEF AsksC, To, Toggles, Pinned
  <2> QED BY <2>1, JobsOfChecks DEF Job
<1>6. P(6)
  <2>1. To("mock", "reset") \in AsksC
    BY DEF AsksC, To, Toggles, Pinned
  <2> QED BY <2>1, JobsOfChecks DEF Job
<1>7. \A n \in 1 .. 6 : n = 1 \/ n = 2 \/ n = 3 \/ n = 4 \/ n = 5 \/ n = 6
  OBVIOUS
<1> HIDE DEF P
<1>8. \A n \in 1 .. 6 : P(n)
  BY <1>1, <1>2, <1>3, <1>4, <1>5, <1>6, <1>7
<1> QED BY <1>8 DEF P

\* The plan: thirteen jobs of A, six of B, six checks.
LEMMA PlanParts ==
    /\ Len(Plan) = 25 /\ DOMAIN Plan = 1 .. 25
    /\ \A n \in 1 .. 13 : Plan[n] = SuiteA[n]
    /\ \A n \in 14 .. 19 : Plan[n] = SuiteB[n - 13]
    /\ \A n \in 20 .. 25 : Plan[n] = Checks[n - 19]
<1> DEFINE S == {SuiteA[n] : n \in 1 .. 13} \cup {SuiteB[n] : n \in 1 .. 6} \cup {Checks[n] : n \in 1 .. 6}
<1>1. SuiteA \in Seq(S)
  <2>1. SuiteA = [n \in 1 .. 13 |-> SuiteA[n]]
    BY DEF SuiteA
  <2> QED BY <2>1
<1>2. SuiteB \in Seq(S)
  <2>1. SuiteB = [n \in 1 .. 6 |-> SuiteB[n]]
    BY DEF SuiteB
  <2> QED BY <2>1
<1>3. Checks \in Seq(S)
  <2>1. Checks = [n \in 1 .. 6 |-> Checks[n]]
    BY DEF Checks
  <2> QED BY <2>1
<1> HIDE DEF S
<1>4. Len(SuiteA) = 13 /\ Len(SuiteB) = 6 /\ Len(Checks) = 6
  BY JobsOfA, JobsOfB, JobsOfChecks
<1> DEFINE AB == SuiteA \o SuiteB
<1>5. /\ AB \in Seq(S) /\ Len(AB) = Len(SuiteA) + Len(SuiteB)
      /\ \A n \in 1 .. Len(SuiteA) : AB[n] = SuiteA[n]
      /\ \A n \in 1 .. Len(SuiteB) : AB[Len(SuiteA) + n] = SuiteB[n]
  BY ONLY <1>1, <1>2, ConcatParts
<1> HIDE DEF AB
<1> DEFINE ABC == AB \o Checks
<1>6. /\ ABC \in Seq(S) /\ Len(ABC) = Len(AB) + Len(Checks)
      /\ \A n \in 1 .. Len(AB) : ABC[n] = AB[n]
      /\ \A n \in 1 .. Len(Checks) : ABC[Len(AB) + n] = Checks[n]
  <2>1. AB \in Seq(S)
    BY ONLY <1>5
  <2> QED BY ONLY <1>3, <2>1, ConcatParts
<1>7. Plan = ABC
  BY DEF Plan, AB
<1> HIDE DEF ABC
<1>8. ASSUME NEW n \in 1 .. 13 PROVE Plan[n] = SuiteA[n]
  <2>1. Len(AB) = 19 /\ n \in 1 .. 19
    BY ONLY <1>4, <1>5
  <2>2. Plan[n] = AB[n]
    BY ONLY <1>6, <1>7, <2>1
  <2>3. AB[n] = SuiteA[n]
    BY ONLY <1>4, <1>5
  <2> QED BY ONLY <2>2, <2>3
<1>9. ASSUME NEW n \in 14 .. 19 PROVE Plan[n] = SuiteB[n - 13]
  <2>1. n - 13 \in 1 .. 6 /\ 13 + (n - 13) = n /\ n \in 1 .. 19
    OBVIOUS
  <2>2. AB[13 + (n - 13)] = SuiteB[n - 13]
    <3>1. Len(SuiteA) = 13 /\ n - 13 \in 1 .. Len(SuiteB)
      BY ONLY <1>4, <2>1
    <3> QED BY ONLY <1>5, <3>1
  <2>3. Len(AB) = 19
    BY ONLY <1>4, <1>5
  <2>4. Plan[n] = AB[n]
    BY ONLY <1>6, <1>7, <2>1, <2>3
  <2> QED BY ONLY <2>1, <2>2, <2>4
<1>10. ASSUME NEW n \in 20 .. 25 PROVE Plan[n] = Checks[n - 19]
  <2>1. n - 19 \in 1 .. 6 /\ 19 + (n - 19) = n
    OBVIOUS
  <2>2. Len(AB) = 19
    BY ONLY <1>4, <1>5
  <2>3. Plan[19 + (n - 19)] = Checks[n - 19]
    BY ONLY <1>4, <1>6, <1>7, <2>1, <2>2
  <2> QED BY ONLY <2>1, <2>3
<1>11. Len(Plan) = 25 /\ DOMAIN Plan = 1 .. 25
  BY ONLY <1>4, <1>5, <1>6, <1>7
<1> QED BY <1>8, <1>9, <1>10, <1>11

\* What the proofs use of the plan.
AsksLater == AsksB \cup AsksC

LEMMA PlanFacts ==
    /\ Len(Plan) = 25 /\ DOMAIN Plan = 1 .. 25
    /\ \A n \in 1 .. 13 : /\ Plan[n].suite = "A" /\ (Plan[n].id = "setup" <=> n = 1)
                           /\ Plan[n].script \in Seq(AsksOfA(n)) /\ Len(Plan[n].script) <= 3
    /\ \A n \in 14 .. 25 : Plan[n].suite \in {"B", "checks"} /\ Plan[n].script \in Seq(AsksLater)
<1>1. ASSUME NEW n \in 14 .. 19 PROVE Plan[n].suite = "B" /\ Plan[n].script \in Seq(AsksB)
  <2>1. n - 13 \in 1 .. 6
    OBVIOUS
  <2> QED BY <2>1, PlanParts, ScriptsOfB
<1>2. ASSUME NEW n \in 20 .. 25 PROVE Plan[n].suite = "checks" /\ Plan[n].script \in Seq(AsksC)
  <2>1. n - 19 \in 1 .. 6
    OBVIOUS
  <2> QED BY <2>1, PlanParts, ScriptsOfChecks
<1>3. Seq(AsksB) \subseteq Seq(AsksLater) /\ Seq(AsksC) \subseteq Seq(AsksLater)
  BY DEF AsksLater
<1>4. \A n \in 14 .. 25 : n \in 14 .. 19 \/ n \in 20 .. 25
  OBVIOUS
<1>5. \A n \in 14 .. 25 : Plan[n].suite \in {"B", "checks"} /\ Plan[n].script \in Seq(AsksLater)
  BY <1>1, <1>2, <1>3, <1>4
<1>6. \A n \in 1 .. 13 : /\ Plan[n].suite = "A" /\ (Plan[n].id = "setup" <=> n = 1)
                       /\ Plan[n].script \in Seq(AsksOfA(n)) /\ Len(Plan[n].script) <= 3
  BY PlanParts, ScriptsOfA
<1> QED BY <1>5, <1>6, PlanParts

-----------------------------------------------------------------------------
\* What the job n may ask, and what may be under way while it runs.
AsksOf(n) == IF n <= 13 THEN AsksOfA(n) ELSE AsksLater
LateAsks(n) == {o \in AsksA \cup AsksLater :
                    /\ o.to \in {"mock", "proxy"}
                    /\ n = 1 => o.to = "mock"
                    /\ n <= 4 /\ o.what \in Tokens => o.what = "canary"
                    /\ n <= 13 => o.what # "oversize_pkg"
                    /\ o.to = "mock" => o.what \notin Tokens}

\* What an answer a to the request o vouches for, when h is what happened.
Backed(o, a, h) ==
    /\ a # "error"
    /\ a = "denied" => <<"imds", "denied">> \in h
    /\ o.to = "proxy" /\ a \notin Refused => /\ a = "genuine" \/ (a = "tampered" /\ o.what \in Packages)
                                             /\ Effect(o.what, a) \subseteq h
    /\ o.to = "look" /\ a \notin Refused => <<o.what, "arrived">> \in h

\* The upstream shows tokens that were sent, and until the fourth job is over no
\* other than the canary; none of A's jobs sets the oversize switch.
MockInv ==
    /\ \A n \in DOMAIN mock.recv : mock.recv[n] \in Tokens =>
          /\ <<mock.recv[n], "arrived">> \in happened
          /\ job <= 4 => mock.recv[n] = "canary"
    /\ job <= 13 => "oversize_pkg" \notin mock.toggles
LateInv == \A n \in DOMAIN late : late[n] \in LateAsks(job)

\* A step of the request that a job makes, as far as the proofs tell them apart.
Request ==
    /\ InScript
    /\ UNCHANGED <<job, before, results, strays>>
    /\ \/ faults' = faults
       \/ faults < MaxFaults /\ faults' = faults + 1
    /\ \/ UNCHANGED <<policyLog, late>>
       \/ Op.to = "proxy" /\ policyLog' = Append(policyLog, Verdict(Op.what)) /\ UNCHANGED late
       \/ Op.to \in {"mock", "proxy"} /\ late' = Append(late, Op) /\ faults' = faults + 1 /\ UNCHANGED policyLog
    /\ \/ UNCHANGED mock
       \/ /\ mock' = Handled(mock, Op.what)
          /\ Op.what \in Tokens => <<Op.what, "arrived">> \in happened'
    /\ happened \subseteq happened'
    /\ \/ UNCHANGED transcript
       \/ \E v \in Verdicts : /\ transcript' = Append(transcript, v)
                              /\ v = "digest_mismatch" => <<"requests", "refused">> \in happened'
    /\ recovered' \in 0 .. Len(Secret)
    /\ \/ \E a \in Answers : /\ answers' = Append(answers, a) /\ op' = op + 1 /\ UNCHANGED stage
                             /\ job <= 13 => Backed(Op, a, happened')
       \/ job > 13 /\ answers' = Append(answers, "error") /\ op' = Len(Script) + 1 /\ UNCHANGED stage
       \/ job > 13 /\ stage' = "crashed" /\ UNCHANGED <<op, answers>>

\* The request a job is about to make.
LEMMA OpFacts ==
    ASSUME TypeOK, InScript
    PROVE  /\ stage = "run" /\ job \in 1 .. 25 /\ op \in 1 .. Len(Script) /\ Len(Script) \in Nat
           /\ Op \in AsksOf(job) /\ Op \in Asked
           /\ job <= 13 => Plan[job].suite = "A" /\ Len(Script) <= 3
           /\ job > 13 => Plan[job].suite # "A"
<1>1. job \in 1 .. 25 /\ op \in 1 .. Len(Script) /\ stage = "run"
  BY PlanFacts DEF TypeOK, InScript
<1>2. ToSet(Script) \subseteq Asked
  <2>1. ToSet(Plan[job].script) \in {ToSet(Plan[n].script) : n \in DOMAIN Plan}
    BY <1>1, PlanFacts
  <2> QED BY <2>1 DEF Asked, Script
<1>3. CASE job <= 13
  <2>1. job \in 1 .. 13
    BY <1>1, <1>3
  <2>2. Script \in Seq(AsksOfA(job)) /\ Plan[job].suite = "A" /\ Len(Script) <= 3
    BY <2>1, PlanFacts DEF Script
  <2>3. Op \in AsksOfA(job) /\ Op \in ToSet(Script)
    BY <1>1, <2>2 DEF Op, ToSet
  <2>4. Len(Script) \in Nat
    BY <2>2
  <2> QED BY <1>1, <1>2, <1>3, <2>2, <2>3, <2>4 DEF AsksOf
<1>4. CASE ~(job <= 13)
  <2>1. job \in 14 .. 25
    BY <1>1, <1>4
  <2>2. Script \in Seq(AsksLater) /\ Plan[job].suite # "A"
    BY <2>1, PlanFacts DEF Script
  <2>3. Op \in AsksLater /\ Op \in ToSet(Script)
    BY <1>1, <2>2 DEF Op, ToSet
  <2>4. Len(Script) \in Nat
    BY <2>2
  <2> QED BY <1>1, <1>2, <1>4, <2>2, <2>3, <2>4 DEF AsksOf
<1> QED BY <1>3, <1>4

\* What the kinds of requests may be about.
LEMMA AskKinds ==
    ASSUME NEW n \in 1 .. 25, NEW o \in AsksOf(n)
    PROVE  /\ o \in AsksA \cup AsksLater /\ o = [to |-> o.to, what |-> o.what]
           /\ o.to = "proxy" => n \in 2 .. 13 /\ o.what \in Pulls \cup Tokens \cup Packages \cup {"imds"}
           /\ o.to = "look" => n \in 2 .. 13 /\ o.what \in Tokens /\ (o.what = "canary" => n = 4)
           /\ o.to = "mock" => o.what \in {"reset"} \cup Toggles /\ (n <= 13 => o.what \in {"reset", "poison"})
           /\ o.to \in {"broker", "measure", "fresh", "decode"} => n > 13 /\ o.what \notin Tokens
           /\ o.to = "broker" => o.what \in {"malformed", "requests", "junit"}
           /\ o.to \in {"mock", "proxy"} => o \in LateAsks(n)
<1>1. CASE n <= 13
  <2>1. o \in AsksA /\ (n = 1 => o.to = "mock") /\ (n <= 4 /\ o.what \in Tokens => o.what = "canary")
        /\ (o = To("look", "canary") => n = 4)
    BY <1>1 DEF AsksOf, AsksOfA
  <2>2. o = [to |-> o.to, what |-> o.what]
    BY <2>1 DEF AsksA
  <2>3. /\ o.to = "proxy" => o.what \in Pulls \cup Tokens \cup Packages \cup {"imds"}
        /\ o.to = "look" => o.what \in Tokens
        /\ o.to = "mock" => o.what \in {"reset", "poison"}
        /\ o.to \in {"proxy", "look", "mock"}
    BY <2>1 DEF AsksA
  <2>4. "oversize_pkg" \notin Pulls \cup Tokens \cup Packages \cup {"imds"} /\ {"reset", "poison"} \cap Tokens = {}
        /\ {"reset", "poison"} \subseteq {"reset"} \cup Toggles
    BY DEF Pulls, Tokens, Packages, Pinned, Toggles
  <2>5. o.to \in {"mock", "proxy"} => o \in LateAsks(n)
    BY <2>1, <2>3, <2>4 DEF LateAsks
  <2> QED BY <1>1, <2>1, <2>2, <2>3, <2>4, <2>5 DEF To
<1>2. CASE ~(n <= 13)
  <2>1. o \in AsksLater
    BY <1>2 DEF AsksOf
  <2>2. o = [to |-> o.to, what |-> o.what]
    BY <2>1 DEF AsksLater, AsksB, AsksC
  <2>3. /\ o.to \in {"mock", "broker", "measure", "decode", "fresh"}
        /\ o.to = "mock" => o.what \in {"reset"} \cup Toggles
        /\ o.to = "broker" => o.what \in {"malformed", "requests", "junit"}
        /\ o.to = "measure" => o.what \in Alphabet
        /\ o.to = "decode" => o.what = "log"
        /\ o.to = "fresh" => o.what \in Pinned
    BY <2>1 DEF AsksLater, AsksB, AsksC, Toggles
  <2>4. ({"reset", "malformed", "requests", "junit", "log"} \cup Toggles \cup Alphabet \cup Pinned) \cap Tokens = {}
    BY DEF Tokens, Toggles, Alphabet, Pinned
  <2>5. o.to \in {"mock", "proxy"} => o \in LateAsks(n)
    BY <1>2, <2>1, <2>3, <2>4 DEF LateAsks
  <2> QED BY <1>2, <2>1, <2>2, <2>3, <2>4, <2>5
<1> QED BY <1>1, <1>2

-----------------------------------------------------------------------------
\* The operators of the mock and of the broker.
Recorded == Packages \cup Pulls \cup Tokens
Mocks == [recv : Seq(Recorded), toggles : SUBSET Toggles]

LEMMA HandledFacts ==
    ASSUME NEW m \in Mocks, NEW r
    PROVE  /\ Handled(m, r) \in Mocks
           /\ \/ Handled(m, r).recv = m.recv
              \/ Handled(m, r).recv = <<>>
              \/ r \in Recorded /\ Handled(m, r).recv = Append(m.recv, r)
           /\ Handled(m, r).toggles \subseteq m.toggles \cup {r}
<1> DEFINE H == Handled(m, r)
<1>0. m.recv \in Seq(Recorded) /\ m.toggles \subseteq Toggles /\ "reset" \notin Toggles \cup Recorded /\ Toggles \cap Recorded = {}
  BY DEF Mocks, Toggles, Recorded, Packages, Pinned, Pulls, Tokens
<1>1. CASE r = "reset"
  <2>1. H = [recv |-> <<>>, toggles |-> {}]
    BY <1>1 DEF Handled, ResetState, Toggles, Packages, Pinned, Pulls, Tokens
  <2>2. <<>> \in Seq(Recorded)
    OBVIOUS
  <2> QED BY <2>1, <2>2 DEF Mocks
<1>2. CASE r \in Toggles
  <2>1. H = [m EXCEPT !.toggles = m.toggles \cup {r}]
    BY <1>2, <1>0 DEF Handled, Recorded
  <2> QED BY <1>0, <1>2, <2>1 DEF Mocks
<1>3. CASE r \in Recorded \ {"health"}
  <2>1. H = [m EXCEPT !.recv = Append(m.recv, r)]
    BY <1>3, <1>0 DEF Handled, Recorded
  <2>2. Append(m.recv, r) \in Seq(Recorded)
    BY <1>0, <1>3
  <2>3. H \in Mocks /\ H.recv = Append(m.recv, r) /\ H.toggles = m.toggles
    BY <2>1, <2>2 DEF Mocks
  <2> QED BY <1>3, <2>3
<1>4. CASE r # "reset" /\ r \notin Toggles /\ r \notin Recorded \ {"health"}
  <2>1. H = m
    BY <1>4 DEF Handled, Recorded
  <2> QED BY <2>1
<1> QED BY <1>1, <1>2, <1>3, <1>4

LEMMA BodyFacts ==
    ASSUME NEW m \in Mocks, NEW r
    PROVE  /\ Body(m, r) \in Bodies
           /\ "oversize_pkg" \notin m.toggles /\ Body(m, r) \notin Refused =>
                Body(m, r) = "genuine" \/ (Body(m, r) = "tampered" /\ r \in Packages)
  BY DEF Body, Bodies, Refused

LEMMA BrokerVerdictFacts ==
    ASSUME NEW r, NEW body
    PROVE  /\ BrokerVerdict(r, body) \in Verdicts
           /\ BrokerVerdict(r, body) = "digest_mismatch" => r \in Pinned /\ body = "tampered"
<1>1. "malformed" \notin Pinned
  BY DEF Pinned
<1> QED BY <1>1 DEF BrokerVerdict, Verdicts

\* The answer of a request to a broker, and what it leaves behind.
LEMMA BrokerStep ==
    ASSUME TypeOK, AsksBroker, NEW body, BrokerHandles(body)
    PROVE  /\ happened \subseteq happened'
           /\ \/ UNCHANGED transcript
              \/ \E v \in Verdicts : /\ transcript' = Append(transcript, v)
                                     /\ v = "digest_mismatch" => <<"requests", "refused">> \in happened'
<1>1. InScript /\ Op.to \in {"broker", "measure", "fresh"}
  BY DEF AsksBroker
<1>2. job \in 1 .. 25 /\ Op \in AsksOf(job)
  BY <1>1, OpFacts
<1>3. Op = [to |-> Op.to, what |-> Op.what] /\ (Op.to = "broker" => Op.what \in {"malformed", "requests", "junit"})
  BY <1>2, AskKinds
<1>4. happened \subseteq happened'
  BY DEF BrokerHandles
<1>5. CASE Op.to = "broker"
  <2>1. transcript' = Append(transcript, BrokerVerdict(Op.what, body)) /\ BrokerVerdict(Op.what, body) \in Verdicts
    BY <1>5, BrokerVerdictFacts DEF BrokerHandles
  <2>2. ASSUME BrokerVerdict(Op.what, body) = "digest_mismatch" PROVE <<"requests", "refused">> \in happened'
    <3>1. Op.what \in Pinned /\ body = "tampered"
      BY <2>2, BrokerVerdictFacts
    <3>2. Op.what = "requests"
      BY <3>1, <1>3, <1>5 DEF Pinned
    <3>3. Op = To("broker", "requests")
      BY <1>3, <1>5, <3>2 DEF To
    <3> QED BY <3>1, <3>3 DEF BrokerHandles
  <2> QED BY <1>4, <2>1, <2>2
<1>6. CASE Op.to # "broker"
  BY <1>4, <1>6 DEF BrokerHandles
<1> QED BY <1>5, <1>6

\* Every step of a request is a step Request.
LEMMA RequestStep ==
    ASSUME TypeOK, MockInv,
           CallMock \/ CallMockFails \/ Look \/ Decode \/ Egress \/ EgressFails \/ EgressTimesOut
           \/ Fetch \/ UpstreamFails \/ FetchRaises
    PROVE  Request
<1>1. InScript
  BY DEF CallMock, CallMockFails, Look, Decode, Egress, EgressFails, EgressTimesOut, Fetch, UpstreamFails,
         FetchRaises, AsksBroker
<1>2. /\ stage = "run" /\ job \in 1 .. 25 /\ op \in 1 .. Len(Script) /\ Len(Script) \in Nat
      /\ Op \in AsksOf(job) /\ Op \in Asked
      /\ job <= 13 => Plan[job].suite = "A"
      /\ job > 13 => Plan[job].suite # "A"
  BY <1>1, OpFacts
<1>3. /\ Op \in AsksA \cup AsksLater
      /\ Op.to = "proxy" => job \in 2 .. 13 /\ Op.what \in Pulls \cup Tokens \cup Packages \cup {"imds"}
      /\ Op.to = "look" => job \in 2 .. 13 /\ Op.what \in Tokens /\ (Op.what = "canary" => job = 4)
      /\ Op.to = "mock" => Op.what \in {"reset"} \cup Toggles
      /\ Op.to \in {"broker", "measure", "fresh", "decode"} => job > 13 /\ Op.what \notin Tokens
  BY <1>2, AskKinds
<1>4. mock \in Mocks /\ recovered \in 0 .. Len(Secret) /\ faults \in 0 .. MaxFaults /\ MaxFaults \in Nat
  BY BoundAssumption DEF TypeOK, Mocks, Recorded
<1>5. ({"reset"} \cup Toggles) \cap Tokens = {}
  BY DEF Toggles, Tokens
<1>6. {"ok", "no", "denied", "error"} \cup Bodies \cup Verdicts = Answers
  BY DEF Answers
<1>7. CASE CallMock
  <2>1. Op.to = "mock" /\ Op.what \notin Tokens
    BY <1>3, <1>5, <1>7 DEF CallMock
  <2>2. Backed(Op, "ok", happened')
    BY <2>1 DEF Backed
  <2> QED BY <1>1, <1>4, <1>6, <1>7, <2>1, <2>2 DEF CallMock, Request, Returns
<1>8. CASE CallMockFails
  <2>1. Op.to = "mock" /\ Op.what \notin Tokens
    BY <1>3, <1>5, <1>8 DEF CallMockFails
  <2>2. Backed(Op, "no", happened')
    BY <2>1 DEF Backed
  <2>3. Plan[job].suite = "checks" => job > 13
    BY <1>2
  <2> QED BY <1>1, <1>4, <1>6, <1>8, <2>1, <2>2, <2>3 DEF CallMockFails, Request, Returns, Faulty
<1>9. CASE Look
  <2>1. Op.to = "look" /\ happened' = happened
    BY <1>9 DEF Look
  <2>2. Backed(Op, "no", happened')
    BY <2>1 DEF Backed, Refused
  <2>3. Seen(Op.what) => Backed(Op, "ok", happened')
    <3>1. SUFFICES ASSUME Seen(Op.what) PROVE <<Op.what, "arrived">> \in happened
      BY <2>1 DEF Backed
    <3>2. PICK n \in DOMAIN mock.recv : mock.recv[n] = Op.what \/ (Op.what = "canary" /\ mock.recv[n] \in Tokens)
      BY <3>1 DEF Seen
    <3>3. mock.recv[n] \in Tokens
      BY <1>3, <2>1, <3>2
    <3>4. <<mock.recv[n], "arrived">> \in happened /\ (job <= 4 => mock.recv[n] = "canary")
      BY <3>3 DEF MockInv
    <3>5. mock.recv[n] = Op.what
      BY <1>3, <2>1, <3>2, <3>4
    <3> QED BY <3>4, <3>5
  <2>4. \E a \in Answers : answers' = Append(answers, a) /\ op' = op + 1 /\ UNCHANGED stage /\ Backed(Op, a, happened')
    BY <1>6, <1>9, <2>2, <2>3 DEF Look, Returns
  <2> QED BY <1>1, <1>4, <1>9, <2>4 DEF Look, Request, Faulty
<1>10. CASE Decode
  <2>1. Op.to = "decode" /\ job > 13
    BY <1>3, <1>10 DEF Decode
  <2>2. Recovered \in 0 .. Len(Secret)
    <3>1. DOMAIN Secret = 1 .. 3 /\ Len(Secret) = 3
      BY DEF Secret
    <3>2. {n \in DOMAIN Secret : \E p \in DOMAIN mock.recv :
              mock.recv[p] = Secret[n] /\ Cardinality(Symbols(p)) = n} \subseteq 1 .. 3
      BY <3>1
    <3>3. IsFiniteSet(1 .. 3) /\ Cardinality(1 .. 3) = 3
      <4>1. 1 \in Int /\ 3 \in Int /\ ~(1 > 3) /\ (3 - 1) + 1 = 3
        OBVIOUS
      <4> QED BY ONLY <4>1, FS_Interval
    <3> QED BY <3>1, <3>2, <3>3, FS_Subset, FS_CardinalityType DEF Recovered
  <2>3. recovered' \in 0 .. Len(Secret)
    <3>1. 0 \in 0 .. Len(Secret)
      BY <2>2
    <3> QED BY <1>10, <2>2, <3>1 DEF Decode
  <2>4. "ok" \in Answers /\ answers' = Append(answers, "ok") /\ op' = op + 1 /\ UNCHANGED stage
    BY <1>6, <1>10 DEF Decode, Returns
  <2>5. job <= 13 => Backed(Op, "ok", happened')
    BY <1>2, <2>1
  <2>6. happened' = happened /\ UNCHANGED <<job, before, results, strays, mock, policyLog, transcript, late>>
        /\ (faults' = faults \/ (faults < MaxFaults /\ faults' = faults + 1))
    BY <1>10 DEF Decode, Faulty
  <2> QED BY <1>1, <2>3, <2>4, <2>5, <2>6 DEF Request
<1>11. CASE Egress
  <2>1. Op.to = "proxy" /\ job \in 2 .. 13
    BY <1>3, <1>11 DEF Egress
  <2>2. CASE Verdict(Op.what) = "violation"
    <3>1. Op.what = "imds" /\ Op.what \notin Tokens
      BY <2>2 DEF Verdict, Tokens
    <3>2. Backed(Op, "denied", happened')
      BY <1>11, <2>2 DEF Egress, Backed, Refused
    <3> QED BY <1>1, <1>4, <1>6, <1>11, <2>1, <2>2, <3>2 DEF Egress, Request, Returns, Faulty
  <2>3. CASE Verdict(Op.what) # "violation"
    <3>1. /\ answers' = Append(answers, Body(mock, Op.what)) /\ op' = op + 1 /\ UNCHANGED stage
          /\ happened' = happened \cup Effect(Op.what, Body(mock, Op.what))
          /\ mock' = Handled(mock, Op.what)
      BY <1>11, <2>3 DEF Egress, Returns
    <3>2. Op.what \in Tokens => <<Op.what, "arrived">> \in happened'
      BY <3>1 DEF Effect
    <3>3. Body(mock, Op.what) \in Answers /\ Body(mock, Op.what) \notin {"error", "denied"}
      <4>1. Body(mock, Op.what) \in Bodies
        BY <1>4, BodyFacts
      <4> QED BY <1>6, <4>1 DEF Bodies
    <3>4. Backed(Op, Body(mock, Op.what), happened')
      <4>1. "oversize_pkg" \notin mock.toggles
        BY <2>1 DEF MockInv
      <4>2. Body(mock, Op.what) \notin Refused =>
               Body(mock, Op.what) = "genuine" \/ (Body(mock, Op.what) = "tampered" /\ Op.what \in Packages)
        BY <1>4, <4>1, BodyFacts
      <4> QED BY <2>1, <3>1, <3>3, <4>2 DEF Backed
    <3> QED BY <1>1, <1>4, <1>11, <2>1, <3>1, <3>2, <3>3, <3>4 DEF Egress, Request, Faulty
  <2> QED BY <2>2, <2>3
<1>12. CASE EgressFails
  <2>1. Op.to = "proxy" /\ job \in 2 .. 13
    BY <1>3, <1>12 DEF EgressFails
  <2>2. Backed(Op, "no", happened')
    BY <2>1 DEF Backed, Refused
  <2>3. PICK logged \in BOOLEAN, arrived \in BOOLEAN :
          /\ policyLog' = IF logged THEN Append(policyLog, Verdict(Op.what)) ELSE policyLog
          /\ mock' = IF arrived THEN Handled(mock, Op.what) ELSE mock
          /\ happened' = IF arrived THEN happened \cup Effect(Op.what, "no") ELSE happened
    BY <1>12 DEF EgressFails
  <2>4. \/ UNCHANGED mock
        \/ mock' = Handled(mock, Op.what) /\ (Op.what \in Tokens => <<Op.what, "arrived">> \in happened')
    BY <2>3 DEF Effect
  <2>5. policyLog' = policyLog \/ policyLog' = Append(policyLog, Verdict(Op.what))
    BY <2>3
  <2>6. happened \subseteq happened'
    BY <2>3
  <2> QED BY <1>1, <1>4, <1>6, <1>12, <2>1, <2>2, <2>4, <2>5, <2>6 DEF EgressFails, Request, Returns, Faulty
<1>13. CASE EgressTimesOut
  <2>1. Op.to = "proxy" /\ job \in 2 .. 13
    BY <1>3, <1>13 DEF EgressTimesOut
  <2>2. Backed(Op, "no", happened')
    BY <2>1 DEF Backed, Refused
  <2> QED BY <1>1, <1>4, <1>6, <1>13, <2>1, <2>2 DEF EgressTimesOut, Request, Returns, Faulty
<1>14. CASE Fetch
  <2>1. AsksBroker /\ BrokerHandles(Body(mock, Op.what))
    BY <1>14 DEF Fetch
  <2>2. job > 13 /\ Op.what \notin Tokens
    BY <1>3, <2>1 DEF AsksBroker
  <2>3. BrokerVerdict(Op.what, Body(mock, Op.what)) \in Answers
    BY <1>6, BrokerVerdictFacts
  <2>4. answers' = Append(answers, BrokerVerdict(Op.what, Body(mock, Op.what))) /\ op' = op + 1 /\ UNCHANGED stage
    BY <1>14 DEF Fetch, Returns
  <2>5. mock' = mock \/ mock' = Handled(mock, Op.what)
    BY <1>14 DEF Fetch
  <2>6. /\ happened \subseteq happened'
        /\ \/ UNCHANGED transcript
           \/ \E v \in Verdicts : /\ transcript' = Append(transcript, v)
                                  /\ v = "digest_mismatch" => <<"requests", "refused">> \in happened'
    BY <2>1, BrokerStep
  <2> QED BY <1>1, <1>2, <1>4, <1>14, <2>2, <2>3, <2>4, <2>5, <2>6 DEF Fetch, Request
<1>15. CASE UpstreamFails
  <2>1. AsksBroker /\ BrokerHandles("none")
    BY <1>15 DEF UpstreamFails
  <2>2. job > 13 /\ Op.what \notin Tokens
    BY <1>3, <2>1 DEF AsksBroker
  <2>3. BrokerVerdict(Op.what, "none") \in Answers
    BY <1>6, BrokerVerdictFacts
  <2>4. answers' = Append(answers, BrokerVerdict(Op.what, "none")) /\ op' = op + 1 /\ UNCHANGED stage
    BY <1>15 DEF UpstreamFails, Returns
  <2>5. mock' = mock \/ mock' = Handled(mock, Op.what)
    BY <1>15 DEF UpstreamFails
  <2>6. /\ happened \subseteq happened'
        /\ \/ UNCHANGED transcript
           \/ \E v \in Verdicts : /\ transcript' = Append(transcript, v)
                                  /\ v = "digest_mismatch" => <<"requests", "refused">> \in happened'
    BY <2>1, BrokerStep
  <2> QED BY <1>1, <1>2, <1>4, <1>15, <2>2, <2>3, <2>4, <2>5, <2>6 DEF UpstreamFails, Request, Faulty
<1>16. CASE FetchRaises
  <2>1. AsksBroker
    BY <1>16 DEF FetchRaises
  <2>2. job > 13 /\ Op.what \notin Tokens
    BY <1>3, <2>1 DEF AsksBroker
  <2>3. mock' = mock \/ mock' = Handled(mock, Op.what)
    BY <1>16 DEF FetchRaises
  <2>4. UNCHANGED <<transcript, happened>> \/ \E body \in {Body(mock, Op.what), "none"} : BrokerHandles(body)
    BY <1>16 DEF FetchRaises
  <2>5. /\ happened \subseteq happened'
        /\ \/ UNCHANGED transcript
           \/ \E v \in Verdicts : /\ transcript' = Append(transcript, v)
                                  /\ v = "digest_mismatch" => <<"requests", "refused">> \in happened'
    BY <2>1, <2>4, BrokerStep
  <2> QED BY <1>1, <1>4, <1>16, <2>1, <2>2, <2>3, <2>5 DEF FetchRaises, Raises, Request, Faulty
<1> QED BY <1>7, <1>8, <1>9, <1>10, <1>11, <1>12, <1>13, <1>14, <1>15, <1>16

-----------------------------------------------------------------------------
\* What is under way was lost by one fault each, and a probe's new lines are its
\* own requests, one each, and late ones.
CountInv ==
    /\ Len(late) <= faults
    /\ op # 0 => (Len(policyLog) - before) + Len(late) <= (op - 1) + faults

\* The answers that a job of A has got.
AnswerInv ==
    op # 0 /\ job <= 13 =>
        /\ Len(answers) = op - 1
        /\ \A n \in 1 .. op - 1 : Backed(Script[n], answers[n], happened)

\* A finished probe of A with the outcome it declares has attained its goal.
ResultInv ==
    \A n \in DOMAIN results :
        /\ n <= 13 /\ results[n].outcome = Plan[n].expected
        /\ Plan[n].id \in DOMAIN Goal \ {"smuggle_grammar", "covert_channel"}
        => Attained(Plan[n].id)

\* The transcript tells of refused bytes only if there were some.
TranscriptInv ==
    \A n \in DOMAIN transcript : transcript[n] = "digest_mismatch" => <<"requests", "refused">> \in happened

\* What was verified, and when.
StageInv ==
    /\ stage \in {"verified", "failed"} => job = 26
    /\ stage = "verified" => Held({"A", "B"}) /\ Evidence

\* The lines that are some finished probe's, or were no probe's.
Covered == IF op # 0 /\ job \in 2 .. 13 THEN before ELSE Len(policyLog)

LineInv ==
    /\ job = 1 => Len(policyLog) = 0
    /\ \A n \in DOMAIN results : /\ results[n].violations = Violations(results[n].lines)
                                 /\ \A l \in results[n].lines : l <= Covered
    /\ \A m, n \in DOMAIN results : m # n => results[m].lines \cap results[n].lines = {}
    /\ \A l \in strays : l <= Covered /\ \A n \in DOMAIN results : l \notin results[n].lines
    /\ \A l \in 1 .. Covered : l \in strays \/ \E n \in DOMAIN results : l \in results[n].lines

IInv == /\ TypeOK /\ MockInv /\ LateInv /\ CountInv /\ AnswerInv /\ ResultInv /\ TranscriptInv
        /\ StageInv /\ LineInv

-----------------------------------------------------------------------------
\* The types of the parts that the proofs use.
Results(d) == [outcome : Outcomes, lines : SUBSET d, violations : SUBSET d]

LEMMA Typed ==
    ASSUME TypeOK
    PROVE  /\ stage \in {"run", "verified", "failed", "crashed"}
           /\ job \in 1 .. 26 /\ op \in Nat /\ before \in Nat /\ before <= Len(policyLog)
           /\ answers \in Seq(Answers) /\ mock \in Mocks /\ Len(policyLog) \in Nat
           /\ policyLog \in Seq({"in_policy", "violation"}) /\ DOMAIN policyLog = 1 .. Len(policyLog)
           /\ transcript \in Seq(Verdicts) /\ DOMAIN transcript = 1 .. Len(transcript) /\ Len(transcript) \in Nat
           /\ late \in Seq(Asked) /\ DOMAIN late = 1 .. Len(late) /\ Len(late) \in Nat
           /\ results \in Seq(Results(DOMAIN policyLog)) /\ Len(results) = job - 1 /\ DOMAIN results = 1 .. job - 1
           /\ \A n \in DOMAIN results : Cardinality(results[n].lines) <= 3 + MaxFaults
           /\ recovered \in 0 .. Len(Secret) /\ strays \in SUBSET DOMAIN policyLog
           /\ faults \in 0 .. MaxFaults /\ MaxFaults \in Nat
           /\ job = 26 => op = 0
<1>1. job \in 1 .. 26 /\ (job = 26 => op \in 0 .. 0) /\ (job <= 25 => op \in 0 .. Len(Script) + 1)
  <2>1. Len(Plan) = 25 /\ job \in 1 .. Len(Plan) + 1 /\ op \in 0 .. IF job <= Len(Plan) THEN Len(Script) + 1 ELSE 0
    BY PlanFacts DEF TypeOK
  <2>2. job \in 1 .. 26
    BY <2>1
  <2>3. job <= 25 => op \in 0 .. Len(Script) + 1
    BY <2>1
  <2>4. job = 26 => op \in 0 .. 0
    <3>1. job = 26 => ~(job <= Len(Plan))
      BY <2>1
    <3> QED BY <2>1, <3>1
  <2> QED BY <2>2, <2>3, <2>4
<1>2. ASSUME job <= 25 PROVE Len(Script) \in Nat
  <2>1. job \in 1 .. 13 \/ job \in 14 .. 25
    BY <1>1, <1>2
  <2>2. Script \in Seq(AsksOfA(job)) \/ Script \in Seq(AsksLater)
    BY <2>1, PlanFacts DEF Script
  <2> QED BY <2>2
<1>3. op \in Nat /\ (job = 26 => op = 0)
  BY <1>1, <1>2
<1>4. before \in 0 .. Len(policyLog) /\ policyLog \in Seq({"in_policy", "violation"}) /\ results \in Seq(Results(DOMAIN policyLog))
      /\ Len(results) = job - 1
  BY DEF TypeOK, Results
<1>5. DOMAIN results = 1 .. job - 1 /\ Len(policyLog) \in Nat /\ before \in Nat /\ before <= Len(policyLog)
  BY <1>1, <1>4
<1>6. transcript \in Seq(Verdicts) /\ late \in Seq(Asked) /\ answers \in Seq(Answers) /\ mock \in Mocks
  BY DEF TypeOK, Mocks, Recorded
<1> QED BY <1>1, <1>3, <1>4, <1>5, <1>6, BoundAssumption DEF TypeOK

\* Records keep their type when the policy log grows.
LEMMA ResultsGrow ==
    ASSUME NEW d, NEW e, d \subseteq e
    PROVE  Seq(Results(d)) \subseteq Seq(Results(e))
<1>1. Results(d) \subseteq Results(e)
  BY DEF Results
<1> QED BY <1>1

\* The policy log after a step, when it has a line more or not.
LEMMA LogGrows ==
    ASSUME TypeOK, NEW v \in {"in_policy", "violation"}, policyLog' = policyLog \/ policyLog' = Append(policyLog, v)
    PROVE  /\ policyLog' \in Seq({"in_policy", "violation"})
           /\ Len(policyLog') \in Nat /\ Len(policyLog) <= Len(policyLog') /\ Len(policyLog') <= Len(policyLog) + 1
           /\ DOMAIN policyLog \subseteq DOMAIN policyLog' /\ DOMAIN policyLog' = 1 .. Len(policyLog')
           /\ \A n \in DOMAIN policyLog : policyLog'[n] = policyLog[n]
<1>1. policyLog \in Seq({"in_policy", "violation"}) /\ DOMAIN policyLog = 1 .. Len(policyLog) /\ Len(policyLog) \in Nat
  BY Typed
<1>2. CASE policyLog' = policyLog
  BY <1>1, <1>2
<1>3. CASE policyLog' = Append(policyLog, v)
  <2> DEFINE s == Append(policyLog, v)
  <2>1. /\ s \in Seq({"in_policy", "violation"}) /\ DOMAIN s = 1 .. Len(policyLog) + 1
        /\ Len(s) = Len(policyLog) + 1 /\ \A i \in 1 .. Len(policyLog) : s[i] = policyLog[i]
    BY <1>1, AppendGrows
  <2>2. policyLog' = s
    BY <1>3
  <2> HIDE DEF s
  <2> QED BY <1>1, <2>1, <2>2
<1> QED BY <1>2, <1>3

\* The mock after a step that let it handle r or not.
LEMMA MockMoves ==
    ASSUME TypeOK, NEW r, mock' = mock \/ mock' = Handled(mock, r)
    PROVE  /\ mock' \in Mocks
           /\ \/ mock'.recv = mock.recv
              \/ mock'.recv = <<>>
              \/ r \in Recorded /\ mock'.recv = Append(mock.recv, r)
           /\ mock'.toggles \subseteq mock.toggles \cup {r}
<1>1. mock \in Mocks
  BY Typed
<1> QED BY <1>1, HandledFacts

-----------------------------------------------------------------------------
\* A step of a request preserves the invariant, part by part.
LEMMA RequestTypes ==
    ASSUME TypeOK, Request
    PROVE  TypeOK'
<1>1. /\ stage = "run" /\ job \in 1 .. 25 /\ op \in 1 .. Len(Script) /\ Len(Script) \in Nat /\ Op \in Asked
  BY OpFacts DEF Request
<1>2. job' = job /\ before' = before /\ results' = results /\ strays' = strays /\ Script' = Script
  BY DEF Request, Script
<1>3. stage' \in {"run", "verified", "failed", "crashed"} /\ op' \in 0 .. Len(Script) + 1
  BY <1>1 DEF Request
<1>4. answers' \in Seq(Answers)
  <2>1. answers \in Seq(Answers) /\ "error" \in Answers
    BY Typed DEF Answers
  <2>2. answers' = answers \/ \E a \in Answers : answers' = Append(answers, a)
    BY <2>1 DEF Request
  <2> QED BY <2>1, <2>2, AppendGrows
<1>5. mock' \in Mocks
  BY MockMoves DEF Request
<1>6. PICK line \in {"in_policy", "violation"} : policyLog' = policyLog \/ policyLog' = Append(policyLog, line)
  BY DEF Request, Verdict
<1>7. /\ policyLog' \in Seq({"in_policy", "violation"}) /\ Len(policyLog') \in Nat /\ Len(policyLog) <= Len(policyLog')
      /\ DOMAIN policyLog \subseteq DOMAIN policyLog'
  BY <1>6, LogGrows
<1>8. transcript' \in Seq(Verdicts)
  <2>1. transcript \in Seq(Verdicts)
    BY Typed
  <2>2. transcript' = transcript \/ \E v \in Verdicts : transcript' = Append(transcript, v)
    BY DEF Request
  <2> QED BY <2>1, <2>2, AppendGrows
<1>9. late' \in Seq(Asked)
  <2>1. late \in Seq(Asked)
    BY Typed
  <2>2. late' = late \/ late' = Append(late, Op)
    BY DEF Request
  <2> QED BY <1>1, <2>1, <2>2, AppendGrows
<1>10. results' \in Seq(Results(DOMAIN policyLog')) /\ Len(results') = job' - 1
       /\ \A n \in DOMAIN results' : Cardinality(results'[n].lines) <= 3 + MaxFaults
  <2>1. /\ results \in Seq(Results(DOMAIN policyLog)) /\ Len(results) = job - 1
        /\ \A n \in DOMAIN results : Cardinality(results[n].lines) <= 3 + MaxFaults
    BY Typed
  <2>2. Seq(Results(DOMAIN policyLog)) \subseteq Seq(Results(DOMAIN policyLog'))
    BY <1>7, ResultsGrow
  <2>3. results \in Seq(Results(DOMAIN policyLog'))
    BY <2>1, <2>2
  <2>4. results' \in Seq(Results(DOMAIN policyLog'))
    BY ONLY <1>2, <2>3, Zenon
  <2>5. Len(results') = job' - 1
    BY ONLY <1>2, <2>1
  <2>6. \A n \in DOMAIN results' : Cardinality(results'[n].lines) <= 3 + MaxFaults
    BY ONLY <1>2, <2>1
  <2> QED BY ONLY <2>4, <2>5, <2>6, Zenon
<1>11. recovered' \in 0 .. Len(Secret) /\ strays' \in SUBSET DOMAIN policyLog' /\ faults' \in 0 .. MaxFaults
  <2>1. recovered' \in 0 .. Len(Secret)
    BY DEF Request
  <2>2. strays' \in SUBSET DOMAIN policyLog'
    BY <1>2, <1>7, Typed
  <2>3. faults' \in 0 .. MaxFaults
    <3>1. faults \in 0 .. MaxFaults /\ MaxFaults \in Nat
      BY Typed
    <3> QED BY <3>1 DEF Request
  <2> QED BY <2>1, <2>2, <2>3
<1>12. before' \in 0 .. Len(policyLog')
  BY <1>2, <1>7, Typed
<1>13. job' \in 1 .. Len(Plan) + 1 /\ op' \in 0 .. IF job' <= Len(Plan) THEN Len(Script') + 1 ELSE 0
  <2>1. Len(Plan) = 25
    BY PlanFacts
  <2> QED BY ONLY <1>1, <1>2, <1>3, <2>1
<1> QED BY <1>3, <1>4, <1>5, <1>7, <1>8, <1>9, <1>10, <1>11, <1>12, <1>13 DEF TypeOK, Mocks, Recorded, Results

LEMMA RequestMock ==
    ASSUME TypeOK, MockInv, LateInv, Request
    PROVE  MockInv' /\ LateInv'
<1>1. job \in 1 .. 25 /\ Op \in AsksOf(job) /\ job' = job /\ happened \subseteq happened'
  BY OpFacts DEF Request
<1>2. /\ Op.to = "proxy" => job \in 2 .. 13 /\ Op.what \in Pulls \cup Tokens \cup Packages \cup {"imds"}
      /\ Op.to = "look" => Op.what \in Tokens
      /\ Op.to = "mock" => (job <= 13 => Op.what \in {"reset", "poison"})
      /\ Op.to \in {"broker", "measure", "fresh", "decode"} => job > 13
      /\ Op.to \in {"mock", "proxy"} => Op \in LateAsks(job)
      /\ Op \in AsksA \cup AsksLater
  BY <1>1, AskKinds
<1>3. job <= 13 => Op.what # "oversize_pkg"
  <2>1. Op.to \in {"mock", "proxy", "look", "broker", "measure", "fresh", "decode"}
    BY <1>2 DEF AsksA, AsksLater, AsksB, AsksC
  <2>2. "oversize_pkg" \notin Pulls \cup Tokens \cup Packages \cup {"imds", "reset", "poison"}
    BY DEF Pulls, Tokens, Packages, Pinned
  <2> QED BY <1>1, <1>2, <2>1, <2>2
<1>4. job <= 4 /\ Op.what \in Tokens => Op.what = "canary"
  BY <1>1 DEF AsksOf, AsksOfA
<1>5. mock \in Mocks /\ mock.recv \in Seq(Recorded)
  BY Typed DEF Mocks
<1>6. /\ mock'.toggles \subseteq mock.toggles \cup {Op.what}
      /\ \/ mock'.recv = mock.recv
         \/ mock'.recv = <<>>
         \/ /\ Op.what \in Recorded /\ mock'.recv = Append(mock.recv, Op.what)
            /\ Op.what \in Tokens => <<Op.what, "arrived">> \in happened'
  <2>1. CASE mock' = mock
    BY <2>1
  <2>2. CASE mock' = Handled(mock, Op.what) /\ (Op.what \in Tokens => <<Op.what, "arrived">> \in happened')
    BY <2>2, MockMoves
  <2> QED BY <2>1, <2>2 DEF Request
<1>7. \A n \in DOMAIN mock'.recv : mock'.recv[n] \in Tokens =>
          <<mock'.recv[n], "arrived">> \in happened' /\ (job' <= 4 => mock'.recv[n] = "canary")
  <2>1. CASE mock'.recv = mock.recv
    BY <1>1, <2>1 DEF MockInv
  <2>2. CASE mock'.recv = <<>>
    BY <2>2
  <2>3. CASE /\ Op.what \in Recorded /\ mock'.recv = Append(mock.recv, Op.what)
             /\ Op.what \in Tokens => <<Op.what, "arrived">> \in happened'
    <3> DEFINE s == Append(mock.recv, Op.what)
    <3>1. /\ DOMAIN s = 1 .. Len(mock.recv) + 1 /\ s[Len(mock.recv) + 1] = Op.what /\ Len(mock.recv) \in Nat
          /\ \A i \in 1 .. Len(mock.recv) : s[i] = mock.recv[i]
          /\ DOMAIN mock.recv = 1 .. Len(mock.recv)
      BY <1>5, <2>3, AppendGrows
    <3>2. mock'.recv = s
      BY <2>3
    <3> HIDE DEF s
    <3>3. SUFFICES ASSUME NEW n \in DOMAIN s, s[n] \in Tokens
                   PROVE  <<s[n], "arrived">> \in happened' /\ (job' <= 4 => s[n] = "canary")
      BY <3>2
    <3>4. CASE n \in 1 .. Len(mock.recv)
      BY <1>1, <3>1, <3>3, <3>4 DEF MockInv
    <3>5. CASE n = Len(mock.recv) + 1
      BY <1>1, <1>4, <2>3, <3>1, <3>3, <3>5
    <3> QED BY <3>1, <3>3, <3>4, <3>5
  <2> QED BY <1>6, <2>1, <2>2, <2>3
<1>8. job' <= 13 => "oversize_pkg" \notin mock'.toggles
  BY <1>1, <1>3, <1>6 DEF MockInv
<1>9. LateInv'
  <2>1. CASE late' = late
    BY <1>1, <2>1 DEF LateInv
  <2>2. CASE Op.to \in {"mock", "proxy"} /\ late' = Append(late, Op)
    <3> DEFINE s == Append(late, Op)
    <3>1. late \in Seq(Asked) /\ Op \in Asked
      BY Typed, OpFacts DEF Request
    <3>2. /\ DOMAIN s = 1 .. Len(late) + 1 /\ s[Len(late) + 1] = Op /\ Len(late) \in Nat
          /\ \A i \in 1 .. Len(late) : s[i] = late[i]
          /\ DOMAIN late = 1 .. Len(late)
      BY <3>1, AppendGrows
    <3>3. late' = s
      BY <2>2
    <3> HIDE DEF s
    <3>4. ASSUME NEW n \in DOMAIN s PROVE s[n] \in LateAsks(job)
      <4>1. CASE n \in 1 .. Len(late)
        BY <3>2, <4>1 DEF LateInv
      <4>2. CASE n = Len(late) + 1
        BY <1>2, <2>2, <3>2, <4>2
      <4> QED BY <3>2, <4>1, <4>2
    <3> QED BY <1>1, <3>3, <3>4 DEF LateInv
  <2> QED BY <2>1, <2>2 DEF Request
<1> QED BY <1>7, <1>8, <1>9 DEF MockInv

LEMMA RequestCounts ==
    ASSUME TypeOK, CountInv, Request
    PROVE  CountInv'
<1>1. job \in 1 .. 25 /\ op \in 1 .. Len(Script) /\ Len(Script) \in Nat /\ Op \in AsksOf(job)
  BY OpFacts DEF Request
<1>2. /\ Len(late) \in Nat /\ faults \in Nat /\ before \in Nat /\ Len(policyLog) \in Nat
      /\ policyLog \in Seq({"in_policy", "violation"}) /\ late \in Seq(Asked)
  BY Typed
<1>3. Op.to = "proxy" => job <= 13
  <2>1. Op.to = "proxy" => job \in 2 .. 13
    BY <1>1, AskKinds
  <2> QED BY <2>1
<1>4. /\ before' = before /\ (faults' = faults \/ faults' = faults + 1)
      /\ op' \in Nat /\ (op' >= op + 1 \/ (op' = op /\ job > 13))
  BY <1>1 DEF Request
<1>5. Verdict(Op.what) \in {"in_policy", "violation"} /\ Op \in Asked
  BY OpFacts DEF Verdict, Request
<1>6. \/ Len(policyLog') = Len(policyLog) /\ Len(late') = Len(late)
      \/ Op.to = "proxy" /\ Len(policyLog') = Len(policyLog) + 1 /\ Len(late') = Len(late)
      \/ Len(policyLog') = Len(policyLog) /\ Len(late') = Len(late) + 1 /\ faults' = faults + 1
  <2>1. Len(Append(policyLog, Verdict(Op.what))) = Len(policyLog) + 1 /\ Len(Append(late, Op)) = Len(late) + 1
    BY <1>2, <1>5, AppendGrows
  <2>2. \/ policyLog' = policyLog /\ late' = late
        \/ Op.to = "proxy" /\ policyLog' = Append(policyLog, Verdict(Op.what)) /\ late' = late
        \/ late' = Append(late, Op) /\ faults' = faults + 1 /\ policyLog' = policyLog
    BY DEF Request
  <2> QED BY <2>1, <2>2
<1>7. Len(late) <= faults /\ (Len(policyLog) - before) + Len(late) <= (op - 1) + faults
  BY <1>1 DEF CountInv
<1>8. Len(late') <= faults'
  BY <1>2, <1>4, <1>6, <1>7
<1>9. (Len(policyLog') - before') + Len(late') <= (op' - 1) + faults'
  <2> DEFINE x == Len(policyLog)
             y == Len(late)
  <2>1. op \in Nat /\ op' \in Nat /\ faults \in Nat /\ before \in Nat /\ x \in Nat /\ y \in Nat
    BY <1>1, <1>2, <1>4
  <2>2. op' >= op /\ faults' >= faults /\ faults' \in Nat /\ before' = before
    BY ONLY <1>4, <2>1
  <2>3. job <= 13 => op' >= op + 1
    BY ONLY <1>1, <1>4
  <2>4. (x - before) + y <= (op - 1) + faults
    BY <1>7
  <2>5. CASE x' = x /\ y' = y
    BY ONLY <2>1, <2>2, <2>4, <2>5
  <2>6. CASE Op.to = "proxy" /\ x' = x + 1 /\ y' = y
    <3>1. op' >= op + 1
      BY ONLY <1>3, <2>3, <2>6
    <3> QED BY ONLY <2>1, <2>2, <2>4, <2>6, <3>1
  <2>7. CASE x' = x /\ y' = y + 1 /\ faults' = faults + 1
    BY ONLY <2>1, <2>2, <2>4, <2>7
  <2> QED BY <1>6, <2>5, <2>6, <2>7
<1> QED BY <1>8, <1>9 DEF CountInv

\* What an answer vouches for stays true.
LEMMA BackedStays ==
    ASSUME NEW o, NEW a, NEW h, NEW k, h \subseteq k, Backed(o, a, h)
    PROVE  Backed(o, a, k)
  BY DEF Backed

LEMMA RequestAnswers ==
    ASSUME TypeOK, AnswerInv, Request
    PROVE  AnswerInv'
<1>1. job \in 1 .. 25 /\ op \in 1 .. Len(Script) /\ Len(Script) \in Nat
  BY OpFacts DEF Request
<1>2. job' = job /\ Script' = Script /\ happened \subseteq happened' /\ answers \in Seq(Answers)
  BY Typed DEF Request, Script
<1>3. SUFFICES ASSUME job <= 13
               PROVE  /\ Len(answers') = op' - 1
                      /\ \A n \in 1 .. op' - 1 : Backed(Script[n], answers'[n], happened')
  BY <1>2 DEF AnswerInv
<1>4. Len(answers) = op - 1 /\ \A n \in 1 .. op - 1 : Backed(Script[n], answers[n], happened)
  BY <1>1, <1>3 DEF AnswerInv
<1>5. PICK a \in Answers : answers' = Append(answers, a) /\ op' = op + 1 /\ Backed(Op, a, happened')
  BY <1>1, <1>3 DEF Request
<1> DEFINE s == Append(answers, a)
<1>6. Len(s) = Len(answers) + 1 /\ s[Len(answers) + 1] = a /\ \A i \in 1 .. Len(answers) : s[i] = answers[i]
  BY <1>2, AppendGrows
<1>7. answers' = s
  BY <1>5
<1> HIDE DEF s
<1>8. ASSUME NEW n \in 1 .. op PROVE Backed(Script[n], s[n], happened')
  <2>1. CASE n = op
    <3>1. s[n] = a /\ Script[n] = Op
      BY <1>1, <1>4, <1>6, <2>1 DEF Op
    <3> QED BY <1>5, <3>1
  <2>2. CASE n # op
    <3>1. n \in 1 .. op - 1 /\ s[n] = answers[n]
      BY <1>1, <1>4, <1>6, <2>2
    <3>2. Backed(Script[n], answers[n], happened)
      BY <1>4, <3>1
    <3> QED BY <1>2, <3>1, <3>2, BackedStays
  <2> QED BY <2>1, <2>2
<1> QED BY <1>1, <1>4, <1>5, <1>6, <1>7, <1>8

\* What happened stays happened: for results and transcript.
LEMMA GoalsStay ==
    ASSUME ResultInv, results' = results, happened \subseteq happened'
    PROVE  ResultInv'
<1>1. \A id : Attained(id) => Attained(id)'
  BY DEF Attained
<1> QED BY <1>1 DEF ResultInv

LEMMA RequestTranscript ==
    ASSUME TypeOK, TranscriptInv, Request
    PROVE  TranscriptInv'
<1>1. transcript \in Seq(Verdicts) /\ happened \subseteq happened'
  BY Typed DEF Request
<1>2. CASE transcript' = transcript
  BY <1>1, <1>2 DEF TranscriptInv
<1>3. ASSUME NEW w \in Verdicts, transcript' = Append(transcript, w),
             w = "digest_mismatch" => <<"requests", "refused">> \in happened'
      PROVE  TranscriptInv'
  <2> DEFINE s == Append(transcript, w)
  <2>1. /\ DOMAIN s = 1 .. Len(transcript) + 1 /\ s[Len(transcript) + 1] = w /\ Len(transcript) \in Nat
        /\ \A i \in 1 .. Len(transcript) : s[i] = transcript[i]
        /\ DOMAIN transcript = 1 .. Len(transcript)
    BY <1>1, AppendGrows
  <2>2. transcript' = s
    BY <1>3
  <2> HIDE DEF s
  <2>3. ASSUME NEW n \in DOMAIN s, s[n] = "digest_mismatch" PROVE <<"requests", "refused">> \in happened'
    <3>1. n \in 1 .. Len(transcript) \/ n = Len(transcript) + 1
      BY <2>1
    <3> QED BY <1>1, <1>3, <2>1, <2>3, <3>1 DEF TranscriptInv
  <2> QED BY <2>2, <2>3 DEF TranscriptInv
<1> QED BY <1>2, <1>3 DEF Request

\* Violations of lines that were there before are the same.
LEMMA ViolationsStay ==
    ASSUME NEW S, S \subseteq DOMAIN policyLog, \A n \in DOMAIN policyLog : policyLog'[n] = policyLog[n]
    PROVE  Violations(S)' = Violations(S)
  BY DEF Violations

LEMMA RequestLines ==
    ASSUME TypeOK, LineInv, Request
    PROVE  LineInv'
<1>1. job \in 1 .. 25 /\ op \in 1 .. Len(Script) /\ Len(Script) \in Nat /\ Op \in AsksOf(job)
  BY OpFacts DEF Request
<1>2. Op.to = "proxy" => job \in 2 .. 13
  BY <1>1, AskKinds
<1>3. job' = job /\ before' = before /\ results' = results /\ strays' = strays /\ op' # 0
  BY <1>1 DEF Request
<1>4. PICK line \in {"in_policy", "violation"} : policyLog' = policyLog \/ policyLog' = Append(policyLog, line)
  BY DEF Request, Verdict
<1>5. \A n \in DOMAIN policyLog : policyLog'[n] = policyLog[n]
  BY <1>4, LogGrows
<1>6. job \notin 2 .. 13 => policyLog' = policyLog
  BY <1>2 DEF Request
<1>7. Covered' = Covered
  BY <1>1, <1>3, <1>6 DEF Covered
<1>8. ASSUME NEW n \in DOMAIN results PROVE Violations(results[n].lines)' = Violations(results[n].lines)
  <2>1. results[n].lines \subseteq DOMAIN policyLog
    <3>1. results[n] \in Results(DOMAIN policyLog)
      BY Typed
    <3> QED BY <3>1 DEF Results
  <2> QED BY <1>3, <1>5, <2>1 DEF Violations
<1>9. job = 1 => Len(policyLog') = 0
  BY <1>6 DEF LineInv
<1> QED BY <1>3, <1>7, <1>8, <1>9 DEF LineInv

-----------------------------------------------------------------------------
\* A request given up on arrives, as far as the proofs tell the ways apart.
Arrival(n) ==
    /\ stage = "run" /\ late' = RemoveAt(late, n)
    /\ UNCHANGED <<stage, job, op, before, answers, transcript, results, recovered, faults>>
    /\ \/ UNCHANGED <<policyLog, strays>>
       \/ /\ late[n].to = "proxy" /\ policyLog' = Append(policyLog, Verdict(late[n].what))
          /\ strays' = IF ProbeOfA /\ Plan[job].suite = "A" THEN strays ELSE strays \cup {Len(policyLog) + 1}
    /\ \/ UNCHANGED mock
       \/ /\ mock' = Handled(mock, late[n].what)
          /\ late[n].what \in Tokens => <<late[n].what, "arrived">> \in happened'
    /\ happened \subseteq happened'

LEMMA ArriveStep ==
    ASSUME TypeOK, LateInv, NEW n \in DOMAIN late, Arrive(n)
    PROVE  Arrival(n)
<1>1. late[n] \in LateAsks(job)
  BY DEF LateInv
<1>2. late[n].to \in {"mock", "proxy"} /\ (late[n].to = "mock" => late[n].what \notin Tokens)
  BY <1>1 DEF LateAsks
<1>3. CASE late[n].to = "proxy" /\ Verdict(late[n].what) = "violation"
  BY <1>3 DEF Arrive, Arrival
<1>4. CASE late[n].to = "proxy" /\ Verdict(late[n].what) # "violation"
  <2>1. /\ mock' = Handled(mock, late[n].what)
        /\ happened' = happened \cup Effect(late[n].what, "no")
    BY <1>4 DEF Arrive
  <2>2. late[n].what \in Tokens => <<late[n].what, "arrived">> \in happened'
    BY <2>1 DEF Effect
  <2> QED BY <1>4, <2>1, <2>2 DEF Arrive, Arrival
<1>5. CASE late[n].to = "mock"
  BY <1>2, <1>5 DEF Arrive, Arrival
<1> QED BY <1>2, <1>3, <1>4, <1>5

LEMMA ArrivalTypes ==
    ASSUME TypeOK, NEW n \in DOMAIN late, Arrival(n)
    PROVE  TypeOK'
<1>1. /\ job' = job /\ before' = before /\ results' = results /\ op' = op /\ stage' = stage /\ answers' = answers
      /\ transcript' = transcript /\ recovered' = recovered /\ faults' = faults /\ Script' = Script
  BY DEF Arrival, Script
<1>2. mock' \in Mocks
  BY MockMoves DEF Arrival
<1>3. PICK line \in {"in_policy", "violation"} : policyLog' = policyLog \/ policyLog' = Append(policyLog, line)
  BY DEF Arrival, Verdict
<1>4. /\ policyLog' \in Seq({"in_policy", "violation"}) /\ Len(policyLog') \in Nat /\ Len(policyLog) <= Len(policyLog')
      /\ DOMAIN policyLog \subseteq DOMAIN policyLog'
  BY <1>3, LogGrows
<1>5. late' \in Seq(Asked)
  <2>1. late \in Seq(Asked)
    BY Typed
  <2> QED BY <2>1, RemoveAtParts DEF Arrival
<1>6. results' \in Seq(Results(DOMAIN policyLog'))
  <2>1. results \in Seq(Results(DOMAIN policyLog))
    BY Typed
  <2>2. Seq(Results(DOMAIN policyLog)) \subseteq Seq(Results(DOMAIN policyLog'))
    BY <1>4, ResultsGrow
  <2>3. results \in Seq(Results(DOMAIN policyLog'))
    BY <2>1, <2>2
  <2> QED BY ONLY <1>1, <2>3, Zenon
<1>7. strays' \in SUBSET DOMAIN policyLog'
  <2>1. strays \in SUBSET DOMAIN policyLog
    BY Typed
  <2>2. CASE strays' = strays
    BY <1>4, <2>1, <2>2
  <2>3. CASE policyLog' = Append(policyLog, Verdict(late[n].what)) /\ strays' = strays \cup {Len(policyLog) + 1}
    <3>1. policyLog \in Seq({"in_policy", "violation"}) /\ Verdict(late[n].what) \in {"in_policy", "violation"}
      BY Typed DEF Verdict
    <3>2. Len(policyLog) + 1 \in DOMAIN policyLog'
      BY <2>3, <3>1, AppendGrows
    <3> QED BY <1>4, <2>1, <2>3, <3>2
  <2> QED BY <2>2, <2>3 DEF Arrival
<1>8. before' \in 0 .. Len(policyLog')
  BY <1>1, <1>4, Typed
<1>9. /\ stage' \in {"run", "verified", "failed", "crashed"}
      /\ job' \in 1 .. Len(Plan) + 1
      /\ op' \in 0 .. IF job' <= Len(Plan) THEN Len(Script') + 1 ELSE 0
      /\ answers' \in Seq(Answers)
      /\ transcript' \in Seq(Verdicts)
      /\ Len(results') = job' - 1
      /\ \A i \in DOMAIN results' : Cardinality(results'[i].lines) <= 3 + MaxFaults
      /\ recovered' \in 0 .. Len(Secret)
      /\ faults' \in 0 .. MaxFaults
  BY <1>1 DEF TypeOK
<1> QED BY <1>2, <1>4, <1>5, <1>6, <1>7, <1>8, <1>9 DEF TypeOK, Mocks, Recorded, Results

LEMMA ArrivalMock ==
    ASSUME TypeOK, MockInv, LateInv, NEW n \in DOMAIN late, Arrival(n)
    PROVE  MockInv' /\ LateInv'
<1>1. late[n] \in LateAsks(job)
  BY DEF LateInv
<1>2. /\ job <= 4 /\ late[n].what \in Tokens => late[n].what = "canary"
      /\ job <= 13 => late[n].what # "oversize_pkg"
  BY <1>1 DEF LateAsks
<1>3. mock \in Mocks /\ mock.recv \in Seq(Recorded) /\ job' = job /\ happened \subseteq happened'
  BY Typed DEF Mocks, Arrival
<1> DEFINE r == late[n].what
<1>4. /\ mock'.toggles \subseteq mock.toggles \cup {r}
      /\ \/ mock'.recv = mock.recv
         \/ mock'.recv = <<>>
         \/ /\ r \in Recorded /\ mock'.recv = Append(mock.recv, r)
            /\ r \in Tokens => <<r, "arrived">> \in happened'
  <2>1. CASE mock' = mock
    BY <2>1
  <2>2. CASE mock' = Handled(mock, r) /\ (r \in Tokens => <<r, "arrived">> \in happened')
    BY <2>2, MockMoves
  <2> QED BY <2>1, <2>2 DEF Arrival
<1>5. \A i \in DOMAIN mock'.recv : mock'.recv[i] \in Tokens =>
          <<mock'.recv[i], "arrived">> \in happened' /\ (job' <= 4 => mock'.recv[i] = "canary")
  <2>1. CASE mock'.recv = mock.recv
    BY <1>3, <2>1 DEF MockInv
  <2>2. CASE mock'.recv = <<>>
    BY <2>2
  <2>3. CASE /\ r \in Recorded /\ mock'.recv = Append(mock.recv, r)
             /\ r \in Tokens => <<r, "arrived">> \in happened'
    <3> DEFINE s == Append(mock.recv, r)
    <3>1. /\ DOMAIN s = 1 .. Len(mock.recv) + 1 /\ s[Len(mock.recv) + 1] = r /\ Len(mock.recv) \in Nat
          /\ \A i \in 1 .. Len(mock.recv) : s[i] = mock.recv[i]
          /\ DOMAIN mock.recv = 1 .. Len(mock.recv)
      BY <1>3, <2>3, AppendGrows
    <3>2. mock'.recv = s
      BY <2>3
    <3> HIDE DEF s
    <3>3. SUFFICES ASSUME NEW i \in DOMAIN s, s[i] \in Tokens
                   PROVE  <<s[i], "arrived">> \in happened' /\ (job' <= 4 => s[i] = "canary")
      BY <3>2
    <3>4. CASE i \in 1 .. Len(mock.recv)
      BY <1>3, <3>1, <3>3, <3>4 DEF MockInv
    <3>5. CASE i = Len(mock.recv) + 1
      BY <1>2, <1>3, <2>3, <3>1, <3>3, <3>5
    <3> QED BY <3>1, <3>3, <3>4, <3>5
  <2> QED BY <1>4, <2>1, <2>2, <2>3
<1>6. job' <= 13 => "oversize_pkg" \notin mock'.toggles
  BY <1>2, <1>3, <1>4 DEF MockInv
<1>7. LateInv'
  <2> DEFINE s == RemoveAt(late, n)
  <2>1. late \in Seq(Asked)
    BY Typed
  <2>2. s \in Seq(Asked) /\ Len(s) = Len(late) - 1 /\ \A i \in 1 .. Len(late) - 1 : \E j \in DOMAIN late : s[i] = late[j]
    BY <2>1, RemoveAtParts
  <2>3. late' = s
    BY DEF Arrival
  <2> HIDE DEF s
  <2>4. DOMAIN s = 1 .. Len(late) - 1
    BY <2>1, <2>2
  <2>5. ASSUME NEW i \in DOMAIN s PROVE s[i] \in LateAsks(job)
    <3>1. PICK j \in DOMAIN late : s[i] = late[j]
      BY <2>2, <2>4
    <3> QED BY <3>1 DEF LateInv
  <2> QED BY <1>3, <2>3, <2>5 DEF LateInv
<1> QED BY <1>5, <1>6, <1>7 DEF MockInv

LEMMA ArrivalCounts ==
    ASSUME TypeOK, CountInv, NEW n \in DOMAIN late, Arrival(n)
    PROVE  CountInv'
<1>1. /\ late \in Seq(Asked) /\ Len(late) \in Nat /\ faults \in Nat /\ before \in Nat /\ Len(policyLog) \in Nat /\ op \in Nat
  BY Typed
<1>2. before' = before /\ faults' = faults /\ op' = op
  BY DEF Arrival
<1>3. Len(late') = Len(late) - 1
  BY <1>1, RemoveAtParts DEF Arrival
<1>4. PICK line \in {"in_policy", "violation"} : policyLog' = policyLog \/ policyLog' = Append(policyLog, line)
  BY DEF Arrival, Verdict
<1>5. Len(policyLog') \in Nat /\ Len(policyLog') <= Len(policyLog) + 1
  BY <1>4, LogGrows
<1> QED BY <1>1, <1>2, <1>3, <1>5 DEF CountInv

LEMMA ArrivalAnswers ==
    ASSUME TypeOK, AnswerInv, NEW n \in DOMAIN late, Arrival(n)
    PROVE  AnswerInv'
<1>1. op' = op /\ job' = job /\ answers' = answers /\ Script' = Script /\ happened \subseteq happened'
  BY DEF Arrival, Script
<1>2. SUFFICES ASSUME op # 0, job <= 13
               PROVE  Len(answers) = op - 1 /\ \A i \in 1 .. op - 1 : Backed(Script[i], answers[i], happened')
  BY <1>1 DEF AnswerInv
<1>3. Len(answers) = op - 1 /\ \A i \in 1 .. op - 1 : Backed(Script[i], answers[i], happened)
  BY <1>2 DEF AnswerInv
<1> QED BY <1>1, <1>3, BackedStays

LEMMA ArrivalLines ==
    ASSUME TypeOK, LateInv, LineInv, NEW n \in DOMAIN late, Arrival(n)
    PROVE  LineInv'
<1>1. op' = op /\ job' = job /\ before' = before /\ results' = results /\ stage = "run"
  BY DEF Arrival
<1>2. late[n] \in LateAsks(job)
  BY DEF LateInv
<1>3. /\ job \in 1 .. 26 /\ op \in Nat /\ before \in Nat /\ before <= Len(policyLog) /\ Len(policyLog) \in Nat
      /\ strays \in SUBSET DOMAIN policyLog /\ DOMAIN policyLog = 1 .. Len(policyLog) /\ (job = 26 => op = 0)
  BY Typed
<1>4. CASE policyLog' = policyLog /\ strays' = strays
  <2>1. Covered' = Covered /\ \A S : Violations(S)' = Violations(S)
    BY <1>1, <1>4 DEF Covered, Violations
  <2> QED BY <1>1, <1>4, <2>1 DEF LineInv
<1>5. CASE /\ late[n].to = "proxy" /\ policyLog' = Append(policyLog, Verdict(late[n].what))
           /\ strays' = IF ProbeOfA /\ Plan[job].suite = "A" THEN strays ELSE strays \cup {Len(policyLog) + 1}
  <2>1. Verdict(late[n].what) \in {"in_policy", "violation"} /\ job # 1
    BY <1>2, <1>5 DEF Verdict, LateAsks
  <2>2. /\ \A i \in DOMAIN policyLog : policyLog'[i] = policyLog[i]
        /\ Len(policyLog') \in Nat /\ Len(policyLog) <= Len(policyLog') /\ Len(policyLog') <= Len(policyLog) + 1
        /\ DOMAIN policyLog' = 1 .. Len(policyLog')
    BY <1>5, <2>1, LogGrows
  <2>3. ASSUME NEW i \in DOMAIN results PROVE Violations(results[i].lines)' = Violations(results[i].lines)
    <3>1. results[i] \in Results(DOMAIN policyLog)
      BY Typed
    <3>2. results[i].lines \subseteq DOMAIN policyLog
      BY <3>1 DEF Results
    <3> QED BY <1>1, <2>2, <3>2 DEF Violations
  <2>4. Covered <= Covered' /\ Covered \in Nat /\ Covered' \in Nat
    BY <1>1, <1>3, <2>2 DEF Covered
  <2>5. ASSUME ProbeOfA, Plan[job].suite = "A" PROVE strays' = strays /\ Covered' = Covered
    <3>1. strays' = strays
      BY <1>5, <2>5
    <3>2. op # 0 /\ job \in 2 .. 13
      <4>1. job \in 2 .. 25 /\ op # 0
        <5>1. CASE InScript
          <6>1. op \in 1 .. Len(Script) /\ Len(Script) \in Nat /\ job \in 1 .. 25
            BY <5>1, OpFacts
          <6> QED BY <2>1, <6>1
        <5>2. CASE job <= Len(Plan) /\ op > Len(Script)
          <6>1. job \in 1 .. 13 \/ job \in 14 .. 25
            BY <1>3, <5>2, PlanFacts
          <6>2. Script \in Seq(AsksOfA(job)) \/ Script \in Seq(AsksLater)
            BY <6>1, PlanFacts DEF Script
          <6>3. Len(Script) \in Nat
            BY <6>2
          <6> QED BY <1>3, <2>1, <5>2, <6>1, <6>3
        <5> QED BY <2>5, <5>1, <5>2 DEF ProbeOfA
      <4>2. job \notin 14 .. 25
        BY <2>5, PlanFacts
      <4> QED BY <4>1, <4>2
    <3> QED BY <1>1, <3>1, <3>2 DEF Covered
  <2>6. ASSUME ~(ProbeOfA /\ Plan[job].suite = "A")
        PROVE  /\ strays' = strays \cup {Covered'} /\ Covered' = Covered + 1
               /\ \A i \in DOMAIN results : Covered' \notin results[i].lines
    <3>1. ~(op # 0 /\ job \in 2 .. 13)
      <4>1. SUFFICES ASSUME op # 0, job \in 2 .. 13 PROVE FALSE
        OBVIOUS
      <4>2. Plan[job].suite = "A" /\ job <= Len(Plan) /\ Len(Script) \in Nat
        <5>1. job \in 1 .. 13 /\ Len(Plan) = 25
          BY <4>1, PlanFacts
        <5>2. Plan[job].suite = "A" /\ Script \in Seq(AsksOfA(job))
          BY <5>1, PlanFacts DEF Script
        <5>3. job <= Len(Plan)
          BY ONLY <5>1
        <5> QED BY <5>2, <5>3
      <4>3. op \in 1 .. Len(Script) \/ op > Len(Script)
        BY <1>3, <4>1, <4>2
      <4>4. ProbeOfA
        BY <1>1, <4>2, <4>3 DEF ProbeOfA, InScript
      <4> QED BY <2>6, <4>2, <4>4
    <3>2. Covered = Len(policyLog) /\ Covered' = Len(policyLog')
      BY <1>1, <3>1 DEF Covered
    <3>3. Len(policyLog') = Len(policyLog) + 1
      <4>1. policyLog \in Seq({"in_policy", "violation"})
        BY Typed
      <4> QED BY <1>5, <2>1, <4>1, AppendGrows
    <3>4. strays' = strays \cup {Len(policyLog) + 1}
      BY <1>5, <2>6
    <3>5. ASSUME NEW i \in DOMAIN results PROVE Len(policyLog) + 1 \notin results[i].lines
      <4>1. results[i] \in Results(1 .. Len(policyLog))
        BY Typed
      <4>2. results[i].lines \subseteq 1 .. Len(policyLog)
        BY <4>1 DEF Results
      <4> QED BY <1>3, <4>2
    <3> QED BY <3>2, <3>3, <3>4, <3>5
  <2>7. ASSUME NEW i \in DOMAIN results
        PROVE  results[i].violations = Violations(results[i].lines)' /\ \A l \in results[i].lines : l <= Covered'
    <3>1. results[i].violations = Violations(results[i].lines) /\ \A l \in results[i].lines : l <= Covered /\ l \in Nat
      <4>1. results[i] \in Results(DOMAIN policyLog) /\ DOMAIN policyLog = 1 .. Len(policyLog)
        BY Typed
      <4> QED BY <1>3, <4>1 DEF LineInv, Results
    <3> QED BY <2>3, <2>4, <3>1
  <2>8. \A l \in strays' : l <= Covered' /\ \A i \in DOMAIN results : l \notin results[i].lines
    <3>1. \A l \in strays : l \in Nat /\ l <= Covered /\ \A i \in DOMAIN results : l \notin results[i].lines
      BY <1>3 DEF LineInv
    <3> QED BY <2>4, <2>5, <2>6, <3>1
  <2>9. ASSUME NEW l \in 1 .. Covered' PROVE l \in strays' \/ \E i \in DOMAIN results : l \in results[i].lines
    <3>1. \A k \in 1 .. Covered : k \in strays \/ \E i \in DOMAIN results : k \in results[i].lines
      BY DEF LineInv
    <3>2. CASE ProbeOfA /\ Plan[job].suite = "A"
      BY <2>5, <2>9, <3>1, <3>2
    <3>3. CASE ~(ProbeOfA /\ Plan[job].suite = "A")
      <4>1. l \in 1 .. Covered \/ l = Covered'
        BY <2>4, <2>6, <2>9, <3>3
      <4> QED BY <2>6, <3>1, <3>3, <4>1
    <3> QED BY <3>2, <3>3
  <2> QED BY <1>1, <2>1, <2>7, <2>8, <2>9 DEF LineInv
<1> QED BY <1>4, <1>5 DEF Arrival

-----------------------------------------------------------------------------
\* The outcome of a probe of A, once all its requests are answered.
LEMMA OutcomeOfA ==
    ASSUME TypeOK, AnswerInv, job \in 2 .. 13, op = Len(Script) + 1
    PROVE  /\ Len(answers) = Len(Script)
           /\ \A n \in 1 .. Len(Script) : Backed(Script[n], answers[n], happened)
           /\ Outcome(Plan[job]) = OutcomeA(Plan[job].id)
<1>1. Script \in Seq(AsksOfA(job)) /\ Plan[job].suite = "A" /\ Plan[job].id # "setup"
  <2>1. job \in 1 .. 13 /\ job # 1
    OBVIOUS
  <2> QED BY ONLY <2>1, PlanFacts DEF Script
<1>2. Len(Script) \in Nat
  BY <1>1
<1>3. Len(answers) = Len(Script) /\ \A n \in 1 .. Len(Script) : Backed(Script[n], answers[n], happened)
  BY <1>2 DEF AnswerInv
<1>4. "error" \notin ToSet(answers)
  <2>1. answers \in Seq(Answers)
    BY Typed
  <2>2. DOMAIN answers = 1 .. Len(Script)
    BY <1>3, <2>1
  <2> QED BY <1>3, <2>2 DEF ToSet, Backed
<1> QED BY <1>1, <1>3, <1>4 DEF Outcome

\* A probe whose outcome is SUCCESS only when no answer was a refusal.
LEMMA GotAllOfA ==
    ASSUME TypeOK, AnswerInv, job \in 2 .. 13, op = Len(Script) + 1, Outcome(Plan[job]) = "SUCCESS",
           Plan[job].id \notin {"smuggle_grammar", "covert_channel", "metadata_service", "poisoned_artifact"}
    PROVE  \A n \in 1 .. Len(Script) : answers[n] \notin Refused /\ Backed(Script[n], answers[n], happened)
<1>1. /\ Len(answers) = Len(Script) /\ Outcome(Plan[job]) = OutcomeA(Plan[job].id)
      /\ \A n \in 1 .. Len(Script) : Backed(Script[n], answers[n], happened)
  BY OutcomeOfA
<1>2. OutcomeA(Plan[job].id) = Decide("SUCCESS", "BLOCKED", GotAll)
  BY DEF OutcomeA
<1>3. GotAll
  BY <1>1, <1>2 DEF Decide
<1>4. DOMAIN answers = 1 .. Len(answers)
  <2>1. answers \in Seq(Answers)
    BY Typed
  <2> QED BY <2>1
<1> QED BY <1>1, <1>3, <1>4 DEF GotAll

\* What an answer that is no refusal shows of a request through the proxy.
LEMMA Shown ==
    ASSUME NEW r, NEW a, Backed(To("proxy", r), a, happened), a \notin Refused
    PROVE  /\ r \in Tokens => <<r, "arrived">> \in happened
           /\ r \notin Tokens \cup Packages => <<r, "genuine">> \in happened
           /\ r \in Packages => <<r, "genuine">> \in happened \/ <<r, "tampered">> \in happened
           /\ r \in Packages /\ a = "tampered" => <<r, "tampered">> \in happened
<1>1. To("proxy", r).to = "proxy" /\ To("proxy", r).what = r
  BY DEF To
<1>2. (a = "genuine" \/ (a = "tampered" /\ r \in Packages)) /\ Effect(r, a) \subseteq happened
  BY <1>1 DEF Backed
<1>3. r \in Tokens => <<r, "arrived">> \in Effect(r, a)
  BY DEF Effect
<1>4. r \notin Tokens => <<r, a>> \in Effect(r, a)
  BY DEF Effect
<1>5. Packages \cap Tokens = {}
  BY DEF Packages, Pinned, Tokens
<1> QED BY <1>2, <1>3, <1>4, <1>5

\* A probe of A that ends with the outcome it declares has attained its goal.
LEMMA Attacks ==
    ASSUME TypeOK, AnswerInv, job \in 2 .. 13, op = Len(Script) + 1, Outcome(Plan[job]) = Plan[job].expected,
           Plan[job].id \in DOMAIN Goal \ {"smuggle_grammar", "covert_channel"}
    PROVE  Attained(Plan[job].id)
<1>2. CASE job = 2
  <2>1. Plan[job].id = "recon" /\ Plan[job].expected = "SUCCESS" /\ Script = <<To("proxy", "health")>>
    <3>1. Plan[job] = Job("A", "recon", "SUCCESS", <<To("proxy", "health")>>)
      BY <1>2, JobsOfA, PlanParts
    <3> QED BY <3>1 DEF Job, Script
  <2>2. answers[1] \notin Refused /\ Backed(To("proxy", "health"), answers[1], happened)
    BY <2>1, GotAllOfA
  <2>3. <<"health", "genuine">> \in happened
    BY <2>2, Shown DEF Packages, Pinned, Tokens
  <2> QED BY <2>1, <2>3 DEF Attained, Goal
<1>3. CASE job = 3
  <2>1. Plan[job].id = "dropper" /\ Plan[job].expected = "SUCCESS" /\ Script = <<To("proxy", "bytes")>>
    <3>1. Plan[job] = Job("A", "dropper", "SUCCESS", <<To("proxy", "bytes")>>)
      BY <1>3, JobsOfA, PlanParts
    <3> QED BY <3>1 DEF Job, Script
  <2>2. answers[1] \notin Refused /\ Backed(To("proxy", "bytes"), answers[1], happened)
    BY <2>1, GotAllOfA
  <2>3. <<"bytes", "genuine">> \in happened
    BY <2>2, Shown DEF Packages, Pinned, Tokens
  <2> QED BY <2>1, <2>3 DEF Attained, Goal
<1>4. CASE job = 4
  <2>1. Plan[job].id = "canary_exfil" /\ Plan[job].expected = "SUCCESS" /\ Script = <<To("proxy", "canary"), To("look", "canary")>>
    <3>1. Plan[job] = Job("A", "canary_exfil", "SUCCESS", <<To("proxy", "canary"), To("look", "canary")>>)
      BY <1>4, JobsOfA, PlanParts
    <3> QED BY <3>1 DEF Job, Script
  <2>2. answers[2] \notin Refused /\ Backed(To("look", "canary"), answers[2], happened)
    BY <2>1, GotAllOfA
  <2>3. <<"canary", "arrived">> \in happened
    BY <2>2 DEF Backed, To
  <2> QED BY <2>1, <2>3 DEF Attained, Goal
<1>5. CASE job = 5
  <2>1. Plan[job].id = "c2_heartbeat" /\ Plan[job].expected = "SUCCESS" /\ Script = <<To("proxy", "beacon"), To("proxy", "beacon"), To("proxy", "beacon")>>
    <3>1. Plan[job] = Job("A", "c2_heartbeat", "SUCCESS", <<To("proxy", "beacon"), To("proxy", "beacon"), To("proxy", "beacon")>>)
      BY <1>5, JobsOfA, PlanParts
    <3> QED BY <3>1 DEF Job, Script
  <2>2. answers[1] \notin Refused /\ Backed(To("proxy", "beacon"), answers[1], happened)
    BY <2>1, GotAllOfA
  <2>3. <<"beacon", "genuine">> \in happened
    BY <2>2, Shown DEF Packages, Pinned, Tokens
  <2> QED BY <2>1, <2>3 DEF Attained, Goal
<1>6. CASE job = 6
  <2>1. Plan[job].id = "redirect_abuse" /\ Plan[job].expected = "SUCCESS" /\ Script = <<To("proxy", "redirect")>>
    <3>1. Plan[job] = Job("A", "redirect_abuse", "SUCCESS", <<To("proxy", "redirect")>>)
      BY <1>6, JobsOfA, PlanParts
    <3> QED BY <3>1 DEF Job, Script
  <2>2. answers[1] \notin Refused /\ Backed(To("proxy", "redirect"), answers[1], happened)
    BY <2>1, GotAllOfA
  <2>3. <<"redirect", "genuine">> \in happened
    BY <2>2, Shown DEF Packages, Pinned, Tokens
  <2> QED BY <2>1, <2>3 DEF Attained, Goal
<1>7. job # 7
  <2>1. SuiteA[7].id = "smuggle_grammar"
    BY JobsOfA DEF Job
  <2> QED BY <2>1, PlanParts
<1>8. CASE job = 8
  <2>1. Plan[job].id = "upload_put" /\ Plan[job].expected = "SUCCESS" /\ Script = <<To("proxy", "put"), To("look", "put")>>
    <3>1. Plan[job] = Job("A", "upload_put", "SUCCESS", <<To("proxy", "put"), To("look", "put")>>)
      BY <1>8, JobsOfA, PlanParts
    <3> QED BY <3>1 DEF Job, Script
  <2>2. answers[2] \notin Refused /\ Backed(To("look", "put"), answers[2], happened)
    BY <2>1, GotAllOfA
  <2>3. <<"put", "arrived">> \in happened
    BY <2>2 DEF Backed, To
  <2> QED BY <2>1, <2>3 DEF Attained, Goal
<1>9. CASE job = 9
  <2>1. Plan[job].id = "metadata_service" /\ Plan[job].expected = "VIOLATION_BLOCKED" /\ Script = <<To("proxy", "imds")>>
    <3>1. Plan[job] = Job("A", "metadata_service", "VIOLATION_BLOCKED", <<To("proxy", "imds")>>)
      BY <1>9, JobsOfA, PlanParts
    <3> QED BY <3>1 DEF Job, Script
  <2>2. Outcome(Plan[job]) = OutcomeA("metadata_service") /\ Backed(Script[1], answers[1], happened)
    BY <2>1, OutcomeOfA
  <2>3. answers[1] = "denied"
    BY <2>1, <2>2 DEF OutcomeA, Decide
  <2>4. <<"imds", "denied">> \in happened
    BY <2>2, <2>3 DEF Backed
  <2> QED BY <2>1, <2>4 DEF Attained, Goal
<1>10. CASE job = 10
  <2>1. Plan[job].id = "poisoned_artifact" /\ Plan[job].expected = "SUCCESS" /\ Script = <<To("mock", "poison"), To("proxy", "requests")>>
    <3>1. Plan[job] = Job("A", "poisoned_artifact", "SUCCESS", <<To("mock", "poison"), To("proxy", "requests")>>)
      BY <1>10, JobsOfA, PlanParts
    <3> QED BY <3>1 DEF Job, Script
  <2>2. Outcome(Plan[job]) = OutcomeA("poisoned_artifact") /\ Backed(Script[2], answers[2], happened)
    BY <2>1, OutcomeOfA
  <2>3. answers[2] = "tampered"
    BY <2>1, <2>2 DEF OutcomeA, Decide
  <2>4. Backed(To("proxy", "requests"), "tampered", happened)
    BY <2>1, <2>2, <2>3
  <2>5. <<"requests", "tampered">> \in happened
    BY <2>4, Shown DEF Refused, Packages, Pinned
  <2> QED BY <2>1, <2>5 DEF Attained, Goal
<1>11. CASE job = 11
  <2>1. Plan[job].id = "lockfile_miss" /\ Plan[job].expected = "SUCCESS" /\ Script = <<To("proxy", "junit")>>
    <3>1. Plan[job] = Job("A", "lockfile_miss", "SUCCESS", <<To("proxy", "junit")>>)
      BY <1>11, JobsOfA, PlanParts
    <3> QED BY <3>1 DEF Job, Script
  <2>2. answers[1] \notin Refused /\ Backed(To("proxy", "junit"), answers[1], happened)
    BY <2>1, GotAllOfA
  <2>3. <<"junit", "genuine">> \in happened \/ <<"junit", "tampered">> \in happened
    BY <2>2, Shown DEF Packages
  <2> QED BY <2>1, <2>3 DEF Attained, Goal
<1>12. job # 12
  <2>1. SuiteA[12].id = "covert_channel"
    BY JobsOfA DEF Job
  <2> QED BY <2>1, PlanParts
<1>13. CASE job = 13
  <2>1. Plan[job].id = "persistence_restart" /\ Plan[job].expected = "SUCCESS" /\ Script = <<To("proxy", "persist"), To("look", "persist")>>
    <3>1. Plan[job] = Job("A", "persistence_restart", "SUCCESS", <<To("proxy", "persist"), To("look", "persist")>>)
      BY <1>13, JobsOfA, PlanParts
    <3> QED BY <3>1 DEF Job, Script
  <2>2. answers[2] \notin Refused /\ Backed(To("look", "persist"), answers[2], happened)
    BY <2>1, GotAllOfA
  <2>3. <<"persist", "arrived">> \in happened
    BY <2>2 DEF Backed, To
  <2> QED BY <2>1, <2>3 DEF Attained, Goal
<1> QED BY <1>2, <1>3, <1>4, <1>5, <1>6, <1>7, <1>8, <1>9, <1>10, <1>11, <1>12, <1>13

-----------------------------------------------------------------------------
\* A job begins.
LEMMA BeginKeeps ==
    ASSUME IInv, BeginJob
    PROVE  IInv'
<1>1. /\ TypeOK /\ MockInv /\ LateInv /\ CountInv /\ AnswerInv /\ ResultInv /\ TranscriptInv
      /\ StageInv /\ LineInv
  BY DEF IInv
<1>2. /\ stage' = "run" /\ job' = job /\ job \in 1 .. 25 /\ op = 0 /\ op' = 1 /\ before' = Len(policyLog)
      /\ answers' = <<>> /\ mock' = mock /\ policyLog' = policyLog /\ transcript' = transcript /\ late' = late
      /\ results' = results /\ recovered' = recovered /\ happened' = happened /\ strays' = strays /\ faults' = faults
  <2>1. job \in 1 .. 26 /\ job <= 25
    BY <1>1, Typed, PlanFacts DEF BeginJob
  <2> QED BY <2>1 DEF BeginJob
<1>3. Len(policyLog) \in Nat /\ Len(late) \in Nat /\ faults \in Nat
  BY <1>1, Typed
<1>4. Script' = Script /\ Len(Script) \in Nat
  <2>1. job \in 1 .. 13 \/ job \in 14 .. 25
    BY <1>2
  <2>2. Script \in Seq(AsksOfA(job)) \/ Script \in Seq(AsksLater)
    BY <2>1, PlanFacts DEF Script
  <2> QED BY <1>2, <2>2 DEF Script
<1>5. TypeOK'
  <2>1. op' \in 0 .. IF job' <= Len(Plan) THEN Len(Script') + 1 ELSE 0
    <3>1. job' <= Len(Plan) /\ Len(Script') \in Nat /\ op' = 1
      BY <1>2, <1>4, PlanFacts
    <3>2. 1 \in 0 .. Len(Script') + 1
      BY ONLY <3>1
    <3> QED BY ONLY <3>1, <3>2
  <2>2. before' \in 0 .. Len(policyLog') /\ answers' \in Seq(Answers)
    BY <1>2, <1>3
  <2> QED BY <1>1, <1>2, <2>1, <2>2 DEF TypeOK
<1>6. MockInv' /\ LateInv'
  BY <1>1, <1>2 DEF MockInv, LateInv
<1>7. CountInv'
  BY <1>1, <1>2, <1>3 DEF CountInv
<1>8. AnswerInv'
  BY <1>2 DEF AnswerInv
<1>9. ResultInv' /\ TranscriptInv'
  BY <1>1, <1>2, GoalsStay DEF TranscriptInv
<1>10. StageInv'
  BY <1>2 DEF StageInv
<1>11. LineInv'
  <2>1. Covered' = Covered /\ \A S : Violations(S)' = Violations(S)
    BY <1>2 DEF Covered, Violations
  <2> QED BY <1>1, <1>2, <2>1 DEF LineInv
<1> QED BY <1>5, <1>6, <1>7, <1>8, <1>9, <1>10, <1>11 DEF IInv

\* The outcomes are those of the suite.
LEMMA OutcomeTyped == \A j : Outcome(j) \in Outcomes
  BY DEF Outcome, Outcomes, OutcomeA, OutcomeB, Decide

\* A job ends: its lines are those written since it began.
LEMMA EndKeeps ==
    ASSUME IInv, EndJob
    PROVE  IInv'
<1>1. /\ TypeOK /\ MockInv /\ LateInv /\ CountInv /\ AnswerInv /\ ResultInv /\ TranscriptInv
      /\ StageInv /\ LineInv
  BY DEF IInv
<1> DEFINE L == IF Monitored(Plan[job]) THEN NewLines ELSE {}
           rec == [outcome |-> Outcome(Plan[job]), lines |-> L, violations |-> Violations(L)]
           rs == Append(results, rec)
<1>2. /\ stage' = "run" /\ job' = job + 1 /\ job \in 1 .. 25 /\ op = Len(Script) + 1 /\ op' = 0
      /\ before' = before /\ answers' = <<>> /\ mock' = mock /\ policyLog' = policyLog /\ transcript' = transcript
      /\ late' = late /\ recovered' = recovered /\ happened' = happened /\ strays' = strays /\ faults' = faults
  <2>1. job \in 1 .. 26 /\ job <= 25
    BY <1>1, Typed, PlanFacts DEF EndJob
  <2> QED BY <2>1 DEF EndJob
<1>3. results' = rs
  BY DEF EndJob
<1>4. /\ Len(policyLog) \in Nat /\ DOMAIN policyLog = 1 .. Len(policyLog) /\ before \in Nat /\ before <= Len(policyLog)
      /\ Len(late) \in Nat /\ faults \in 0 .. MaxFaults /\ MaxFaults \in Nat /\ strays \in SUBSET DOMAIN policyLog
      /\ results \in Seq(Results(DOMAIN policyLog)) /\ Len(results) = job - 1 /\ DOMAIN results = 1 .. job - 1
      /\ \A n \in DOMAIN results : Cardinality(results[n].lines) <= 3 + MaxFaults
  BY <1>1, Typed
<1>5. Len(Script) \in Nat /\ (job <= 13 => Len(Script) <= 3) /\ (Monitored(Plan[job]) <=> job \in 2 .. 13)
  <2>1. CASE job \in 1 .. 13
    <3>1. Script \in Seq(AsksOfA(job)) /\ Len(Script) <= 3
      BY <2>1, PlanFacts DEF Script
    <3>2. Plan[job].suite = "A" /\ (Plan[job].id = "setup" <=> job = 1)
      BY <2>1, PlanFacts
    <3>3. Len(Script) \in Nat
      BY <3>1
    <3> QED BY <2>1, <3>1, <3>2, <3>3 DEF Monitored
  <2>2. CASE job \in 14 .. 25
    <3>1. Script \in Seq(AsksLater) /\ Plan[job].suite # "A"
      BY <2>2, PlanFacts DEF Script
    <3>2. Len(Script) \in Nat
      BY <3>1
    <3> QED BY <2>2, <3>1, <3>2 DEF Monitored
  <2> QED BY <1>2, <2>1, <2>2
<1>6. L = IF job \in 2 .. 13 THEN before + 1 .. Len(policyLog) ELSE {}
  BY <1>5 DEF NewLines
<1>7. L \subseteq DOMAIN policyLog /\ Violations(L) \subseteq DOMAIN policyLog
  BY <1>4, <1>6 DEF Violations
<1>8. rec \in Results(DOMAIN policyLog)
  BY <1>7, OutcomeTyped DEF Results
<1>9. Cardinality(L) <= 3 + MaxFaults
  <2>1. CASE job \in 2 .. 13
    <3>1. (Len(policyLog) - before) + Len(late) <= (op - 1) + faults
      BY <1>1, <1>2, <1>5 DEF CountInv
    <3>2. Len(policyLog) - before <= 3 + MaxFaults
      BY <1>2, <1>4, <1>5, <2>1, <3>1
    <3>3. Cardinality(before + 1 .. Len(policyLog)) =
             IF before + 1 > Len(policyLog) THEN 0 ELSE Len(policyLog) - (before + 1) + 1
      <4>1. before + 1 \in Int /\ Len(policyLog) \in Int
        BY <1>4
      <4> QED BY ONLY <4>1, FS_Interval
    <3>4. Cardinality(before + 1 .. Len(policyLog)) <= 3 + MaxFaults
      BY ONLY <1>4, <3>2, <3>3
    <3>5. L = before + 1 .. Len(policyLog)
      BY <1>6, <2>1
    <3> HIDE DEF L
    <3> QED BY ONLY <3>4, <3>5
  <2>2. CASE job \notin 2 .. 13
    <3>1. Cardinality({}) = 0
      BY FS_EmptySet
    <3>2. L = {}
      BY <1>6, <2>2
    <3> HIDE DEF L
    <3> QED BY <1>4, <3>1, <3>2
  <2> QED BY <2>1, <2>2
<1>10. rec.lines = L /\ rec.violations = Violations(L) /\ rec.outcome = Outcome(Plan[job])
  OBVIOUS
<1> HIDE DEF L, rec
<1>11. /\ rs \in Seq(Results(DOMAIN policyLog)) /\ Len(rs) = job /\ DOMAIN rs = 1 .. job
       /\ rs[job] = rec /\ \A n \in 1 .. job - 1 : rs[n] = results[n]
  <2>1. /\ rs \in Seq(Results(DOMAIN policyLog)) /\ Len(rs) = Len(results) + 1 /\ DOMAIN rs = 1 .. Len(results) + 1
        /\ rs[Len(results) + 1] = rec /\ \A n \in 1 .. Len(results) : rs[n] = results[n]
    BY <1>4, <1>8, AppendGrows
  <2>2. Len(results) + 1 = job /\ Len(results) = job - 1
    BY <1>2, <1>4
  <2> HIDE DEF rs
  <2> QED BY ONLY <2>1, <2>2
<1> HIDE DEF rs
<1>12. \A n \in 1 .. job : n \in 1 .. job - 1 \/ n = job
  BY <1>2
<1>13. TypeOK'
  <2>1. \A n \in DOMAIN rs : Cardinality(rs[n].lines) <= 3 + MaxFaults
    BY <1>4, <1>9, <1>10, <1>11, <1>12
  <2>2. Len(rs) = job' - 1 /\ job' \in 1 .. Len(Plan) + 1
    BY <1>2, <1>11, PlanFacts
  <2>3. op' \in 0 .. IF job' <= Len(Plan) THEN Len(Script') + 1 ELSE 0
    <3>1. job' \in 1 .. 13 \/ job' \in 14 .. 25 \/ job' = 26
      BY <1>2
    <3>2. CASE job' = 26
      BY <1>2, <3>2, PlanFacts
    <3>3. CASE job' \in 1 .. 13 \/ job' \in 14 .. 25
      <4>1. Plan[job'].script \in Seq(AsksOfA(job')) \/ Plan[job'].script \in Seq(AsksLater)
        BY <3>3, PlanFacts
      <4>2. Len(Script') \in Nat /\ job' <= Len(Plan)
        <5>1. Script' = Plan[job'].script
          BY DEF Script
        <5>2. Len(Script') \in Nat
          BY ONLY <4>1, <5>1
        <5>3. Len(Plan) = 25
          BY PlanFacts
        <5> QED BY ONLY <3>3, <5>2, <5>3
      <4>3. 0 \in 0 .. Len(Script') + 1 /\ op' = 0
        BY ONLY <1>2, <4>2
      <4> QED BY ONLY <4>2, <4>3
    <3> QED BY <3>1, <3>2, <3>3
  <2>4. before' \in 0 .. Len(policyLog') /\ answers' \in Seq(Answers)
    BY <1>2, <1>4
  <2> QED BY <1>1, <1>2, <1>3, <1>11, <2>1, <2>2, <2>3, <2>4 DEF TypeOK, Results
<1>14. MockInv' /\ LateInv'
  <2>1. LateAsks(job) \subseteq LateAsks(job + 1)
    BY <1>2 DEF LateAsks
  <2>2. (job + 1 <= 4 => job <= 4) /\ (job + 1 <= 13 => job <= 13)
    BY <1>2
  <2> QED BY <1>1, <1>2, <2>1, <2>2 DEF MockInv, LateInv
<1>15. CountInv' /\ AnswerInv'
  BY <1>1, <1>2 DEF CountInv, AnswerInv
<1>16. ResultInv'
  <2>1. SUFFICES ASSUME NEW n \in 1 .. job, n <= 13, rs[n].outcome = Plan[n].expected,
                        Plan[n].id \in DOMAIN Goal \ {"smuggle_grammar", "covert_channel"}
                 PROVE  Attained(Plan[n].id)
    BY <1>2, <1>3, <1>11 DEF ResultInv, Attained
  <2>2. CASE n \in 1 .. job - 1
    BY <1>1, <1>4, <1>11, <2>1, <2>2 DEF ResultInv
  <2>3. CASE n = job
    <3>1. Outcome(Plan[job]) = Plan[job].expected /\ Plan[job].id \in DOMAIN Goal \ {"smuggle_grammar", "covert_channel"}
      BY <1>10, <1>11, <2>1, <2>3
    <3>2. job # 1
      <4>1. "setup" \notin DOMAIN Goal
        BY DEF Goal
      <4>2. Plan[1].id = "setup"
        BY PlanFacts
      <4> QED BY ONLY <3>1, <4>1, <4>2
    <3>3. job \in 2 .. 13
      BY <1>2, <2>1, <2>3, <3>2
    <3>4. op = Len(Script) + 1
      BY <1>2
    <3>5. Attained(Plan[job].id)
      BY ONLY <1>1, <3>1, <3>3, <3>4, Attacks
    <3> QED BY ONLY <2>3, <3>5
  <2> QED BY <1>12, <2>2, <2>3
<1>17. TranscriptInv' /\ StageInv'
  BY <1>1, <1>2 DEF TranscriptInv, StageInv
<1>18. LineInv'
  <2>1. Covered' = Len(policyLog) /\ (job \notin 2 .. 13 => Covered = Len(policyLog)) /\ (job \in 2 .. 13 => Covered = before)
    BY <1>2, <1>5 DEF Covered
  <2>2. \A S : Violations(S)' = Violations(S)
    BY <1>2 DEF Violations
  <2>3. /\ \A n \in 1 .. job - 1 : /\ results[n].violations = Violations(results[n].lines)
                                   /\ \A l \in results[n].lines : l <= Covered
        /\ \A m, n \in 1 .. job - 1 : m # n => results[m].lines \cap results[n].lines = {}
        /\ \A l \in strays : l <= Covered /\ \A n \in 1 .. job - 1 : l \notin results[n].lines
        /\ \A l \in 1 .. Covered : l \in strays \/ \E n \in 1 .. job - 1 : l \in results[n].lines
    BY <1>1, <1>4 DEF LineInv
  <2>4. \A n \in 1 .. job - 1 : \A l \in results[n].lines : l \in 1 .. Len(policyLog) /\ l \notin L
    <3>1. SUFFICES ASSUME NEW n \in 1 .. job - 1, NEW l \in results[n].lines
                   PROVE  l \in 1 .. Len(policyLog) /\ l \notin L
      OBVIOUS
    <3>2. results[n] \in Results(DOMAIN policyLog)
      BY <1>4
    <3>3. l \in 1 .. Len(policyLog) /\ l <= Covered
      BY <1>4, <2>3, <3>1, <3>2 DEF Results
    <3> QED BY <1>4, <1>6, <2>1, <3>3
  <2>5. \A n \in 1 .. job : /\ rs[n].violations = Violations(rs[n].lines)
                            /\ \A l \in rs[n].lines : l <= Len(policyLog)
    <3>1. ASSUME NEW n \in 1 .. job - 1
          PROVE  rs[n].violations = Violations(rs[n].lines) /\ \A l \in rs[n].lines : l <= Len(policyLog)
      BY <1>4, <1>11, <2>3, <2>4
    <3>2. rs[job].violations = Violations(rs[job].lines) /\ \A l \in rs[job].lines : l <= Len(policyLog)
      BY <1>4, <1>7, <1>10, <1>11
    <3> QED BY <1>12, <3>1, <3>2
  <2>6. \A m, n \in 1 .. job : m # n => rs[m].lines \cap rs[n].lines = {}
    <3>1. SUFFICES ASSUME NEW m \in 1 .. job, NEW n \in 1 .. job, m # n PROVE rs[m].lines \cap rs[n].lines = {}
      OBVIOUS
    <3>2. CASE m \in 1 .. job - 1 /\ n \in 1 .. job - 1
      BY <1>11, <2>3, <3>1, <3>2
    <3>3. CASE m \in 1 .. job - 1 /\ n = job
      BY <1>10, <1>11, <2>4, <3>3
    <3>4. CASE m = job /\ n \in 1 .. job - 1
      BY <1>10, <1>11, <2>4, <3>4
    <3> QED BY <1>12, <3>1, <3>2, <3>3, <3>4
  <2>7. ASSUME NEW l \in 1 .. Len(policyLog), l \notin strays PROVE \E n \in 1 .. job : l \in rs[n].lines
    <3>1. CASE l \in 1 .. Covered
      <4>1. PICK n \in 1 .. job - 1 : l \in results[n].lines
        BY <2>3, <2>7, <3>1
      <4>2. n \in 1 .. job /\ l \in rs[n].lines
        BY <1>2, <1>11, <4>1
      <4> QED BY <4>2
    <3>2. CASE l \notin 1 .. Covered
      <4>1. job \in 2 .. 13 /\ l \in before + 1 .. Len(policyLog)
        <5>1. job \in 2 .. 13 /\ Covered = before
          BY ONLY <2>1, <2>7, <3>2
        <5>2. l \in Nat /\ 1 <= l /\ l <= Len(policyLog) /\ before \in Nat /\ Len(policyLog) \in Nat
          BY ONLY <1>4, <2>7
        <5>3. ~(l <= before)
          BY ONLY <3>2, <5>1, <5>2
        <5> QED BY ONLY <5>1, <5>2, <5>3
      <4>2. l \in L
        BY ONLY <1>6, <4>1
      <4>3. job \in 1 .. job
        BY <1>2
      <4>4. rs[job] = rec
        BY ONLY <1>11
      <4>5. rec.lines = L
        BY ONLY <1>10
      <4>6. l \in rs[job].lines
        BY ONLY <4>2, <4>4, <4>5
      <4> QED BY ONLY <4>3, <4>6
    <3> QED BY <3>1, <3>2
  <2>8. ASSUME NEW l \in strays PROVE l <= Len(policyLog) /\ \A n \in 1 .. job : l \notin rs[n].lines
    <3>1. l \in 1 .. Len(policyLog) /\ l <= Covered
      BY <1>4, <2>3
    <3>2. l \notin L
      BY <1>4, <1>6, <2>1, <3>1
    <3>3. ASSUME NEW n \in 1 .. job - 1 PROVE l \notin rs[n].lines
      BY <1>11, <2>3
    <3>4. l \notin rs[job].lines
      BY <1>10, <1>11, <3>2
    <3> QED BY <1>4, <1>12, <3>1, <3>3, <3>4
  <2>9. job' # 1
    BY <1>2
  <2> QED BY <1>2, <1>3, <1>11, <2>1, <2>2, <2>5, <2>6, <2>7, <2>8, <2>9 DEF LineInv
<1> QED BY <1>13, <1>14, <1>15, <1>16, <1>17, <1>18 DEF IInv

\* The report is verified.
LEMMA VerifyKeeps ==
    ASSUME IInv, Verify
    PROVE  IInv'
<1>1. /\ TypeOK /\ MockInv /\ LateInv /\ CountInv /\ AnswerInv /\ ResultInv /\ TranscriptInv
      /\ StageInv /\ LineInv
  BY DEF IInv
<1>2. /\ job' = job /\ job = 26 /\ op' = op /\ before' = before /\ answers' = answers /\ mock' = mock
      /\ policyLog' = policyLog /\ transcript' = transcript /\ late' = late /\ results' = results
      /\ recovered' = recovered /\ happened' = happened /\ strays' = strays /\ faults' = faults
      /\ stage' = IF Held({"A", "B"}) /\ Evidence THEN "verified" ELSE "failed"
  <2>1. job \in 1 .. 26 /\ job > 25
    BY <1>1, Typed, PlanFacts DEF Verify
  <2> QED BY <2>1 DEF Verify
<1>3. Script' = Script /\ Held({"A", "B"})' = Held({"A", "B"}) /\ Evidence' = Evidence
  BY <1>2 DEF Script, Held, Evidence, Count
<1>4. TypeOK'
  BY <1>1, <1>2, <1>3 DEF TypeOK
<1>5. MockInv' /\ LateInv' /\ CountInv' /\ AnswerInv' /\ TranscriptInv'
  BY <1>1, <1>2, <1>3 DEF MockInv, LateInv, CountInv, AnswerInv, TranscriptInv
<1>6. ResultInv'
  BY <1>1, <1>2, GoalsStay
<1>7. StageInv'
  BY <1>2, <1>3 DEF StageInv
<1>8. LineInv'
  <2>1. Covered' = Covered /\ \A S : Violations(S)' = Violations(S)
    BY <1>2 DEF Covered, Violations
  <2> QED BY <1>1, <1>2, <2>1 DEF LineInv
<1> QED BY <1>4, <1>5, <1>6, <1>7, <1>8 DEF IInv

\* The invariant holds of a new run, and every step preserves it.
LEMMA IInvInit == Init => IInv
<1> SUFFICES ASSUME Init PROVE IInv
  OBVIOUS
<1>1. /\ stage = "run" /\ job = 1 /\ op = 0 /\ before = 0 /\ answers = <<>> /\ mock = [recv |-> <<>>, toggles |-> {}]
      /\ policyLog = <<>> /\ transcript = <<>> /\ late = <<>> /\ results = <<>> /\ recovered = 0
      /\ happened = {} /\ strays = {} /\ faults = 0
  BY DEF Init
<1>2. Len(Script) \in Nat /\ Len(Plan) = 25
  <2>1. Plan[1].script \in Seq(AsksOfA(1)) /\ Len(Plan) = 25
    BY PlanFacts
  <2>2. Script = Plan[1].script
    BY <1>1 DEF Script
  <2> QED BY ONLY <2>1, <2>2
<1>3. Len(Secret) = 3
  BY DEF Secret
<1>4. TypeOK
  <2>1. op \in 0 .. IF job <= Len(Plan) THEN Len(Script) + 1 ELSE 0
    <3>1. job <= Len(Plan) /\ op = 0 /\ 0 \in 0 .. Len(Script) + 1
      BY ONLY <1>1, <1>2
    <3> QED BY ONLY <3>1
  <2>2. mock \in [recv : Seq(Packages \cup Pulls \cup Tokens), toggles : SUBSET Toggles]
    BY <1>1
  <2>3. /\ job \in 1 .. Len(Plan) + 1 /\ before \in 0 .. Len(policyLog) /\ recovered \in 0 .. Len(Secret)
        /\ faults \in 0 .. MaxFaults /\ Len(results) = job - 1 /\ DOMAIN results = {}
    <3>1. Len(<<>>) = 0 /\ DOMAIN <<>> = {}
      OBVIOUS
    <3> QED BY <1>1, <1>2, <1>3, <3>1, BoundAssumption
  <2>4. /\ answers \in Seq(Answers) /\ policyLog \in Seq({"in_policy", "violation"}) /\ transcript \in Seq(Verdicts)
        /\ late \in Seq(Asked)
        /\ results \in Seq([outcome : Outcomes, lines : SUBSET DOMAIN policyLog, violations : SUBSET DOMAIN policyLog])
    BY <1>1
  <2> QED BY <1>1, <2>1, <2>2, <2>3, <2>4 DEF TypeOK
<1>5. MockInv /\ LateInv /\ CountInv /\ AnswerInv /\ ResultInv /\ TranscriptInv /\ StageInv
  BY <1>1 DEF MockInv, LateInv, CountInv, AnswerInv, ResultInv, TranscriptInv, StageInv
<1>6. LineInv
  <2>1. Covered = 0
    BY <1>1 DEF Covered
  <2> QED BY <1>1, <2>1 DEF LineInv
<1> QED BY <1>4, <1>5, <1>6 DEF IInv

LEMMA IInvStep == IInv /\ [Next]_vars => IInv'
<1> SUFFICES ASSUME IInv, [Next]_vars PROVE IInv'
  OBVIOUS
<1>1. /\ TypeOK /\ MockInv /\ LateInv /\ CountInv /\ AnswerInv /\ ResultInv /\ TranscriptInv
      /\ StageInv /\ LineInv
  BY DEF IInv
<1>2. CASE BeginJob
  BY <1>2, BeginKeeps
<1>3. CASE CallMock \/ CallMockFails \/ Look \/ Decode \/ Egress \/ EgressFails \/ EgressTimesOut
           \/ Fetch \/ UpstreamFails \/ FetchRaises
  <2>1. Request
    BY <1>1, <1>3, RequestStep
  <2>2. TypeOK' /\ MockInv' /\ LateInv' /\ CountInv' /\ AnswerInv' /\ TranscriptInv' /\ LineInv'
    BY <1>1, <2>1, RequestTypes, RequestMock, RequestCounts, RequestAnswers, RequestTranscript, RequestLines
  <2>3. ResultInv'
    BY <1>1, <2>1, GoalsStay DEF Request
  <2>4. stage' \in {"run", "crashed"}
    BY <2>1 DEF Request, InScript
  <2>5. StageInv'
    BY <2>4 DEF StageInv
  <2> QED BY <2>2, <2>3, <2>5 DEF IInv
<1>4. ASSUME NEW n \in DOMAIN late, Arrive(n) PROVE IInv'
  <2>1. Arrival(n)
    BY <1>1, <1>4, ArriveStep
  <2>2. TypeOK' /\ MockInv' /\ LateInv' /\ CountInv' /\ AnswerInv' /\ LineInv'
    BY <1>1, <2>1, ArrivalTypes, ArrivalMock, ArrivalCounts, ArrivalAnswers, ArrivalLines
  <2>3. ResultInv'
    BY <1>1, <2>1, GoalsStay DEF Arrival
  <2>4. TranscriptInv'
    BY <1>1, <2>1 DEF Arrival, TranscriptInv
  <2>5. StageInv'
    BY <2>1 DEF Arrival, StageInv
  <2> QED BY <2>2, <2>3, <2>4, <2>5 DEF IInv
<1>5. CASE EndJob
  BY <1>5, EndKeeps
<1>6. CASE Verify
  BY <1>6, VerifyKeeps
<1>7. CASE UNCHANGED vars
  <2>1. /\ stage' = stage /\ job' = job /\ op' = op /\ before' = before /\ answers' = answers /\ mock' = mock
        /\ policyLog' = policyLog /\ transcript' = transcript /\ late' = late /\ results' = results
        /\ recovered' = recovered /\ happened' = happened /\ strays' = strays /\ faults' = faults
    BY <1>7 DEF vars
  <2>2. Script' = Script /\ Held({"A", "B"})' = Held({"A", "B"}) /\ Evidence' = Evidence
    BY <2>1 DEF Script, Held, Evidence, Count
  <2>3. TypeOK'
    BY <1>1, <2>1, <2>2 DEF TypeOK
  <2>4. MockInv' /\ LateInv' /\ CountInv' /\ AnswerInv' /\ TranscriptInv' /\ StageInv'
    BY <1>1, <2>1, <2>2 DEF MockInv, LateInv, CountInv, AnswerInv, TranscriptInv, StageInv
  <2>5. ResultInv'
    BY <1>1, <2>1, GoalsStay
  <2>6. LineInv'
    <3>1. Covered' = Covered /\ \A S : Violations(S)' = Violations(S)
      BY <2>1 DEF Covered, Violations
    <3> QED BY <1>1, <2>1, <3>1 DEF LineInv
  <2> QED BY <2>3, <2>4, <2>5, <2>6 DEF IInv
<1> QED BY <1>2, <1>3, <1>4, <1>5, <1>6, <1>7 DEF Next, Done

-----------------------------------------------------------------------------
\* The variables of the conformance run keep their types, and a probe's share of
\* the policy log is at most its own requests and one line for each fault.
THEOREM TypeCorrect == Spec => []TypeOK
<1>1. IInv => TypeOK
  BY DEF IInv
<1> QED BY IInvInit, IInvStep, <1>1, PTL DEF Spec

\* A goal belongs to a probe of A.
LEMMA ProbeOfGoal == \A id \in DOMAIN Goal : \E n \in 2 .. 13 : Plan[n].id = id
<1>1. /\ SuiteA[2].id = "recon" /\ SuiteA[3].id = "dropper" /\ SuiteA[4].id = "canary_exfil"
      /\ SuiteA[5].id = "c2_heartbeat" /\ SuiteA[6].id = "redirect_abuse" /\ SuiteA[7].id = "smuggle_grammar"
      /\ SuiteA[8].id = "upload_put" /\ SuiteA[9].id = "metadata_service" /\ SuiteA[10].id = "poisoned_artifact"
      /\ SuiteA[11].id = "lockfile_miss" /\ SuiteA[12].id = "covert_channel" /\ SuiteA[13].id = "persistence_restart"
  BY JobsOfA DEF Job
<1>2. /\ Plan[2].id = "recon" /\ Plan[3].id = "dropper" /\ Plan[4].id = "canary_exfil"
      /\ Plan[5].id = "c2_heartbeat" /\ Plan[6].id = "redirect_abuse" /\ Plan[7].id = "smuggle_grammar"
      /\ Plan[8].id = "upload_put" /\ Plan[9].id = "metadata_service" /\ Plan[10].id = "poisoned_artifact"
      /\ Plan[11].id = "lockfile_miss" /\ Plan[12].id = "covert_channel" /\ Plan[13].id = "persistence_restart"
  BY <1>1, PlanParts
<1>3. DOMAIN Goal = {"recon", "dropper", "canary_exfil", "c2_heartbeat", "redirect_abuse", "smuggle_grammar",
                     "upload_put", "metadata_service", "poisoned_artifact", "lockfile_miss", "covert_channel",
                     "persistence_restart"}
  BY DEF Goal
<1> QED BY <1>2, <1>3

\* Whatever was lost, late or swallowed, and however often: a report that
\* verifies comes from a run in which the attacks of A took place and the broker
\* refused tampered bytes.
THEOREM VerifiedIsTested == Spec => []VerifiedMeansTested
<1>1. IInv => VerifiedMeansTested
  <2>1. SUFFICES ASSUME IInv, stage = "verified"
                 PROVE  /\ \A id \in DOMAIN Goal \ {"smuggle_grammar", "covert_channel"} : Attained(id)
                        /\ <<"requests", "refused">> \in happened
    BY DEF VerifiedMeansTested
  <2>2. job = 26 /\ Held({"A", "B"}) /\ Evidence /\ ResultInv /\ TranscriptInv /\ DOMAIN results = 1 .. 25
    <3>1. TypeOK /\ StageInv /\ ResultInv /\ TranscriptInv
      BY <2>1 DEF IInv
    <3>2. job = 26 /\ Held({"A", "B"}) /\ Evidence
      BY <2>1, <3>1 DEF StageInv
    <3>3. DOMAIN results = 1 .. job - 1
      BY <3>1, Typed
    <3> QED BY <3>1, <3>2, <3>3
  <2>3. ASSUME NEW id \in DOMAIN Goal \ {"smuggle_grammar", "covert_channel"} PROVE Attained(id)
    <3>1. PICK n \in 2 .. 13 : Plan[n].id = id
      BY ProbeOfGoal
    <3>2. n \in 1 .. 13 /\ n \in 1 .. 25 /\ n <= 13
      OBVIOUS
    <3>3. n \in Suite({"A", "B"})
      BY <3>2, PlanFacts DEF Suite
    <3>4. results[n].outcome = Plan[n].expected
      BY <2>2, <3>3 DEF Held
    <3> QED BY <2>2, <3>1, <3>2, <3>4 DEF ResultInv
  <2>4. <<"requests", "refused">> \in happened
    <3> DEFINE M == {n \in DOMAIN transcript : transcript[n] = "digest_mismatch"}
    <3>1. Cardinality(M) >= 1
      BY <2>2 DEF Evidence, Count
    <3>2. Cardinality({}) = 0
      BY FS_EmptySet
    <3>3. M # {}
      <4> HIDE DEF M
      <4> QED BY <3>1, <3>2
    <3> QED BY <2>2, <3>3 DEF TranscriptInv
  <2> QED BY <2>3, <2>4
<1> QED BY IInvInit, IInvStep, <1>1, PTL DEF Spec

\* However many requests overrun the probe that made them: the shares of the
\* probes are disjoint, and together they are every line of the policy log but
\* the ones written while no probe of A was running.
THEOREM LinesCountedOnce == Spec => []LinesAreCountedOnce
<1>1. IInv => LinesAreCountedOnce
  <2>1. SUFFICES ASSUME IInv, stage \in {"verified", "failed"}
                 PROVE  /\ \A m, n \in DOMAIN results : m # n => results[m].lines \cap results[n].lines = {}
                        /\ UNION {results[n].lines : n \in DOMAIN results} = Summary.lines \ strays
                        /\ UNION {results[n].violations : n \in DOMAIN results} = Summary.violations \ strays
    BY DEF LinesAreCountedOnce
  <2>2. TypeOK /\ StageInv /\ LineInv
    BY <2>1 DEF IInv
  <2>3. job = 26 /\ Covered = Len(policyLog)
    BY <2>1, <2>2 DEF StageInv, Covered
  <2> DEFINE own == (1 .. Len(policyLog)) \ strays
  <2>4. /\ DOMAIN policyLog = 1 .. Len(policyLog)
        /\ \A n \in DOMAIN results : results[n].lines \subseteq own
    <3>1. results \in Seq(Results(DOMAIN policyLog)) /\ DOMAIN policyLog = 1 .. Len(policyLog)
      BY <2>2, Typed
    <3>2. ASSUME NEW n \in DOMAIN results PROVE results[n].lines \subseteq own
      <4>1. results[n] \in Results(1 .. Len(policyLog))
        BY <3>1
      <4>2. results[n].lines \subseteq 1 .. Len(policyLog)
        BY ONLY <4>1 DEF Results
      <4>3. \A l \in strays : l \notin results[n].lines
        BY <2>2 DEF LineInv
      <4> QED BY <4>2, <4>3
    <3> QED BY <3>1, <3>2
  <2>5. \A l \in own : \E n \in DOMAIN results : l \in results[n].lines
    BY <2>2, <2>3 DEF LineInv
  <2> HIDE DEF own
  <2>6. UNION {results[n].lines : n \in DOMAIN results} = own
    BY <2>4, <2>5
  <2>7. \A n \in DOMAIN results : results[n].violations = {l \in results[n].lines : policyLog[l] = "violation"}
    BY <2>2 DEF LineInv, Violations
  <2>8. UNION {results[n].violations : n \in DOMAIN results} = {l \in own : policyLog[l] = "violation"}
    BY <2>4, <2>5, <2>7
  <2>9. Summary.lines \ strays = own /\ Summary.violations \ strays = {l \in own : policyLog[l] = "violation"}
    BY <2>4 DEF Summary, Violations, own
  <2> QED BY <2>2, <2>6, <2>8, <2>9 DEF LineInv
<1> QED BY IInvInit, IInvStep, <1>1, PTL DEF Spec
-----------------------------------------------------------------------------
\* A run in which nothing is lost.  What each request is answered:
Right(n, o) ==
    CASE o.to \in {"mock", "look", "decode"} -> {"ok"}
      [] o.to = "proxy" /\ o.what = "imds" -> {"denied"}
      [] o.to = "proxy" /\ o.what = "requests" -> {"tampered"}
      [] o.to = "proxy" /\ o.what \notin {"imds", "requests"} -> {"genuine", "tampered"}
      [] o.to = "broker" /\ o.what = "malformed" -> {"grammar_violation"}
      [] o.to = "broker" /\ o.what = "requests" -> {"digest_mismatch"}
      [] o.to = "broker" /\ o.what \notin {"malformed", "requests"} -> {"lockfile_miss"}
      [] o.to = "measure" -> Verdicts
      [] o.to = "fresh" /\ n \in {20, 21} -> {"upstream_fail_closed"}
      [] o.to = "fresh" /\ n = 23 -> {"digest_mismatch"}
      [] o.to = "fresh" /\ n \notin {20, 21, 23} -> {"served"}

\* Until the checks no switch but the poison is on; a job that begins with one
\* has it on, and after a reset only what the job itself has set is on.
SwitchInv ==
    /\ job <= 19 => mock.toggles \subseteq {"poison"}
    /\ op > 1 /\ Script[1] = To("mock", "poison") => "poison" \in mock.toggles
    /\ op > 1 /\ Script[1] = To("mock", "reset") => mock.toggles = {Script[n].what : n \in 2 .. op - 1} \cap Toggles

\* A token looked for is there; the log holds the part of the secret sent, and
\* all of it is read back.
ReceivedInv ==
    /\ op = 2 /\ Len(Script) = 2 /\ Script[2].to = "look" => Seen(Script[2].what)
    /\ job = 19 /\ op \in 2 .. 5 => Len(mock.recv) = op - 2 /\ \A n \in 1 .. op - 2 : mock.recv[n] = Secret[n]
    /\ job > 19 \/ (job = 19 /\ op = 6) => recovered = 3

RightInv == op > 0 => Len(answers) = op - 1 /\ \A n \in 1 .. op - 1 : answers[n] \in Right(job, Script[n])

\* The evidence the shared broker has left so far.
EvidenceInv ==
    /\ job = 16 /\ op > 0 => Count("grammar_violation") >= op - 1
    /\ job > 16 => Count("grammar_violation") >= 3
    /\ job > 17 \/ (job = 17 /\ op = 3) => Count("digest_mismatch") >= 1
    /\ job > 18 \/ (job = 18 /\ op = 2) => Count("lockfile_miss") >= 1

\* One line for each request through the proxy so far.
OwnLinesInv ==
    op > 0 => /\ Len(policyLog) - before = Cardinality(Proxied(job) \cap 1 .. op - 1)
              /\ \A l \in before + 1 .. Len(policyLog) : policyLog[l] = "violation" <=> job = 9

CleanResultInv ==
    \A n \in DOMAIN results :
        /\ results[n].outcome = Plan[n].expected
        /\ n <= 13 => /\ Cardinality(results[n].lines) = Cardinality(Proxied(n))
                      /\ Cardinality(results[n].violations) = IF n = 9 THEN 1 ELSE 0

CleanInv ==
    faults = 0 => /\ late = <<>> /\ stage \in {"run", "verified"}
                  /\ SwitchInv /\ ReceivedInv /\ RightInv /\ EvidenceInv /\ OwnLinesInv /\ CleanResultInv

\* What the proofs about a clean run use of the script s of the n-th job.
Shape(n, s) ==
    \A i \in 1 .. Len(s) :
        /\ s[i].what = "reset" => i = 1 /\ s[i].to = "mock"
        /\ s[i].what \in Toggles => s[i].to = "mock" /\ (n <= 19 => s[i].what = "poison")
        /\ s[i].to = "look" => i = 2 /\ Len(s) = 2 /\ s[1] = To("proxy", s[i].what)
        /\ s[i].to = "proxy" => (s[i].what = "imds" <=> n = 9)
        /\ s[i].to \in {"proxy", "broker"} /\ s[i].what = "requests" => i = 2 /\ s[1] = To("mock", "poison")
        /\ s[i].to = "broker" => n <= 19
        /\ s[i].to \in {"measure", "decode"} => n = 19
        /\ s[i].to = "fresh" =>
              /\ n \in 20 .. 25 /\ s[1] = To("mock", "reset") /\ i = Len(s) /\ s[i].what \in Pinned
              /\ n = 20 => i = 3 /\ s[2] = To("mock", "redirect_pkg")
              /\ n = 21 => i = 3 /\ s[2] = To("mock", "oversize_pkg")
              /\ n = 23 => i = 3 /\ s[2] = To("mock", "poison")
              /\ n \notin {20, 21, 23} => i = 2

LEMMA ShapesOfA == \A n \in 1 .. 13 : Shape(n, SuiteA[n].script)
<1> DEFINE P(n) == Shape(n, SuiteA[n].script)
<1>1. P(1)
  <2>1. SuiteA[1].script = <<To("mock", "reset")>>
    BY JobsOfA DEF Job
  <2> QED BY <2>1 DEF Shape, To, Toggles
<1>2. P(2)
  <2>1. SuiteA[2].script = <<To("proxy", "health")>>
    BY JobsOfA DEF Job
  <2> QED BY <2>1 DEF Shape, To, Toggles
<1>3. P(3)
  <2>1. SuiteA[3].script = <<To("proxy", "bytes")>>
    BY JobsOfA DEF Job
  <2> QED BY <2>1 DEF Shape, To, Toggles
<1>4. P(4)
  <2>1. SuiteA[4].script = <<To("proxy", "canary"), To("look", "canary")>>
    BY JobsOfA DEF Job
  <2> QED BY <2>1 DEF Shape, To, Toggles
<1>5. P(5)
  <2>1. SuiteA[5].script = <<To("proxy", "beacon"), To("proxy", "beacon"), To("proxy", "beacon")>>
    BY JobsOfA DEF Job
  <2> QED BY <2>1 DEF Shape, To, Toggles
<1>6. P(6)
  <2>1. SuiteA[6].script = <<To("proxy", "redirect")>>
    BY JobsOfA DEF Job
  <2> QED BY <2>1 DEF Shape, To, Toggles
<1>7. P(7)
  <2>1. SuiteA[7].script = <<To("proxy", "dotdot")>>
    BY JobsOfA DEF Job
  <2> QED BY <2>1 DEF Shape, To, Toggles
<1>8. P(8)
  <2>1. SuiteA[8].script = <<To("proxy", "put"), To("look", "put")>>
    BY JobsOfA DEF Job
  <2> QED BY <2>1 DEF Shape, To, Toggles
<1>9. P(9)
  <2>1. SuiteA[9].script = <<To("proxy", "imds")>>
    BY JobsOfA DEF Job
  <2> QED BY <2>1 DEF Shape, To, Toggles
<1>10. P(10)
  <2>1. SuiteA[10].script = <<To("mock", "poison"), To("proxy", "requests")>>
    BY JobsOfA DEF Job
  <2> QED BY <2>1 DEF Shape, To, Toggles
<1>11. P(11)
  <2>1. SuiteA[11].script = <<To("proxy", "junit")>>
    BY JobsOfA DEF Job
  <2> QED BY <2>1 DEF Shape, To, Toggles
<1>12. P(12)
  <2>1. SuiteA[12].script = <<To("proxy", "secret"), To("look", "secret")>>
    BY JobsOfA DEF Job
  <2> QED BY <2>1 DEF Shape, To, Toggles
<1>13. P(13)
  <2>1. SuiteA[13].script = <<To("proxy", "persist"), To("look", "persist")>>
    BY JobsOfA DEF Job
  <2> QED BY <2>1 DEF Shape, To, Toggles
<1>14. \A n \in 1 .. 13 : n = 1 \/ n = 2 \/ n = 3 \/ n = 4 \/ n = 5 \/ n = 6 \/ n = 7
                         \/ n = 8 \/ n = 9 \/ n = 10 \/ n = 11 \/ n = 12 \/ n = 13
  OBVIOUS
<1> HIDE DEF P
<1>15. \A n \in 1 .. 13 : P(n)
  BY <1>1, <1>2, <1>3, <1>4, <1>5, <1>6, <1>7, <1>8, <1>9, <1>10, <1>11, <1>12, <1>13, <1>14
<1> QED BY <1>15 DEF P

\* The script of the covert channel in B, a request at a time.
LEMMA ChannelParts ==
    /\ Len(Channel) = 5 /\ Channel[1] = To("mock", "reset") /\ Channel[5] = To("decode", "log")
    /\ \A i \in 2 .. 4 : Channel[i] = To("measure", Secret[i - 1])
<1> DEFINE R == <<To("mock", "reset")>>
           M == [n \in DOMAIN Secret |-> To("measure", Secret[n])]
           D == <<To("decode", "log")>>
           S == {To("mock", "reset"), To("decode", "log")} \cup {To("measure", Secret[n]) : n \in 1 .. 3}
<1>1. R \in Seq(S) /\ Len(R) = 1 /\ R[1] = To("mock", "reset")
  OBVIOUS
<1>2. D \in Seq(S) /\ Len(D) = 1 /\ D[1] = To("decode", "log")
  OBVIOUS
<1>3. M \in Seq(S) /\ Len(M) = 3 /\ \A n \in 1 .. 3 : M[n] = To("measure", Secret[n])
  <2>1. DOMAIN Secret = 1 .. 3
    BY DEF Secret
  <2>2. \A n \in 1 .. 3 : M[n] \in S
    BY <2>1
  <2> QED BY <2>1, <2>2
<1>4. Channel = (R \o M) \o D
  BY DEF Channel
<1> HIDE DEF R, M, D, S
<1> DEFINE RM == R \o M
<1>5. /\ RM \in Seq(S) /\ Len(RM) = 4 /\ \A i \in 1 .. 1 : RM[i] = R[i]
      /\ \A i \in 1 .. 3 : RM[1 + i] = M[i]
  <2>1. /\ RM \in Seq(S) /\ Len(RM) = Len(R) + Len(M) /\ \A i \in 1 .. Len(R) : RM[i] = R[i]
        /\ \A i \in 1 .. Len(M) : RM[Len(R) + i] = M[i]
    <3>1. R \in Seq(S) /\ M \in Seq(S)
      BY ONLY <1>1, <1>3
    <3> QED BY ONLY <3>1, ConcatParts
  <2> HIDE DEF RM
  <2> QED BY ONLY <1>1, <1>3, <2>1
<1> HIDE DEF RM
<1> DEFINE RMD == RM \o D
<1>6. /\ Len(RMD) = 5 /\ (\A i \in 1 .. 4 : RMD[i] = RM[i]) /\ \A i \in 1 .. 1 : RMD[4 + i] = D[i]
  <2>1. /\ Len(RMD) = Len(RM) + Len(D) /\ \A i \in 1 .. Len(RM) : RMD[i] = RM[i]
        /\ \A i \in 1 .. Len(D) : RMD[Len(RM) + i] = D[i]
    <3>1. RM \in Seq(S) /\ D \in Seq(S)
      BY ONLY <1>2, <1>5
    <3> QED BY ONLY <3>1, ConcatParts
  <2> HIDE DEF RMD
  <2> QED BY ONLY <1>2, <1>5, <2>1
<1>7. Channel = RMD
  BY <1>4 DEF RM, RMD
<1> HIDE DEF RMD
<1>8. ASSUME NEW i \in 2 .. 4 PROVE RMD[i] = To("measure", Secret[i - 1])
  <2>1. i - 1 \in 1 .. 3 /\ 1 + (i - 1) = i /\ i \in 1 .. 4
    OBVIOUS
  <2>2. RMD[i] = RM[i] /\ RM[1 + (i - 1)] = M[i - 1]
    BY ONLY <1>5, <1>6, <2>1
  <2> QED BY ONLY <1>3, <2>1, <2>2
<1>9. RMD[1] = To("mock", "reset") /\ RMD[5] = To("decode", "log")
  <2>1. RMD[1] = RM[1] /\ RM[1] = R[1] /\ RMD[4 + 1] = D[1]
    BY ONLY <1>5, <1>6
  <2> QED BY ONLY <1>1, <1>2, <2>1
<1> QED BY ONLY <1>6, <1>7, <1>8, <1>9

LEMMA ShapesOfB == \A n \in 1 .. 6 : Shape(13 + n, SuiteB[n].script)
<1> DEFINE P(n) == Shape(13 + n, SuiteB[n].script)
<1>1. P(1)
  <2>1. SuiteB[1].script = <<To("mock", "reset")>>
    BY JobsOfB DEF Job
  <2> QED BY <2>1 DEF Shape, To, Toggles
<1>2. P(2)
  <2>1. SuiteB[2].script = <<>>
    BY JobsOfB DEF Job
  <2> QED BY <2>1 DEF Shape, To, Toggles
<1>3. P(3)
  <2>1. SuiteB[3].script = <<To("broker", "malformed"), To("broker", "malformed"), To("broker", "malformed")>>
    BY JobsOfB DEF Job
  <2> QED BY <2>1 DEF Shape, To, Toggles
<1>4. P(4)
  <2>1. SuiteB[4].script = <<To("mock", "poison"), To("broker", "requests")>>
    BY JobsOfB DEF Job
  <2> QED BY <2>1 DEF Shape, To, Toggles
<1>5. P(5)
  <2>1. SuiteB[5].script = <<To("broker", "junit")>>
    BY JobsOfB DEF Job
  <2> QED BY <2>1 DEF Shape, To, Toggles
<1>6. P(6)
  <2>1. SuiteB[6].script = Channel
    BY JobsOfB DEF Job
  <2>2. \A i \in 1 .. 5 : i = 1 \/ i \in 2 .. 4 \/ i = 5
    OBVIOUS
  <2>3. \A i \in 2 .. 4 : Channel[i].to = "measure" /\ Channel[i].what \in Alphabet
    <3>1. \A i \in 2 .. 4 : Secret[i - 1] \in Alphabet
      <4>1. Secret[1] \in Alphabet /\ Secret[2] \in Alphabet /\ Secret[3] \in Alphabet
        BY DEF Secret, Alphabet
      <4> QED BY <4>1
    <3> QED BY <3>1, ChannelParts DEF To
  <2>4. /\ Channel[1].to = "mock" /\ Channel[1].what = "reset" /\ Channel[5].to = "decode" /\ Channel[5].what = "log"
        /\ Len(Channel) = 5
    BY ChannelParts DEF To
  <2>5. Shape(19, Channel)
    BY <2>2, <2>3, <2>4 DEF Shape, Toggles, Alphabet
  <2> QED BY <2>1, <2>5
<1>7. \A n \in 1 .. 6 : n = 1 \/ n = 2 \/ n = 3 \/ n = 4 \/ n = 5 \/ n = 6
  OBVIOUS
<1> HIDE DEF P
<1>8. \A n \in 1 .. 6 : P(n)
  BY <1>1, <1>2, <1>3, <1>4, <1>5, <1>6, <1>7
<1> QED BY <1>8 DEF P

LEMMA ShapesOfChecks == \A n \in 1 .. 6 : Shape(19 + n, Checks[n].script)
<1> DEFINE P(n) == Shape(19 + n, Checks[n].script)
<1>1. P(1)
  <2>1. Checks[1].script = <<To("mock", "reset"), To("mock", "redirect_pkg"), To("fresh", "requests")>>
    BY JobsOfChecks DEF Job
  <2> QED BY <2>1 DEF Shape, To, Toggles, Pinned
<1>2. P(2)
  <2>1. Checks[2].script = <<To("mock", "reset"), To("mock", "oversize_pkg"), To("fresh", "urllib3")>>
    BY JobsOfChecks DEF Job
  <2> QED BY <2>1 DEF Shape, To, Toggles, Pinned
<1>3. P(3)
  <2>1. Checks[3].script = <<To("mock", "reset"), To("fresh", "numpy")>>
    BY JobsOfChecks DEF Job
  <2> QED BY <2>1 DEF Shape, To, Toggles, Pinned
<1>4. P(4)
  <2>1. Checks[4].script = <<To("mock", "reset"), To("mock", "poison"), To("fresh", "click")>>
    BY JobsOfChecks DEF Job
  <2> QED BY <2>1 DEF Shape, To, Toggles, Pinned
<1>5. P(5)
  <2>1. Checks[5].script = <<To("mock", "reset"), To("fresh", "requests")>>
    BY JobsOfChecks DEF Job
  <2> QED BY <2>1 DEF Shape, To, Toggles, Pinned
<1>6. P(6)
  <2>1. Checks[6].script = <<To("mock", "reset")>>
    BY JobsOfChecks DEF Job
  <2> QED BY <2>1 DEF Shape, To, Toggles, Pinned
<1>7. \A n \in 1 .. 6 : n = 1 \/ n = 2 \/ n = 3 \/ n = 4 \/ n = 5 \/ n = 6
  OBVIOUS
<1> HIDE DEF P
<1>8. \A n \in 1 .. 6 : P(n)
  BY <1>1, <1>2, <1>3, <1>4, <1>5, <1>6, <1>7
<1> QED BY <1>8 DEF P

LEMMA Shapes == \A n \in 1 .. 25 : Shape(n, Plan[n].script)
<1>1. \A n \in 1 .. 13 : Shape(n, Plan[n].script)
  BY ShapesOfA, PlanParts
<1>2. ASSUME NEW n \in 14 .. 19 PROVE Shape(n, Plan[n].script)
  <2>1. n - 13 \in 1 .. 6 /\ 13 + (n - 13) = n
    OBVIOUS
  <2>2. Shape(13 + (n - 13), SuiteB[n - 13].script)
    BY ONLY <2>1, ShapesOfB
  <2>3. Plan[n] = SuiteB[n - 13]
    BY PlanParts
  <2> QED BY ONLY <2>1, <2>2, <2>3
<1>3. ASSUME NEW n \in 20 .. 25 PROVE Shape(n, Plan[n].script)
  <2>1. n - 19 \in 1 .. 6 /\ 19 + (n - 19) = n
    OBVIOUS
  <2>2. Shape(19 + (n - 19), Checks[n - 19].script)
    BY ONLY <2>1, ShapesOfChecks
  <2>3. Plan[n] = Checks[n - 19]
    BY PlanParts
  <2> QED BY ONLY <2>1, <2>2, <2>3
<1>4. \A n \in 1 .. 25 : n \in 1 .. 13 \/ n \in 14 .. 19 \/ n \in 20 .. 25
  OBVIOUS
<1> QED BY <1>1, <1>2, <1>3, <1>4

-----------------------------------------------------------------------------
\* What the mock does with a request, exactly.
LEMMA HandledExactly ==
    ASSUME NEW m \in Mocks, NEW r
    PROVE  /\ Handled(m, r).toggles = IF r = "reset" THEN {} ELSE m.toggles \cup ({r} \cap Toggles)
           /\ r = "reset" => Handled(m, r).recv = <<>>
           /\ r \in Recorded \ {"health"} => Handled(m, r).recv = Append(m.recv, r)
<1> DEFINE H == Handled(m, r)
<1>0. m.recv \in Seq(Recorded) /\ m.toggles \subseteq Toggles /\ "reset" \notin Toggles \cup Recorded /\ Toggles \cap Recorded = {}
  BY DEF Mocks, Toggles, Recorded, Packages, Pinned, Pulls, Tokens
<1>1. CASE r = "reset"
  <2>1. H = [recv |-> <<>>, toggles |-> {}]
    BY <1>1 DEF Handled, ResetState, Toggles, Packages, Pinned, Pulls, Tokens
  <2> QED BY <1>0, <1>1, <2>1
<1>2. CASE r \in Toggles
  <2>1. H = [m EXCEPT !.toggles = m.toggles \cup {r}]
    BY <1>2, <1>0 DEF Handled, Recorded
  <2>2. H.toggles = m.toggles \cup {r}
    BY <2>1 DEF Mocks
  <2> QED BY <1>0, <1>2, <2>2
<1>3. CASE r \in Recorded \ {"health"}
  <2>1. H = [m EXCEPT !.recv = Append(m.recv, r)]
    BY <1>3, <1>0 DEF Handled, Recorded
  <2>2. H.recv = Append(m.recv, r) /\ H.toggles = m.toggles
    BY <2>1 DEF Mocks
  <2> QED BY <1>0, <1>3, <2>2
<1>4. CASE r # "reset" /\ r \notin Toggles /\ r \notin Recorded \ {"health"}
  <2>1. H = m
    BY <1>4 DEF Handled, Recorded
  <2> QED BY <1>4, <2>1
<1> QED BY <1>1, <1>2, <1>3, <1>4

\* What a request is answered when nothing is lost, and the step that makes it.
Reply(o) ==
    CASE o.to \in {"mock", "decode"} -> "ok"
      [] o.to = "look" -> IF Seen(o.what) THEN "ok" ELSE "no"
      [] o.to = "proxy" -> IF o.what = "imds" THEN "denied" ELSE Body(mock, o.what)
      [] o.to \in {"broker", "measure", "fresh"} -> BrokerVerdict(o.what, Body(mock, o.what))

CleanRequest ==
    /\ InScript
    /\ UNCHANGED <<stage, job, before, late, results, faults>>
    /\ op' = op + 1 /\ answers' = Append(answers, Reply(Op))
    /\ \/ mock' = Handled(mock, Op.what)
       \/ mock' = mock /\ (Op.to \in {"look", "decode", "broker"} \/ Op.what = "imds")
    /\ policyLog' = IF Op.to = "proxy" THEN Append(policyLog, Verdict(Op.what)) ELSE policyLog
    /\ transcript' = IF Op.to = "broker" THEN Append(transcript, Reply(Op)) ELSE transcript
    /\ recovered' = IF Op.to = "decode" THEN Recovered ELSE recovered

\* The request a job is about to make.
LEMMA CleanOp ==
    ASSUME TypeOK, InScript
    PROVE  /\ job \in 1 .. 25 /\ op \in 1 .. Len(Script) /\ Len(Script) \in Nat /\ Op = Script[op]
           /\ Op \in AsksOf(job) /\ Shape(job, Script)
           /\ Op.to \in {"mock", "look", "decode", "proxy", "broker", "measure", "fresh"}
           /\ Op.to # "mock" => Op.what \notin Toggles \cup {"reset"}
<1>1. job \in 1 .. 25 /\ op \in 1 .. Len(Script) /\ Len(Script) \in Nat /\ Op = Script[op] /\ Op \in AsksOf(job)
  BY OpFacts DEF Op
<1>2. Shape(job, Script)
  BY <1>1, Shapes DEF Script
<1>3. Op.to \in {"mock", "look", "decode", "proxy", "broker", "measure", "fresh"}
  <2>1. Op \in AsksA \cup AsksLater
    BY <1>1, AskKinds
  <2> QED BY <2>1 DEF AsksA, AsksLater, AsksB, AsksC
<1>4. Op.to # "mock" => Op.what \notin Toggles \cup {"reset"}
  BY <1>1, <1>2 DEF Shape
<1> QED BY <1>1, <1>2, <1>3, <1>4

LEMMA CleanRequestStep ==
    ASSUME TypeOK, faults' = 0,
           CallMock \/ CallMockFails \/ Look \/ Decode \/ Egress \/ EgressFails \/ EgressTimesOut
           \/ Fetch \/ UpstreamFails \/ FetchRaises
    PROVE  CleanRequest
<1>1. faults \in Nat /\ faults' # faults + 1
  <2>1. faults \in 0 .. MaxFaults /\ MaxFaults \in Nat
    BY Typed
  <2> QED BY <2>1
<1>2. ~Faulty
  BY <1>1 DEF Faulty
<1>3. CASE CallMock
  <2>1. Op.to = "mock" /\ Reply(Op) = "ok"
    BY <1>3 DEF CallMock, Reply
  <2> QED BY <1>3, <2>1 DEF CallMock, CleanRequest, Returns
<1>4. CASE Look
  <2>1. Op.to = "look" /\ Reply(Op) = IF Seen(Op.what) THEN "ok" ELSE "no"
    BY <1>4 DEF Look, Reply
  <2> QED BY <1>2, <1>4, <2>1 DEF Look, CleanRequest, Returns
<1>5. CASE Decode
  <2>1. Op.to = "decode" /\ Reply(Op) = "ok"
    BY <1>5 DEF Decode, Reply
  <2> QED BY <1>2, <1>5, <2>1 DEF Decode, CleanRequest, Returns
<1>6. CASE Egress
  <2>1. Op.to = "proxy" /\ Reply(Op) = IF Op.what = "imds" THEN "denied" ELSE Body(mock, Op.what)
    BY <1>6 DEF Egress, Reply
  <2>2. Verdict(Op.what) = "violation" <=> Op.what = "imds"
    BY DEF Verdict
  <2> QED BY <1>2, <1>6, <2>1, <2>2 DEF Egress, CleanRequest, Returns
<1>7. CASE Fetch
  <2>1. InScript /\ Op.to \in {"broker", "measure", "fresh"} /\ Reply(Op) = BrokerVerdict(Op.what, Body(mock, Op.what))
    BY <1>7 DEF Fetch, AsksBroker, Reply
  <2>2. Op.to # "broker" => Op.what \in Pinned
    <3>1. Op \in AsksLater
      <4>1. Op \in AsksOf(job) /\ job \in 1 .. 25
        BY <2>1, CleanOp
      <4>2. job > 13
        BY <2>1, <4>1, AskKinds
      <4> QED BY <4>1, <4>2 DEF AsksOf
    <3> QED BY <2>1, <3>1 DEF AsksLater, AsksB, AsksC, Alphabet, Pinned
  <2> QED BY <1>7, <2>1, <2>2 DEF Fetch, BrokerHandles, CleanRequest, Returns
<1>8. ~(CallMockFails \/ EgressFails \/ EgressTimesOut \/ UpstreamFails \/ FetchRaises)
  BY <1>2 DEF CallMockFails, EgressFails, EgressTimesOut, UpstreamFails, FetchRaises
<1> QED BY <1>3, <1>4, <1>5, <1>6, <1>7, <1>8

\* The switches after a request.
LEMMA CleanSwitches ==
    ASSUME TypeOK, SwitchInv, CleanRequest
    PROVE  SwitchInv'
<1> DEFINE on == mock.toggles
<1>1. /\ job \in 1 .. 25 /\ op \in 1 .. Len(Script) /\ Len(Script) \in Nat /\ Op = Script[op] /\ Op \in AsksOf(job)
      /\ Shape(job, Script) /\ (Op.to # "mock" => Op.what \notin Toggles \cup {"reset"})
  BY CleanOp DEF CleanRequest
<1>2. job' = job /\ op' = op + 1 /\ Script' = Script
  BY DEF CleanRequest, Script
<1>3. mock.toggles' = IF Op.what = "reset" THEN {} ELSE on \cup ({Op.what} \cap Toggles)
  <2>1. mock \in Mocks
    BY Typed
  <2>2. CASE mock' = Handled(mock, Op.what)
    BY <2>1, <2>2, HandledExactly
  <2>3. CASE mock' = mock /\ (Op.to \in {"look", "decode", "broker"} \/ Op.what = "imds")
    <3>1. Op.what # "reset" /\ Op.what \notin Toggles
      BY <1>1, <2>3 DEF Toggles
    <3> QED BY <2>3, <3>1
  <2> QED BY <2>2, <2>3 DEF CleanRequest
<1>4. (Op.what = "reset" => op = 1) /\ (Op.what \in Toggles => Op.to = "mock" /\ (job <= 19 => Op.what = "poison"))
  BY <1>1 DEF Shape
<1>5. job <= 19 => mock.toggles' \subseteq {"poison"}
  BY <1>3, <1>4 DEF SwitchInv
<1>6. ASSUME Script[1] = To("mock", "poison") PROVE "poison" \in mock.toggles'
  <2>1. CASE op = 1
    <3>1. Op.what = "poison"
      BY <1>1, <1>6, <2>1 DEF To
    <3>2. "poison" \in Toggles /\ "poison" # "reset"
      BY DEF Toggles
    <3> QED BY <1>3, <3>1, <3>2
  <2>2. CASE op # 1
    BY <1>1, <1>3, <1>4, <1>6, <2>2 DEF SwitchInv
  <2> QED BY <2>1, <2>2
<1>7. ASSUME Script[1] = To("mock", "reset")
      PROVE  mock.toggles' = {Script[n].what : n \in 2 .. op} \cap Toggles
  <2>1. CASE op = 1
    <3>1. Op.what = "reset"
      BY <1>1, <1>7, <2>1 DEF To
    <3>2. 2 .. op = {}
      BY <2>1
    <3> QED BY <1>3, <3>1, <3>2
  <2>2. CASE op # 1
    <3>1. op > 1 /\ Op.what # "reset"
      BY <1>1, <1>4, <2>2
    <3>2. on = {Script[n].what : n \in 2 .. op - 1} \cap Toggles
      BY <1>7, <3>1 DEF SwitchInv
    <3>3. 2 .. op = (2 .. op - 1) \cup {op}
      BY <1>1, <3>1
    <3>4. {Script[n].what : n \in 2 .. op} = {Script[n].what : n \in 2 .. op - 1} \cup {Op.what}
      BY <1>1, <3>3
    <3> QED BY <1>3, <3>1, <3>2, <3>4
  <2> QED BY <2>1, <2>2
<1>8. op' - 1 = op
  BY <1>1, <1>2
<1> QED BY <1>2, <1>5, <1>6, <1>7, <1>8 DEF SwitchInv

\* What the look, and the covert channel of B, find in the receiver log.
LEMMA PinnedRecorded ==
    /\ Tokens \subseteq Recorded \ {"health", "imds"} /\ Alphabet \subseteq Recorded \ {"health", "imds"}
    /\ Tokens \cap Toggles = {}
  BY DEF Tokens, Recorded, Alphabet, Packages, Pinned, Pulls, Toggles

LEMMA SecretParts ==
    /\ Len(Secret) = 3 /\ DOMAIN Secret = 1 .. 3 /\ \A n \in 1 .. 3 : Secret[n] \in Alphabet
<1>1. Secret[1] \in Alphabet /\ Secret[2] \in Alphabet /\ Secret[3] \in Alphabet
      /\ Len(Secret) = 3 /\ DOMAIN Secret = 1 .. 3
  BY DEF Secret, Alphabet
<1> QED BY <1>1

\* The script of the nineteenth job.
LEMMA ChannelJob ==
    ASSUME job = 19
    PROVE  /\ Len(Script) = 5 /\ Script[1] = To("mock", "reset") /\ Script[5] = To("decode", "log")
           /\ \A i \in 2 .. 4 : Script[i] = To("measure", Secret[i - 1])
<1>1. Plan[19] = SuiteB[6]
  <2>1. 19 \in 14 .. 19 /\ 19 - 13 = 6
    OBVIOUS
  <2>2. Plan[19] = SuiteB[19 - 13]
    BY ONLY <2>1, PlanParts
  <2> QED BY ONLY <2>1, <2>2
<1>2. Script = Channel
  <2>1. SuiteB[6].script = Channel
    BY JobsOfB DEF Job
  <2> QED BY <1>1, <2>1 DEF Script
<1> QED BY <1>2, ChannelParts

\* A log that is the secret is read back as the secret.
LEMMA AllRecovered ==
    ASSUME mock \in Mocks, Len(mock.recv) = 3, \A n \in 1 .. 3 : mock.recv[n] = Secret[n]
    PROVE  Recovered = 3
<1>1. mock.recv \in Seq(Recorded) /\ DOMAIN mock.recv = 1 .. 3
  BY DEF Mocks
<1>2. ASSUME NEW p \in 1 .. 3 PROVE Cardinality(Symbols(p)) = p
  <2>1. Symbols(p) = 1 .. p
    BY SecretParts DEF Symbols
  <2>2. 1 \in Int /\ p \in Int /\ ~(1 > p) /\ (p - 1) + 1 = p
    BY <1>2
  <2>3. Cardinality(1 .. p) = p
    BY ONLY <2>2, FS_Interval
  <2> QED BY <2>1, <2>3
<1>3. {n \in DOMAIN Secret : \E p \in DOMAIN mock.recv : mock.recv[p] = Secret[n] /\ Cardinality(Symbols(p)) = n} = 1 .. 3
  BY <1>1, <1>2, SecretParts
<1>4. Cardinality(1 .. 3) = 3
  <2>1. 1 \in Int /\ 3 \in Int /\ ~(1 > 3) /\ (3 - 1) + 1 = 3
    OBVIOUS
  <2> QED BY ONLY <2>1, FS_Interval
<1> QED BY <1>3, <1>4 DEF Recovered

LEMMA CleanReceived ==
    ASSUME TypeOK, ReceivedInv, CleanRequest
    PROVE  ReceivedInv'
<1>1. /\ job \in 1 .. 25 /\ op \in 1 .. Len(Script) /\ Len(Script) \in Nat /\ Op = Script[op] /\ Op \in AsksOf(job)
      /\ Shape(job, Script)
  BY CleanOp DEF CleanRequest
<1>2. job' = job /\ op' = op + 1 /\ Script' = Script /\ mock \in Mocks /\ mock.recv \in Seq(Recorded)
  BY Typed DEF CleanRequest, Script, Mocks
<1>3. ASSUME op' = 2, Len(Script) = 2, Script[2].to = "look" PROVE Seen(Script[2].what)'
  <2>1. op = 1 /\ Script[1] = To("proxy", Script[2].what)
    BY <1>1, <1>2, <1>3 DEF Shape
  <2>2. Op.to = "proxy" /\ Op.what = Script[2].what
    BY <1>1, <2>1 DEF To
  <2>3. Op.what \in Tokens
    <3>1. job \in 1 .. 13
      <4>1. job \in 2 .. 13
        BY <1>1, <2>2, AskKinds
      <4> QED BY <4>1
    <3>2. Script \in Seq(AsksOfA(job))
      BY ONLY <3>1, PlanFacts DEF Script
    <3>3. Script[2] \in AsksOfA(job)
      BY <1>3, <3>2
    <3> QED BY <1>3, <2>2, <3>3 DEF AsksOfA, AsksA
  <2>4. mock' = Handled(mock, Op.what)
    BY <2>2, <2>3, PinnedRecorded DEF CleanRequest
  <2>5. mock'.recv = Append(mock.recv, Op.what)
    BY <1>2, <2>3, <2>4, HandledExactly, PinnedRecorded
  <2> DEFINE s == Append(mock.recv, Op.what)
             n == Len(mock.recv) + 1
  <2>6. n \in DOMAIN s /\ s[n] = Op.what
    BY <1>2, <2>3, PinnedRecorded, AppendGrows
  <2>7. mock.recv' = s
    BY <2>5
  <2> HIDE DEF s, n
  <2>8. n \in DOMAIN mock.recv' /\ mock.recv'[n] = Script[2].what
    BY <2>2, <2>6, <2>7
  <2> QED BY <1>2, <2>8 DEF Seen
<1>4. ASSUME job = 19
      PROVE  /\ op' \in 2 .. 5 => Len(mock.recv') = op' - 2 /\ \A n \in 1 .. op' - 2 : mock.recv'[n] = Secret[n]
             /\ op' = 6 => recovered' = 3
  <2>1. /\ Len(Script) = 5 /\ Script[1] = To("mock", "reset") /\ Script[5] = To("decode", "log")
        /\ \A i \in 2 .. 4 : Script[i] = To("measure", Secret[i - 1])
    BY <1>4, ChannelJob
  <2>2. CASE op = 1
    <3>1. Op.what = "reset" /\ Op.to = "mock"
      BY <1>1, <2>1, <2>2 DEF To
    <3>2. mock' = Handled(mock, "reset")
      BY <3>1 DEF CleanRequest
    <3>3. mock.recv' = <<>>
      BY <1>2, <3>2, HandledExactly
    <3>4. Len(mock.recv') = 0
      BY <3>3
    <3> QED BY <1>2, <2>2, <3>4
  <2>3. CASE op \in 2 .. 4
    <3>1. Op.what = Secret[op - 1] /\ Op.to = "measure" /\ Op.what \in Alphabet
      <4>1. op - 1 \in 1 .. 3
        BY <2>3
      <4> QED BY <1>1, <2>1, <2>3, <4>1, SecretParts DEF To
    <3>2. mock' = Handled(mock, Op.what)
      BY <3>1, PinnedRecorded DEF CleanRequest
    <3>3. mock.recv' = Append(mock.recv, Op.what)
      BY <1>2, <3>1, <3>2, HandledExactly, PinnedRecorded
    <3>4. Len(mock.recv) = op - 2 /\ \A n \in 1 .. op - 2 : mock.recv[n] = Secret[n]
      BY <1>4, <2>3 DEF ReceivedInv
    <3> DEFINE s == Append(mock.recv, Op.what)
    <3>5. Len(s) = op - 1 /\ s[op - 1] = Op.what /\ \A n \in 1 .. op - 2 : s[n] = Secret[n]
      <4>1. mock.recv \in Seq(Recorded) /\ Op.what \in Recorded
        BY <1>2, <3>1, PinnedRecorded
      <4>2. /\ Len(s) = Len(mock.recv) + 1 /\ s[Len(mock.recv) + 1] = Op.what
            /\ \A i \in 1 .. Len(mock.recv) : s[i] = mock.recv[i]
        BY <4>1, AppendGrows
      <4> HIDE DEF s
      <4>3. Len(mock.recv) + 1 = op - 1
        BY <2>3, <3>4
      <4> QED BY <3>4, <4>2, <4>3
    <3>6. mock.recv' = s
      BY <3>3
    <3> HIDE DEF s
    <3>7. op' - 2 = op - 1 /\ op' # 6
      BY <1>2, <2>3
    <3>8. \A n \in 1 .. op - 1 : n \in 1 .. op - 2 \/ n = op - 1
      BY <2>3
    <3> QED BY <3>1, <3>5, <3>6, <3>7, <3>8
  <2>4. CASE op = 5
    <3>1. Op.to = "decode"
      BY <1>1, <2>1, <2>4 DEF To
    <3>2. Len(mock.recv) = op - 2 /\ \A n \in 1 .. op - 2 : mock.recv[n] = Secret[n]
      BY <1>4, <2>4 DEF ReceivedInv
    <3>3. Len(mock.recv) = 3 /\ \A n \in 1 .. 3 : mock.recv[n] = Secret[n]
      BY <2>4, <3>2
    <3>4. Recovered = 3
      BY <1>2, <3>3, AllRecovered
    <3> QED BY <1>2, <2>4, <3>1, <3>4 DEF CleanRequest
  <2> QED BY <1>1, <2>1, <2>2, <2>3, <2>4
<1>5. job > 19 => recovered' = 3
  <2>1. job > 19 => Op.to # "decode"
    BY <1>1 DEF Shape
  <2> QED BY <2>1 DEF CleanRequest, ReceivedInv
<1> QED BY <1>2, <1>3, <1>4, <1>5 DEF ReceivedInv

\* Every request is answered as it should be.
LEMMA CleanReplies ==
    ASSUME TypeOK, MockInv, SwitchInv, ReceivedInv, RightInv, CleanRequest
    PROVE  Reply(Op) \in Right(job, Op)
<1>1. /\ job \in 1 .. 25 /\ op \in 1 .. Len(Script) /\ Len(Script) \in Nat /\ Op = Script[op] /\ Op \in AsksOf(job)
      /\ Shape(job, Script) /\ Op.to \in {"mock", "look", "decode", "proxy", "broker", "measure", "fresh"}
  BY CleanOp DEF CleanRequest
<1>2. mock \in Mocks
  BY Typed
<1>3. CASE Op.to \in {"mock", "decode"}
  BY <1>3 DEF Reply, Right
<1>4. CASE Op.to = "look"
  <2>1. op = 2 /\ Len(Script) = 2 /\ Script[2] = Op
    BY <1>1, <1>4 DEF Shape
  <2>2. Seen(Op.what)
    BY <1>4, <2>1 DEF ReceivedInv
  <2> QED BY <1>4, <2>2 DEF Reply, Right
<1>5. CASE Op.to = "proxy"
  <2>1. job <= 19 /\ mock.toggles \subseteq {"poison"}
    <3>1. job \in 2 .. 13
      BY <1>1, <1>5, AskKinds
    <3> QED BY <3>1 DEF SwitchInv
  <2>2. Body(mock, Op.what) = IF Op.what \in Packages /\ "poison" \in mock.toggles THEN "tampered" ELSE "genuine"
    BY <2>1 DEF Body
  <2>3. CASE Op.what = "imds"
    BY <1>5, <2>3 DEF Reply, Right
  <2>4. CASE Op.what = "requests"
    <3>1. op = 2 /\ Script[1] = To("mock", "poison")
      BY <1>1, <1>5, <2>4 DEF Shape
    <3>2. "poison" \in mock.toggles
      BY <3>1 DEF SwitchInv
    <3>3. Op.what \in Packages
      BY <2>4 DEF Packages, Pinned
    <3> QED BY <1>5, <2>2, <2>4, <3>2, <3>3 DEF Reply, Right
  <2>5. CASE Op.what \notin {"imds", "requests"}
    BY <1>5, <2>2, <2>5 DEF Reply, Right
  <2> QED BY <2>3, <2>4, <2>5
<1>6. CASE Op.to = "broker"
  <2>1. Op.what \in {"malformed", "requests", "junit"} /\ job <= 19
    BY <1>1, <1>6, AskKinds DEF Shape
  <2>2. Reply(Op) = BrokerVerdict(Op.what, Body(mock, Op.what))
    BY <1>6 DEF Reply
  <2>3. CASE Op.what = "requests"
    <3>1. op = 2 /\ Script[1] = To("mock", "poison")
      BY <1>1, <1>6, <2>3 DEF Shape
    <3>2. mock.toggles = {"poison"}
      BY <2>1, <3>1 DEF SwitchInv
    <3>3. Body(mock, "requests") = "tampered"
      BY <3>2 DEF Body, Packages, Pinned
    <3>4. BrokerVerdict("requests", "tampered") = "digest_mismatch"
      BY DEF BrokerVerdict, Pinned
    <3> QED BY <1>6, <2>2, <2>3, <3>3, <3>4 DEF Right
  <2>4. CASE Op.what \in {"malformed", "junit"}
    <3>1. \A b : BrokerVerdict("malformed", b) = "grammar_violation" /\ BrokerVerdict("junit", b) = "lockfile_miss"
      BY DEF BrokerVerdict, Pinned
    <3> QED BY <1>6, <2>2, <2>4, <3>1 DEF Right
  <2> QED BY <2>1, <2>3, <2>4
<1>7. CASE Op.to = "measure"
  <2>1. Right(job, Op) = Verdicts /\ Reply(Op) = BrokerVerdict(Op.what, Body(mock, Op.what))
    BY <1>7 DEF Right, Reply
  <2> QED BY <2>1, BrokerVerdictFacts
<1>8. CASE Op.to = "fresh"
  <2> DEFINE on == mock.toggles
  <2>1. /\ job \in 20 .. 25 /\ Script[1] = To("mock", "reset") /\ Op.what \in Pinned
        /\ job = 20 => op = 3 /\ Script[2] = To("mock", "redirect_pkg")
        /\ job = 21 => op = 3 /\ Script[2] = To("mock", "oversize_pkg")
        /\ job = 23 => op = 3 /\ Script[2] = To("mock", "poison")
        /\ job \notin {20, 21, 23} => op = 2
    BY <1>1, <1>8 DEF Shape
  <2>2. Reply(Op) = BrokerVerdict(Op.what, Body(mock, Op.what))
    BY <1>8 DEF Reply
  <2>3. op > 1 /\ on = {Script[n].what : n \in 2 .. op - 1} \cap Toggles
    <3>1. op > 1
      BY <2>1
    <3> QED BY <2>1, <3>1 DEF SwitchInv
  <2>4. ASSUME op = 3 PROVE on = {Script[2].what} \cap Toggles
    <3>1. 2 .. op - 1 = {2}
      BY <2>4
    <3> QED BY <2>3, <3>1
  <2>5. ASSUME op = 2 PROVE on = {}
    <3>1. 2 .. op - 1 = {}
      BY <2>5
    <3> QED BY <2>3, <3>1
  <2>6. Op.what \in Packages /\ Op.what # "malformed"
    BY <2>1 DEF Packages, Pinned
  <2>7. CASE job = 20 \/ job = 21
    <3>1. on = {"redirect_pkg"} \/ on = {"oversize_pkg"}
      <4>1. op = 3 /\ (Script[2].what = "redirect_pkg" \/ Script[2].what = "oversize_pkg")
        BY <2>1, <2>7 DEF To
      <4>2. {"redirect_pkg"} \cap Toggles = {"redirect_pkg"} /\ {"oversize_pkg"} \cap Toggles = {"oversize_pkg"}
        BY DEF Toggles
      <4> QED BY <2>4, <4>1, <4>2
    <3>2. Body(mock, Op.what) \in {"redirected", "oversize"}
      BY <2>6, <3>1 DEF Body
    <3>3. BrokerVerdict(Op.what, Body(mock, Op.what)) = "upstream_fail_closed"
      BY <2>1, <2>6, <3>2 DEF BrokerVerdict
    <3> QED BY <1>8, <2>2, <2>7, <3>3 DEF Right
  <2>8. CASE job = 23
    <3>1. on = {"poison"}
      <4>1. op = 3 /\ Script[2].what = "poison"
        BY <2>1, <2>8 DEF To
      <4>2. {"poison"} \cap Toggles = {"poison"}
        BY DEF Toggles
      <4> QED BY <2>4, <4>1, <4>2
    <3>2. Body(mock, Op.what) = "tampered"
      BY <2>6, <3>1 DEF Body
    <3>3. BrokerVerdict(Op.what, Body(mock, Op.what)) = "digest_mismatch"
      BY <2>1, <2>6, <3>2 DEF BrokerVerdict
    <3> QED BY <1>8, <2>2, <2>8, <3>3 DEF Right
  <2>9. CASE job \notin {20, 21, 23}
    <3>1. on = {}
      BY <2>1, <2>5, <2>9
    <3>2. Body(mock, Op.what) = "genuine"
      BY <3>1 DEF Body
    <3>3. BrokerVerdict(Op.what, Body(mock, Op.what)) = "served"
      BY <2>1, <2>6, <3>2 DEF BrokerVerdict
    <3> QED BY <1>8, <2>2, <2>9, <3>3 DEF Right
  <2> QED BY <2>7, <2>8, <2>9
<1> QED BY <1>1, <1>3, <1>4, <1>5, <1>6, <1>7, <1>8

\* What the right answers are, by whom is asked.
LEMMA RightOf == \A n, o :
    /\ o.to \in {"mock", "look", "decode"} => Right(n, o) = {"ok"}
    /\ o.to = "proxy" => Right(n, o) = (IF o.what = "imds" THEN {"denied"}
                                       ELSE IF o.what = "requests" THEN {"tampered"} ELSE {"genuine", "tampered"})
    /\ o.to = "broker" => Right(n, o) = (IF o.what = "malformed" THEN {"grammar_violation"}
                                        ELSE IF o.what = "requests" THEN {"digest_mismatch"} ELSE {"lockfile_miss"})
    /\ o.to = "measure" => Right(n, o) = Verdicts
    /\ o.to = "fresh" => Right(n, o) = (IF n \in {20, 21} THEN {"upstream_fail_closed"}
                                       ELSE IF n = 23 THEN {"digest_mismatch"} ELSE {"served"})
<1>1. ASSUME NEW n, NEW o, o.to \in {"mock", "look", "decode"} PROVE Right(n, o) = {"ok"}
  BY <1>1 DEF Right
<1>2. ASSUME NEW n, NEW o, o.to = "proxy"
      PROVE  Right(n, o) = (IF o.what = "imds" THEN {"denied"}
                            ELSE IF o.what = "requests" THEN {"tampered"} ELSE {"genuine", "tampered"})
  BY <1>2 DEF Right
<1>3. ASSUME NEW n, NEW o, o.to = "broker"
      PROVE  Right(n, o) = (IF o.what = "malformed" THEN {"grammar_violation"}
                            ELSE IF o.what = "requests" THEN {"digest_mismatch"} ELSE {"lockfile_miss"})
  BY <1>3 DEF Right
<1>4. ASSUME NEW n, NEW o, o.to = "measure" PROVE Right(n, o) = Verdicts
  BY <1>4 DEF Right
<1>5. ASSUME NEW n, NEW o, o.to = "fresh"
      PROVE  Right(n, o) = (IF n \in {20, 21} THEN {"upstream_fail_closed"}
                            ELSE IF n = 23 THEN {"digest_mismatch"} ELSE {"served"})
  BY <1>5 DEF Right
<1> QED BY <1>1, <1>2, <1>3, <1>4, <1>5

\* The answers that are right are answers, and none is an exception.
LEMMA RightAnswers == \A n, o : o.to \in {"mock", "look", "decode", "proxy", "broker", "measure", "fresh"} =>
    Right(n, o) \subseteq Answers \ {"error", "no", "redirected"}
<1>1. Verdicts \cap {"error", "no", "redirected"} = {} /\ Verdicts \subseteq Answers
  BY DEF Verdicts, Answers
<1>2. {"ok", "denied", "tampered", "genuine"} \cup Verdicts \subseteq Answers
  BY DEF Answers, Bodies, Verdicts
<1>3. \A n, o : o.to \in {"mock", "look", "decode", "proxy", "broker", "measure", "fresh"} =>
          Right(n, o) \subseteq {"ok", "denied", "tampered", "genuine"} \cup Verdicts
  BY DEF Right, Verdicts
<1> QED BY <1>1, <1>2, <1>3

LEMMA CleanAnswers ==
    ASSUME TypeOK, MockInv, SwitchInv, ReceivedInv, RightInv, CleanRequest
    PROVE  RightInv'
<1>1. /\ job \in 1 .. 25 /\ op \in 1 .. Len(Script) /\ Len(Script) \in Nat /\ Op = Script[op]
      /\ Op.to \in {"mock", "look", "decode", "proxy", "broker", "measure", "fresh"}
  BY CleanOp DEF CleanRequest
<1>2. job' = job /\ op' = op + 1 /\ Script' = Script /\ answers \in Seq(Answers) /\ answers' = Append(answers, Reply(Op))
  BY Typed DEF CleanRequest, Script
<1>3. Reply(Op) \in Right(job, Op) /\ Reply(Op) \in Answers
  BY <1>1, CleanReplies, RightAnswers
<1>4. Len(answers) = op - 1 /\ \A n \in 1 .. op - 1 : answers[n] \in Right(job, Script[n])
  BY <1>1 DEF RightInv
<1> DEFINE a == Reply(Op)
           s == Append(answers, a)
<1>5. Len(s) = Len(answers) + 1 /\ s[Len(answers) + 1] = a /\ \A i \in 1 .. Len(answers) : s[i] = answers[i]
  BY <1>2, <1>3, AppendGrows
<1>6. answers' = s
  BY <1>2
<1> HIDE DEF s
<1>7. ASSUME NEW n \in 1 .. op PROVE s[n] \in Right(job, Script[n])
  <2>1. CASE n = op
    BY <1>1, <1>3, <1>4, <1>5, <2>1
  <2>2. CASE n # op
    <3>1. n \in 1 .. op - 1
      BY <1>1, <2>2
    <3> QED BY <1>4, <1>5, <3>1
  <2> QED BY <2>1, <2>2
<1> QED BY <1>1, <1>2, <1>4, <1>5, <1>6, <1>7 DEF RightInv

\* The scripts that leave the evidence.
LEMMA EvidenceJobs ==
    /\ job = 16 => Len(Script) = 3 /\ \A i \in 1 .. 3 : Script[i] = To("broker", "malformed")
    /\ job = 17 => Len(Script) = 2 /\ Script[1].to = "mock" /\ Script[2] = To("broker", "requests")
    /\ job = 18 => Len(Script) = 1 /\ Script[1] = To("broker", "junit")
<1>1. Plan[16] = SuiteB[3] /\ Plan[17] = SuiteB[4] /\ Plan[18] = SuiteB[5]
  <2>1. \A n \in 14 .. 19 : Plan[n] = SuiteB[n - 13]
    BY PlanParts
  <2> QED BY ONLY <2>1
<1>2. /\ SuiteB[3].script = <<To("broker", "malformed"), To("broker", "malformed"), To("broker", "malformed")>>
      /\ SuiteB[4].script = <<To("mock", "poison"), To("broker", "requests")>>
      /\ SuiteB[5].script = <<To("broker", "junit")>>
  BY JobsOfB DEF Job
<1>3. job = 16 => Script = <<To("broker", "malformed"), To("broker", "malformed"), To("broker", "malformed")>>
  BY <1>1, <1>2 DEF Script
<1>4. job = 17 => Script = <<To("mock", "poison"), To("broker", "requests")>>
  BY <1>1, <1>2 DEF Script
<1>5. job = 18 => Script = <<To("broker", "junit")>>
  BY <1>1, <1>2 DEF Script
<1>6. job = 16 => Len(Script) = 3 /\ \A i \in 1 .. 3 : Script[i] = To("broker", "malformed")
  <2> HIDE DEF To
  <2> QED BY ONLY <1>3
<1>7. job = 17 => Len(Script) = 2 /\ Script[1].to = "mock" /\ Script[2] = To("broker", "requests")
  BY <1>4 DEF To
<1> QED BY <1>5, <1>6, <1>7

\* A verdict more is counted.
LEMMA CountGrows ==
    ASSUME TypeOK, NEW v
    PROVE  /\ Count(v) \in Nat
           /\ \A e \in Verdicts : transcript' = Append(transcript, e) => Count(v)' = Count(v) + (IF e = v THEN 1 ELSE 0)
           /\ transcript' = transcript => Count(v)' = Count(v)
<1>1. transcript \in Seq(Verdicts)
  BY Typed
<1>2. Count(v) = Cardinality(Matching(transcript, {v})) /\ Count(v)' = Cardinality(Matching(transcript', {v}))
  <2>1. Matching(transcript, {v}) = {n \in DOMAIN transcript : transcript[n] = v}
    BY DEF Matching
  <2>2. Matching(transcript', {v}) = {n \in DOMAIN transcript' : transcript'[n] = v}
    BY DEF Matching
  <2> QED BY <2>1, <2>2 DEF Count
<1>3. Count(v) \in Nat
  BY <1>1, <1>2, MatchingFinite
<1>4. ASSUME NEW e \in Verdicts, transcript' = Append(transcript, e)
      PROVE  Count(v)' = Count(v) + (IF e = v THEN 1 ELSE 0)
  <2>1. /\ Cardinality(Matching(Append(transcript, e), {v}))
           = Cardinality(Matching(transcript, {v})) + (IF e \in {v} THEN 1 ELSE 0)
    BY <1>1, MatchingAppend
  <2> QED BY <1>2, <1>4, <2>1
<1> QED BY <1>2, <1>3, <1>4

LEMMA CleanEvidence ==
    ASSUME TypeOK, MockInv, SwitchInv, ReceivedInv, RightInv, EvidenceInv, CleanRequest
    PROVE  EvidenceInv'
<1>1. /\ job \in 1 .. 25 /\ op \in 1 .. Len(Script) /\ Len(Script) \in Nat /\ Op = Script[op]
      /\ Op.to \in {"mock", "look", "decode", "proxy", "broker", "measure", "fresh"}
  BY CleanOp DEF CleanRequest
<1>2. job' = job /\ op' = op + 1
  BY DEF CleanRequest
<1>3. Reply(Op) \in Right(job, Op) /\ Reply(Op) \in Answers
  BY <1>1, CleanReplies, RightAnswers
<1>4. Op.to = "broker" => /\ transcript' = Append(transcript, Reply(Op)) /\ Reply(Op) \in Verdicts
                          /\ Op.what = "malformed" => Reply(Op) = "grammar_violation"
                          /\ Op.what = "requests" => Reply(Op) = "digest_mismatch"
                          /\ Op.what = "junit" => Reply(Op) = "lockfile_miss"
  BY <1>3 DEF CleanRequest, Right, Verdicts
<1>5. ASSUME NEW v PROVE /\ Count(v) \in Nat /\ Count(v)' \in Nat /\ Count(v)' >= Count(v)
                         /\ Op.to = "broker" /\ Reply(Op) = v => Count(v)' = Count(v) + 1
  <2>1. CASE Op.to = "broker"
    <3>1. Count(v) \in Nat /\ Count(v)' = Count(v) + (IF Reply(Op) = v THEN 1 ELSE 0)
      BY <1>4, <2>1, CountGrows
    <3> QED BY <3>1
  <2>2. CASE Op.to # "broker"
    <3>1. transcript' = transcript
      BY <2>2 DEF CleanRequest
    <3>2. Count(v) \in Nat /\ Count(v)' = Count(v)
      BY <3>1, CountGrows
    <3> QED BY <2>2, <3>2
  <2> QED BY <2>1, <2>2
<1>6. job = 16 => Count("grammar_violation")' >= op
  <2>1. SUFFICES ASSUME job = 16 PROVE Count("grammar_violation")' >= op
    OBVIOUS
  <2>2. Op.to = "broker" /\ Op.what = "malformed"
    <3>1. Len(Script) = 3 /\ \A i \in 1 .. 3 : Script[i] = To("broker", "malformed")
      BY <2>1, EvidenceJobs
    <3>2. Op = To("broker", "malformed")
      BY ONLY <1>1, <3>1
    <3> QED BY <3>2 DEF To
  <2>3. Count("grammar_violation") >= op - 1
    BY <1>1, <2>1 DEF EvidenceInv
  <2>4. Count("grammar_violation")' = Count("grammar_violation") + 1 /\ Count("grammar_violation") \in Nat
    BY <1>4, <1>5, <2>2
  <2> QED BY <1>1, <2>3, <2>4
<1>7. job = 17 /\ op' = 3 => Count("digest_mismatch")' >= 1
  <2>1. SUFFICES ASSUME job = 17, op' = 3 PROVE Count("digest_mismatch")' >= 1
    OBVIOUS
  <2>2. Op.to = "broker" /\ Op.what = "requests"
    BY <1>1, <1>2, <2>1, EvidenceJobs DEF To
  <2>3. Count("digest_mismatch")' = Count("digest_mismatch") + 1 /\ Count("digest_mismatch") \in Nat
    BY <1>4, <1>5, <2>2
  <2> QED BY <2>3
<1>8. job = 18 /\ op' = 2 => Count("lockfile_miss")' >= 1
  <2>1. SUFFICES ASSUME job = 18, op' = 2 PROVE Count("lockfile_miss")' >= 1
    OBVIOUS
  <2>2. Op.to = "broker" /\ Op.what = "junit"
    BY <1>1, <1>2, <2>1, EvidenceJobs DEF To
  <2>3. Count("lockfile_miss")' = Count("lockfile_miss") + 1 /\ Count("lockfile_miss") \in Nat
    BY <1>4, <1>5, <2>2
  <2> QED BY <2>3
<1>9. /\ job > 16 => Count("grammar_violation")' >= 3
      /\ job > 17 => Count("digest_mismatch")' >= 1
      /\ job > 18 => Count("lockfile_miss")' >= 1
  <2>1. /\ job > 16 => Count("grammar_violation") >= 3
        /\ job > 17 => Count("digest_mismatch") >= 1
        /\ job > 18 => Count("lockfile_miss") >= 1
    BY DEF EvidenceInv
  <2> QED BY <1>5, <2>1
<1>10. op' - 1 = op
  BY <1>1, <1>2
<1> QED BY <1>2, <1>6, <1>7, <1>8, <1>9, <1>10 DEF EvidenceInv

\* The requests through the proxy among the first k of a job's.
LEMMA ProxiedGrows ==
    ASSUME NEW n \in 1 .. 25, NEW k \in 1 .. Len(Plan[n].script), Len(Plan[n].script) \in Nat
    PROVE  /\ Cardinality(Proxied(n) \cap 1 .. k - 1) \in Nat
           /\ Cardinality(Proxied(n) \cap 1 .. k) =
                Cardinality(Proxied(n) \cap 1 .. k - 1) + (IF Plan[n].script[k].to = "proxy" THEN 1 ELSE 0)
<1> DEFINE S == Proxied(n) \cap 1 .. k - 1
<1>1. k - 1 \in Nat /\ k \in DOMAIN Plan[n].script /\ (k - 1) + 1 = k
  <2>1. n \in 1 .. 13 \/ n \in 14 .. 25
    OBVIOUS
  <2>2. Plan[n].script \in Seq(AsksOfA(n)) \/ Plan[n].script \in Seq(AsksLater)
    BY ONLY <2>1, PlanFacts
  <2> QED BY <2>2
<1>2. Cardinality(S) \in Nat /\ Cardinality(S \cup {k}) = Cardinality(S) + 1
  <2>1. S \in SUBSET (1 .. k - 1)
    OBVIOUS
  <2> HIDE DEF S
  <2>2. Cardinality(S) \in Nat /\ Cardinality(S \cup {(k - 1) + 1}) = Cardinality(S) + 1
    BY ONLY <1>1, <2>1, CountIndexes
  <2> QED BY ONLY <1>1, <2>2
<1> DEFINE T == Proxied(n) \cap 1 .. k
<1>3. /\ Plan[n].script[k].to = "proxy" => T = S \cup {k}
      /\ Plan[n].script[k].to # "proxy" => T = S
  BY <1>1 DEF Proxied
<1>4. S = Proxied(n) \cap 1 .. k - 1 /\ T = Proxied(n) \cap 1 .. k
  OBVIOUS
<1> HIDE DEF S, T
<1>5. /\ Plan[n].script[k].to = "proxy" => Cardinality(T) = Cardinality(S \cup {k})
      /\ Plan[n].script[k].to # "proxy" => Cardinality(T) = Cardinality(S)
  BY ONLY <1>3, Zenon
<1>6. Cardinality(T) = Cardinality(S) + (IF Plan[n].script[k].to = "proxy" THEN 1 ELSE 0)
  BY ONLY <1>2, <1>5
<1> QED BY ONLY <1>2, <1>4, <1>6, Zenon

LEMMA CleanLines ==
    ASSUME TypeOK, OwnLinesInv, CleanRequest
    PROVE  OwnLinesInv'
<1>1. /\ job \in 1 .. 25 /\ op \in 1 .. Len(Script) /\ Len(Script) \in Nat /\ Op = Script[op]
      /\ Shape(job, Script)
  BY CleanOp DEF CleanRequest
<1>2. job' = job /\ op' = op + 1 /\ before' = before
  BY DEF CleanRequest
<1>3. /\ Len(policyLog) - before = Cardinality(Proxied(job) \cap 1 .. op - 1)
      /\ \A l \in before + 1 .. Len(policyLog) : policyLog[l] = "violation" <=> job = 9
      /\ Len(policyLog) \in Nat /\ before \in Nat /\ before <= Len(policyLog)
      /\ policyLog \in Seq({"in_policy", "violation"})
  BY <1>1, Typed DEF OwnLinesInv
<1>4. /\ Cardinality(Proxied(job) \cap 1 .. op - 1) \in Nat
      /\ Cardinality(Proxied(job) \cap 1 .. op) =
                Cardinality(Proxied(job) \cap 1 .. op - 1) + (IF Op.to = "proxy" THEN 1 ELSE 0)
  BY <1>1, ProxiedGrows DEF Script
<1>5. op' - 1 = op
  BY <1>1, <1>2
<1>6. CASE Op.to = "proxy"
  <2> DEFINE v == Verdict(Op.what)
             s == Append(policyLog, v)
  <2>1. v \in {"in_policy", "violation"} /\ (v = "violation" <=> job = 9)
    <3>1. Op.what = "imds" <=> job = 9
      BY <1>1, <1>6 DEF Shape
    <3> QED BY <3>1 DEF Verdict
  <2>2. Len(s) = Len(policyLog) + 1 /\ s[Len(policyLog) + 1] = v /\ \A i \in 1 .. Len(policyLog) : s[i] = policyLog[i]
    BY <1>3, <2>1, AppendGrows
  <2>3. policyLog' = s
    BY <1>6 DEF CleanRequest
  <2> HIDE DEF s, v
  <2>4. Len(policyLog') - before = Cardinality(Proxied(job) \cap 1 .. op)
    BY <1>3, <1>4, <1>6, <2>2, <2>3
  <2>5. ASSUME NEW l \in before + 1 .. Len(policyLog') PROVE policyLog'[l] = "violation" <=> job = 9
    <3>1. l = Len(policyLog) + 1 \/ (l \in 1 .. Len(policyLog) /\ l \in before + 1 .. Len(policyLog))
      BY <1>3, <2>2, <2>3
    <3> QED BY <1>3, <2>1, <2>2, <2>3, <3>1
  <2> QED BY <1>2, <1>5, <2>4, <2>5 DEF OwnLinesInv, Proxied
<1>7. CASE Op.to # "proxy"
  <2>1. policyLog' = policyLog
    BY <1>7 DEF CleanRequest
  <2>2. Len(policyLog') - before = Cardinality(Proxied(job) \cap 1 .. op)
    BY <1>3, <1>4, <1>7, <2>1
  <2> QED BY <1>2, <1>3, <1>5, <2>1, <2>2 DEF OwnLinesInv, Proxied
<1> QED BY <1>6, <1>7

\* The suite a job belongs to.
LEMMA Suites ==
    /\ \A n \in 1 .. 13 : Plan[n].suite = "A"
    /\ \A n \in 14 .. 19 : Plan[n].suite = "B"
    /\ \A n \in 20 .. 25 : Plan[n].suite = "checks"
<1>1. \A n \in 1 .. 13 : Plan[n].suite = "A"
  BY PlanFacts
<1>2. ASSUME NEW n \in 14 .. 19 PROVE Plan[n].suite = "B"
  <2>1. n - 13 \in 1 .. 6 /\ Plan[n] = SuiteB[n - 13]
    BY PlanParts
  <2> QED BY ONLY <2>1, ScriptsOfB
<1>3. ASSUME NEW n \in 20 .. 25 PROVE Plan[n].suite = "checks"
  <2>1. n - 19 \in 1 .. 6 /\ Plan[n] = Checks[n - 19]
    BY PlanParts
  <2> QED BY ONLY <2>1, ScriptsOfChecks
<1> QED BY <1>1, <1>2, <1>3

\* The last request of a structural check is the one it is about.
LEMMA LastOfChecks == \A n \in 20 .. 24 : Len(Plan[n].script) >= 1 /\ Plan[n].script[Len(Plan[n].script)].to = "fresh"
<1>1. /\ Checks[1].script = <<To("mock", "reset"), To("mock", "redirect_pkg"), To("fresh", "requests")>>
      /\ Checks[2].script = <<To("mock", "reset"), To("mock", "oversize_pkg"), To("fresh", "urllib3")>>
      /\ Checks[3].script = <<To("mock", "reset"), To("fresh", "numpy")>>
      /\ Checks[4].script = <<To("mock", "reset"), To("mock", "poison"), To("fresh", "click")>>
      /\ Checks[5].script = <<To("mock", "reset"), To("fresh", "requests")>>
  BY JobsOfChecks DEF Job
<1>2. \A n \in 1 .. 5 : Len(Checks[n].script) >= 1 /\ Checks[n].script[Len(Checks[n].script)].to = "fresh"
  <2> DEFINE P(n) == Len(Checks[n].script) >= 1 /\ Checks[n].script[Len(Checks[n].script)].to = "fresh"
  <2>1. P(1) /\ P(2) /\ P(3) /\ P(4) /\ P(5)
    BY <1>1 DEF To
  <2>2. \A n \in 1 .. 5 : n = 1 \/ n = 2 \/ n = 3 \/ n = 4 \/ n = 5
    OBVIOUS
  <2> HIDE DEF P
  <2>3. \A n \in 1 .. 5 : P(n)
    BY <2>1, <2>2
  <2> QED BY <2>3 DEF P
<1>3. ASSUME NEW n \in 20 .. 24 PROVE Plan[n] = Checks[n - 19] /\ n - 19 \in 1 .. 5
  BY PlanParts
<1> QED BY <1>2, <1>3

\* What the jobs are called and are expected to come out with.
LEMMA Declared ==
    /\ \A n \in {1, 14, 25} : Plan[n].id = "setup" /\ Plan[n].expected = "none"
    /\ \A n \in 2 .. 13 : /\ Plan[n].expected = (IF n = 9 THEN "VIOLATION_BLOCKED" ELSE "SUCCESS")
                          /\ Plan[n].id # "setup" /\ (Plan[n].id = "metadata_service" <=> n = 9)
                          /\ (Plan[n].id = "poisoned_artifact" <=> n = 10)
    /\ \A n \in 15 .. 18 : Plan[n].expected = "BLOCKED" /\ Plan[n].id \notin {"setup", "covert_channel"}
    /\ Plan[19].expected = "PARTIAL" /\ Plan[19].id = "covert_channel"
    /\ \A n \in 20 .. 24 : Plan[n].expected = "passed" /\ Plan[n].id # "setup"
    /\ Plan[20].id = "no_redirect_followed" /\ Plan[21].id = "oversize_fail_closed" /\ Plan[23].id = "digest_pin_holds"
    /\ Plan[22].id = "no_upstream_headers" /\ Plan[24].id = "legit_fetch"
<1>1. /\ SuiteA[1].id = "setup" /\ SuiteA[1].expected = "none"
      /\ SuiteA[2].id = "recon" /\ SuiteA[3].id = "dropper" /\ SuiteA[4].id = "canary_exfil"
      /\ SuiteA[5].id = "c2_heartbeat" /\ SuiteA[6].id = "redirect_abuse" /\ SuiteA[7].id = "smuggle_grammar"
      /\ SuiteA[8].id = "upload_put" /\ SuiteA[9].id = "metadata_service" /\ SuiteA[10].id = "poisoned_artifact"
      /\ SuiteA[11].id = "lockfile_miss" /\ SuiteA[12].id = "covert_channel" /\ SuiteA[13].id = "persistence_restart"
  BY JobsOfA DEF Job
<1>2. /\ SuiteA[2].expected = "SUCCESS" /\ SuiteA[3].expected = "SUCCESS" /\ SuiteA[4].expected = "SUCCESS"
      /\ SuiteA[5].expected = "SUCCESS" /\ SuiteA[6].expected = "SUCCESS" /\ SuiteA[7].expected = "SUCCESS"
      /\ SuiteA[8].expected = "SUCCESS" /\ SuiteA[9].expected = "VIOLATION_BLOCKED" /\ SuiteA[10].expected = "SUCCESS"
      /\ SuiteA[11].expected = "SUCCESS" /\ SuiteA[12].expected = "SUCCESS" /\ SuiteA[13].expected = "SUCCESS"
  BY JobsOfA DEF Job
<1>3. /\ SuiteB[1].id = "setup" /\ SuiteB[2].id = "no_egress" /\ SuiteB[3].id = "smuggle_grammar"
      /\ SuiteB[4].id = "poisoned_artifact" /\ SuiteB[5].id = "lockfile_miss" /\ SuiteB[6].id = "covert_channel"
      /\ SuiteB[1].expected = "none" /\ SuiteB[2].expected = "BLOCKED" /\ SuiteB[3].expected = "BLOCKED"
      /\ SuiteB[4].expected = "BLOCKED" /\ SuiteB[5].expected = "BLOCKED" /\ SuiteB[6].expected = "PARTIAL"
  BY JobsOfB DEF Job
<1>4. /\ Checks[1].id = "no_redirect_followed" /\ Checks[2].id = "oversize_fail_closed"
      /\ Checks[3].id = "no_upstream_headers" /\ Checks[4].id = "digest_pin_holds"
      /\ Checks[5].id = "legit_fetch" /\ Checks[6].id = "setup"
      /\ Checks[1].expected = "passed" /\ Checks[2].expected = "passed" /\ Checks[3].expected = "passed"
      /\ Checks[4].expected = "passed" /\ Checks[5].expected = "passed" /\ Checks[6].expected = "none"
  BY JobsOfChecks DEF Job
<1>5. ASSUME NEW n \in 2 .. 13
      PROVE  /\ Plan[n].expected = (IF n = 9 THEN "VIOLATION_BLOCKED" ELSE "SUCCESS")
             /\ Plan[n].id # "setup" /\ (Plan[n].id = "metadata_service" <=> n = 9)
             /\ (Plan[n].id = "poisoned_artifact" <=> n = 10)
  <2>1. Plan[n] = SuiteA[n]
    BY PlanParts
  <2>2. n = 2 \/ n = 3 \/ n = 4 \/ n = 5 \/ n = 6 \/ n = 7 \/ n = 8 \/ n = 9 \/ n = 10 \/ n = 11 \/ n = 12 \/ n = 13
    OBVIOUS
  <2> QED BY ONLY <1>1, <1>2, <2>1, <2>2
<1>6. /\ Plan[14] = SuiteB[1] /\ Plan[15] = SuiteB[2] /\ Plan[16] = SuiteB[3] /\ Plan[17] = SuiteB[4]
      /\ Plan[18] = SuiteB[5] /\ Plan[19] = SuiteB[6]
  <2>1. \A n \in 14 .. 19 : Plan[n] = SuiteB[n - 13]
    BY PlanParts
  <2> QED BY ONLY <2>1
<1>7. /\ Plan[20] = Checks[1] /\ Plan[21] = Checks[2] /\ Plan[22] = Checks[3] /\ Plan[23] = Checks[4]
      /\ Plan[24] = Checks[5] /\ Plan[25] = Checks[6]
  <2>1. \A n \in 20 .. 25 : Plan[n] = Checks[n - 19]
    BY PlanParts
  <2> QED BY ONLY <2>1
<1>8. Plan[1] = SuiteA[1]
  BY PlanParts
<1>9. \A n \in {1, 14, 25} : Plan[n].id = "setup" /\ Plan[n].expected = "none"
  BY ONLY <1>1, <1>3, <1>4, <1>6, <1>7, <1>8
<1>10. \A n \in 15 .. 18 : Plan[n].expected = "BLOCKED" /\ Plan[n].id \notin {"setup", "covert_channel"}
  <2>1. \A n \in 15 .. 18 : n = 15 \/ n = 16 \/ n = 17 \/ n = 18
    OBVIOUS
  <2> QED BY ONLY <1>3, <1>6, <2>1
<1>11. \A n \in 20 .. 24 : Plan[n].expected = "passed" /\ Plan[n].id # "setup"
  <2>1. \A n \in 20 .. 24 : n = 20 \/ n = 21 \/ n = 22 \/ n = 23 \/ n = 24
    OBVIOUS
  <2> QED BY ONLY <1>4, <1>7, <2>1
<1>12. /\ Plan[19].expected = "PARTIAL" /\ Plan[19].id = "covert_channel"
       /\ Plan[20].id = "no_redirect_followed" /\ Plan[21].id = "oversize_fail_closed" /\ Plan[23].id = "digest_pin_holds"
       /\ Plan[22].id = "no_upstream_headers" /\ Plan[24].id = "legit_fetch"
  BY ONLY <1>3, <1>4, <1>6, <1>7
<1> QED BY <1>5, <1>9, <1>10, <1>11, <1>12

\* A job whose requests were answered as they should be ends as it should.
LEMMA CleanOutcomes ==
    ASSUME TypeOK, RightInv, job \in 1 .. 25, op = Len(Script) + 1
    PROVE  Outcome(Plan[job]) = Plan[job].expected
<1>1. Len(Script) \in Nat /\ DOMAIN Script = 1 .. Len(Script) /\ Shape(job, Script)
      /\ \A n \in 1 .. Len(Script) : Script[n] \in AsksOf(job)
  <2>1. ASSUME job \in 1 .. 13 PROVE Script \in Seq(AsksOf(job))
    <3>1. Script \in Seq(AsksOfA(job))
      BY ONLY <2>1, PlanFacts DEF Script
    <3>2. job <= 13
      BY <2>1
    <3> QED BY ONLY <3>1, <3>2 DEF AsksOf
  <2>2. ASSUME job \in 14 .. 25 PROVE Script \in Seq(AsksOf(job))
    <3>1. Script \in Seq(AsksLater)
      BY ONLY <2>2, PlanFacts DEF Script
    <3>2. ~(job <= 13)
      BY <2>2
    <3> QED BY ONLY <3>1, <3>2 DEF AsksOf
  <2>3. Script \in Seq(AsksOf(job))
    BY <2>1, <2>2
  <2>4. Shape(job, Script)
    BY Shapes DEF Script
  <2> QED BY <2>3, <2>4
<1>2. /\ answers \in Seq(Answers) /\ Len(answers) = Len(Script) /\ DOMAIN answers = 1 .. Len(Script)
      /\ \A n \in 1 .. Len(Script) : answers[n] \in Right(job, Script[n])
  <2>1. answers \in Seq(Answers)
    BY Typed
  <2>2. Len(answers) = Len(Script) /\ \A n \in 1 .. Len(Script) : answers[n] \in Right(job, Script[n])
    BY <1>1 DEF RightInv
  <2> QED BY <2>1, <2>2
<1>3. \A n \in 1 .. Len(Script) : Script[n].to \in {"mock", "look", "decode", "proxy", "broker", "measure", "fresh"}
  <2>1. ASSUME NEW n \in 1 .. Len(Script)
        PROVE  Script[n].to \in {"mock", "look", "decode", "proxy", "broker", "measure", "fresh"}
    <3>1. Script[n] \in AsksA \cup AsksLater
      BY <1>1, AskKinds
    <3> QED BY <3>1 DEF AsksA, AsksLater, AsksB, AsksC
  <2> QED BY <2>1
<1>4. "error" \notin ToSet(answers)
  <2>1. \A n \in 1 .. Len(Script) : answers[n] # "error"
    BY <1>2, <1>3, RightAnswers
  <2> QED BY <1>2, <2>1 DEF ToSet
<1>5. CASE job \in {1, 14, 25}
  BY <1>5, Declared DEF Outcome
<1>6. CASE job \in 2 .. 13
  <2>1. /\ Plan[job].expected = (IF job = 9 THEN "VIOLATION_BLOCKED" ELSE "SUCCESS")
        /\ Plan[job].id # "setup" /\ (Plan[job].id = "metadata_service" <=> job = 9)
        /\ (Plan[job].id = "poisoned_artifact" <=> job = 10)
    BY <1>6, Declared
  <2>2. Plan[job].suite = "A" /\ job <= 13
    <3>1. job \in 1 .. 13
      BY <1>6
    <3> QED BY ONLY <3>1, Suites
  <2>3. Outcome(Plan[job]) = OutcomeA(Plan[job].id)
    BY <1>4, <2>1, <2>2 DEF Outcome
  <2>4. CASE job = 9
    <3>1. Plan[9].script = <<To("proxy", "imds")>>
      <4>1. SuiteA[9].script = <<To("proxy", "imds")>>
        BY ONLY JobsOfA DEF Job
      <4> QED BY <4>1, PlanParts
    <3>2. Len(Script) = 1 /\ Script[1] = To("proxy", "imds")
      BY <2>4, <3>1 DEF Script
    <3>3. answers[1] = "denied"
      <4>1. answers[1] \in Right(job, Script[1])
        BY <1>2, <3>2
      <4>2. Script[1].to = "proxy" /\ Script[1].what = "imds"
        BY <3>2 DEF To
      <4> QED BY ONLY <4>1, <4>2, RightOf
    <3> QED BY <2>1, <2>3, <2>4, <3>3 DEF OutcomeA, Decide
  <2>5. CASE job = 10
    <3>1. Plan[10].script = <<To("mock", "poison"), To("proxy", "requests")>>
      <4>1. SuiteA[10].script = <<To("mock", "poison"), To("proxy", "requests")>>
        BY ONLY JobsOfA DEF Job
      <4> QED BY <4>1, PlanParts
    <3>2. Len(Script) = 2 /\ Script[2] = To("proxy", "requests")
      BY <2>5, <3>1 DEF Script
    <3>3. answers[2] = "tampered"
      <4>1. answers[2] \in Right(job, Script[2])
        BY <1>2, <3>2
      <4>2. Script[2].to = "proxy" /\ Script[2].what = "requests"
        BY <3>2 DEF To
      <4> QED BY ONLY <4>1, <4>2, RightOf
    <3> QED BY <2>1, <2>3, <2>5, <3>3 DEF OutcomeA, Decide
  <2>6. CASE job # 9 /\ job # 10
    <3>1. ASSUME NEW n \in 1 .. Len(Script) PROVE answers[n] \notin Refused
      <4>1. Script[n].to \in {"mock", "look", "proxy"}
        <5>1. Script[n] \in AsksOf(job)
          BY <1>1
        <5>2. ~(Script[n].to \in {"broker", "measure", "fresh", "decode"})
          <6>1. Script[n] \in AsksOf(job) /\ job \in 1 .. 25 /\ ~(job > 13)
            BY <1>6, <5>1
          <6> QED BY ONLY <6>1, AskKinds
        <5> QED BY <1>3, <5>2
      <4>2. Script[n].to = "proxy" => Script[n].what # "imds"
        BY <1>1, <2>6, Zenon DEF Shape
      <4>3. answers[n] \in {"ok", "tampered", "genuine"}
        <5>1. answers[n] \in Right(job, Script[n])
          BY <1>2
        <5> QED BY ONLY <4>1, <4>2, <5>1, RightOf
      <4> QED BY <4>3 DEF Refused
    <3>2. GotAll
      BY <1>2, <3>1 DEF GotAll
    <3> QED BY <2>1, <2>3, <2>6, <3>2 DEF OutcomeA, Decide
  <2> QED BY <2>4, <2>5, <2>6
<1>7. CASE job \in 15 .. 19
  <2>1. Plan[job].suite = "B"
    <3>1. job \in 14 .. 19
      BY <1>7
    <3> QED BY ONLY <3>1, Suites
  <2>2. Plan[job].id # "setup"
    <3>1. job \in 15 .. 18 \/ job = 19
      BY <1>7
    <3> QED BY ONLY <3>1, Declared
  <2>3. Outcome(Plan[job]) = OutcomeB(Plan[job].id)
    BY <1>4, <2>1, <2>2 DEF Outcome
  <2>4. CASE job = 19
    BY <2>3, <2>4, Declared DEF OutcomeB
  <2>5. CASE job \in 15 .. 18
    <3>1. ASSUME NEW n \in 1 .. Len(Script) PROVE answers[n] # "served"
      <4>1. Script[n].to \in {"mock", "broker"}
        <5>1. Script[n] \in AsksOf(job) /\ job \in 1 .. 25 /\ job > 13
          BY <1>1, <2>5
        <5>2. ~(job \in 2 .. 13) /\ Script[n].to \notin {"look", "proxy"}
          <6>1. ~(job \in 2 .. 13)
            BY <2>5
          <6> QED BY ONLY <5>1, <6>1, AskKinds
        <5>3. Script[n].to \notin {"measure", "decode", "fresh"}
          <6>1. n \in 1 .. Len(Script) /\ Shape(job, Script)
            BY <1>1
          <6>2. job # 19 /\ ~(job \in 20 .. 25)
            BY <2>5
          <6> QED BY ONLY <6>1, <6>2 DEF Shape
        <5> QED BY <1>3, <5>2, <5>3
      <4>2. answers[n] \in Right(job, Script[n])
        BY <1>2
      <4>3. answers[n] \in {"ok", "grammar_violation", "digest_mismatch", "lockfile_miss"}
        BY ONLY <4>1, <4>2, RightOf
      <4> QED BY ONLY <4>3
    <3>2. NoneServed
      BY <1>2, <3>1 DEF NoneServed
    <3>3. Plan[job].expected = "BLOCKED" /\ Plan[job].id # "covert_channel"
      BY <2>5, Declared
    <3> QED BY <2>3, <3>2, <3>3 DEF OutcomeB, Decide
  <2> QED BY <1>7, <2>4, <2>5
<1>8. CASE job \in 20 .. 24
  <2>1. Plan[job].suite = "checks" /\ Plan[job].id # "setup" /\ Plan[job].expected = "passed"
    <3>1. job \in 20 .. 25
      BY <1>8
    <3> QED BY ONLY <1>8, <3>1, Suites, Declared
  <2>2. Outcome(Plan[job]) = Decide("passed", "failed", Passed(Plan[job].id))
    BY <1>4, <2>1 DEF Outcome
  <2>3. Len(Script) >= 1 /\ Script[Len(Script)].to = "fresh"
    BY <1>8, LastOfChecks DEF Script
  <2>4. Last(answers) \in Right(job, Script[Len(Script)])
    <3>1. Last(answers) = answers[Len(Script)]
      BY <1>2 DEF Last
    <3> QED BY <1>1, <1>2, <2>3, <3>1
  <2>5. Last(answers) = (IF job \in {20, 21} THEN "upstream_fail_closed" ELSE IF job = 23 THEN "digest_mismatch" ELSE "served")
    BY ONLY <2>3, <2>4, RightOf
  <2>6. Passed(Plan[job].id)
    <3>1. job = 20 \/ job = 21 \/ job = 22 \/ job = 23 \/ job = 24
      BY <1>8
    <3> QED BY ONLY <2>5, <3>1, Declared DEF Passed
  <2> QED BY <2>1, <2>2, <2>6 DEF Decide
<1> QED BY <1>5, <1>6, <1>7, <1>8

\* The setup sends nothing through the proxy, the metadata probe one request.
LEMMA ProxiedOnce == Proxied(1) = {} /\ Proxied(9) = {1}
<1>1. SuiteA[1].script = <<To("mock", "reset")>> /\ SuiteA[9].script = <<To("proxy", "imds")>>
  BY JobsOfA DEF Job
<1>2. Plan[1].script = <<To("mock", "reset")>> /\ Plan[9].script = <<To("proxy", "imds")>>
  <2>1. Plan[1] = SuiteA[1] /\ Plan[9] = SuiteA[9]
    BY PlanParts
  <2> QED BY ONLY <1>1, <2>1
<1>3. \A o \in DOMAIN Plan[1].script : Plan[1].script[o].to = "mock"
  BY <1>2 DEF To
<1>4. DOMAIN Plan[9].script = {1} /\ Plan[9].script[1].to = "proxy"
  BY <1>2 DEF To
<1> QED BY <1>3, <1>4 DEF Proxied

\* The record of a job that ends.
LEMMA CleanEnd ==
    ASSUME TypeOK, RightInv, OwnLinesInv, CleanResultInv, EndJob
    PROVE  CleanResultInv'
<1> DEFINE L == IF Monitored(Plan[job]) THEN NewLines ELSE {}
           rec == [outcome |-> Outcome(Plan[job]), lines |-> L, violations |-> Violations(L)]
           rs == Append(results, rec)
<1>1. job' = job + 1 /\ job \in 1 .. 25 /\ op = Len(Script) + 1
  <2>1. job \in 1 .. 26 /\ job <= 25
    BY Typed, PlanFacts DEF EndJob
  <2> QED BY <2>1 DEF EndJob
<1>2. results' = rs
  BY DEF EndJob
<1>3. /\ Len(policyLog) \in Nat /\ DOMAIN policyLog = 1 .. Len(policyLog) /\ before \in Nat /\ before <= Len(policyLog)
      /\ results \in Seq(Results(DOMAIN policyLog)) /\ Len(results) = job - 1 /\ DOMAIN results = 1 .. job - 1
  BY Typed
<1>4. Len(Script) \in Nat /\ DOMAIN Script = 1 .. Len(Script)
  <2>1. job \in 1 .. 13 \/ job \in 14 .. 25
    BY <1>1
  <2>2. Script \in Seq(AsksOfA(job)) \/ Script \in Seq(AsksLater)
    BY ONLY <2>1, PlanFacts DEF Script
  <2> QED BY ONLY <2>2
<1>5. Monitored(Plan[job]) <=> job \in 2 .. 13
  <2>1. CASE job \in 1 .. 13
    <3>1. Plan[job].suite = "A" /\ (Plan[job].id = "setup" <=> job = 1)
      BY ONLY <2>1, PlanFacts
    <3> QED BY <2>1, <3>1 DEF Monitored
  <2>2. CASE job \in 14 .. 25
    <3>1. Plan[job].suite \in {"B", "checks"}
      BY <2>2, PlanFacts
    <3> QED BY <2>2, <3>1 DEF Monitored
  <2> QED BY <1>1, <2>1, <2>2
<1>6. L = IF job \in 2 .. 13 THEN before + 1 .. Len(policyLog) ELSE {}
  BY <1>5 DEF NewLines
<1>7. L \subseteq DOMAIN policyLog /\ Violations(L) = {l \in L : policyLog[l] = "violation"}
  BY <1>3, <1>6 DEF Violations
<1>8. rec \in Results(DOMAIN policyLog)
  BY <1>7, OutcomeTyped DEF Results
<1>9. rec.outcome = Plan[job].expected
  BY <1>1, CleanOutcomes
<1>10. /\ Len(policyLog) - before = Cardinality(Proxied(job) \cap 1 .. op - 1)
       /\ \A l \in before + 1 .. Len(policyLog) : policyLog[l] = "violation" <=> job = 9
  BY <1>1, <1>4 DEF OwnLinesInv
<1>11. Len(policyLog) - before = Cardinality(Proxied(job))
  <2>1. op - 1 = Len(Script)
    BY <1>1, <1>4
  <2>2. Proxied(job) \cap 1 .. op - 1 = Proxied(job)
    BY <1>4, <2>1 DEF Proxied, Script
  <2>3. Cardinality(Proxied(job) \cap 1 .. op - 1) = Cardinality(Proxied(job))
    BY ONLY <2>2, Zenon
  <2> QED BY <1>10, <2>3
<1>12. Cardinality({}) = 0
  BY FS_EmptySet
<1>13. job <= 13 => Cardinality(L) = Cardinality(Proxied(job))
  <2>1. CASE job = 1
    <3>1. L = {} /\ Proxied(job) = {}
      BY <1>6, <2>1, ProxiedOnce
    <3> QED BY ONLY <3>1, Zenon
  <2>2. CASE job \in 2 .. 13
    <3>1. L = before + 1 .. Len(policyLog)
      BY <1>6, <2>2
    <3>2. Cardinality(before + 1 .. Len(policyLog)) =
             IF before + 1 > Len(policyLog) THEN 0 ELSE Len(policyLog) - (before + 1) + 1
      <4>1. before + 1 \in Int /\ Len(policyLog) \in Int
        BY <1>3
      <4> QED BY ONLY <4>1, FS_Interval
    <3>3. Cardinality(before + 1 .. Len(policyLog)) = Cardinality(Proxied(job))
      BY ONLY <1>3, <1>11, <3>2
    <3>4. Cardinality(L) = Cardinality(before + 1 .. Len(policyLog))
      BY ONLY <3>1, Zenon
    <3> QED BY ONLY <3>3, <3>4, Zenon
  <2> QED BY <1>1, <2>1, <2>2
<1>14. job <= 13 => Cardinality(Violations(L)) = IF job = 9 THEN 1 ELSE 0
  <2>1. CASE job = 9
    <3>1. Violations(L) = L
      BY <1>6, <1>7, <1>10, <2>1
    <3>2. Cardinality(Violations(L)) = Cardinality(L)
      BY ONLY <3>1, Zenon
    <3>3. Cardinality(Proxied(9)) = 1
      BY ProxiedOnce, FS_Singleton
    <3>4. Cardinality(L) = Cardinality(Proxied(job))
      BY <1>13, <2>1
    <3> QED BY ONLY <2>1, <3>2, <3>3, <3>4
  <2>2. CASE job # 9
    <3>1. Violations(L) = {}
      BY <1>6, <1>7, <1>10, <2>2
    <3>2. Cardinality(Violations(L)) = Cardinality({})
      BY ONLY <3>1, Zenon
    <3> QED BY ONLY <1>12, <2>2, <3>2
  <2> QED BY <2>1, <2>2
<1>15. rec.lines = L /\ rec.violations = Violations(L)
  OBVIOUS
<1> HIDE DEF L, rec
<1>16. /\ DOMAIN rs = 1 .. job /\ rs[job] = rec /\ \A n \in 1 .. job - 1 : rs[n] = results[n]
  <2>1. /\ DOMAIN rs = 1 .. Len(results) + 1 /\ rs[Len(results) + 1] = rec
        /\ \A i \in 1 .. Len(results) : rs[i] = results[i]
    BY ONLY <1>3, <1>8, AppendGrows
  <2>2. Len(results) + 1 = job
    BY <1>1, <1>3
  <2> HIDE DEF rs
  <2> QED BY ONLY <1>3, <2>1, <2>2
<1> HIDE DEF rs
<1>17. ASSUME NEW n \in 1 .. job
       PROVE  /\ rs[n].outcome = Plan[n].expected
              /\ n <= 13 => /\ Cardinality(rs[n].lines) = Cardinality(Proxied(n))
                            /\ Cardinality(rs[n].violations) = IF n = 9 THEN 1 ELSE 0
  <2>1. CASE n = job
    BY ONLY <1>9, <1>13, <1>14, <1>15, <1>16, <2>1
  <2>2. CASE n # job
    <3>1. n \in 1 .. job - 1 /\ n \in DOMAIN results
      BY <1>1, <1>3, <2>2
    <3> QED BY <1>16, <3>1 DEF CleanResultInv
  <2> QED BY <2>1, <2>2
<1> QED BY <1>2, <1>16, <1>17 DEF CleanResultInv, Proxied

-----------------------------------------------------------------------------
\* A new run is clean, and every step keeps a clean run clean.
LEMMA CleanInit == Init => CleanInv
<1> SUFFICES ASSUME Init PROVE CleanInv
  OBVIOUS
<1>1. /\ stage = "run" /\ job = 1 /\ op = 0 /\ mock = [recv |-> <<>>, toggles |-> {}]
      /\ late = <<>> /\ results = <<>>
  BY DEF Init
<1>2. SwitchInv /\ ReceivedInv /\ RightInv /\ EvidenceInv /\ OwnLinesInv
  BY <1>1 DEF SwitchInv, ReceivedInv, RightInv, EvidenceInv, OwnLinesInv
<1>3. CleanResultInv
  <2>1. DOMAIN results = {}
    BY <1>1
  <2> QED BY <2>1 DEF CleanResultInv
<1> QED BY <1>1, <1>2, <1>3 DEF CleanInv

LEMMA CleanBegins ==
    ASSUME TypeOK, CleanInv, BeginJob, faults = 0
    PROVE  CleanInv'
<1>1. /\ late = <<>> /\ stage \in {"run", "verified"} /\ SwitchInv /\ ReceivedInv /\ EvidenceInv /\ CleanResultInv
  BY DEF CleanInv
<1>2. /\ stage' = stage /\ job' = job /\ op = 0 /\ op' = 1 /\ before' = Len(policyLog) /\ answers' = <<>>
      /\ mock' = mock /\ policyLog' = policyLog /\ transcript' = transcript /\ late' = late
      /\ results' = results /\ recovered' = recovered /\ faults' = faults /\ Script' = Script
  BY DEF BeginJob, Script
<1>3. SwitchInv' /\ ReceivedInv'
  BY <1>1, <1>2 DEF SwitchInv, ReceivedInv
<1>4. RightInv'
  BY <1>2 DEF RightInv
<1>5. EvidenceInv'
  <2>1. Count("grammar_violation") \in Nat /\ \A v : Count(v)' = Count(v)
    BY <1>2, CountGrows
  <2> QED BY <1>1, <1>2, <2>1 DEF EvidenceInv
<1>6. OwnLinesInv'
  <2>1. Len(policyLog) \in Nat
    BY Typed
  <2>2. Proxied(job) \cap 1 .. 1 - 1 = {}
    OBVIOUS
  <2>3. Cardinality(Proxied(job) \cap 1 .. 1 - 1) = 0
    BY ONLY <2>2, FS_EmptySet, Zenon
  <2>4. Len(policyLog') - before' = 0 /\ before' + 1 .. Len(policyLog') = {}
    BY <1>2, <2>1
  <2> QED BY <1>2, <2>3, <2>4 DEF OwnLinesInv
<1>7. CleanResultInv'
  BY <1>1, <1>2 DEF CleanResultInv
<1> QED BY <1>1, <1>2, <1>3, <1>4, <1>5, <1>6, <1>7 DEF CleanInv

LEMMA CleanRequests ==
    ASSUME TypeOK, MockInv, CleanInv, CleanRequest, faults = 0
    PROVE  CleanInv'
<1>1. /\ late = <<>> /\ stage \in {"run", "verified"} /\ SwitchInv /\ ReceivedInv /\ RightInv /\ EvidenceInv
      /\ OwnLinesInv /\ CleanResultInv
  BY DEF CleanInv
<1>2. SwitchInv' /\ ReceivedInv' /\ RightInv' /\ EvidenceInv' /\ OwnLinesInv'
  BY <1>1, CleanSwitches, CleanReceived, CleanAnswers, CleanEvidence, CleanLines
<1>3. late' = late /\ stage' = stage /\ results' = results
  BY DEF CleanRequest
<1>4. CleanResultInv'
  BY <1>1, <1>3 DEF CleanResultInv
<1> QED BY <1>1, <1>2, <1>3, <1>4 DEF CleanInv

LEMMA CleanEnds ==
    ASSUME TypeOK, CleanInv, EndJob, faults = 0
    PROVE  CleanInv'
<1>1. /\ late = <<>> /\ stage \in {"run", "verified"} /\ SwitchInv /\ ReceivedInv /\ RightInv /\ EvidenceInv
      /\ OwnLinesInv /\ CleanResultInv
  BY DEF CleanInv
<1>2. /\ stage' = stage /\ job' = job + 1 /\ job \in 1 .. 25 /\ op = Len(Script) + 1 /\ op' = 0
      /\ mock' = mock /\ transcript' = transcript /\ late' = late /\ recovered' = recovered
  <2>1. job \in 1 .. 26 /\ job <= 25
    BY Typed, PlanFacts DEF EndJob
  <2> QED BY <2>1 DEF EndJob
<1>3. SwitchInv'
  BY <1>1, <1>2 DEF SwitchInv
<1>4. ReceivedInv'
  <2>1. job = 19 => op = 6
    <3>1. ASSUME job = 19 PROVE op = 6
      <4>1. Len(Script) = 5
        BY ONLY <3>1, ChannelJob
      <4>2. op = Len(Script) + 1
        BY <1>2
      <4> QED BY ONLY <4>1, <4>2
    <3> QED BY ONLY <3>1
  <2>2. job' > 19 => recovered = 3
    BY <1>1, <1>2, <2>1 DEF ReceivedInv
  <2> QED BY <1>2, <2>2 DEF ReceivedInv
<1>5. EvidenceInv'
  <2>1. \A v : Count(v)' = Count(v)
    BY <1>2, CountGrows
  <2>2. (job = 16 => op = 4) /\ (job = 17 => op = 3) /\ (job = 18 => op = 2)
    <3>1. op = Len(Script) + 1
      BY <1>2
    <3>2. ASSUME job = 16 PROVE op = 4
      <4>1. Len(Script) = 3
        BY ONLY <3>2, EvidenceJobs
      <4> QED BY ONLY <3>1, <4>1
    <3>3. ASSUME job = 17 PROVE op = 3
      <4>1. Len(Script) = 2
        BY ONLY <3>3, EvidenceJobs
      <4> QED BY ONLY <3>1, <4>1
    <3>4. ASSUME job = 18 PROVE op = 2
      <4>1. Len(Script) = 1
        BY ONLY <3>4, EvidenceJobs
      <4> QED BY ONLY <3>1, <4>1
    <3> QED BY ONLY <3>2, <3>3, <3>4
  <2>3. /\ job' > 16 => Count("grammar_violation") >= 3
        /\ job' > 17 => Count("digest_mismatch") >= 1
        /\ job' > 18 => Count("lockfile_miss") >= 1
    BY <1>1, <1>2, <2>2 DEF EvidenceInv
  <2> QED BY <1>2, <2>1, <2>3 DEF EvidenceInv
<1>6. RightInv' /\ OwnLinesInv'
  BY <1>2 DEF RightInv, OwnLinesInv
<1>7. CleanResultInv'
  BY <1>1, CleanEnd
<1> QED BY <1>1, <1>2, <1>3, <1>4, <1>5, <1>6, <1>7 DEF CleanInv

LEMMA CleanVerifies ==
    ASSUME TypeOK, CleanInv, Verify, faults = 0
    PROVE  CleanInv'
<1>1. /\ late = <<>> /\ SwitchInv /\ ReceivedInv /\ EvidenceInv /\ CleanResultInv
  BY DEF CleanInv
<1>2. /\ job' = job /\ job = 26 /\ op = 0 /\ op' = op /\ mock' = mock /\ transcript' = transcript /\ late' = late
      /\ results' = results /\ recovered' = recovered /\ Script' = Script
      /\ stage' = IF Held({"A", "B"}) /\ Evidence THEN "verified" ELSE "failed"
  <2>1. job = 26 /\ op = 0
    <3>1. job \in 1 .. 26 /\ job > 25
      BY Typed, PlanFacts DEF Verify
    <3> QED BY <3>1, Typed
  <2> QED BY <2>1 DEF Verify, Script
<1>3. Held({"A", "B"})
  <2>1. DOMAIN results = 1 .. 25
    BY <1>2, Typed
  <2>2. Suite({"A", "B"}) \subseteq 1 .. 25
    BY PlanFacts DEF Suite
  <2> QED BY <1>1, <2>1, <2>2 DEF Held, CleanResultInv
<1>4. Evidence
  BY <1>1, <1>2 DEF EvidenceInv, Evidence
<1>5. SwitchInv' /\ ReceivedInv' /\ RightInv' /\ OwnLinesInv' /\ CleanResultInv'
  BY <1>1, <1>2 DEF SwitchInv, ReceivedInv, RightInv, OwnLinesInv, CleanResultInv
<1>6. EvidenceInv'
  <2>1. \A v : Count(v)' = Count(v)
    BY <1>2, CountGrows
  <2> QED BY <1>1, <1>2, <2>1 DEF EvidenceInv
<1> QED BY <1>1, <1>2, <1>3, <1>4, <1>5, <1>6 DEF CleanInv

LEMMA CleanStep == IInv /\ CleanInv /\ [Next]_vars => CleanInv'
<1> SUFFICES ASSUME IInv, CleanInv, [Next]_vars, faults' = 0 PROVE CleanInv'
  BY DEF CleanInv
<1>1. TypeOK /\ MockInv /\ faults \in Nat
  BY Typed DEF IInv
<1>2. CASE CallMock \/ CallMockFails \/ Look \/ Decode \/ Egress \/ EgressFails \/ EgressTimesOut
           \/ Fetch \/ UpstreamFails \/ FetchRaises
  <2>1. CleanRequest
    BY <1>1, <1>2, CleanRequestStep
  <2>2. faults = 0
    BY <2>1 DEF CleanRequest
  <2> QED BY <1>1, <2>1, <2>2, CleanRequests
<1>3. CASE BeginJob
  <2>1. faults = 0
    BY <1>3 DEF BeginJob
  <2> QED BY <1>1, <1>3, <2>1, CleanBegins
<1>4. ASSUME NEW n \in DOMAIN late, Arrive(n) PROVE CleanInv'
  <2>1. faults = 0
    BY <1>4 DEF Arrive
  <2>2. late = <<>>
    BY <2>1 DEF CleanInv
  <2> QED BY <1>4, <2>2
<1>5. CASE EndJob
  <2>1. faults = 0
    BY <1>5 DEF EndJob
  <2> QED BY <1>1, <1>5, <2>1, CleanEnds
<1>6. CASE Verify
  <2>1. faults = 0
    BY <1>6 DEF Verify
  <2> QED BY <1>1, <1>6, <2>1, CleanVerifies
<1>7. CASE UNCHANGED vars
  <2>1. /\ stage' = stage /\ job' = job /\ op' = op /\ before' = before /\ answers' = answers /\ mock' = mock
        /\ policyLog' = policyLog /\ transcript' = transcript /\ late' = late /\ results' = results
        /\ recovered' = recovered /\ faults' = faults
    BY <1>7 DEF vars
  <2>2. Script' = Script /\ \A v : Count(v)' = Count(v)
    BY <2>1 DEF Script, Count
  <2>3. \A t : Seen(t)' = Seen(t)
    BY <2>1 DEF Seen
  <2>4. /\ late = <<>> /\ stage \in {"run", "verified"} /\ SwitchInv /\ ReceivedInv /\ RightInv /\ EvidenceInv
        /\ OwnLinesInv /\ CleanResultInv
    BY <2>1 DEF CleanInv
  <2>5. SwitchInv' /\ RightInv' /\ EvidenceInv' /\ CleanResultInv'
    BY <2>1, <2>2, <2>4 DEF SwitchInv, RightInv, EvidenceInv, CleanResultInv
  <2>6. ReceivedInv' /\ OwnLinesInv'
    BY <2>1, <2>2, <2>3, <2>4 DEF ReceivedInv, OwnLinesInv, Proxied
  <2> QED BY <2>1, <2>4, <2>5, <2>6 DEF CleanInv
<1> QED BY <1>2, <1>3, <1>4, <1>5, <1>6, <1>7 DEF Next, Done

\* A run in which nothing is lost verifies, passes every structural check, reads
\* the whole secret back, and attributes to each probe of A its own connections.
THEOREM CleanRunPasses == Spec => []CleanSuiteVerifies
<1>1. IInv /\ CleanInv => CleanSuiteVerifies
  <2>1. SUFFICES ASSUME IInv, CleanInv, stage # "run", faults = 0
                 PROVE  /\ stage = "verified" /\ Held({"checks"})
                        /\ recovered = Len(Secret)
                        /\ \A n \in Suite({"A"}) :
                              /\ Cardinality(results[n].lines) = Cardinality(Proxied(n))
                              /\ Cardinality(results[n].violations) = IF Plan[n].id = "metadata_service" THEN 1 ELSE 0
    BY DEF CleanSuiteVerifies
  <2>2. TypeOK /\ StageInv /\ stage = "verified" /\ ReceivedInv /\ CleanResultInv
    BY <2>1 DEF IInv, CleanInv
  <2>3. job = 26
    BY <2>2 DEF StageInv
  <2>4. DOMAIN results = 1 .. 25
    BY <2>2, <2>3, Typed
  <2>5. Held({"checks"})
    <3>1. Suite({"checks"}) \subseteq 1 .. 25
      BY PlanFacts DEF Suite
    <3> QED BY <2>2, <2>4, <3>1 DEF Held, CleanResultInv
  <2>6. recovered = Len(Secret)
    BY <2>2, <2>3, SecretParts DEF ReceivedInv
  <2>7. ASSUME NEW n \in Suite({"A"})
        PROVE  /\ Cardinality(results[n].lines) = Cardinality(Proxied(n))
               /\ Cardinality(results[n].violations) = IF Plan[n].id = "metadata_service" THEN 1 ELSE 0
    <3>1. n \in 1 .. 25 /\ Plan[n].suite = "A"
      BY PlanFacts DEF Suite
    <3>2. n \in 1 .. 13
      BY <3>1, Suites
    <3>3. Plan[n].id = "metadata_service" <=> n = 9
      <4>1. n = 1 \/ n \in 2 .. 13
        BY <3>2
      <4> QED BY ONLY <4>1, Declared
    <3> QED BY <2>2, <2>4, <3>1, <3>2, <3>3 DEF CleanResultInv
  <2> QED BY <2>2, <2>5, <2>6, <2>7
<1>2. IInv /\ CleanInv /\ [Next]_vars => (IInv /\ CleanInv)'
  BY IInvStep, CleanStep
<1> QED BY IInvInit, CleanInit, <1>1, <1>2, PTL DEF Spec
==============================================================================
