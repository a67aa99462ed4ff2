----------------------------- MODULE TenancyProofs -----------------------------
(***************************************************************************)
(* Theorems about Tenancy, for every pair of lockfiles, every quota, every *)
(* task and any number of runs and failures: the quota of a run, what a    *)
(* report that verifies says of its run, and that a clean run verifies.    *)
(***************************************************************************)
EXTENDS Tenancy, SequenceLemmas

\* The script, by position.
Asks == [check : {"T1", "T2", "T3", "Q1", "Q2", "Q3", "mark"}, tenant : Tenants,
         key : Keys \cup {NoKey}, phase : Nat]

Opening == <<Ask("T1", "alpha", NoKey, 0), Ask("T2", "beta", Foreign["beta"], 0), Ask("T2", "alpha", Foreign["alpha"], 0),
             Ask("T3", "alpha", Shared, 0), Ask("T3", "beta", Shared, 0), Ask("T3", "beta", Shared, 0), Mark>>
AlphaWants == [i \in DOMAIN Wanted |-> Ask("Q1", "alpha", Wanted[i], 0)]
Closing == <<Mark, Ask("Q2", "alpha", Shared, 0)>>
BetaAsks == [i \in DOMAIN Task |-> Ask("Q3", "beta", Task[i].key, Task[i].phase)]

W == Len(Wanted)

LEMMA Constants ==
    /\ W \in Nat /\ W = Quota["alpha"] + 1 /\ Quota["alpha"] \in Nat /\ Quota["beta"] \in Nat
    /\ DOMAIN Wanted = 1 .. W /\ \A i \in 1 .. W : Wanted[i] \in Entries["alpha"] \ Entries["beta"]
    /\ Len(Task) \in Nat /\ DOMAIN Task = 1 .. Len(Task)
    /\ \A i \in 1 .. Len(Task) : Task[i].key \in Entries["beta"] /\ Task[i].phase \in Nat
    /\ \A t \in Tenants : Entries[t] \subseteq Keys
    /\ Shared \in Keys /\ Foreign["alpha"] \in Keys /\ Foreign["beta"] \in Keys
    /\ NoKey \notin Keys
<1>1. W \in Nat /\ W = Quota["alpha"] + 1 /\ Quota["alpha"] \in Nat /\ Quota["beta"] \in Nat
  BY QuotaAssumption, ScriptAssumption DEF W, Tenants
<1>2. DOMAIN Wanted = 1 .. W /\ \A i \in 1 .. W : Wanted[i] \in Entries["alpha"] \ Entries["beta"]
  BY ScriptAssumption DEF W
<1>3. /\ Len(Task) \in Nat /\ DOMAIN Task = 1 .. Len(Task)
      /\ \A i \in 1 .. Len(Task) : Task[i].key \in Entries["beta"] /\ Task[i].phase \in Nat
  <2>1. Task \in Seq([key : Entries["beta"], phase : Nat \ {0}])
    BY ScriptAssumption
  <2>2. \A x \in [key : Entries["beta"], phase : Nat \ {0}] : x.key \in Entries["beta"] /\ x.phase \in Nat
    OBVIOUS
  <2>3. /\ Len(Task) \in Nat /\ DOMAIN Task = 1 .. Len(Task)
        /\ \A i \in 1 .. Len(Task) : Task[i] \in [key : Entries["beta"], phase : Nat \ {0}]
    BY <2>1, LenProperties, ElementOfSeq
  <2>4. \A i \in 1 .. Len(Task) : Task[i].key \in Entries["beta"] /\ Task[i].phase \in Nat
    <3> SUFFICES ASSUME NEW i \in 1 .. Len(Task) PROVE Task[i].key \in Entries["beta"] /\ Task[i].phase \in Nat
      OBVIOUS
    <3>1. Task[i] \in [key : Entries["beta"], phase : Nat \ {0}]
      BY <2>3
    <3> QED BY <3>1, <2>2
  <2> QED BY <2>3, <2>4
<1>4. \A t \in Tenants : Entries[t] \subseteq Keys
  BY LockfileAssumption
<1>5. Shared \in Keys /\ Foreign["alpha"] \in Keys /\ Foreign["beta"] \in Keys /\ NoKey \notin Keys
  BY LockfileAssumption, <1>4 DEF Tenants
<1> QED BY <1>1, <1>2, <1>3, <1>4, <1>5

LEMMA ScriptItems ==
    /\ Script \in Seq(Asks) /\ Len(Script) = 9 + W + Len(Task) /\ DOMAIN Script = 1 .. Len(Script)
    /\ Script[1] = Ask("T1", "alpha", NoKey, 0)
    /\ Script[2] = Ask("T2", "beta", Foreign["beta"], 0)
    /\ Script[3] = Ask("T2", "alpha", Foreign["alpha"], 0)
    /\ Script[4] = Ask("T3", "alpha", Shared, 0)
    /\ Script[5] = Ask("T3", "beta", Shared, 0)
    /\ Script[6] = Ask("T3", "beta", Shared, 0)
    /\ Script[7] = Mark
    /\ \A i \in 1 .. W : Script[7 + i] = Ask("Q1", "alpha", Wanted[i], 0)
    /\ Script[8 + W] = Mark
    /\ Script[9 + W] = Ask("Q2", "alpha", Shared, 0)
    /\ \A i \in 1 .. Len(Task) : Script[9 + W + i] = Ask("Q3", "beta", Task[i].key, Task[i].phase)
<1> DEFINE A == Opening \o AlphaWants
           B == A \o Closing
<1>1. \A t \in Tenants, k \in Keys \cup {NoKey}, p \in Nat, c \in {"T1", "T2", "T3", "Q1", "Q2", "Q3", "mark"} :
         Ask(c, t, k, p) \in Asks
  BY DEF Ask, Asks
<1>2. /\ Opening \in Seq(Asks) /\ Len(Opening) = 7
      /\ Opening[1] = Ask("T1", "alpha", NoKey, 0)
      /\ Opening[2] = Ask("T2", "beta", Foreign["beta"], 0)
      /\ Opening[3] = Ask("T2", "alpha", Foreign["alpha"], 0)
      /\ Opening[4] = Ask("T3", "alpha", Shared, 0)
      /\ Opening[5] = Ask("T3", "beta", Shared, 0)
      /\ Opening[6] = Ask("T3", "beta", Shared, 0)
      /\ Opening[7] = Mark
  <2>1. /\ Ask("T1", "alpha", NoKey, 0) \in Asks
        /\ Ask("T2", "beta", Foreign["beta"], 0) \in Asks
        /\ Ask("T2", "alpha", Foreign["alpha"], 0) \in Asks
        /\ Ask("T3", "alpha", Shared, 0) \in Asks
        /\ Ask("T3", "beta", Shared, 0) \in Asks
        /\ Mark \in Asks
    BY <1>1, Constants DEF Tenants, Mark
  <2> HIDE DEF Ask
  <2> QED BY <2>1 DEF Opening
<1>3. AlphaWants \in Seq(Asks) /\ Len(AlphaWants) = W /\ \A i \in 1 .. W : AlphaWants[i] = Ask("Q1", "alpha", Wanted[i], 0)
  <2>1. \A i \in 1 .. W : Ask("Q1", "alpha", Wanted[i], 0) \in Asks
    BY <1>1, Constants DEF Tenants
  <2>2. AlphaWants = [i \in 1 .. W |-> Ask("Q1", "alpha", Wanted[i], 0)]
    BY Constants DEF AlphaWants
  <2> QED BY <2>1, <2>2, Constants
<1>4. Closing \in Seq(Asks) /\ Len(Closing) = 2 /\ Closing[1] = Mark /\ Closing[2] = Ask("Q2", "alpha", Shared, 0)
  <2>1. Mark \in Asks /\ Ask("Q2", "alpha", Shared, 0) \in Asks
    BY <1>1, Constants DEF Tenants, Mark
  <2> QED BY <2>1 DEF Closing
<1>5. /\ BetaAsks \in Seq(Asks) /\ Len(BetaAsks) = Len(Task)
      /\ \A i \in 1 .. Len(Task) : BetaAsks[i] = Ask("Q3", "beta", Task[i].key, Task[i].phase)
  <2>1. \A i \in 1 .. Len(Task) : Ask("Q3", "beta", Task[i].key, Task[i].phase) \in Asks
    BY <1>1, Constants DEF Tenants
  <2>2. BetaAsks = [i \in 1 .. Len(Task) |-> Ask("Q3", "beta", Task[i].key, Task[i].phase)]
    BY Constants DEF BetaAsks
  <2> QED BY <2>1, <2>2, Constants
<1> HIDE DEF A, B
<1> HIDE DEF Opening, AlphaWants, Closing, BetaAsks, Mark, Ask, Asks, W
<1>6. /\ A \in Seq(Asks) /\ Len(A) = 7 + W
      /\ \A i \in 1 .. 7 : A[i] = Opening[i]
      /\ \A i \in 1 .. W : A[7 + i] = AlphaWants[i]
  <2>0. Opening \in Seq(Asks) /\ AlphaWants \in Seq(Asks)
    BY <1>2, <1>3
  <2>1. /\ A \in Seq(Asks) /\ Len(A) = Len(Opening) + Len(AlphaWants)
        /\ \A i \in 1 .. Len(Opening) : A[i] = Opening[i]
        /\ \A i \in 1 .. Len(AlphaWants) : A[Len(Opening) + i] = AlphaWants[i]
    BY ONLY <2>0, ConcatParts DEF A
  <2>2. Len(Opening) = 7 /\ Len(AlphaWants) = W /\ 7 \in Nat /\ W \in Nat
    BY <1>2, <1>3, Constants
  <2> QED BY ONLY <2>1, <2>2
<1>7. /\ B \in Seq(Asks) /\ Len(B) = 9 + W
      /\ \A i \in 1 .. 7 + W : B[i] = A[i]
      /\ B[8 + W] = Closing[1] /\ B[9 + W] = Closing[2]
  <2>0. A \in Seq(Asks) /\ Closing \in Seq(Asks)
    BY <1>4, <1>6
  <2>1. /\ B \in Seq(Asks) /\ Len(B) = Len(A) + Len(Closing)
        /\ \A i \in 1 .. Len(A) : B[i] = A[i]
        /\ \A i \in 1 .. Len(Closing) : B[Len(A) + i] = Closing[i]
    BY ONLY <2>0, ConcatParts DEF B
  <2>2. Len(A) = 7 + W /\ Len(Closing) = 2 /\ W \in Nat /\ 7 + W \in Nat /\ 2 \in Nat
    BY <1>4, <1>6, Constants
  <2>3. /\ Len(B) = (7 + W) + 2
        /\ \A i \in 1 .. 7 + W : B[i] = A[i]
        /\ \A i \in 1 .. 2 : B[(7 + W) + i] = Closing[i]
    BY ONLY <2>1, <2>2
  <2>4. (7 + W) + 1 = 8 + W /\ (7 + W) + 2 = 9 + W /\ 1 \in 1 .. 2 /\ 2 \in 1 .. 2
    BY ONLY <2>2
  <2>5. B[(7 + W) + 1] = Closing[1] /\ B[(7 + W) + 2] = Closing[2]
    BY ONLY <2>3, <2>4
  <2> QED BY ONLY <2>1, <2>3, <2>4, <2>5
<1>8. /\ Script \in Seq(Asks) /\ Len(Script) = 9 + W + Len(Task)
      /\ \A i \in 1 .. 9 + W : Script[i] = B[i]
      /\ \A i \in 1 .. Len(Task) : Script[9 + W + i] = BetaAsks[i]
  <2>1. Script = B \o BetaAsks
    BY DEF Script, B, A, Opening, AlphaWants, Closing, BetaAsks
  <2>0. B \in Seq(Asks) /\ BetaAsks \in Seq(Asks)
    BY <1>5, <1>7
  <2>2. /\ Script \in Seq(Asks) /\ Len(Script) = Len(B) + Len(BetaAsks)
        /\ \A i \in 1 .. Len(B) : Script[i] = B[i]
        /\ \A i \in 1 .. Len(BetaAsks) : Script[Len(B) + i] = BetaAsks[i]
    BY ONLY <2>0, <2>1, ConcatParts
  <2>3. Len(B) = 9 + W /\ Len(BetaAsks) = Len(Task) /\ Len(Task) \in Nat /\ W \in Nat /\ 9 + W \in Nat
    BY <1>5, <1>7, Constants
  <2> QED BY ONLY <2>2, <2>3
<1>9. DOMAIN Script = 1 .. Len(Script)
  BY <1>8
<1> HIDE DEF Opening, AlphaWants, Closing, BetaAsks, Script, Mark, Ask
<1>10. \A i \in 1 .. W : Script[7 + i] = Ask("Q1", "alpha", Wanted[i], 0)
  <2> SUFFICES ASSUME NEW i \in 1 .. W PROVE Script[7 + i] = Ask("Q1", "alpha", Wanted[i], 0)
    OBVIOUS
  <2>1. 7 + i \in 1 .. 7 + W /\ 7 + i \in 1 .. 9 + W
    BY Constants
  <2>2. Script[7 + i] = B[7 + i]
    BY <1>8, <2>1
  <2>3. B[7 + i] = A[7 + i]
    BY <1>7, <2>1
  <2>4. A[7 + i] = AlphaWants[i]
    BY <1>6
  <2> QED BY <1>3, <2>2, <2>3, <2>4
<1>11. \A i \in 1 .. 7 : Script[i] = Opening[i]
  <2> SUFFICES ASSUME NEW i \in 1 .. 7 PROVE Script[i] = Opening[i]
    OBVIOUS
  <2>1. i \in 1 .. 7 + W /\ i \in 1 .. 9 + W
    BY Constants
  <2> QED BY <1>6, <1>7, <1>8, <2>1
<1>12. Script[8 + W] = Mark /\ Script[9 + W] = Ask("Q2", "alpha", Shared, 0)
  <2>1. 8 + W \in 1 .. 9 + W /\ 9 + W \in 1 .. 9 + W
    BY Constants
  <2> QED BY <1>4, <1>7, <1>8, <2>1
<1> QED BY <1>2, <1>5, <1>8, <1>9, <1>10, <1>11, <1>12

\* The script in parts: each request's check, whose it is and whose phase.
LEMMA ScriptChecks ==
    /\ \A n \in 1 .. Len(Script) :
          \/ n \in 1 .. 7 \/ n \in 8 .. 7 + W \/ n = 8 + W \/ n = 9 + W \/ n \in 10 + W .. 9 + W + Len(Task)
    /\ Script[1].check = "T1" /\ Script[2].check = "T2" /\ Script[3].check = "T2"
    /\ \A n \in 4 .. 6 : Script[n].check = "T3"
    /\ Script[7].check = "mark" /\ Script[8 + W].check = "mark" /\ Script[9 + W].check = "Q2"
    /\ \A n \in 8 .. 7 + W : Script[n].check = "Q1" /\ Script[n].tenant = "alpha"
    /\ \A n \in 10 + W .. 9 + W + Len(Task) :
          Script[n].check = "Q3" /\ Script[n].tenant = "beta" /\ Script[n].key = Task[n - (9 + W)].key
    /\ \A n \in 1 .. 9 + W : Script[n].phase = 0
<1>1. \A c, t, k, p : /\ Ask(c, t, k, p).check = c /\ Ask(c, t, k, p).tenant = t
                      /\ Ask(c, t, k, p).key = k /\ Ask(c, t, k, p).phase = p
  BY DEF Ask
<1>2. Mark.check = "mark" /\ Mark.phase = 0
  BY <1>1 DEF Mark
<1> HIDE DEF Ask, Mark
<1>3. W \in Nat /\ Len(Task) \in Nat /\ Len(Script) = 9 + W + Len(Task)
  BY Constants, ScriptItems
<1>4. \A n \in 1 .. Len(Script) :
         \/ n \in 1 .. 7 \/ n \in 8 .. 7 + W \/ n = 8 + W \/ n = 9 + W \/ n \in 10 + W .. 9 + W + Len(Task)
  BY <1>3
<1>5. /\ Script[1].check = "T1" /\ Script[2].check = "T2" /\ Script[3].check = "T2"
      /\ Script[4].check = "T3" /\ Script[5].check = "T3" /\ Script[6].check = "T3"
      /\ Script[7].check = "mark" /\ Script[8 + W].check = "mark" /\ Script[9 + W].check = "Q2"
      /\ Script[1].phase = 0 /\ Script[2].phase = 0 /\ Script[3].phase = 0 /\ Script[4].phase = 0
      /\ Script[5].phase = 0 /\ Script[6].phase = 0 /\ Script[7].phase = 0
      /\ Script[8 + W].phase = 0 /\ Script[9 + W].phase = 0
  BY <1>1, <1>2, ScriptItems
<1>6. ASSUME NEW n \in 8 .. 7 + W PROVE Script[n].check = "Q1" /\ Script[n].tenant = "alpha" /\ Script[n].phase = 0
  <2>1. n - 7 \in 1 .. W /\ 7 + (n - 7) = n
    BY <1>3
  <2>2. Script[7 + (n - 7)] = Ask("Q1", "alpha", Wanted[n - 7], 0)
    BY <2>1, ScriptItems
  <2> QED BY <1>1, <2>1, <2>2
<1>7. ASSUME NEW n \in 10 + W .. 9 + W + Len(Task)
      PROVE  Script[n].check = "Q3" /\ Script[n].tenant = "beta" /\ Script[n].key = Task[n - (9 + W)].key
  <2>1. n - (9 + W) \in 1 .. Len(Task) /\ 9 + W + (n - (9 + W)) = n
    BY <1>3
  <2>2. Script[9 + W + (n - (9 + W))] = Ask("Q3", "beta", Task[n - (9 + W)].key, Task[n - (9 + W)].phase)
    BY <2>1, ScriptItems
  <2> QED BY <1>1, <2>1, <2>2
<1>8. \A n \in 4 .. 6 : n = 4 \/ n = 5 \/ n = 6
  OBVIOUS
<1>9. \A n \in 1 .. 7 : n = 1 \/ n = 2 \/ n = 3 \/ n = 4 \/ n = 5 \/ n = 6 \/ n = 7
  OBVIOUS
<1>10. \A n \in 1 .. 9 + W : n \in 1 .. 7 \/ n \in 8 .. 7 + W \/ n = 8 + W \/ n = 9 + W
  BY <1>3
<1>11. \A n \in 1 .. 9 + W : Script[n].phase = 0
  BY <1>5, <1>6, <1>9, <1>10
<1> QED BY <1>4, <1>5, <1>6, <1>7, <1>8, <1>11

\* The requests of each check.
LEMMA AskedSets ==
    /\ Asked("T1") = {1} /\ Asked("T2") = {2, 3} /\ Asked("Q1") = 8 .. 7 + W /\ Asked("Q2") = {9 + W}
    /\ Asked("Q3") = 10 + W .. 9 + W + Len(Task)
<1>1. W \in Nat /\ Len(Task) \in Nat /\ Len(Script) = 9 + W + Len(Task) /\ DOMAIN Script = 1 .. Len(Script)
  BY Constants, ScriptItems
<1>2. \A n \in 1 .. 7 : n = 1 \/ n = 2 \/ n = 3 \/ n \in 4 .. 6 \/ n = 7
  OBVIOUS
<1>3. \A n \in 1 .. Len(Script) :
         LET c == Script[n].check
         IN  \/ n = 1 /\ c = "T1"
             \/ n \in {2, 3} /\ c = "T2"
             \/ n \in 8 .. 7 + W /\ c = "Q1"
             \/ n = 9 + W /\ c = "Q2"
             \/ n \in 10 + W .. 9 + W + Len(Task) /\ c = "Q3"
             \/ c \in {"T3", "mark"}
  BY <1>2, ScriptChecks
<1>4. 1 \in 1 .. Len(Script) /\ 2 \in 1 .. Len(Script) /\ 3 \in 1 .. Len(Script) /\ 9 + W \in 1 .. Len(Script)
      /\ 8 .. 7 + W \subseteq 1 .. Len(Script) /\ 10 + W .. 9 + W + Len(Task) \subseteq 1 .. Len(Script)
  BY <1>1
<1>5. Asked("T1") = {1}
  BY <1>1, <1>3, <1>4, ScriptChecks DEF Asked
<1>6. Asked("T2") = {2, 3}
  BY <1>1, <1>3, <1>4, ScriptChecks DEF Asked
<1>7. Asked("Q1") = 8 .. 7 + W
  BY <1>1, <1>3, <1>4, ScriptChecks DEF Asked
<1>8. Asked("Q2") = {9 + W}
  BY <1>1, <1>3, <1>4, ScriptChecks DEF Asked
<1>9. Asked("Q3") = 10 + W .. 9 + W + Len(Task)
  BY <1>1, <1>3, <1>4, ScriptChecks DEF Asked
<1> QED BY <1>5, <1>6, <1>7, <1>8, <1>9

-----------------------------------------------------------------------------
\* Nothing has happened after now; a run that is starting has asked for nothing.
TimeInv ==
    \A t \in Tenants :
        /\ \A i \in DOMAIN contacts[t] :
              /\ contacts[t][i].life <= life /\ contacts[t][i].epoch <= epoch
              /\ pc = "bind" => contacts[t][i].life < life
        /\ \A j \in DOMAIN attempts[t] : attempts[t][j] <= epoch

\* What __init__ leaves of a tenant.
Begun(t) ==
    /\ cache[t] = {} /\ attempts[t] = <<>> /\ file[t] = mem[t]
    /\ mem[t] = <<Note("tenant_bound"), Note("lockfile_loaded")>>

BindInv ==
    pc = "bind" =>
        /\ at \in 1 .. Len(config) + 1 /\ clean
        /\ answers = <<>> /\ marks = <<>> /\ pkg_gets = 0 /\ sent = [t \in Tenants |-> 0]
        /\ \A j \in 1 .. at - 1 : Begun(config[j])

\* The requests this run has sent in window e.
InWindow(t, e) == {i \in Contacted(t, life) : contacts[t][i].epoch = e}

\* Those of the current window are the last attempts, and its only ones.
Spent(t) ==
    LET n == Cardinality(InWindow(t, epoch))
    IN  /\ n <= Len(attempts[t])
        /\ \A j \in DOMAIN attempts[t] : attempts[t][j] = epoch <=> j > Len(attempts[t]) - n

\* The transcript is this run's, and has a line for each request sent upstream.
Told(t) ==
    /\ \A i \in DOMAIN mem[t] : mem[t][i].life = life
    /\ Cardinality(UpstreamLines(mem[t])) = Cardinality(Contacted(t, life))

\* An answer was told in the transcript of the tenant that asked.
AnswerTold(n) ==
    answers[n] # "none" =>
        \E i \in DOMAIN mem[Script[n].tenant] :
            LET l == mem[Script[n].tenant][i] IN l.verdict = answers[n] /\ l.key = Script[n].key

RunInv ==
    pc = "ask" =>
        /\ at \in 1 .. Len(Script) + 1 /\ Len(answers) = at - 1
        /\ \A n \in 1 .. at - 1 : AnswerTold(n)
        /\ \A t \in Tenants : Spent(t) /\ Told(t)

\* A report tells what its run's transcripts told.
ReportInv ==
    report # NoReport =>
        /\ report.life <= life /\ (report.life = life => pc = "done")
        /\ \A t \in Tenants :
              /\ \A i \in DOMAIN report.root[t] : report.root[t][i].life = report.life
              /\ Cardinality(UpstreamLines(report.root[t])) = Cardinality(Contacted(t, report.life))
        /\ "Q1" \in report.passed => \E i \in DOMAIN report.root["alpha"] : report.root["alpha"][i].verdict = "quota_exceeded"
        /\ "Q3" \in report.passed => \A n \in DOMAIN Task : Task[n].key \in ServedKeys(report.root["beta"])

IInv == TypeOK /\ TimeInv /\ BindInv /\ RunInv /\ ReportInv /\ QuotaPerRun

-----------------------------------------------------------------------------
\* The kinds of lines that are counted.
RequestLines == {l \in Lines : l.kind = "request" \/ l.verdict = "grammar_violation"}
UpstreamVerdicts == {l \in Lines : l.verdict \in Upstream}
NoteLines(event) == {l \in Lines : l.verdict = event}

LEMMA Counted ==
    ASSUME NEW f \in Seq(Lines)
    PROVE  /\ DOMAIN f = 1 .. Len(f) /\ Len(f) \in Nat /\ \A i \in DOMAIN f : f[i] \in Lines
           /\ Requests(f) = Cardinality(Matching(f, RequestLines))
           /\ UpstreamLines(f) = Matching(f, UpstreamVerdicts)
           /\ \A event : Notes(f, event) = Cardinality(Matching(f, NoteLines(event)))
           /\ Cardinality(UpstreamLines(f)) \in Nat /\ Requests(f) \in Nat
<1>1. DOMAIN f = 1 .. Len(f) /\ Len(f) \in Nat /\ \A i \in DOMAIN f : f[i] \in Lines
  OBVIOUS
<1>2. {i \in DOMAIN f : f[i].kind = "request" \/ f[i].verdict = "grammar_violation"} = Matching(f, RequestLines)
  BY <1>1, Zenon DEF Matching, RequestLines
<1>3. UpstreamLines(f) = Matching(f, UpstreamVerdicts)
  BY <1>1, Zenon DEF Matching, UpstreamVerdicts, UpstreamLines
<1>4. \A event : {i \in DOMAIN f : f[i].verdict = event} = Matching(f, NoteLines(event))
  BY <1>1, Zenon DEF Matching, NoteLines
<1>5. Cardinality(UpstreamLines(f)) \in Nat
  BY <1>3, MatchingFinite
<1>6. Requests(f) \in Nat
  BY <1>2, MatchingFinite DEF Requests
<1> QED BY <1>1, <1>2, <1>3, <1>4, <1>5, <1>6 DEF Requests, Notes

\* One more line.
LEMMA OneLine ==
    ASSUME NEW f \in Seq(Lines), NEW l \in Lines
    PROVE  /\ Append(f, l) \in Seq(Lines)
           /\ DOMAIN f = 1 .. Len(f) /\ DOMAIN Append(f, l) = 1 .. Len(f) + 1 /\ Len(f) \in Nat
           /\ Append(f, l)[Len(f) + 1] = l /\ \A i \in 1 .. Len(f) : Append(f, l)[i] = f[i]
           /\ Requests(Append(f, l)) = Requests(f) + (IF l \in RequestLines THEN 1 ELSE 0)
           /\ Cardinality(UpstreamLines(Append(f, l))) = Cardinality(UpstreamLines(f)) + (IF l.verdict \in Upstream THEN 1 ELSE 0)
           /\ \A event : l.verdict # event => Notes(Append(f, l), event) = Notes(f, event)
<1>1. /\ Append(f, l) \in Seq(Lines)
      /\ DOMAIN f = 1 .. Len(f) /\ DOMAIN Append(f, l) = 1 .. Len(f) + 1 /\ Len(f) \in Nat
      /\ Append(f, l)[Len(f) + 1] = l /\ \A i \in 1 .. Len(f) : Append(f, l)[i] = f[i]
  BY AppendGrows
<1>2. \A X : Cardinality(Matching(Append(f, l), X)) = Cardinality(Matching(f, X)) + (IF l \in X THEN 1 ELSE 0)
  BY MatchingAppend
<1>3. Requests(Append(f, l)) = Requests(f) + (IF l \in RequestLines THEN 1 ELSE 0)
  BY <1>1, <1>2, Counted
<1>4. Cardinality(UpstreamLines(Append(f, l))) = Cardinality(UpstreamLines(f)) + (IF l.verdict \in Upstream THEN 1 ELSE 0)
  <2>1. l \in UpstreamVerdicts <=> l.verdict \in Upstream
    BY DEF UpstreamVerdicts
  <2> QED BY <1>1, <1>2, <2>1, Counted
<1>5. \A event : l.verdict # event => Notes(Append(f, l), event) = Notes(f, event)
  <2> SUFFICES ASSUME NEW event, l.verdict # event PROVE Notes(Append(f, l), event) = Notes(f, event)
    OBVIOUS
  <2>1. l \notin NoteLines(event)
    BY DEF NoteLines
  <2>2. Cardinality(Matching(f, NoteLines(event))) \in Nat
    BY MatchingFinite
  <2>3. /\ Notes(f, event) = Cardinality(Matching(f, NoteLines(event)))
        /\ Notes(Append(f, l), event) = Cardinality(Matching(Append(f, l), NoteLines(event)))
    BY <1>1, Counted
  <2> QED BY <1>2, <2>1, <2>2, <2>3
<1> QED BY ONLY <1>1, <1>3, <1>4, <1>5, Zenon

\* The verdicts of a request tell whether it is grammatical, pinned, cached
\* and within the quota.
LEMMA VerdictCases ==
    ASSUME NEW t \in Tenants, NEW k \in Keys \cup {NoKey}, NEW v \in Verdicts(t, k)
    PROVE  /\ v \in {"grammar_violation", "lockfile_miss", "quota_exceeded"} \cup Served \cup Upstream
           /\ k = NoKey <=> v = "grammar_violation"
           /\ v = "lockfile_miss" <=> k # NoKey /\ k \notin Entries[t]
           /\ v \in Upstream => k # NoKey /\ k \in Entries[t] /\ k \notin cache[t] /\ ~Full(t)
           /\ v = "served_from_cache" <=> k # NoKey /\ k \in Entries[t] /\ k \in cache[t]
           /\ v = "quota_exceeded" <=> k # NoKey /\ k \in Entries[t] /\ k \notin cache[t] /\ Full(t)
<1> DEFINE p == Pinned(t, k)
           c == Cached(t, k)
           f == Full(t)
<1>1. /\ k = NoKey => v = "grammar_violation"
      /\ k # NoKey /\ ~p => v = "lockfile_miss"
      /\ k # NoKey /\ p /\ c => v = "served_from_cache"
      /\ k # NoKey /\ p /\ ~c /\ f => v = "quota_exceeded"
      /\ k # NoKey /\ p /\ ~c /\ ~f => v \in Upstream
  BY DEF Verdicts
<1>2. p <=> k \in Entries[t]
  BY DEF Pinned
<1>3. c <=> k \in cache[t]
  BY DEF Cached
<1> HIDE DEF p, c, f
<1>4. /\ "grammar_violation" \notin Upstream /\ "lockfile_miss" \notin Upstream /\ "served_from_cache" \notin Upstream
      /\ "quota_exceeded" \notin Upstream /\ "served_from_cache" \in Served
  BY DEF Upstream, Served
<1>5. f <=> Full(t)
  BY DEF f
<1> QED BY <1>1, <1>2, <1>3, <1>4, <1>5

\* What a request adds to a transcript.
Extended(f, k, v) == f \o Logged(k, v)

LEMMA LoggedLines ==
    ASSUME NEW t \in Tenants, NEW k \in Keys \cup {NoKey}, NEW v \in Verdicts(t, k), NEW f \in Seq(Lines),
           life \in Nat, epoch \in Nat, NEW g, g = Extended(f, k, v)
    PROVE  /\ g \in Seq(Lines) /\ DOMAIN g = 1 .. Len(g) /\ DOMAIN f = 1 .. Len(f) /\ Len(f) \in Nat /\ Len(g) \in Nat
           /\ Len(g) > Len(f)
           /\ \A i \in 1 .. Len(f) : g[i] = f[i]
           /\ \A i \in Len(f) + 1 .. Len(g) :
                 g[i].life = life /\ g[i].epoch = epoch /\ g[i].key = k /\ g[i].verdict \in {"none", v}
           /\ g[Len(g)].verdict = v
           /\ Requests(g) = Requests(f) + 1
           /\ Cardinality(UpstreamLines(g)) = Cardinality(UpstreamLines(f)) + (IF v \in Upstream THEN 1 ELSE 0)
           /\ \A event \in {"tenant_bound", "lockfile_loaded"} : Notes(g, event) = Notes(f, event)
<1> DEFINE a == Line("request", "none", k)
           b == Line("verdict", v, k)
           h == Append(f, a)
<1>1. v \in AllVerdicts /\ v \notin {"none", "tenant_bound", "lockfile_loaded"} /\ (k = NoKey <=> v = "grammar_violation")
  BY VerdictCases DEF AllVerdicts, Served, Upstream
<1>2. a \in Lines /\ a.life = life /\ a.epoch = epoch /\ a.key = k /\ a.verdict = "none" /\ a.kind = "request"
  BY DEF Line, Lines, AllVerdicts
<1>3. b \in Lines /\ b.life = life /\ b.epoch = epoch /\ b.key = k /\ b.verdict = v /\ b.kind = "verdict"
  BY <1>1 DEF Line, Lines
<1>4. a \in RequestLines /\ (b \in RequestLines <=> k = NoKey) /\ "none" \notin Upstream
  BY <1>1, <1>2, <1>3 DEF RequestLines, Upstream
<1>5. g = IF k = NoKey THEN Append(f, b) ELSE Append(h, b)
  <2> HIDE DEF a, b
  <2>1. f \o <<b>> = Append(f, b) /\ f \o <<a, b>> = Append(h, b)
    BY <1>2, <1>3
  <2>2. Logged(k, v) = IF k = NoKey THEN <<b>> ELSE <<a, b>>
    BY DEF Logged, a, b
  <2>3. g = f \o Logged(k, v)
    BY DEF Extended
  <2> QED BY <2>1, <2>2, <2>3, Zenon
<1> HIDE DEF a, b
<1>6. ASSUME NEW e \in Seq(Lines)
      PROVE  LET n == Len(e) + 1
                 x == Append(e, b)
             IN  /\ x \in Seq(Lines) /\ DOMAIN x = 1 .. n /\ DOMAIN e = 1 .. Len(e) /\ Len(e) \in Nat /\ Len(x) = n
                 /\ x[n] = b /\ \A i \in 1 .. Len(e) : x[i] = e[i]
                 /\ Requests(x) = Requests(e) + (IF k = NoKey THEN 1 ELSE 0)
                 /\ Cardinality(UpstreamLines(x)) = Cardinality(UpstreamLines(e)) + (IF v \in Upstream THEN 1 ELSE 0)
                 /\ \A event \in {"tenant_bound", "lockfile_loaded"} : Notes(x, event) = Notes(e, event)
  <2>1. /\ Append(e, b) \in Seq(Lines)
        /\ DOMAIN e = 1 .. Len(e) /\ DOMAIN Append(e, b) = 1 .. Len(e) + 1 /\ Len(e) \in Nat
        /\ Append(e, b)[Len(e) + 1] = b /\ \A i \in 1 .. Len(e) : Append(e, b)[i] = e[i]
        /\ Requests(Append(e, b)) = Requests(e) + (IF b \in RequestLines THEN 1 ELSE 0)
        /\ Cardinality(UpstreamLines(Append(e, b))) = Cardinality(UpstreamLines(e)) + (IF b.verdict \in Upstream THEN 1 ELSE 0)
        /\ \A event : b.verdict # event => Notes(Append(e, b), event) = Notes(e, event)
    BY <1>3, OneLine, Zenon
  <2> QED BY <1>1, <1>3, <1>4, <2>1
<1>7. CASE k = NoKey
  <2>1. g = Append(f, b)
    BY <1>5, <1>7
  <2>2. Len(f) \in Nat /\ Len(g) = Len(f) + 1 /\ \A i \in Len(f) + 1 .. Len(g) : i = Len(f) + 1
    BY <1>6, <2>1
  <2>3. /\ g \in Seq(Lines) /\ DOMAIN g = 1 .. Len(f) + 1 /\ DOMAIN f = 1 .. Len(f)
        /\ g[Len(f) + 1] = b /\ \A i \in 1 .. Len(f) : g[i] = f[i]
        /\ Requests(g) = Requests(f) + 1
        /\ Cardinality(UpstreamLines(g)) = Cardinality(UpstreamLines(f)) + (IF v \in Upstream THEN 1 ELSE 0)
        /\ \A event \in {"tenant_bound", "lockfile_loaded"} : Notes(g, event) = Notes(f, event)
    BY <1>6, <1>7, <2>1
  <2>4. \A i \in Len(f) + 1 .. Len(g) :
           g[i].life = life /\ g[i].epoch = epoch /\ g[i].key = k /\ g[i].verdict \in {"none", v}
    BY <1>3, <2>2, <2>3
  <2>5. g[Len(g)].verdict = v /\ Len(g) > Len(f) /\ Len(g) \in Nat
    BY <1>3, <2>2, <2>3
  <2> QED BY ONLY <2>2, <2>3, <2>4, <2>5
<1>8. CASE k # NoKey
  <2>1. g = Append(h, b)
    BY <1>5, <1>8
  <2>2. /\ h \in Seq(Lines) /\ Len(h) = Len(f) + 1
        /\ DOMAIN f = 1 .. Len(f) /\ Len(f) \in Nat
        /\ h[Len(f) + 1] = a /\ \A i \in 1 .. Len(f) : h[i] = f[i]
        /\ Requests(h) = Requests(f) + 1 /\ Requests(h) \in Nat
        /\ Cardinality(UpstreamLines(h)) = Cardinality(UpstreamLines(f))
        /\ \A event \in {"tenant_bound", "lockfile_loaded"} : Notes(h, event) = Notes(f, event)
    BY <1>1, <1>2, <1>4, OneLine, Counted
  <2>3. /\ g \in Seq(Lines) /\ DOMAIN g = 1 .. Len(h) + 1 /\ Len(g) = Len(h) + 1
        /\ g[Len(h) + 1] = b /\ \A i \in 1 .. Len(h) : g[i] = h[i]
        /\ Requests(g) = Requests(h) + 0
        /\ Cardinality(UpstreamLines(g)) = Cardinality(UpstreamLines(h)) + (IF v \in Upstream THEN 1 ELSE 0)
        /\ \A event \in {"tenant_bound", "lockfile_loaded"} : Notes(g, event) = Notes(h, event)
    <3> HIDE DEF h
    <3> QED BY <1>6, <1>8, <2>1, <2>2
  <2> HIDE DEF h
  <2>4. /\ g \in Seq(Lines) /\ DOMAIN g = 1 .. Len(f) + 2 /\ Len(g) = Len(f) + 2
        /\ g[Len(f) + 2] = b /\ g[Len(f) + 1] = a /\ \A i \in 1 .. Len(f) : g[i] = f[i]
        /\ Requests(g) = Requests(f) + 1
        /\ Cardinality(UpstreamLines(g)) = Cardinality(UpstreamLines(f)) + (IF v \in Upstream THEN 1 ELSE 0)
        /\ \A event \in {"tenant_bound", "lockfile_loaded"} : Notes(g, event) = Notes(f, event)
    BY <2>2, <2>3
  <2>5. \A i \in Len(f) + 1 .. Len(g) : i = Len(f) + 1 \/ i = Len(f) + 2
    BY <2>2, <2>4
  <2>6. \A i \in Len(f) + 1 .. Len(g) :
           g[i].life = life /\ g[i].epoch = epoch /\ g[i].key = k /\ g[i].verdict \in {"none", v}
    BY <1>2, <1>3, <2>4, <2>5
  <2>7. g[Len(g)].verdict = v /\ Len(g) > Len(f) /\ Len(g) \in Nat
    BY <1>3, <2>2, <2>4
  <2> QED BY ONLY <2>2, <2>4, <2>6, <2>7
<1> QED BY <1>7, <1>8

\* The attempts left are those of the current window.
LEMMA LeastKept ==
    ASSUME NEW a \in Seq(Nat), NEW x \in Nat, NEW m \in 1 .. Len(a) + 1,
           \A i \in 1 .. Len(a) : a[i] >= x <=> i >= m
    PROVE  Min({i \in 1 .. Len(a) + 1 : i > Len(a) \/ a[i] >= x}) = m
<1> DEFINE kept == {i \in 1 .. Len(a) + 1 : i > Len(a) \/ a[i] >= x}
<1>1. Len(a) \in Nat /\ m \in Nat
  OBVIOUS
<1>2. m \in kept
  <2>1. CASE m \in 1 .. Len(a)
    BY <2>1
  <2>2. CASE m = Len(a) + 1
    BY <1>1, <2>2
  <2> QED BY <1>1, <2>1, <2>2
<1>3. ASSUME NEW i \in kept PROVE m <= i
  <2>1. CASE i \in 1 .. Len(a)
    BY <1>1, <2>1
  <2>2. CASE i = Len(a) + 1
    BY <1>1, <2>2
  <2> QED BY <1>1, <2>1, <2>2
<1>4. \A i \in kept : i \in Int
  BY <1>1
<1> HIDE DEF kept
<1>5. \A y \in kept : (\A i \in kept : y <= i) => y = m
  BY <1>1, <1>2, <1>3, <1>4
<1>6. Min(kept) = m
  BY <1>2, <1>3, <1>5 DEF Min
<1> QED BY <1>6 DEF kept

LEMMA LiveExact ==
    ASSUME NEW t \in Tenants, attempts[t] \in Seq(Nat), epoch \in Nat,
           NEW n \in Nat, n <= Len(attempts[t]),
           \A j \in DOMAIN attempts[t] : attempts[t][j] <= epoch,
           \A j \in DOMAIN attempts[t] : attempts[t][j] = epoch <=> j > Len(attempts[t]) - n
    PROVE  /\ Live(t) \in Seq(Nat) /\ Len(Live(t)) = n /\ DOMAIN Live(t) = 1 .. n
           /\ \A j \in 1 .. n : Live(t)[j] = epoch
<1>1. PICK a \in Seq(Nat) : a = attempts[t]
  OBVIOUS
<1> DEFINE m == Len(a) - n + 1
<1>3. /\ m \in Int /\ m = Len(a) - n + 1 /\ Len(a) \in Nat /\ DOMAIN a = 1 .. Len(a) /\ \A j \in 1 .. Len(a) : a[j] \in Nat
      /\ m \in 1 .. Len(a) + 1 /\ Len(a) - m + 1 = n
  <2>1. Len(a) \in Nat /\ DOMAIN a = 1 .. Len(a) /\ \A j \in 1 .. Len(a) : a[j] \in Nat
    OBVIOUS
  <2> QED BY <1>1, <2>1
<1> HIDE DEF m
<1>4. \A i \in 1 .. Len(a) : a[i] <= epoch /\ (a[i] = epoch <=> i > Len(a) - n)
  BY <1>1, <1>3
<1>5. \A i \in 1 .. Len(a) : a[i] >= epoch <=> i >= m
  BY <1>3, <1>4
<1>6. Min({i \in 1 .. Len(a) + 1 : i > Len(a) \/ a[i] >= epoch}) = m
  BY <1>3, <1>5, LeastKept
<1>7. Live(t) = SubSeq(a, m, Len(a))
  BY <1>1, <1>6 DEF Live, FirstLive
<1>8. \A j \in m .. Len(a) : a[j] \in Nat
  BY <1>3
<1>9. /\ SubSeq(a, m, Len(a)) \in Seq(Nat)
      /\ Len(SubSeq(a, m, Len(a))) = IF m <= Len(a) THEN Len(a) - m + 1 ELSE 0
      /\ \A i \in 1 .. Len(a) - m + 1 : SubSeq(a, m, Len(a))[i] = a[m + i - 1]
  BY <1>3, <1>8, SubSeqProperties
<1>10. Live(t) \in Seq(Nat) /\ Len(Live(t)) = n /\ \A j \in 1 .. n : Live(t)[j] = a[m + j - 1]
  BY <1>3, <1>7, <1>9
<1>11. ASSUME NEW j \in 1 .. n PROVE a[m + j - 1] = epoch
  <2>1. m + j - 1 \in 1 .. Len(a) /\ m + j - 1 > Len(a) - n
    BY <1>3
  <2> QED BY <1>4, <2>1
<1>12. DOMAIN Live(t) = 1 .. Len(Live(t))
  BY <1>10
<1> QED BY <1>10, <1>11, <1>12

-----------------------------------------------------------------------------
\* The requests of a run, and those of a window of it.
Contacts == [life : Nat, epoch : Nat]
OfRun(l) == {c \in Contacts : c.life = l}
OfWindow(l, e) == {c \in Contacts : c.life = l /\ c.epoch = e}

LEMMA ContactsCounted ==
    ASSUME NEW t \in Tenants, contacts[t] \in Seq(Contacts)
    PROVE  /\ \A l : Contacted(t, l) = Matching(contacts[t], OfRun(l)) /\ Cardinality(Contacted(t, l)) \in Nat
           /\ \A e : /\ InWindow(t, e) = Matching(contacts[t], OfWindow(life, e))
                     /\ Cardinality(InWindow(t, e)) \in Nat
<1>1. DOMAIN contacts[t] = 1 .. Len(contacts[t]) /\ \A i \in DOMAIN contacts[t] : contacts[t][i] \in Contacts
  OBVIOUS
<1>2. \A l : Contacted(t, l) = Matching(contacts[t], OfRun(l))
  BY <1>1, Zenon DEF Contacted, Matching, OfRun
<1>3. \A e : InWindow(t, e) = Matching(contacts[t], OfWindow(life, e))
  BY <1>1, Zenon DEF InWindow, Contacted, Matching, OfWindow
<1>4. \A X : Cardinality(Matching(contacts[t], X)) \in Nat
  BY MatchingFinite
<1>5. \A l : Cardinality(Contacted(t, l)) \in Nat
  BY <1>2, <1>4
<1>6. \A e : Cardinality(InWindow(t, e)) \in Nat
  BY <1>3, <1>4
<1> QED BY ONLY <1>2, <1>3, <1>5, <1>6, Zenon

\* A request of this run, now.
LEMMA ContactAdded ==
    ASSUME NEW t \in Tenants, contacts[t] \in Seq(Contacts),
           contacts'[t] = Append(contacts[t], [life |-> life, epoch |-> epoch]),
           life \in Nat, epoch \in Nat, life' = life, epoch' = epoch
    PROVE  /\ contacts'[t] \in Seq(Contacts)
           /\ DOMAIN contacts[t] = 1 .. Len(contacts[t]) /\ DOMAIN contacts'[t] = 1 .. Len(contacts[t]) + 1
           /\ \A i \in 1 .. Len(contacts[t]) : contacts'[t][i] = contacts[t][i]
           /\ contacts'[t][Len(contacts[t]) + 1] = [life |-> life, epoch |-> epoch]
           /\ \A l : l # life => Cardinality(Contacted(t, l)') = Cardinality(Contacted(t, l))
           /\ Cardinality(Contacted(t, life)') = Cardinality(Contacted(t, life)) + 1
           /\ \A e : e # epoch => Cardinality(InWindow(t, e)') = Cardinality(InWindow(t, e))
           /\ Cardinality(InWindow(t, epoch)') = Cardinality(InWindow(t, epoch)) + 1
<1>1. DEFINE c == [life |-> life, epoch |-> epoch]
<1>2. c \in Contacts /\ c.life = life /\ c.epoch = epoch
  BY DEF Contacts
<1> HIDE DEF c
<1>3. /\ contacts'[t] \in Seq(Contacts)
      /\ DOMAIN contacts[t] = 1 .. Len(contacts[t]) /\ DOMAIN contacts'[t] = 1 .. Len(contacts[t]) + 1
      /\ \A i \in 1 .. Len(contacts[t]) : contacts'[t][i] = contacts[t][i]
      /\ contacts'[t][Len(contacts[t]) + 1] = c
  BY <1>2, AppendGrows DEF c
<1>4. \A X : Cardinality(Matching(contacts'[t], X)) = Cardinality(Matching(contacts[t], X)) + (IF c \in X THEN 1 ELSE 0)
  BY <1>2, MatchingAppend DEF c
<1>5. \A X : Cardinality(Matching(contacts[t], X)) \in Nat
  BY MatchingFinite
<1>6. /\ \A i \in DOMAIN contacts[t] : contacts[t][i] \in Contacts
      /\ \A i \in DOMAIN contacts'[t] : contacts'[t][i] \in Contacts
  BY <1>3
<1>7. \A l : /\ Contacted(t, l) = Matching(contacts[t], OfRun(l))
             /\ Contacted(t, l)' = Matching(contacts'[t], OfRun(l))
  BY <1>6, Zenon DEF Contacted, Matching, OfRun
<1>8. \A e : /\ InWindow(t, e) = Matching(contacts[t], OfWindow(life, e))
             /\ InWindow(t, e)' = Matching(contacts'[t], OfWindow(life, e))
  BY <1>6, Zenon DEF InWindow, Contacted, Matching, OfWindow
<1>9. \A l : c \in OfRun(l) <=> l = life
  BY <1>2 DEF OfRun
<1>10. \A e : c \in OfWindow(life, e) <=> e = epoch
  BY <1>2 DEF OfWindow
<1>11. \A l : l # life => Cardinality(Contacted(t, l)') = Cardinality(Contacted(t, l))
  BY <1>4, <1>5, <1>7, <1>9
<1>12. Cardinality(Contacted(t, life)') = Cardinality(Contacted(t, life)) + 1
  BY <1>4, <1>5, <1>7, <1>9
<1>13. \A e : e # epoch => Cardinality(InWindow(t, e)') = Cardinality(InWindow(t, e))
  BY <1>4, <1>5, <1>8, <1>10
<1>14. Cardinality(InWindow(t, epoch)') = Cardinality(InWindow(t, epoch)) + 1
  BY <1>4, <1>5, <1>8, <1>10
<1> QED BY <1>3, <1>11, <1>12, <1>13, <1>14 DEF c

-----------------------------------------------------------------------------
\* What handle() does to the tenant that asks, and to the other one.
HandleTypes ==
    /\ cache \in [Tenants -> SUBSET Keys]
    /\ attempts \in [Tenants -> Seq(Nat)] /\ \A t \in Tenants : Len(attempts[t]) <= Quota[t]
    /\ mem \in [Tenants -> Seq(Lines)] /\ file \in [Tenants -> Seq(Lines)]
    /\ contacts \in [Tenants -> Seq(Contacts)]
Counters == life \in Nat /\ epoch \in Nat

LEMMA HandleAttempts ==
    ASSUME HandleTypes, Counters, TimeInv, NEW t \in Tenants, NEW k \in Keys \cup {NoKey}, NEW v, Handle(t, k, v),
           Spent(t), life' = life, epoch' = epoch
    PROVE  /\ attempts'[t] \in Seq(Nat) /\ Len(attempts'[t]) <= Quota[t]
           /\ \A j \in DOMAIN attempts'[t] : attempts'[t][j] <= epoch
           /\ contacts'[t] \in Seq(Contacts)
           /\ \A i \in DOMAIN contacts'[t] : contacts'[t][i].life <= life /\ contacts'[t][i].epoch <= epoch
           /\ Spent(t)'
           /\ \A l : l # life => Cardinality(Contacted(t, l)') = Cardinality(Contacted(t, l))
           /\ Cardinality(Contacted(t, life)') = Cardinality(Contacted(t, life)) + (IF v \in Upstream THEN 1 ELSE 0)
           /\ \A e : e # epoch => Cardinality(InWindow(t, e)') = Cardinality(InWindow(t, e))
           /\ Cardinality(InWindow(t, epoch)') <= Quota[t]
<1> DEFINE n == Cardinality(InWindow(t, epoch))
<1>1. /\ attempts[t] \in Seq(Nat) /\ contacts[t] \in Seq(Contacts) /\ life \in Nat /\ epoch \in Nat
      /\ Len(attempts[t]) \in Nat /\ Len(attempts[t]) <= Quota[t] /\ Quota[t] \in Nat
      /\ attempts \in [Tenants -> Seq(Nat)] /\ contacts \in [Tenants -> Seq(Contacts)]
  BY Constants, QuotaAssumption DEF HandleTypes, Counters
<1>2. n \in Nat
  BY <1>1, ContactsCounted
<1>3. n <= Len(attempts[t])
  BY DEF Spent
<1>4. \A j \in DOMAIN attempts[t] : attempts[t][j] = epoch <=> j > Len(attempts[t]) - n
  BY DEF Spent
<1>5. /\ \A j \in DOMAIN attempts[t] : attempts[t][j] <= epoch
      /\ \A i \in DOMAIN contacts[t] : contacts[t][i].life <= life /\ contacts[t][i].epoch <= epoch
  BY DEF TimeInv
<1> HIDE DEF n
<1>6. /\ Live(t) \in Seq(Nat) /\ Len(Live(t)) = n /\ DOMAIN Live(t) = 1 .. n
      /\ \A j \in 1 .. n : Live(t)[j] = epoch
  BY <1>1, <1>2, <1>3, <1>4, <1>5, LiveExact
<1>7. v \in Verdicts(t, k) /\ (v \in Upstream => ~Full(t)) /\ (v = "quota_exceeded" => v \notin Upstream)
  BY VerdictCases DEF Handle, Upstream
<1>8. CASE v \in Upstream
  <2>1. /\ attempts'[t] = Append(Live(t), epoch)
        /\ contacts'[t] = Append(contacts[t], [life |-> life, epoch |-> epoch])
    BY <1>1, <1>8 DEF Handle
  <2>2. n < Quota[t] /\ n + 1 <= Quota[t]
    BY <1>1, <1>2, <1>6, <1>7, <1>8 DEF Full
  <2>3. /\ contacts'[t] \in Seq(Contacts)
        /\ DOMAIN contacts[t] = 1 .. Len(contacts[t]) /\ DOMAIN contacts'[t] = 1 .. Len(contacts[t]) + 1
        /\ \A i \in 1 .. Len(contacts[t]) : contacts'[t][i] = contacts[t][i]
        /\ contacts'[t][Len(contacts[t]) + 1] = [life |-> life, epoch |-> epoch]
        /\ \A l : l # life => Cardinality(Contacted(t, l)') = Cardinality(Contacted(t, l))
        /\ Cardinality(Contacted(t, life)') = Cardinality(Contacted(t, life)) + 1
        /\ \A e : e # epoch => Cardinality(InWindow(t, e)') = Cardinality(InWindow(t, e))
        /\ Cardinality(InWindow(t, epoch)') = n + 1
    BY <1>1, <2>1, ContactAdded DEF n
  <2>4. /\ attempts'[t] \in Seq(Nat) /\ Len(attempts'[t]) = n + 1 /\ DOMAIN attempts'[t] = 1 .. n + 1
        /\ \A j \in 1 .. n + 1 : attempts'[t][j] = epoch
    <3>1. /\ Append(Live(t), epoch) \in Seq(Nat) /\ DOMAIN Append(Live(t), epoch) = 1 .. n + 1
          /\ Len(Append(Live(t), epoch)) = n + 1
          /\ Append(Live(t), epoch)[n + 1] = epoch /\ \A i \in 1 .. n : Append(Live(t), epoch)[i] = Live(t)[i]
      BY <1>1, <1>6, AppendGrows
    <3> QED BY <1>2, <1>6, <2>1, <3>1
  <2>5. \A i \in DOMAIN contacts'[t] : contacts'[t][i].life <= life /\ contacts'[t][i].epoch <= epoch
    <3>1. Len(contacts[t]) \in Nat
      BY <1>1
    <3>2. \A i \in 1 .. Len(contacts[t]) + 1 : i \in 1 .. Len(contacts[t]) \/ i = Len(contacts[t]) + 1
      BY <3>1
    <3> QED BY <1>1, <1>5, <2>3, <3>2
  <2>6. Spent(t)'
    BY <1>2, <2>3, <2>4 DEF Spent
  <2> QED BY <1>1, <1>8, <2>2, <2>3, <2>4, <2>5, <2>6
<1>9. CASE v \notin Upstream
  <2>1. /\ attempts'[t] = attempts[t] \/ attempts'[t] = Live(t)
        /\ contacts'[t] = contacts[t]
    BY <1>1, <1>9 DEF Handle
  <2>2. /\ \A l : Contacted(t, l)' = Contacted(t, l)
        /\ \A e : InWindow(t, e)' = InWindow(t, e)
    BY <2>1 DEF Contacted, InWindow
  <2>3. InWindow(t, epoch)' = InWindow(t, epoch)
    BY <2>1 DEF Contacted, InWindow
  <2>4. Cardinality(Contacted(t, life)') = Cardinality(Contacted(t, life)) /\ Cardinality(Contacted(t, life)) \in Nat
    BY <1>1, <2>1, ContactsCounted DEF Contacted
  <2>5. Cardinality(InWindow(t, epoch)') = n
    BY <2>3 DEF n
  <2>6. /\ attempts'[t] \in Seq(Nat) /\ Len(attempts'[t]) <= Quota[t]
        /\ \A j \in DOMAIN attempts'[t] : attempts'[t][j] <= epoch
        /\ n <= Len(attempts'[t])
        /\ \A j \in DOMAIN attempts'[t] : attempts'[t][j] = epoch <=> j > Len(attempts'[t]) - n
    <3>1. CASE attempts'[t] = attempts[t]
      BY <1>1, <1>3, <1>4, <1>5, <3>1
    <3>2. CASE attempts'[t] = Live(t)
      BY <1>1, <1>2, <1>3, <1>6, <3>2
    <3> QED BY <2>1, <3>1, <3>2
  <2>7. Spent(t)'
    BY <2>5, <2>6 DEF Spent
  <2> QED BY <1>1, <1>2, <1>3, <1>5, <1>9, <2>1, <2>2, <2>4, <2>5, <2>6, <2>7
<1> QED BY <1>8, <1>9

\* A tenant's part of the state is as it was.
Untouched(u) ==
    /\ cache'[u] = cache[u] /\ attempts'[u] = attempts[u] /\ contacts'[u] = contacts[u]
    /\ mem'[u] = mem[u] /\ file'[u] = file[u]

LEMMA UntouchedKeeps ==
    ASSUME NEW u \in Tenants, Untouched(u), life' = life, epoch' = epoch
    PROVE  /\ Spent(u) => Spent(u)'
           /\ Told(u) => Told(u)'
           /\ \A l : Contacted(u, l)' = Contacted(u, l)
           /\ \A e : InWindow(u, e)' = InWindow(u, e)
<1>1. /\ \A l : Contacted(u, l)' = Contacted(u, l)
      /\ \A e : InWindow(u, e)' = InWindow(u, e)
  BY DEF Untouched, Contacted, InWindow
<1>2. Contacted(u, life)' = Contacted(u, life) /\ InWindow(u, epoch)' = InWindow(u, epoch)
  BY DEF Untouched, Contacted, InWindow
<1>3. Spent(u) => Spent(u)'
  BY <1>2 DEF Untouched, Spent
<1>4. Told(u) => Told(u)'
  BY <1>2 DEF Untouched, Told, UpstreamLines
<1> QED BY <1>1, <1>3, <1>4

LEMMA HandleUpdates ==
    ASSUME HandleTypes, NEW t \in Tenants, NEW k \in Keys \cup {NoKey}, NEW v, Handle(t, k, v)
    PROVE  /\ mem'[t] = Extended(mem[t], k, v) /\ file'[t] = Extended(file[t], k, v)
           /\ \A u \in Tenants : u # t => Untouched(u)
           /\ cache'[t] = IF v = "served_from_upstream" THEN cache[t] \cup {k} ELSE cache[t]
           /\ DOMAIN mem' = Tenants /\ DOMAIN file' = Tenants /\ DOMAIN cache' = Tenants
           /\ DOMAIN attempts' = Tenants /\ DOMAIN contacts' = Tenants
           /\ mem' = [u \in Tenants |-> mem'[u]] /\ file' = [u \in Tenants |-> file'[u]] /\ cache' = [u \in Tenants |-> cache'[u]]
           /\ attempts' = [u \in Tenants |-> attempts'[u]] /\ contacts' = [u \in Tenants |-> contacts'[u]]
<1>1. /\ DOMAIN mem = Tenants /\ DOMAIN file = Tenants /\ DOMAIN cache = Tenants
      /\ DOMAIN attempts = Tenants /\ DOMAIN contacts = Tenants
      /\ mem = [u \in Tenants |-> mem[u]] /\ file = [u \in Tenants |-> file[u]] /\ cache = [u \in Tenants |-> cache[u]]
      /\ attempts = [u \in Tenants |-> attempts[u]] /\ contacts = [u \in Tenants |-> contacts[u]]
  BY DEF HandleTypes
<1>2. mem'[t] = Extended(mem[t], k, v) /\ file'[t] = Extended(file[t], k, v)
  BY <1>1 DEF Handle, Extended
<1>3. /\ \A u \in Tenants : u # t => mem'[u] = mem[u] /\ file'[u] = file[u]
      /\ mem' = [u \in Tenants |-> mem'[u]] /\ file' = [u \in Tenants |-> file'[u]]
  BY <1>1 DEF Handle
<1>4. /\ cache'[t] = IF v = "served_from_upstream" THEN cache[t] \cup {k} ELSE cache[t]
      /\ \A u \in Tenants : u # t => cache'[u] = cache[u]
      /\ cache' = [u \in Tenants |-> cache'[u]]
  BY <1>1 DEF Handle
<1>5. /\ \A u \in Tenants : u # t => attempts'[u] = attempts[u]
      /\ attempts' = [u \in Tenants |-> attempts'[u]]
  BY <1>1 DEF Handle
<1>6. /\ \A u \in Tenants : u # t => contacts'[u] = contacts[u]
      /\ contacts' = [u \in Tenants |-> contacts'[u]]
  BY <1>1 DEF Handle
<1> QED BY <1>2, <1>3, <1>4, <1>5, <1>6 DEF Untouched

LEMMA HandleKeeps ==
    ASSUME HandleTypes, Counters, TimeInv, QuotaPerRun, \A u \in Tenants : Spent(u) /\ Told(u),
           NEW t \in Tenants, NEW k \in Keys \cup {NoKey}, NEW v, Handle(t, k, v),
           life' = life, epoch' = epoch, pc = "ask", pc' # "bind"
    PROVE  /\ HandleTypes' /\ TimeInv' /\ QuotaPerRun'
           /\ \A u \in Tenants : Spent(u)' /\ Told(u)'
           /\ \A u \in Tenants : \A l : l # life => Cardinality(Contacted(u, l)') = Cardinality(Contacted(u, l))
           /\ \A u \in Tenants : \A i \in DOMAIN mem[u] : i \in DOMAIN mem'[u] /\ mem'[u][i] = mem[u][i]
           /\ \E i \in DOMAIN mem'[t] : mem'[t][i].verdict = v /\ mem'[t][i].key = k
<1>1. v \in Verdicts(t, k)
  BY DEF Handle
<1>2. /\ life \in Nat /\ epoch \in Nat /\ \A u \in Tenants : mem[u] \in Seq(Lines) /\ file[u] \in Seq(Lines)
      /\ \A u \in Tenants : contacts[u] \in Seq(Contacts)
  BY DEF HandleTypes, Counters
<1>3. /\ attempts'[t] \in Seq(Nat) /\ Len(attempts'[t]) <= Quota[t]
      /\ \A j \in DOMAIN attempts'[t] : attempts'[t][j] <= epoch
      /\ contacts'[t] \in Seq(Contacts)
      /\ \A i \in DOMAIN contacts'[t] : contacts'[t][i].life <= life /\ contacts'[t][i].epoch <= epoch
      /\ Spent(t)'
      /\ \A l : l # life => Cardinality(Contacted(t, l)') = Cardinality(Contacted(t, l))
      /\ Cardinality(Contacted(t, life)') = Cardinality(Contacted(t, life)) + (IF v \in Upstream THEN 1 ELSE 0)
      /\ \A e : e # epoch => Cardinality(InWindow(t, e)') = Cardinality(InWindow(t, e))
      /\ Cardinality(InWindow(t, epoch)') <= Quota[t]
  BY HandleAttempts
<1>4. /\ mem'[t] = Extended(mem[t], k, v) /\ file'[t] = Extended(file[t], k, v)
      /\ \A u \in Tenants : u # t => Untouched(u)
      /\ cache'[t] = IF v = "served_from_upstream" THEN cache[t] \cup {k} ELSE cache[t]
      /\ mem' = [u \in Tenants |-> mem'[u]] /\ file' = [u \in Tenants |-> file'[u]] /\ cache' = [u \in Tenants |-> cache'[u]]
      /\ attempts' = [u \in Tenants |-> attempts'[u]] /\ contacts' = [u \in Tenants |-> contacts'[u]]
  BY HandleUpdates
<1>5. /\ mem'[t] \in Seq(Lines) /\ DOMAIN mem'[t] = 1 .. Len(mem'[t]) /\ DOMAIN mem[t] = 1 .. Len(mem[t])
      /\ Len(mem[t]) \in Nat /\ Len(mem'[t]) \in Nat /\ Len(mem'[t]) > Len(mem[t])
      /\ \A i \in 1 .. Len(mem[t]) : mem'[t][i] = mem[t][i]
      /\ \A i \in Len(mem[t]) + 1 .. Len(mem'[t]) : mem'[t][i].life = life /\ mem'[t][i].key = k
      /\ mem'[t][Len(mem'[t])].verdict = v
      /\ Cardinality(UpstreamLines(mem'[t])) = Cardinality(UpstreamLines(mem[t])) + (IF v \in Upstream THEN 1 ELSE 0)
  <2>1. /\ mem[t] \in Seq(Lines) /\ mem'[t] = Extended(mem[t], k, v)
        /\ k \in Keys \cup {NoKey} /\ t \in Tenants /\ v \in Verdicts(t, k) /\ life \in Nat /\ epoch \in Nat
    BY <1>1, <1>2, <1>4
  <2> QED BY ONLY <2>1, LoggedLines
<1>6. file'[t] \in Seq(Lines)
  BY <1>1, <1>2, <1>4, LoggedLines
<1>7. HandleTypes'
  <2>1. cache'[t] \in SUBSET Keys
    <3>1. v = "served_from_upstream" => k \in Keys
      <4>1. "served_from_upstream" \in Upstream
        BY DEF Upstream
      <4> QED BY <1>1, <4>1, VerdictCases
    <3> QED BY <1>4, <3>1 DEF HandleTypes
  <2>2. \A u \in Tenants : /\ cache'[u] \in SUBSET Keys /\ attempts'[u] \in Seq(Nat) /\ Len(attempts'[u]) <= Quota[u]
                           /\ mem'[u] \in Seq(Lines) /\ file'[u] \in Seq(Lines) /\ contacts'[u] \in Seq(Contacts)
    <3> SUFFICES ASSUME NEW u \in Tenants
                 PROVE  /\ cache'[u] \in SUBSET Keys /\ attempts'[u] \in Seq(Nat) /\ Len(attempts'[u]) <= Quota[u]
                        /\ mem'[u] \in Seq(Lines) /\ file'[u] \in Seq(Lines) /\ contacts'[u] \in Seq(Contacts)
      OBVIOUS
    <3>1. CASE u = t
      BY <1>3, <1>5, <1>6, <2>1, <3>1
    <3>2. CASE u # t
      BY <1>4, <3>2 DEF Untouched, HandleTypes
    <3> QED BY <3>1, <3>2
  <2> QED BY <1>4, <2>2 DEF HandleTypes
<1>8. TimeInv'
  <2> SUFFICES ASSUME NEW u \in Tenants
               PROVE  /\ \A i \in DOMAIN contacts'[u] : contacts'[u][i].life <= life /\ contacts'[u][i].epoch <= epoch
                      /\ \A j \in DOMAIN attempts'[u] : attempts'[u][j] <= epoch
    BY DEF TimeInv
  <2>1. CASE u = t
    BY <1>3, <2>1
  <2>2. CASE u # t
    BY <1>4, <2>2 DEF Untouched, TimeInv
  <2> QED BY <2>1, <2>2
<1>9. QuotaPerRun'
  <2> SUFFICES ASSUME NEW u \in Tenants, NEW e \in 0 .. epoch PROVE Cardinality(InWindow(u, e)') <= Quota[u]
    BY DEF QuotaPerRun, InWindow
  <2>1. Cardinality(InWindow(u, e)) <= Quota[u]
    BY DEF QuotaPerRun, InWindow
  <2>2. CASE u = t /\ e # epoch
    BY <1>3, <2>1, <2>2
  <2>3. CASE u = t /\ e = epoch
    <3>1. InWindow(t, e)' = InWindow(t, epoch)'
      BY <2>3 DEF InWindow, Contacted
    <3> QED BY <1>3, <2>3, <3>1
  <2>4. CASE u # t
    BY <1>4, <2>1, <2>4, UntouchedKeeps
  <2> QED BY <2>2, <2>3, <2>4
<1>10. ASSUME NEW u \in Tenants PROVE Spent(u)' /\ Told(u)'
  <2>1. CASE u = t
    <3>1. Told(t)
      OBVIOUS
    <3>2. \A i \in DOMAIN mem'[t] : mem'[t][i].life = life
      <4>1. \A i \in 1 .. Len(mem'[t]) : i \in 1 .. Len(mem[t]) \/ i \in Len(mem[t]) + 1 .. Len(mem'[t])
        BY <1>5
      <4> QED BY <1>5, <3>1, <4>1 DEF Told
    <3>3. Cardinality(UpstreamLines(mem'[t])) = Cardinality(Contacted(t, life)')
      BY <1>3, <1>5, <3>1 DEF Told
    <3>4. Told(t)'
      BY <3>2, <3>3 DEF Told, UpstreamLines
    <3> QED BY <1>3, <2>1, <3>4
  <2>2. CASE u # t
    BY <1>4, <2>2, UntouchedKeeps
  <2> QED BY <2>1, <2>2
<1>11. ASSUME NEW u \in Tenants, NEW l, l # life PROVE Cardinality(Contacted(u, l)') = Cardinality(Contacted(u, l))
  <2>1. CASE u = t
    BY <1>3, <1>11, <2>1
  <2>2. CASE u # t
    BY <1>4, <2>2, UntouchedKeeps
  <2> QED BY <2>1, <2>2
<1>12. ASSUME NEW u \in Tenants, NEW i \in DOMAIN mem[u] PROVE i \in DOMAIN mem'[u] /\ mem'[u][i] = mem[u][i]
  <2>1. CASE u = t
    BY <1>5, <2>1
  <2>2. CASE u # t
    BY <1>4, <2>2 DEF Untouched
  <2> QED BY <2>1, <2>2
<1>13. \E i \in DOMAIN mem'[t] : mem'[t][i].verdict = v /\ mem'[t][i].key = k
  <2>1. Len(mem'[t]) \in DOMAIN mem'[t] /\ Len(mem'[t]) \in Len(mem[t]) + 1 .. Len(mem'[t])
    BY <1>5
  <2> QED BY <1>5, <2>1
<1> QED BY <1>7, <1>8, <1>9, <1>10, <1>11, <1>12, <1>13

-----------------------------------------------------------------------------
\* The types of what handle() leaves alone.
OtherTypes ==
    /\ pc \in {"idle", "bind", "ask", "done"} /\ at \in Nat
    /\ config \in Configs \cup {<<>>}
    /\ sent \in [Tenants -> Nat]
    /\ answers \in Seq(AllVerdicts) /\ Len(answers) <= Len(Script) /\ pkg_gets \in Nat
    /\ marks \in Seq(Nat \X Nat)
    /\ report \in Reports \cup {NoReport}
    /\ clean \in BOOLEAN /\ faults \in 0 .. MaxFaults

LEMMA TypeParts ==
    /\ TypeOK => HandleTypes /\ Counters /\ OtherTypes
    /\ HandleTypes' /\ Counters' /\ OtherTypes' => TypeOK'
    /\ HandleTypes => \A t \in Tenants : \A i \in DOMAIN contacts[t] : contacts[t][i] \in Contacts /\ contacts[t][i].life \in Nat
<1>1. TypeOK => HandleTypes /\ Counters /\ OtherTypes
  BY DEF TypeOK, HandleTypes, Counters, OtherTypes, Contacts
<1>2. HandleTypes' /\ Counters' /\ OtherTypes' => TypeOK'
  BY DEF TypeOK, HandleTypes, Counters, OtherTypes, Contacts
<1>3. ASSUME HandleTypes, NEW t \in Tenants, NEW i \in DOMAIN contacts[t] PROVE contacts[t][i] \in Contacts /\ contacts[t][i].life \in Nat
  <2>1. contacts[t] \in Seq(Contacts)
    BY <1>3 DEF HandleTypes
  <2>2. contacts[t][i] \in Contacts
    BY <2>1
  <2> QED BY <2>2 DEF Contacts
<1> QED BY <1>1, <1>2, <1>3

LEMMA FaultTypes ==
    ASSUME OtherTypes, Fail \/ UNCHANGED <<clean, faults>>
    PROVE  clean' \in BOOLEAN /\ faults' \in 0 .. MaxFaults
<1>1. faults \in 0 .. MaxFaults /\ clean \in BOOLEAN /\ MaxFaults \in Nat
  BY BoundAssumption DEF OtherTypes
<1>2. CASE Fail
  <2>1. faults' \in 0 .. MaxFaults
    BY <1>1, <1>2 DEF Fail
  <2>2. clean' \in BOOLEAN
    BY <1>2, Zenon DEF Fail
  <2> QED BY <2>1, <2>2
<1>3. CASE UNCHANGED <<clean, faults>>
  BY <1>1, <1>3
<1> QED BY <1>2, <1>3

LEMMA Lists ==
    ASSUME OtherTypes
    PROVE  /\ config \in Seq(Tenants) /\ Len(config) \in Nat /\ DOMAIN config = 1 .. Len(config)
           /\ \A j \in 1 .. Len(config) : config[j] \in Tenants
<1>1. config \in Seq(Tenants)
  <2>1. <<>> \in Seq(Tenants)
    OBVIOUS
  <2>2. config \in Configs \/ config = <<>>
    BY DEF OtherTypes
  <2> QED BY <2>1, <2>2, ConfigAssumption
<1> QED BY <1>1

\* A report stays right while its run's requests are not added to.
LEMMA ReportKept ==
    ASSUME ReportInv, report' = report, report # NoReport => report.life <= life' /\ (report.life = life' => pc' = "done"),
           report # NoReport =>
               \A t \in Tenants : \A l : l = report.life => Cardinality(Contacted(t, l)') = Cardinality(Contacted(t, l))
    PROVE  ReportInv'
<1> SUFFICES ASSUME report # NoReport PROVE ReportInv'
  BY DEF ReportInv
<1>0. PICK r : r = report.life
  OBVIOUS
<1>1. \A t \in Tenants : Cardinality(UpstreamLines(report.root[t])) = Cardinality(Contacted(t, r)')
  BY <1>0 DEF ReportInv
<1>2. \A t \in Tenants : Contacted(t, r)' = Contacted(t, report.life)'
  BY <1>0 DEF Contacted
<1>3. \A t \in Tenants : Cardinality(UpstreamLines(report.root[t])) = Cardinality(Contacted(t, report.life)')
  BY <1>1, <1>2
<1> QED BY <1>3 DEF ReportInv, ServedKeys, UpstreamLines

\* Nothing was asked for.
LEMMA NothingAsked ==
    ASSUME UNCHANGED contacts
    PROVE  \A t \in Tenants : \A l : Contacted(t, l)' = Contacted(t, l)
BY DEF Contacted

\* Nothing was asked for, and no window began.
LEMMA QuotaKept ==
    ASSUME QuotaPerRun, UNCHANGED <<contacts, life, epoch>>
    PROVE  QuotaPerRun'
BY DEF QuotaPerRun, Contacted

LEMMA InitIInv == Init => IInv
<1> SUFFICES ASSUME Init PROVE IInv
  OBVIOUS
<1>1. TypeOK
  <2>1. /\ cache \in [Tenants -> SUBSET Keys] /\ attempts \in [Tenants -> Seq(Nat)]
        /\ mem \in [Tenants -> Seq(Lines)] /\ file \in [Tenants -> Seq(Lines)] /\ sent \in [Tenants -> Nat]
        /\ contacts \in [Tenants -> Seq(Contacts)] /\ \A t \in Tenants : Len(attempts[t]) = 0
    BY DEF Init, Fresh
  <2>2. answers \in Seq(AllVerdicts) /\ Len(answers) = 0 /\ marks \in Seq(Nat \X Nat) /\ Len(Script) \in Nat
    BY Constants, ScriptItems DEF Init
  <2> QED BY <2>1, <2>2, QuotaAssumption, BoundAssumption DEF Init, TypeOK, Contacts
<1>2. \A t \in Tenants : contacts[t] = <<>> /\ attempts[t] = <<>>
  BY DEF Init, Fresh
<1>3. TimeInv
  BY <1>2 DEF TimeInv
<1>4. BindInv /\ RunInv /\ ReportInv
  BY DEF Init, BindInv, RunInv, ReportInv
<1>5. QuotaPerRun
  <2> SUFFICES ASSUME NEW t \in Tenants, NEW e \in 0 .. epoch PROVE Cardinality({i \in Contacted(t, life) : contacts[t][i].epoch = e}) <= Quota[t]
    BY DEF QuotaPerRun
  <2>1. {i \in Contacted(t, life) : contacts[t][i].epoch = e} = {}
    BY <1>2 DEF Contacted
  <2> QED BY <2>1, QuotaAssumption, FS_EmptySet
<1> QED BY <1>1, <1>3, <1>4, <1>5 DEF IInv

LEMMA StartRunStep == ASSUME IInv, NEW c \in Configs, StartRun(c) PROVE IInv'
<1> USE DEF IInv, StartRun
<1>1. HandleTypes /\ Counters /\ OtherTypes
  BY TypeParts
<1>2. c \in Seq(Tenants) /\ Len(c) \in Nat
  BY ConfigAssumption
<1>3. TypeOK'
  <2>1. HandleTypes'
    BY <1>1 DEF HandleTypes
  <2>2. Counters'
    BY <1>1 DEF Counters
  <2>3. OtherTypes'
    <3>1. answers' \in Seq(AllVerdicts) /\ Len(answers') = 0 /\ Len(Script) \in Nat /\ marks' \in Seq(Nat \X Nat)
      BY Constants, ScriptItems
    <3> QED BY <1>1, <3>1 DEF OtherTypes
  <2> QED BY <2>1, <2>2, <2>3, TypeParts
<1>4. TimeInv'
  <2>1. \A t \in Tenants : \A i \in DOMAIN contacts[t] : contacts[t][i].life \in Nat
    BY <1>1, TypeParts
  <2> QED BY <1>1, <2>1 DEF TimeInv, Counters
<1>5. BindInv'
  BY <1>2 DEF BindInv
<1>6. RunInv'
  BY DEF RunInv
<1>7. ReportInv'
  <2>1. report # NoReport => report.life <= life' /\ report.life # life'
    <3>1. report # NoReport => report.life \in Nat /\ report.life <= life
      BY <1>1 DEF OtherTypes, Reports, ReportInv
    <3> QED BY <1>1, <3>1 DEF Counters
  <2> QED BY <2>1, NothingAsked, ReportKept
<1>8. QuotaPerRun'
  <2> SUFFICES ASSUME NEW t \in Tenants, NEW e \in 0 .. epoch
               PROVE  Cardinality({i \in Contacted(t, life)' : contacts[t][i].epoch = e}) <= Quota[t]
    BY DEF QuotaPerRun
  <2> DEFINE asked == {i \in Contacted(t, life)' : contacts[t][i].epoch = e}
  <2>1. asked = {}
    <3>1. \A i \in DOMAIN contacts[t] : contacts[t][i].life # life + 1
      BY <1>1, TypeParts DEF TimeInv, Counters
    <3> QED BY <3>1 DEF Contacted
  <2> HIDE DEF asked
  <2>2. Cardinality(asked) = 0 /\ Quota[t] \in Nat
    BY <2>1, QuotaAssumption, FS_EmptySet
  <2>3. Cardinality(asked) <= Quota[t]
    BY <2>2
  <2> QED BY <2>3 DEF asked
<1> QED BY <1>3, <1>4, <1>5, <1>6, <1>7, <1>8

\* The actions that leave brokers, answers and report alone.
LEMMA DuplicateStep == ASSUME IInv, Duplicate \/ Kill PROVE IInv'
<1>0. Fail \/ UNCHANGED <<clean, faults>>
  BY DEF Duplicate, Kill
<1> USE DEF IInv, Duplicate, Kill, broker
<1>1. HandleTypes /\ Counters /\ OtherTypes
  BY TypeParts
<1>2. TypeOK'
  <2>1. HandleTypes' /\ Counters'
    BY <1>1 DEF HandleTypes, Counters
  <2>2. OtherTypes'
    <3>1. faults' \in 0 .. MaxFaults /\ clean' \in BOOLEAN
      BY <1>0, <1>1, FaultTypes
    <3>2. UNCHANGED <<at, config, sent, answers, pkg_gets, marks, report>> /\ pc' = "idle"
      OBVIOUS
    <3> QED BY <1>1, <3>1, <3>2 DEF OtherTypes
  <2> QED BY <2>1, <2>2, TypeParts
<1>3. TimeInv' /\ BindInv' /\ RunInv'
  BY DEF TimeInv, BindInv, RunInv
<1>4. ReportInv'
  <2>1. report # NoReport => report.life <= life' /\ report.life # life'
    BY DEF ReportInv
  <2> QED BY <2>1, NothingAsked, ReportKept
<1> QED BY <1>2, <1>3, <1>4, QuotaKept

\* The notes a tenant's transcript begins with.
LEMMA FirstNotes ==
    ASSUME Counters
    PROVE  LET f == <<Note("tenant_bound"), Note("lockfile_loaded")>>
           IN  /\ f \in Seq(Lines) /\ DOMAIN f = 1 .. 2 /\ <<>> \o f = f
               /\ f[1].verdict = "tenant_bound" /\ f[2].verdict = "lockfile_loaded"
               /\ \A i \in 1 .. 2 : f[i].life = life /\ f[i].epoch = epoch /\ f[i].kind = "note"
<1>1. \A e \in {"tenant_bound", "lockfile_loaded"} : /\ Note(e) \in Lines
         /\ Note(e).verdict = e /\ Note(e).life = life /\ Note(e).epoch = epoch /\ Note(e).kind = "note"
  BY DEF Note, Line, Lines, Counters
<1> HIDE DEF Note
<1> DEFINE f == <<Note("tenant_bound"), Note("lockfile_loaded")>>
<1>2. Note("tenant_bound") \in Lines /\ Note("lockfile_loaded") \in Lines
  BY <1>1
<1>3. f \in Seq(Lines) /\ DOMAIN f = 1 .. 2 /\ <<>> \o f = f /\ f[1] = Note("tenant_bound") /\ f[2] = Note("lockfile_loaded")
  BY <1>2
<1>4. \A i \in 1 .. 2 : i = 1 \/ i = 2
  OBVIOUS
<1> HIDE DEF f
<1>5. /\ f[1].verdict = "tenant_bound" /\ f[2].verdict = "lockfile_loaded"
      /\ \A i \in 1 .. 2 : f[i].life = life /\ f[i].epoch = epoch /\ f[i].kind = "note"
  BY <1>1, <1>3, <1>4
<1> QED BY <1>3, <1>5 DEF f

LEMMA BindStep == ASSUME IInv, Bind PROVE IInv'
<1> USE DEF IInv
<1>1. HandleTypes /\ Counters /\ OtherTypes
  BY TypeParts
<1> DEFINE t == config[at]
           notes == <<Note("tenant_bound"), Note("lockfile_loaded")>>
<1>2. notes \in Seq(Lines) /\ <<>> \o notes = notes
  BY <1>1, FirstNotes
<1>3. t \in Tenants /\ at \in 1 .. Len(config) /\ Len(config) \in Nat /\ pc = "bind" /\ pc' = "bind"
  BY <1>1, Lists DEF Bind, BindInv
<1> HIDE DEF notes, t
<1>4. /\ cache' = [cache EXCEPT ![t] = {}] /\ attempts' = [attempts EXCEPT ![t] = <<>>]
      /\ mem' = [mem EXCEPT ![t] = notes] /\ file' = [file EXCEPT ![t] = notes] /\ at' = at + 1
      /\ UNCHANGED <<pc, life, config, epoch, sent, contacts, answers, pkg_gets, marks, report, clean, faults>>
  BY <1>2 DEF Bind, Removed, t, notes
<1>5. TypeOK'
  <2>1. <<>> \in Seq(Nat) /\ Len(<<>>) = 0 /\ Quota[t] \in Nat
    BY <1>3, QuotaAssumption
  <2>2. /\ cache' \in [Tenants -> SUBSET Keys] /\ attempts' \in [Tenants -> Seq(Nat)]
        /\ mem' \in [Tenants -> Seq(Lines)] /\ file' \in [Tenants -> Seq(Lines)] /\ contacts' \in [Tenants -> Seq(Contacts)]
    BY <1>1, <1>2, <1>3, <1>4, <2>1 DEF HandleTypes
  <2>3. \A u \in Tenants : Len(attempts'[u]) <= Quota[u]
    BY <1>1, <1>3, <1>4, <2>1 DEF HandleTypes
  <2>4. HandleTypes' /\ Counters'
    BY <1>1, <1>4, <2>2, <2>3 DEF HandleTypes, Counters
  <2>5. OtherTypes'
    BY <1>1, <1>4 DEF OtherTypes
  <2> QED BY <2>4, <2>5, TypeParts
<1>6. TimeInv'
  <2> SUFFICES ASSUME NEW u \in Tenants
               PROVE  /\ \A i \in DOMAIN contacts[u] : /\ contacts[u][i].life <= life /\ contacts[u][i].epoch <= epoch
                                                      /\ contacts[u][i].life < life
                      /\ \A j \in DOMAIN attempts'[u] : attempts'[u][j] <= epoch
    BY <1>4 DEF TimeInv
  <2>1. \A j \in DOMAIN attempts'[u] : attempts'[u][j] <= epoch
    <3>1. CASE u = t
      BY <1>1, <1>3, <1>4, <3>1 DEF HandleTypes
    <3>2. CASE u # t
      BY <1>1, <1>4, <3>2 DEF HandleTypes, TimeInv
    <3> QED BY <3>1, <3>2
  <2> QED BY <1>3, <2>1 DEF TimeInv
<1>7. BindInv'
  <2>1. ASSUME NEW j \in 1 .. at PROVE Begun(config[j])'
    <3>1. j \in 1 .. Len(config)
      BY <1>3
    <3>2. config[j] \in Tenants
      BY <1>1, <3>1, Lists
    <3>3. CASE config[j] = t
      <4>1. cache'[t] = {} /\ attempts'[t] = <<>> /\ mem'[t] = notes /\ file'[t] = notes
        BY <1>1, <1>3, <1>4 DEF HandleTypes
      <4> QED BY <1>4, <3>3, <4>1 DEF Begun, notes, Note, Line
    <3>4. CASE config[j] # t
      <4>1. j \in 1 .. at - 1
        BY <1>3, <3>4 DEF t
      <4>2. Begun(config[j])
        BY <1>3, <4>1 DEF BindInv
      <4>3. /\ cache'[config[j]] = cache[config[j]] /\ attempts'[config[j]] = attempts[config[j]]
            /\ mem'[config[j]] = mem[config[j]] /\ file'[config[j]] = file[config[j]]
        BY <1>1, <1>4, <3>2, <3>4 DEF HandleTypes
      <4> QED BY <1>4, <4>2, <4>3 DEF Begun, Note, Line
    <3> QED BY <3>3, <3>4
  <2>2. at' - 1 = at /\ at' \in 1 .. Len(config') + 1
    BY <1>3, <1>4
  <2>3. \A j \in 1 .. at' - 1 : Begun(config[j])'
    BY <2>1, <2>2
  <2> QED BY <1>3, <1>4, <2>2, <2>3 DEF BindInv
<1>8. RunInv'
  BY <1>3 DEF RunInv
<1>9. ReportInv'
  <2>1. report # NoReport => report.life <= life' /\ report.life # life'
    BY <1>3, <1>4 DEF ReportInv
  <2> QED BY <1>4, <2>1, NothingAsked, ReportKept
<1> QED BY <1>4, <1>5, <1>6, <1>7, <1>8, <1>9, QuotaKept

\* A tenant that has begun, in a run that has asked for nothing.
LEMMA BegunRun ==
    ASSUME HandleTypes, Counters, NEW t \in Tenants, Begun(t), \A i \in DOMAIN contacts[t] : contacts[t][i].life < life
    PROVE  Spent(t) /\ Told(t)
<1> DEFINE notes == <<Note("tenant_bound"), Note("lockfile_loaded")>>
<1>1. /\ DOMAIN notes = 1 .. 2
      /\ notes[1].verdict = "tenant_bound" /\ notes[2].verdict = "lockfile_loaded"
      /\ \A i \in 1 .. 2 : notes[i].life = life
  BY FirstNotes
<1>2. \A i \in 1 .. 2 : i = 1 \/ i = 2
  OBVIOUS
<1> HIDE DEF notes
<1>3. UpstreamLines(notes) = {}
  BY <1>1, <1>2 DEF UpstreamLines, Upstream
<1>4. Contacted(t, life) = {}
  <2>1. \A i \in DOMAIN contacts[t] : contacts[t][i].life # life
    BY TypeParts DEF Counters
  <2> QED BY <2>1 DEF Contacted
<1>5. InWindow(t, epoch) = {}
  BY <1>4 DEF InWindow
<1>6. mem[t] = notes /\ attempts[t] = <<>>
  BY DEF Begun, notes
<1>7. Cardinality({}) = 0
  BY FS_EmptySet
<1>8. Told(t)
  BY <1>1, <1>3, <1>4, <1>6 DEF Told
<1>9. Spent(t)
  BY <1>5, <1>6, <1>7 DEF Spent
<1> QED BY <1>8, <1>9

LEMMA ServeStep == ASSUME IInv, Serve PROVE IInv'
<1> USE DEF IInv, Serve, broker
<1>1. HandleTypes /\ Counters /\ OtherTypes
  BY TypeParts
<1>2. pc = "bind" /\ pc' \in {"ask", "idle"} /\ at' \in Nat /\ (pc' = "ask" => at' = 1 /\ ToSet(config) = Tenants)
  BY <1>1 DEF OtherTypes
<1>3. TypeOK'
  <2>1. HandleTypes' /\ Counters'
    BY <1>1 DEF HandleTypes, Counters
  <2>2. OtherTypes'
    <3>1. UNCHANGED <<config, sent, answers, pkg_gets, marks, report, clean, faults>>
      OBVIOUS
    <3> HIDE DEF Serve
    <3> QED BY <1>1, <1>2, <3>1 DEF OtherTypes
  <2> QED BY <2>1, <2>2, TypeParts
<1>4. TimeInv' /\ BindInv'
  BY <1>2 DEF TimeInv, BindInv
<1>5. RunInv'
  <2> SUFFICES ASSUME pc' = "ask" PROVE RunInv'
    BY DEF RunInv
  <2>1. ASSUME NEW t \in Tenants PROVE Spent(t)' /\ Told(t)'
    <3>1. PICK j \in 1 .. Len(config) : config[j] = t
      BY <1>1, <1>2, Lists DEF ToSet
    <3>2. j \in 1 .. at - 1
      BY <1>1, Lists DEF OtherTypes
    <3>3. Begun(t)
      BY <1>2, <3>1, <3>2 DEF BindInv
    <3>4. \A i \in DOMAIN contacts[t] : contacts[t][i].life < life
      BY <1>2 DEF TimeInv
    <3>5. Untouched(t)
      BY DEF Untouched
    <3> QED BY <1>1, <3>3, <3>4, <3>5, BegunRun, UntouchedKeeps
  <2>2. at' = 1 /\ answers' = <<>> /\ Len(Script) \in Nat
    BY <1>2, Constants, ScriptItems DEF BindInv
  <2>3. Len(answers') = at' - 1 /\ at' \in 1 .. Len(Script) + 1 /\ 1 .. at' - 1 = {}
    BY <2>2
  <2> QED BY <2>1, <2>3 DEF RunInv
<1>6. ReportInv'
  <2>1. report # NoReport => report.life <= life' /\ report.life # life'
    BY <1>2 DEF ReportInv
  <2> QED BY <2>1, NothingAsked, ReportKept
<1> QED BY <1>3, <1>4, <1>5, <1>6, QuotaKept

\* The request whose turn it is.
LEMMA OpTypes ==
    ASSUME IInv, Asking
    PROVE  /\ at \in 1 .. Len(Script) /\ Len(Script) \in Nat /\ Op \in Asks
           /\ Op.tenant \in Tenants /\ Op.key \in Keys \cup {NoKey}
           /\ answers \in Seq(AllVerdicts) /\ Len(answers) = at - 1
<1>1. Script \in Seq(Asks) /\ Len(Script) \in Nat
  BY Constants, ScriptItems
<1>2. at \in 1 .. Len(Script) + 1 /\ Len(answers) = at - 1
  BY DEF IInv, RunInv, Asking
<1>3. at \in 1 .. Len(Script)
  BY <1>1, <1>2 DEF Asking
<1>4. Op \in Asks
  BY <1>1, <1>3 DEF Op
<1>5. answers \in Seq(AllVerdicts)
  BY DEF IInv, TypeOK
<1> QED BY <1>1, <1>2, <1>3, <1>4, <1>5 DEF Asks

\* One more answer.
LEMMA Answered ==
    ASSUME IInv, Asking, NEW v \in AllVerdicts, answers' = Append(answers, v), at' = at + 1
    PROVE  /\ answers' \in Seq(AllVerdicts) /\ Len(answers') <= Len(Script) /\ Len(answers') = at' - 1
           /\ at' \in 1 .. Len(Script) + 1 /\ at' \in Nat
           /\ \A n \in 1 .. at - 1 : answers'[n] = answers[n]
           /\ answers'[at] = v
           /\ \A n \in 1 .. at' - 1 : n \in 1 .. at - 1 \/ n = at
<1>1. /\ at \in 1 .. Len(Script) /\ Len(Script) \in Nat
      /\ answers \in Seq(AllVerdicts) /\ Len(answers) = at - 1
  BY OpTypes
<1>2. /\ Append(answers, v) \in Seq(AllVerdicts)
      /\ Len(Append(answers, v)) = Len(answers) + 1
      /\ Append(answers, v)[Len(answers) + 1] = v /\ \A i \in 1 .. Len(answers) : Append(answers, v)[i] = answers[i]
  BY <1>1, AppendGrows
<1> QED BY <1>1, <1>2

LEMMA FetchStep == ASSUME IInv, NEW v, Fetch(v) PROVE IInv'
<1> USE DEF IInv
<1>1. HandleTypes /\ Counters /\ OtherTypes
  BY TypeParts
<1>2. /\ Asking /\ Handle(Op.tenant, Op.key, v) /\ Count(Op.tenant) /\ pc = "ask" /\ pc' = "ask"
      /\ Fail \/ UNCHANGED <<clean, faults>>
      /\ pkg_gets' = pkg_gets + 1 \/ pkg_gets' = pkg_gets
      /\ answers' = Append(answers, v) /\ at' = at + 1
      /\ UNCHANGED <<life, config, epoch, marks, report>>
  BY DEF Fetch, Asking
<1> DEFINE t == Op.tenant
           k == Op.key
<1>3. t \in Tenants /\ k \in Keys \cup {NoKey} /\ at \in 1 .. Len(Script)
  BY <1>2, OpTypes
<1>4. v \in AllVerdicts
  BY <1>2, <1>3, VerdictCases DEF Handle, AllVerdicts
<1>5. \A u \in Tenants : Spent(u) /\ Told(u)
  BY <1>2 DEF RunInv
<1> HIDE DEF t, k
<1>6. /\ HandleTypes' /\ TimeInv' /\ QuotaPerRun'
      /\ \A u \in Tenants : Spent(u)' /\ Told(u)'
      /\ \A u \in Tenants : \A l : l # life => Cardinality(Contacted(u, l)') = Cardinality(Contacted(u, l))
      /\ \A u \in Tenants : \A i \in DOMAIN mem[u] : i \in DOMAIN mem'[u] /\ mem'[u][i] = mem[u][i]
      /\ \E i \in DOMAIN mem'[t] : mem'[t][i].verdict = v /\ mem'[t][i].key = k
  <2>1. Handle(t, k, v) /\ pc' # "bind" /\ life' = life /\ epoch' = epoch
    BY <1>2 DEF t, k
  <2> QED BY <1>1, <1>2, <1>3, <1>5, <2>1, HandleKeeps
<1>7. /\ answers' \in Seq(AllVerdicts) /\ Len(answers') <= Len(Script) /\ Len(answers') = at' - 1
      /\ at' \in 1 .. Len(Script) + 1 /\ at' \in Nat
      /\ \A n \in 1 .. at - 1 : answers'[n] = answers[n]
      /\ answers'[at] = v
      /\ \A n \in 1 .. at' - 1 : n \in 1 .. at - 1 \/ n = at
  BY <1>2, <1>4, Answered
<1>8. OtherTypes'
  <2>1. clean' \in BOOLEAN /\ faults' \in 0 .. MaxFaults
    BY <1>1, <1>2, FaultTypes
  <2>2. sent' \in [Tenants -> Nat]
    BY <1>1, <1>2, <1>3 DEF Count, OtherTypes, t
  <2>3. pkg_gets' \in Nat
    BY <1>1, <1>2 DEF OtherTypes
  <2> QED BY <1>1, <1>2, <1>7, <2>1, <2>2, <2>3 DEF OtherTypes
<1>9. Counters' /\ TypeOK'
  BY <1>1, <1>2, <1>6, <1>8, TypeParts DEF Counters
<1>10. BindInv'
  BY <1>2 DEF BindInv
<1>11. RunInv'
  <2>1. ASSUME NEW n \in 1 .. at - 1 PROVE AnswerTold(n)'
    <3>1. AnswerTold(n)
      BY <1>2, <2>1 DEF RunInv
    <3>2. Script[n].tenant \in Tenants
      <4>1. n \in 1 .. Len(Script) /\ Script \in Seq(Asks)
        BY <1>3, Constants, ScriptItems
      <4>2. Script[n] \in Asks
        BY <4>1
      <4> QED BY <4>2 DEF Asks
    <3> QED BY <1>6, <1>7, <3>1, <3>2 DEF AnswerTold
  <2>2. ASSUME NEW n, n = at PROVE AnswerTold(n)'
    <3>1. \E i \in DOMAIN mem'[Script[at].tenant] :
             mem'[Script[at].tenant][i].verdict = answers'[at] /\ mem'[Script[at].tenant][i].key = Script[at].key
      BY <1>6, <1>7 DEF t, k, Op
    <3> QED BY <2>2, <3>1 DEF AnswerTold
  <2>3. \A n \in 1 .. at' - 1 : AnswerTold(n)'
    BY <1>7, <2>1, <2>2
  <2> QED BY <1>6, <1>7, <2>3 DEF RunInv
<1>12. ReportInv'
  <2>1. report # NoReport => report.life <= life' /\ report.life # life
    BY <1>2 DEF ReportInv
  <2> QED BY <1>2, <1>6, <2>1, ReportKept
<1> QED BY <1>6, <1>9, <1>10, <1>11, <1>12

LEMMA RaisesStep == ASSUME IInv, Raises PROVE IInv'
<1> USE DEF IInv
<1>1. HandleTypes /\ Counters /\ OtherTypes
  BY TypeParts
<1>2. /\ Asking /\ Fail /\ pc = "ask" /\ pc' = "idle"
      /\ UNCHANGED <<life, config, at, epoch, answers, pkg_gets, marks, report>>
  BY DEF Raises, Asking
<1> DEFINE t == Op.tenant
           k == Op.key
<1>3. t \in Tenants /\ k \in Keys \cup {NoKey}
  BY <1>2, OpTypes
<1>4. sent' \in [Tenants -> Nat]
  <2>1. sent' = sent \/ Count(t)
    BY DEF Raises, broker
  <2>2. sent \in [Tenants -> Nat]
    BY <1>1 DEF OtherTypes
  <2> HIDE DEF t
  <2>3. CASE Count(t)
    BY <1>3, <2>2, <2>3 DEF Count
  <2> QED BY <2>1, <2>2, <2>3
<1>5. \A u \in Tenants : Spent(u) /\ Told(u)
  BY <1>2 DEF RunInv
<1>6. UNCHANGED <<cache, attempts, mem, file, contacts>> \/ \E v \in Verdicts(t, k) : Handle(t, k, v)
  BY DEF Raises, broker
<1> HIDE DEF t, k
<1>7. /\ HandleTypes' /\ TimeInv' /\ QuotaPerRun'
      /\ \A u \in Tenants : \A l : l # life => Cardinality(Contacted(u, l)') = Cardinality(Contacted(u, l))
  <2>1. CASE UNCHANGED <<cache, attempts, mem, file, contacts>>
    <3>1. HandleTypes'
      BY <1>1, <2>1 DEF HandleTypes
    <3>2. TimeInv'
      BY <1>2, <2>1 DEF TimeInv
    <3>3. QuotaPerRun'
      BY <1>2, <2>1, QuotaKept
    <3> QED BY <2>1, <3>1, <3>2, <3>3 DEF Contacted
  <2>2. ASSUME NEW v \in Verdicts(t, k), Handle(t, k, v)
        PROVE  /\ HandleTypes' /\ TimeInv' /\ QuotaPerRun'
               /\ \A u \in Tenants : \A l : l # life => Cardinality(Contacted(u, l)') = Cardinality(Contacted(u, l))
    <3>1. Handle(t, k, v) /\ pc' # "bind" /\ life' = life /\ epoch' = epoch
      BY <1>2, <2>2
    <3> QED BY <1>1, <1>2, <1>3, <1>5, <3>1, HandleKeeps
  <2> QED BY <1>6, <2>1, <2>2
<1>8. TypeOK'
  <2>1. clean' \in BOOLEAN /\ faults' \in 0 .. MaxFaults
    BY <1>1, <1>2, FaultTypes
  <2>2. OtherTypes'
    BY <1>1, <1>2, <1>4, <2>1 DEF OtherTypes
  <2>3. Counters'
    BY <1>1, <1>2 DEF Counters
  <2> QED BY <1>7, <2>2, <2>3, TypeParts
<1>9. BindInv' /\ RunInv'
  BY <1>2 DEF BindInv, RunInv
<1>10. ReportInv'
  <2>1. report # NoReport => report.life <= life' /\ report.life # life /\ report.life # life'
    BY <1>2 DEF ReportInv
  <2> QED BY <1>2, <1>7, <2>1, ReportKept
<1> QED BY <1>7, <1>8, <1>9, <1>10

\* The actions that leave the brokers alone, in a run that goes on.
LEMMA QuietStep ==
    ASSUME IInv, UNCHANGED <<pc, life, config, epoch, broker, report>>, pc = "ask", OtherTypes', RunInv'
    PROVE  IInv'
<1> USE DEF IInv, broker
<1>1. HandleTypes /\ Counters /\ OtherTypes
  BY TypeParts
<1>2. HandleTypes' /\ Counters'
  BY <1>1 DEF HandleTypes, Counters
<1>3. TimeInv' /\ BindInv'
  BY DEF TimeInv, BindInv
<1>4. ReportInv'
  <2>1. report # NoReport => report.life <= life' /\ report.life # life'
    BY DEF ReportInv
  <2> QED BY <2>1, NothingAsked, ReportKept
<1> QED BY <1>2, <1>3, <1>4, QuotaKept, TypeParts

LEMMA SkipStep == ASSUME IInv, Skip \/ TakeMark PROVE IInv'
<1>1. HandleTypes /\ Counters /\ OtherTypes /\ RunInv
  BY TypeParts DEF IInv
<1>2. /\ Asking /\ pc = "ask" /\ answers' = Append(answers, "none") /\ at' = at + 1
      /\ UNCHANGED <<pc, life, config, epoch, broker, pkg_gets, report, clean, faults>>
      /\ marks' = marks \/ marks' = Append(marks, <<pkg_gets, Len(attempts["alpha"])>>)
  BY DEF Skip, TakeMark, Asking
<1>3. "none" \in AllVerdicts
  BY DEF AllVerdicts
<1>4. /\ answers' \in Seq(AllVerdicts) /\ Len(answers') <= Len(Script) /\ Len(answers') = at' - 1
      /\ at' \in 1 .. Len(Script) + 1 /\ at' \in Nat
      /\ \A n \in 1 .. at - 1 : answers'[n] = answers[n]
      /\ answers'[at] = "none"
      /\ \A n \in 1 .. at' - 1 : n \in 1 .. at - 1 \/ n = at
  BY <1>2, <1>3, Answered
<1>5. OtherTypes'
  <2>1. marks' \in Seq(Nat \X Nat)
    <3>1. Len(attempts["alpha"]) \in Nat /\ pkg_gets \in Nat /\ marks \in Seq(Nat \X Nat)
      BY <1>1 DEF HandleTypes, OtherTypes, Tenants
    <3>2. <<pkg_gets, Len(attempts["alpha"])>> \in Nat \X Nat
      BY <3>1
    <3> DEFINE mark == <<pkg_gets, Len(attempts["alpha"])>>
    <3>3. marks' = marks \/ marks' = Append(marks, mark)
      BY <1>2
    <3> HIDE DEF mark
    <3>4. Append(marks, mark) \in Seq(Nat \X Nat)
      BY <3>1, <3>2, AppendGrows DEF mark
    <3> QED BY <3>1, <3>3, <3>4
  <2> QED BY <1>1, <1>2, <1>4, <2>1 DEF OtherTypes, broker
<1>6. RunInv'
  <2>1. ASSUME NEW n \in 1 .. at - 1 PROVE AnswerTold(n)'
    <3>1. AnswerTold(n)
      BY <1>1, <1>2 DEF RunInv
    <3> QED BY <1>2, <1>4, <3>1 DEF AnswerTold, broker
  <2>2. ASSUME NEW n, n = at PROVE AnswerTold(n)'
    BY <1>4, <2>2 DEF AnswerTold
  <2>3. \A n \in 1 .. at' - 1 : AnswerTold(n)'
    BY <1>4, <2>1, <2>2
  <2>4. \A u \in Tenants : Spent(u)' /\ Told(u)'
    <3>1. \A u \in Tenants : Untouched(u)
      BY <1>2 DEF Untouched, broker
    <3> QED BY <1>1, <1>2, <3>1, UntouchedKeeps DEF RunInv
  <2> QED BY <1>4, <2>3, <2>4 DEF RunInv
<1> QED BY <1>2, <1>5, <1>6, QuietStep

LEMMA StrayStep == ASSUME IInv, Stray PROVE IInv'
<1>1. HandleTypes /\ Counters /\ OtherTypes /\ RunInv
  BY TypeParts DEF IInv
<1>2. /\ pc = "ask" /\ Fail /\ pkg_gets' = pkg_gets + 1
      /\ UNCHANGED <<pc, life, config, at, epoch, broker, answers, marks, report>>
  BY DEF Stray
<1>3. OtherTypes'
  <2>1. clean' \in BOOLEAN /\ faults' \in 0 .. MaxFaults
    BY <1>1, <1>2, FaultTypes
  <2>2. pkg_gets' \in Nat
    BY <1>1, <1>2 DEF OtherTypes
  <2> QED BY <1>1, <1>2, <2>1, <2>2 DEF OtherTypes, broker
<1>4. RunInv'
  <2>1. \A u \in Tenants : Spent(u)' /\ Told(u)'
    <3>1. \A u \in Tenants : Untouched(u)
      BY <1>2 DEF Untouched, broker
    <3> QED BY <1>1, <1>2, <3>1, UntouchedKeeps DEF RunInv
  <2>2. \A n \in 1 .. at - 1 : AnswerTold(n)'
    BY <1>1, <1>2 DEF RunInv, AnswerTold, broker
  <2> QED BY <1>1, <1>2, <2>1, <2>2 DEF RunInv
<1> QED BY <1>2, <1>3, <1>4, QuietStep

\* The clock jumps: what was sent before is of a past window.
LEMMA JumpStep == ASSUME IInv, Jump PROVE IInv'
<1>1. HandleTypes /\ Counters /\ OtherTypes /\ RunInv /\ TimeInv /\ ReportInv /\ QuotaPerRun
  BY TypeParts DEF IInv
<1>2. /\ pc = "ask" /\ Fail /\ epoch' = epoch + 1
      /\ UNCHANGED <<pc, life, config, at, broker, answers, pkg_gets, marks, report>>
  BY DEF Jump
<1>3. TypeOK'
  <2>1. clean' \in BOOLEAN /\ faults' \in 0 .. MaxFaults
    BY <1>1, <1>2, FaultTypes
  <2>2. HandleTypes' /\ Counters' /\ OtherTypes'
    BY <1>1, <1>2, <2>1 DEF HandleTypes, Counters, OtherTypes, broker
  <2> QED BY <2>2, TypeParts
<1>4. \A u \in Tenants : \A i \in DOMAIN contacts[u] : contacts[u][i].epoch \in Nat /\ contacts[u][i].epoch # epoch + 1
  <2> SUFFICES ASSUME NEW u \in Tenants, NEW i \in DOMAIN contacts[u]
               PROVE  contacts[u][i].epoch \in Nat /\ contacts[u][i].epoch # epoch + 1
    OBVIOUS
  <2>1. contacts[u][i].epoch \in Nat /\ contacts[u][i].epoch <= epoch
    BY <1>1, TypeParts DEF Contacts, TimeInv
  <2> QED BY <1>1, <2>1 DEF Counters
<1>5. \A u \in Tenants : \A j \in DOMAIN attempts[u] : attempts[u][j] <= epoch /\ attempts[u][j] \in Nat
  BY <1>1 DEF HandleTypes, TimeInv
<1>6. TimeInv'
  <2>1. \A u \in Tenants : \A i \in DOMAIN contacts[u] : contacts[u][i].epoch <= epoch + 1
    BY <1>1, <1>4 DEF TimeInv, Counters
  <2>2. \A u \in Tenants : \A j \in DOMAIN attempts[u] : attempts[u][j] <= epoch + 1
    BY <1>1, <1>5 DEF Counters
  <2> QED BY <1>1, <1>2, <2>1, <2>2 DEF TimeInv, broker
<1>7. BindInv'
  BY <1>2 DEF BindInv
<1>8. ASSUME NEW u \in Tenants PROVE Spent(u)' /\ Told(u)'
  <2>1. InWindow(u, epoch)' = {}
    BY <1>2, <1>4 DEF InWindow, Contacted, broker
  <2>2. \A j \in DOMAIN attempts[u] : attempts[u][j] # epoch + 1
    BY <1>1, <1>5 DEF Counters
  <2>3. Cardinality(InWindow(u, epoch)') = 0
    BY <2>1, FS_EmptySet
  <2>4. attempts'[u] = attempts[u] /\ Len(attempts[u]) \in Nat /\ DOMAIN attempts[u] = 1 .. Len(attempts[u])
    BY <1>1, <1>2 DEF HandleTypes, broker
  <2>5. Spent(u)'
    BY <1>2, <2>2, <2>3, <2>4 DEF Spent
  <2>6. Told(u)
    BY <1>1, <1>2 DEF RunInv
  <2> QED BY <1>2, <2>5, <2>6 DEF Told, UpstreamLines, Contacted, broker
<1>9. RunInv'
  <2>1. \A n \in 1 .. at - 1 : AnswerTold(n)'
    BY <1>1, <1>2 DEF RunInv, AnswerTold, broker
  <2> QED BY <1>1, <1>2, <1>8, <2>1 DEF RunInv
<1>10. ReportInv'
  <2>1. report # NoReport => report.life <= life' /\ report.life # life'
    BY <1>1, <1>2 DEF ReportInv
  <2> QED BY <1>1, <1>2, <2>1, NothingAsked, ReportKept DEF broker
<1>11. QuotaPerRun'
  <2> SUFFICES ASSUME NEW u \in Tenants, NEW e \in 0 .. epoch + 1 PROVE Cardinality(InWindow(u, e)') <= Quota[u]
    BY <1>2 DEF QuotaPerRun, InWindow
  <2>1. InWindow(u, e)' = InWindow(u, e)
    BY <1>2 DEF InWindow, Contacted, broker
  <2>2. CASE e \in 0 .. epoch
    BY <1>1, <2>1, <2>2 DEF QuotaPerRun, InWindow
  <2>3. CASE e = epoch + 1
    <3>1. InWindow(u, e) = {}
      BY <1>4, <2>3 DEF InWindow, Contacted
    <3>2. Cardinality(InWindow(u, e)') = 0 /\ Quota[u] \in Nat
      BY <2>1, <3>1, FS_EmptySet, QuotaAssumption
    <3> QED BY <3>2
  <2> QED BY <1>1, <2>2, <2>3 DEF Counters
<1> QED BY <1>3, <1>6, <1>7, <1>9, <1>10, <1>11 DEF IInv

\* At the end of the script every answer has been told: a refusal that Q1
\* counts, and the services that Q3 asks for.
LEMMA EvidenceTold ==
    ASSUME IInv, pc = "ask", at > Len(Script)
    PROVE  /\ Passed("Q1") => \E i \in DOMAIN mem["alpha"] : mem["alpha"][i].verdict = "quota_exceeded"
           /\ Passed("Q3") => \A n \in DOMAIN Task : Task[n].key \in ServedKeys(mem["beta"])
<1>1. /\ W \in Nat /\ W = Quota["alpha"] + 1 /\ Len(Task) \in Nat /\ DOMAIN Task = 1 .. Len(Task)
      /\ Len(Script) = 9 + W + Len(Task) /\ Quota["alpha"] \in Nat
  BY Constants, ScriptItems
<1>2. at = Len(Script) + 1 /\ \A n \in 1 .. Len(Script) : AnswerTold(n)
  <2>1. at \in 1 .. Len(Script) + 1 /\ \A n \in 1 .. at - 1 : AnswerTold(n)
    BY DEF IInv, RunInv
  <2>2. Len(Script) \in Nat
    BY <1>1
  <2>3. at = Len(Script) + 1 /\ at - 1 = Len(Script)
    BY <2>1, <2>2
  <2> QED BY ONLY <2>1, <2>3, Zenon
<1>3. ASSUME Passed("Q1") PROVE \E i \in DOMAIN mem["alpha"] : mem["alpha"][i].verdict = "quota_exceeded"
  <2> DEFINE refused == {n \in Asked("Q1") : answers[n] \in {"quota_exceeded"}}
  <2>1. Number("Q1", Served) = Quota["alpha"] - 1 /\ Number("Q1", {"quota_exceeded"}) = W - Number("Q1", Served)
    BY <1>3 DEF Passed, W
  <2>2. Cardinality(refused) = 2
    BY <1>1, <2>1 DEF Number
  <2>3. refused # {}
    <3>1. Cardinality({}) = 0
      BY FS_EmptySet
    <3> HIDE DEF refused
    <3> QED BY <2>2, <3>1
  <2>4. PICK n \in 8 .. 7 + W : answers[n] = "quota_exceeded"
    BY <2>3, AskedSets
  <2>5. n \in 1 .. Len(Script)
    BY <1>1
  <2>7. Script[n].tenant = "alpha"
    BY ScriptChecks
  <2>6. AnswerTold(n) /\ answers[n] # "none"
    BY <1>2, <2>4, <2>5
  <2> QED BY <2>4, <2>6, <2>7 DEF AnswerTold
<1>4. ASSUME Passed("Q3"), NEW j \in DOMAIN Task PROVE Task[j].key \in ServedKeys(mem["beta"])
  <2> DEFINE n == 9 + W + j
  <2>1. n \in 10 + W .. 9 + W + Len(Task) /\ n \in 1 .. Len(Script) /\ n - (9 + W) = j
    <3>1. j \in 1 .. Len(Task)
      BY <1>1
    <3>2. W \in Nat /\ Len(Task) \in Nat /\ Len(Script) = 9 + W + Len(Task)
      BY <1>1
    <3> QED BY ONLY <3>1, <3>2
  <2>2. Got("Q3") \subseteq Served
    BY <1>4 DEF Passed
  <2> HIDE DEF n
  <2>3. answers[n] \in Served /\ answers[n] # "none"
    BY <2>1, <2>2, AskedSets DEF Got, Served
  <2>4. Script[n].tenant = "beta" /\ Script[n].key = Task[j].key
    BY <2>1, ScriptChecks
  <2>5. AnswerTold(n)
    BY <1>2, <2>1
  <2>6. PICK i \in DOMAIN mem["beta"] : mem["beta"][i].verdict = answers[n] /\ mem["beta"][i].key = Task[j].key
    BY <2>3, <2>4, <2>5 DEF AnswerTold
  <2> QED BY <2>3, <2>6 DEF ServedKeys
<1> QED BY <1>3, <1>4

LEMMA ReportStep == ASSUME IInv, Report PROVE IInv'
<1>1. HandleTypes /\ Counters /\ OtherTypes /\ RunInv /\ TimeInv /\ QuotaPerRun
  BY TypeParts DEF IInv
<1>2. PICK ok \in BOOLEAN :
         /\ IF ok THEN UNCHANGED <<clean, faults>> ELSE Fail
         /\ report' = [life |-> life, root |-> mem, upstream_attempts |-> [t \in Tenants |-> Len(attempts[t])],
                       passed |-> {c \in Checks : Passed(c) /\ (c = "Q3" => ok)}]
  BY DEF Report
<1>3. /\ pc = "ask" /\ at > Len(Script) /\ pc' = "done"
      /\ UNCHANGED <<life, config, at, epoch, broker, answers, pkg_gets, marks>>
  BY DEF Report
<1>4. /\ report'.life = life /\ report'.root = mem
      /\ "Q1" \in report'.passed => Passed("Q1")
      /\ "Q3" \in report'.passed => Passed("Q3")
  BY <1>2
<1>5. report' \in Reports
  <2>1. mem \in [Tenants -> Seq(Lines)] /\ [t \in Tenants |-> Len(attempts[t])] \in [Tenants -> Nat] /\ life \in Nat
    BY <1>1 DEF HandleTypes, Counters
  <2>2. {c \in Checks : Passed(c) /\ (c = "Q3" => ok)} \in SUBSET Checks
    OBVIOUS
  <2> QED BY <1>2, <2>1, <2>2 DEF Reports
<1>6. TypeOK'
  <2>1. clean' \in BOOLEAN /\ faults' \in 0 .. MaxFaults
    BY <1>1, <1>2, FaultTypes
  <2>2. HandleTypes' /\ Counters' /\ OtherTypes'
    BY <1>1, <1>3, <1>5, <2>1 DEF HandleTypes, Counters, OtherTypes, broker
  <2> QED BY <2>2, TypeParts
<1>7. TimeInv' /\ BindInv' /\ RunInv'
  BY <1>1, <1>3 DEF TimeInv, BindInv, RunInv, broker
<1>8. ReportInv'
  <2>1. ASSUME NEW t \in Tenants
        PROVE  /\ \A i \in DOMAIN mem[t] : mem[t][i].life = life
               /\ Cardinality(UpstreamLines(mem[t])) = Cardinality({i \in DOMAIN contacts'[t] : contacts'[t][i].life = life})
    <3>1. Told(t)
      BY <1>1, <1>3 DEF RunInv
    <3>2. {i \in DOMAIN contacts'[t] : contacts'[t][i].life = life} = Contacted(t, life)
      BY <1>3 DEF Contacted, broker
    <3> QED BY <3>1, <3>2 DEF Told
  <2>2. /\ "Q1" \in report'.passed => \E i \in DOMAIN mem["alpha"] : mem["alpha"][i].verdict = "quota_exceeded"
        /\ "Q3" \in report'.passed => \A n \in DOMAIN Task : Task[n].key \in ServedKeys(mem["beta"])
    BY <1>3, <1>4, EvidenceTold
  <2>3. life <= life
    BY <1>1 DEF Counters
  <2>4. \A t \in Tenants :
           /\ \A i \in DOMAIN report'.root[t] : report'.root[t][i].life = report'.life
           /\ Cardinality(UpstreamLines(report'.root[t])) = Cardinality(Contacted(t, report.life)')
    BY <1>4, <2>1, Zenon DEF Contacted
  <2>5. /\ "Q1" \in report'.passed => \E i \in DOMAIN report'.root["alpha"] : report'.root["alpha"][i].verdict = "quota_exceeded"
        /\ "Q3" \in report'.passed => \A n \in DOMAIN Task : Task[n].key \in ServedKeys(report'.root["beta"])
    BY <1>4, <2>2, Zenon
  <2>6. report'.life <= life' /\ (report'.life = life' => pc' = "done")
    BY <1>3, <1>4, <2>3
  <2> QED BY <2>4, <2>5, <2>6 DEF ReportInv, ServedKeys, UpstreamLines
<1>9. QuotaPerRun'
  BY <1>1, <1>3, QuotaKept DEF broker
<1> QED BY <1>6, <1>7, <1>8, <1>9 DEF IInv

LEMMA IInvStep == IInv /\ [Next]_vars => IInv'
<1> SUFFICES ASSUME IInv, [Next]_vars PROVE IInv'
  OBVIOUS
<1>1. CASE UNCHANGED vars
  <2>1. TypeOK /\ TimeInv /\ BindInv /\ RunInv /\ ReportInv /\ QuotaPerRun
    BY DEF IInv
  <2>2. TypeOK'
    BY <1>1, <2>1 DEF vars, broker, TypeOK
  <2>3. TimeInv'
    BY <1>1, <2>1 DEF vars, broker, TimeInv
  <2>4. BindInv'
    BY <1>1, <2>1 DEF vars, broker, BindInv, Begun, Note, Line
  <2>5. RunInv'
    BY <1>1, <2>1 DEF vars, broker, RunInv, Spent, Told, InWindow, Contacted, UpstreamLines, AnswerTold
  <2>6. ReportInv'
    BY <1>1, <2>1 DEF vars, broker, ReportInv, Contacted, UpstreamLines, ServedKeys
  <2>7. QuotaPerRun'
    BY <1>1, <2>1 DEF vars, broker, QuotaPerRun, Contacted
  <2> QED BY <2>2, <2>3, <2>4, <2>5, <2>6, <2>7 DEF IInv
<1>2. ASSUME NEW c \in Configs, StartRun(c) PROVE IInv'
  BY <1>2, StartRunStep
<1>3. ASSUME NEW v, Fetch(v) PROVE IInv'
  BY <1>3, FetchStep
<1> QED BY <1>1, <1>2, <1>3, BindStep, DuplicateStep, ServeStep, SkipStep, RaisesStep, StrayStep, JumpStep, ReportStep
        DEF Next, Done

\* Spec has the inductive invariant.
LEMMA Inductive == Spec => []IInv
BY InitIInv, IInvStep, PTL DEF Spec

\* Tenancy is well typed; the attempts counted against a quota never exceed it.
THEOREM TypeCorrect == Spec => []TypeOK
<1>1. IInv => TypeOK
  BY DEF IInv
<1> QED BY Inductive, <1>1, PTL

\* M4 for every quota: whatever the clock, the faults and the earlier runs do,
\* a run of the broker sends at most "quota" requests upstream for a tenant in
\* any window.
THEOREM QuotaOfRun == Spec => []QuotaPerRun
<1>1. IInv => QuotaPerRun
  BY DEF IInv
<1> QED BY Inductive, <1>1, PTL

\* M2-M4 for every pair of lockfiles and every task: a report that verifies has
\* its own run's transcripts beside it; they tell of every request sent
\* upstream in it, of alpha's refusal, and of beta's whole task.
THEOREM VerifiedIsIsolated == Spec => []VerifiedMeansIsolated
<1>1. IInv => VerifiedMeansIsolated
  <2> SUFFICES ASSUME IInv, verify_tenancy
               PROVE  /\ \A t \in Tenants :
                            /\ \A i \in DOMAIN file[t] : file[t][i].life = report.life
                            /\ Cardinality(UpstreamLines(file[t])) = Cardinality(Contacted(t, report.life))
                      /\ \E i \in DOMAIN file["alpha"] : file["alpha"][i].verdict = "quota_exceeded"
                      /\ \A n \in DOMAIN Task : Task[n].key \in ServedKeys(file["beta"])
    BY DEF VerifiedMeansIsolated
  <2>1. ToSet(Public) = Tenants
    <3>1. DOMAIN Public = 1 .. 2 /\ Public[1] = "alpha" /\ Public[2] = "beta"
      BY DEF Public
    <3>2. \A i \in 1 .. 2 : i = 1 \/ i = 2
      OBVIOUS
    <3> QED BY <3>1, <3>2 DEF ToSet, Tenants
  <2>2. report # NoReport /\ report.passed = Checks /\ \A t \in Tenants : report.root[t] = file[t]
    BY <2>1 DEF verify_tenancy, RootMatches
  <2>3. "Q1" \in report.passed /\ "Q3" \in report.passed
    BY <2>2 DEF Checks
  <2>4. "alpha" \in Tenants /\ "beta" \in Tenants
    BY DEF Tenants
  <2>5. ReportInv
    BY DEF IInv
  <2> QED BY <2>2, <2>3, <2>4, <2>5 DEF ReportInv
<1> QED BY Inductive, <1>1, PTL
-----------------------------------------------------------------------------
\* A run in which nothing has failed.  Its transcripts are on disk, count its
\* requests, and hold what the verifier looks for; no attempt has expired.
CleanTenant(t) ==
    /\ file[t] = mem[t] /\ Requests(mem[t]) = sent[t]
    /\ Notes(mem[t], "tenant_bound") = 1 /\ Notes(mem[t], "lockfile_loaded") = 1
    /\ ServedKeys(mem[t]) \subseteq Entries[t]
    /\ \A i \in UpstreamLines(mem[t]) : mem[t][i].epoch = epoch
    /\ \A j \in DOMAIN attempts[t] : attempts[t][j] = epoch
    /\ Cardinality(UpstreamLines(mem[t])) = Len(attempts[t])

\* The answer to the n-th request.
RightAnswer(n, a) ==
    /\ n = 1 => a = "grammar_violation"
    /\ n \in 2 .. 3 => a = "lockfile_miss"
    /\ n \in 4 .. 5 => a = "served_from_upstream"
    /\ n = 6 \/ n = 9 + W => a = "served_from_cache"
    /\ n \in 8 .. 7 + W => a = IF n - 7 < Quota["alpha"] THEN "served_from_upstream" ELSE "quota_exceeded"
    /\ n >= 10 + W => a \in Served

\* alpha has spent its quota as far as the script got, on keys it asked for.
AlphaSpent(n) ==
    IF n <= 4 THEN 0 ELSE IF n <= 8 THEN 1 ELSE IF n - 7 <= Quota["alpha"] THEN n - 7 ELSE Quota["alpha"]
CleanAlpha ==
    /\ Len(attempts["alpha"]) = AlphaSpent(at)
    /\ at <= 4 => cache["alpha"] = {}
    /\ at > 4 => Shared \in cache["alpha"]
    /\ cache["alpha"] \subseteq {Shared} \cup {Wanted[i] : i \in {j \in 1 .. W : at > 7 + j}}

\* beta has spent one attempt for each key it has been served.
TaskKeys == {Task[i].key : i \in DOMAIN Task}
CleanBeta ==
    /\ at <= 5 => cache["beta"] = {}
    /\ at > 5 => Shared \in cache["beta"]
    /\ at \in 6 .. 10 + W => Len(attempts["beta"]) = 1
    /\ cache["beta"] \subseteq {Shared} \cup TaskKeys
    /\ Len(attempts["beta"]) = Cardinality(cache["beta"])

CleanMarks ==
    /\ pkg_gets = Len(attempts["alpha"]) + Len(attempts["beta"])
    /\ Len(marks) = IF at <= 7 THEN 0 ELSE IF at <= 8 + W THEN 1 ELSE 2
    /\ at > 7 => marks[1][1] = 2
    /\ at > 8 + W => marks[2] = <<Quota["alpha"] + 1, Quota["alpha"]>>

CleanSoFar ==
    /\ \A t \in Tenants : CleanTenant(t)
    /\ \A n \in 1 .. at - 1 : RightAnswer(n, answers[n])
    /\ CleanAlpha /\ CleanBeta /\ CleanMarks

CleanInv == (pc = "ask" /\ clean => CleanSoFar) /\ CleanTenancyVerifies

\* A tenant of a clean run that nothing is asked of.
LEMMA CleanKept ==
    ASSUME NEW u \in Tenants, CleanTenant(u), Untouched(u), sent'[u] = sent[u], epoch' = epoch
    PROVE  CleanTenant(u)'
<1>1. mem'[u] = mem[u] /\ file'[u] = file[u] /\ attempts'[u] = attempts[u]
  BY DEF Untouched
<1>2. /\ file'[u] = mem'[u] /\ Requests(mem'[u]) = sent'[u]
      /\ Notes(mem'[u], "tenant_bound") = 1 /\ Notes(mem'[u], "lockfile_loaded") = 1
      /\ ServedKeys(mem'[u]) \subseteq Entries[u]
      /\ \A i \in UpstreamLines(mem'[u]) : mem'[u][i].epoch = epoch'
      /\ \A j \in DOMAIN attempts'[u] : attempts'[u][j] = epoch'
      /\ Cardinality(UpstreamLines(mem'[u])) = Len(attempts'[u])
  BY <1>1 DEF CleanTenant
<1> QED BY <1>2 DEF CleanTenant, Requests, Notes, ServedKeys, UpstreamLines

\* What one that is asked answers: all its attempts count, and none fails.
LEMMA CleanVerdict ==
    ASSUME HandleTypes, Counters, NEW t \in Tenants, NEW k \in Keys \cup {NoKey}, CleanTenant(t),
           NEW v, Handle(t, k, v), v \notin {"upstream_fail_closed", "digest_mismatch"}
    PROVE  /\ k = NoKey => v = "grammar_violation"
           /\ k # NoKey /\ k \notin Entries[t] => v = "lockfile_miss"
           /\ k \in Entries[t] /\ k \in cache[t] => v = "served_from_cache"
           /\ k \in Entries[t] /\ k \notin cache[t] =>
                 v = IF Len(attempts[t]) >= Quota[t] THEN "quota_exceeded" ELSE "served_from_upstream"
           /\ cache'[t] = IF v = "served_from_upstream" THEN cache[t] \cup {k} ELSE cache[t]
           /\ Len(attempts'[t]) = Len(attempts[t]) + (IF v = "served_from_upstream" THEN 1 ELSE 0)
           /\ \A j \in DOMAIN attempts'[t] : attempts'[t][j] = epoch
<1>1. /\ attempts[t] \in Seq(Nat) /\ Len(attempts[t]) \in Nat /\ epoch \in Nat /\ Quota[t] \in Nat
      /\ attempts \in [Tenants -> Seq(Nat)] /\ DOMAIN attempts[t] = 1 .. Len(attempts[t])
  BY QuotaAssumption DEF HandleTypes, Counters
<1>2. \A j \in DOMAIN attempts[t] : attempts[t][j] = epoch
  BY DEF CleanTenant
<1>3. /\ Live(t) \in Seq(Nat) /\ Len(Live(t)) = Len(attempts[t]) /\ DOMAIN Live(t) = 1 .. Len(attempts[t])
      /\ \A j \in 1 .. Len(attempts[t]) : Live(t)[j] = epoch
  <2>1. PICK n \in Nat : n = Len(attempts[t])
    BY <1>1
  <2>2. /\ \A j \in DOMAIN attempts[t] : attempts[t][j] <= epoch
        /\ \A j \in DOMAIN attempts[t] : attempts[t][j] = epoch <=> j > Len(attempts[t]) - n
        /\ n <= Len(attempts[t])
    BY <1>1, <1>2, <2>1
  <2>3. /\ Live(t) \in Seq(Nat) /\ Len(Live(t)) = n /\ DOMAIN Live(t) = 1 .. n
        /\ \A j \in 1 .. n : Live(t)[j] = epoch
    BY <1>1, <2>2, LiveExact
  <2> QED BY <2>1, <2>3
<1>4. Full(t) <=> Len(attempts[t]) >= Quota[t]
  BY <1>3 DEF Full
<1>5. v \in Verdicts(t, k)
  BY DEF Handle
<1>6. v \in {"grammar_violation", "lockfile_miss", "quota_exceeded", "served_from_cache", "served_from_upstream"}
  BY <1>5, VerdictCases DEF Served, Upstream
<1>7. NoKey \notin Entries[t]
  BY Constants
<1>8. /\ k = NoKey => v = "grammar_violation"
      /\ k # NoKey /\ k \notin Entries[t] => v = "lockfile_miss"
      /\ k \in Entries[t] /\ k \in cache[t] => v = "served_from_cache"
      /\ k \in Entries[t] /\ k \notin cache[t] /\ Full(t) => v = "quota_exceeded"
      /\ k \in Entries[t] /\ k \notin cache[t] /\ ~Full(t) => v = "served_from_upstream"
  BY <1>5, <1>6, <1>7, VerdictCases
<1>9. cache'[t] = IF v = "served_from_upstream" THEN cache[t] \cup {k} ELSE cache[t]
  BY HandleUpdates
<1>10. v \in Upstream <=> v = "served_from_upstream"
  BY DEF Upstream
<1>11. attempts'[t] = IF v = "served_from_upstream" THEN Append(Live(t), epoch)
                      ELSE IF v = "quota_exceeded" THEN Live(t) ELSE attempts[t]
  BY <1>1, <1>10 DEF Handle
<1>12. /\ Len(attempts'[t]) = Len(attempts[t]) + (IF v = "served_from_upstream" THEN 1 ELSE 0)
       /\ \A j \in DOMAIN attempts'[t] : attempts'[t][j] = epoch
  <2>1. CASE v = "served_from_upstream"
    <3>1. attempts'[t] = Append(Live(t), epoch)
      BY <1>11, <2>1
    <3>2. /\ Len(Append(Live(t), epoch)) = Len(Live(t)) + 1 /\ DOMAIN Append(Live(t), epoch) = 1 .. Len(Live(t)) + 1
          /\ Append(Live(t), epoch)[Len(Live(t)) + 1] = epoch
          /\ \A i \in 1 .. Len(Live(t)) : Append(Live(t), epoch)[i] = Live(t)[i]
      BY <1>1, <1>3, AppendGrows
    <3>3. \A j \in 1 .. Len(attempts[t]) + 1 : j \in 1 .. Len(attempts[t]) \/ j = Len(attempts[t]) + 1
      BY <1>1
    <3> QED BY <1>3, <2>1, <3>1, <3>2, <3>3
  <2>2. CASE v = "quota_exceeded"
    BY <1>1, <1>3, <1>11, <2>2
  <2>3. CASE v \notin {"served_from_upstream", "quota_exceeded"}
    BY <1>1, <1>2, <1>11, <2>3
  <2> QED BY <2>1, <2>2, <2>3
<1> QED BY <1>4, <1>8, <1>9, <1>12

LEMMA CleanHandle ==
    ASSUME HandleTypes, Counters, NEW t \in Tenants, NEW k \in Keys \cup {NoKey}, CleanTenant(t),
           NEW v, Handle(t, k, v), v \notin {"upstream_fail_closed", "digest_mismatch"},
           epoch' = epoch, sent'[t] = sent[t] + 1
    PROVE  CleanTenant(t)'
<1> DEFINE f == mem[t]
           g == mem'[t]
<1>1. v \in Verdicts(t, k)
  BY DEF Handle
<1>2. f \in Seq(Lines) /\ life \in Nat /\ epoch \in Nat /\ file[t] = f /\ Len(attempts[t]) \in Nat
  BY DEF HandleTypes, Counters, CleanTenant
<1>3. g = Extended(f, k, v) /\ file'[t] = Extended(file[t], k, v)
  BY HandleUpdates
<1>4. /\ Requests(f) = sent[t] /\ Notes(f, "tenant_bound") = 1 /\ Notes(f, "lockfile_loaded") = 1
      /\ ServedKeys(f) \subseteq Entries[t]
      /\ \A i \in UpstreamLines(f) : f[i].epoch = epoch
      /\ Cardinality(UpstreamLines(f)) = Len(attempts[t])
  BY DEF CleanTenant
<1> HIDE DEF f, g
<1>5. /\ DOMAIN g = 1 .. Len(g) /\ DOMAIN f = 1 .. Len(f) /\ Len(f) \in Nat /\ Len(g) \in Nat
      /\ Len(g) > Len(f)
      /\ \A i \in 1 .. Len(f) : g[i] = f[i]
      /\ \A i \in Len(f) + 1 .. Len(g) : g[i].epoch = epoch /\ g[i].key = k /\ g[i].verdict \in {"none", v}
      /\ Requests(g) = Requests(f) + 1
      /\ Cardinality(UpstreamLines(g)) = Cardinality(UpstreamLines(f)) + (IF v \in Upstream THEN 1 ELSE 0)
      /\ \A event \in {"tenant_bound", "lockfile_loaded"} : Notes(g, event) = Notes(f, event)
  <2>1. /\ f \in Seq(Lines) /\ g = Extended(f, k, v)
        /\ k \in Keys \cup {NoKey} /\ t \in Tenants /\ v \in Verdicts(t, k) /\ life \in Nat /\ epoch \in Nat
    BY <1>1, <1>2, <1>3
  <2> QED BY ONLY <2>1, LoggedLines
<1>6. /\ Len(attempts'[t]) = Len(attempts[t]) + (IF v = "served_from_upstream" THEN 1 ELSE 0)
      /\ \A j \in DOMAIN attempts'[t] : attempts'[t][j] = epoch
  BY CleanVerdict
<1>7. file'[t] = g
  BY <1>2, <1>3
<1>8. Requests(g) = sent'[t] /\ Notes(g, "tenant_bound") = 1 /\ Notes(g, "lockfile_loaded") = 1
  BY <1>4, <1>5
<1>9. \A i \in DOMAIN g : i \in DOMAIN f \/ i \in Len(f) + 1 .. Len(g)
  BY <1>5
<1>10. ServedKeys(g) \subseteq Entries[t]
  <2> SUFFICES ASSUME NEW i \in DOMAIN g, g[i].verdict \in Served PROVE g[i].key \in Entries[t]
    BY DEF ServedKeys
  <2>1. CASE i \in DOMAIN f
    <3>1. f[i].key \in ServedKeys(f)
      BY <1>5, <2>1 DEF ServedKeys
    <3> QED BY <1>4, <1>5, <2>1, <3>1
  <2>2. CASE i \in Len(f) + 1 .. Len(g)
    <3>1. g[i].key = k /\ g[i].verdict = v /\ v \in Served
      BY <1>5, <2>2 DEF Served
    <3>2. v \in Upstream \/ v = "served_from_cache"
      BY <3>1 DEF Served, Upstream
    <3> QED BY <1>1, <3>1, <3>2, VerdictCases
  <2> QED BY <1>9, <2>1, <2>2
<1>11. \A i \in UpstreamLines(g) : g[i].epoch = epoch
  <2> SUFFICES ASSUME NEW i \in DOMAIN g, g[i].verdict \in Upstream PROVE g[i].epoch = epoch
    BY DEF UpstreamLines
  <2>1. CASE i \in DOMAIN f
    <3>1. i \in UpstreamLines(f)
      BY <1>5, <2>1 DEF UpstreamLines
    <3> QED BY <1>4, <1>5, <2>1, <3>1
  <2>2. CASE i \in Len(f) + 1 .. Len(g)
    BY <1>5, <2>2
  <2> QED BY <1>9, <2>1, <2>2
<1>12. Cardinality(UpstreamLines(g)) = Len(attempts'[t])
  <2>1. v \in Upstream <=> v = "served_from_upstream"
    BY DEF Upstream
  <2> QED BY <1>2, <1>4, <1>5, <1>6, <2>1
<1>13. /\ file'[t] = mem'[t] /\ Requests(mem'[t]) = sent'[t]
       /\ Notes(mem'[t], "tenant_bound") = 1 /\ Notes(mem'[t], "lockfile_loaded") = 1
       /\ ServedKeys(mem'[t]) \subseteq Entries[t]
       /\ \A i \in UpstreamLines(mem'[t]) : mem'[t][i].epoch = epoch'
       /\ \A j \in DOMAIN attempts'[t] : attempts'[t][j] = epoch'
       /\ Cardinality(UpstreamLines(mem'[t])) = Len(attempts'[t])
  BY <1>6, <1>7, <1>8, <1>10, <1>11, <1>12 DEF g
<1> QED BY <1>13 DEF CleanTenant, Requests, Notes, ServedKeys, UpstreamLines

\* A tenant that has begun, before the first request.
LEMMA CleanBegun ==
    ASSUME HandleTypes, Counters, NEW t \in Tenants, Begun(t), sent[t] = 0
    PROVE  CleanTenant(t)
<1> DEFINE notes == <<Note("tenant_bound"), Note("lockfile_loaded")>>
<1>1. /\ DOMAIN notes = 1 .. 2 /\ notes[1].verdict = "tenant_bound" /\ notes[2].verdict = "lockfile_loaded"
      /\ \A i \in 1 .. 2 : notes[i].epoch = epoch /\ notes[i].kind = "note"
  BY FirstNotes
<1>2. \A i \in 1 .. 2 : i = 1 \/ i = 2
  OBVIOUS
<1>3. mem[t] = notes /\ file[t] = notes /\ attempts[t] = <<>>
  BY DEF Begun, notes
<1> HIDE DEF notes
<1>4. Cardinality({}) = 0 /\ Cardinality({1}) = 1 /\ Cardinality({2}) = 1
  BY FS_EmptySet, FS_Singleton
<1>5. UpstreamLines(notes) = {} /\ ServedKeys(notes) = {}
  BY <1>1, <1>2 DEF UpstreamLines, ServedKeys, Upstream, Served
<1>6. Requests(notes) = 0
  <2>1. {i \in DOMAIN notes : notes[i].kind = "request" \/ notes[i].verdict = "grammar_violation"} = {}
    BY <1>1, <1>2
  <2> QED BY <1>4, <2>1 DEF Requests
<1>7. Notes(notes, "tenant_bound") = 1 /\ Notes(notes, "lockfile_loaded") = 1
  <2>1. {i \in DOMAIN notes : notes[i].verdict = "tenant_bound"} = {1}
    BY <1>1, <1>2
  <2>2. {i \in DOMAIN notes : notes[i].verdict = "lockfile_loaded"} = {2}
    BY <1>1, <1>2
  <2> QED BY <1>4, <2>1, <2>2 DEF Notes
<1> QED BY <1>3, <1>4, <1>5, <1>6, <1>7 DEF CleanTenant

\* A run that is up has a clean record.
LEMMA CleanServed == ASSUME IInv, Serve, pc' = "ask" PROVE CleanSoFar'
<1>1. HandleTypes /\ Counters /\ OtherTypes /\ BindInv
  BY TypeParts DEF IInv
<1>2. /\ pc = "bind" /\ at' = 1 /\ ToSet(config) = Tenants /\ at > Len(config)
      /\ UNCHANGED <<life, epoch, cache, attempts, mem, file, sent, answers, pkg_gets, marks>>
  BY DEF Serve, broker
<1>3. ASSUME NEW t \in Tenants PROVE Begun(t) /\ CleanTenant(t)'
  <2>1. PICK j \in 1 .. Len(config) : config[j] = t
    BY <1>1, <1>2, Lists DEF ToSet
  <2>2. j \in 1 .. at - 1
    BY <1>1, <1>2, Lists DEF OtherTypes
  <2>3. Begun(t) /\ sent[t] = 0
    BY <1>1, <1>2, <2>1, <2>2 DEF BindInv
  <2>4. CleanTenant(t)
    BY <1>1, <2>3, CleanBegun
  <2>5. Untouched(t) \/ contacts' # contacts
    BY <1>2 DEF Untouched
  <2>6. contacts' = contacts
    BY DEF Serve, broker
  <2> QED BY <1>2, <2>3, <2>4, <2>5, <2>6, CleanKept
<1>4. cache["alpha"] = {} /\ attempts["alpha"] = <<>> /\ cache["beta"] = {} /\ attempts["beta"] = <<>>
  BY <1>3 DEF Begun, Tenants
<1>5. W \in Nat /\ answers = <<>> /\ marks = <<>> /\ pkg_gets = 0
  BY <1>1, <1>2, Constants DEF BindInv
<1>6. \A n \in 1 .. at' - 1 : RightAnswer(n, answers[n])'
  BY <1>2
<1>7. CleanAlpha'
  BY <1>2, <1>4 DEF CleanAlpha, AlphaSpent
<1>8. CleanBeta'
  <2>1. Cardinality({}) = 0
    BY FS_EmptySet
  <2> QED BY <1>2, <1>4, <2>1 DEF CleanBeta
<1>9. CleanMarks'
  BY <1>2, <1>4, <1>5 DEF CleanMarks
<1> QED BY <1>3, <1>6, <1>7, <1>8, <1>9 DEF CleanSoFar

\* A request of a clean run: what holds of every one.
LEMMA CleanFetched ==
    ASSUME IInv, CleanSoFar, NEW v, Fetch(v), clean'
    PROVE  /\ at \in 1 .. Len(Script) /\ at' = at + 1 /\ at # 7 /\ at # 8 + W /\ marks' = marks
           /\ Op.tenant \in Tenants /\ Op.key \in Keys \cup {NoKey}
           /\ Handle(Op.tenant, Op.key, v) /\ v \notin {"upstream_fail_closed", "digest_mismatch"}
           /\ \A u \in Tenants : CleanTenant(u)'
           /\ \A u \in Tenants : u # Op.tenant => cache'[u] = cache[u] /\ attempts'[u] = attempts[u]
           /\ pkg_gets' = pkg_gets + (IF v = "served_from_upstream" THEN 1 ELSE 0)
           /\ RightAnswer(at, v) => \A n \in 1 .. at' - 1 : RightAnswer(n, answers'[n])
<1>1. HandleTypes /\ Counters /\ OtherTypes
  BY TypeParts DEF IInv
<1>2. /\ Asking /\ Handle(Op.tenant, Op.key, v) /\ Op.check # "mark"
      /\ answers' = Append(answers, v) /\ at' = at + 1 /\ marks' = marks /\ epoch' = epoch
      /\ sent' = [sent EXCEPT ![Op.tenant] = @ + 1]
  BY DEF Fetch, Count
<1>3. at \in 1 .. Len(Script) /\ Op.tenant \in Tenants /\ Op.key \in Keys \cup {NoKey}
  BY <1>2, OpTypes
<1>4. v \notin {"upstream_fail_closed", "digest_mismatch"}
  BY DEF Fetch, Fail
<1>5. at # 7 /\ at # 8 + W
  BY <1>2, ScriptChecks DEF Op
<1>6. v \in AllVerdicts
  BY <1>2, <1>3, VerdictCases DEF Handle, AllVerdicts
<1>7. \A u \in Tenants : u # Op.tenant => Untouched(u)
  BY <1>1, <1>2, <1>3, HandleUpdates
<1>8. /\ sent'[Op.tenant] = sent[Op.tenant] + 1
      /\ \A u \in Tenants : u # Op.tenant => sent'[u] = sent[u]
  BY <1>1, <1>2, <1>3 DEF OtherTypes
<1>9. ASSUME NEW u \in Tenants PROVE CleanTenant(u)'
  <2>1. CleanTenant(u) /\ CleanTenant(Op.tenant)
    BY <1>3 DEF CleanSoFar
  <2>2. CASE u # Op.tenant
    BY <1>2, <1>7, <1>8, <2>1, <2>2, CleanKept
  <2>3. CASE u = Op.tenant
    <3>1. Handle(u, Op.key, v) /\ sent'[u] = sent[u] + 1
      BY <1>2, <1>8, <2>3
    <3> QED BY <1>1, <1>2, <1>3, <1>4, <2>1, <3>1, CleanHandle
  <2> QED BY <2>2, <2>3
<1>10. pkg_gets' = pkg_gets + (IF v = "served_from_upstream" THEN 1 ELSE 0)
  <2>1. v \in Upstream <=> v = "served_from_upstream"
    BY <1>4 DEF Upstream
  <2>2. pkg_gets \in Nat
    BY <1>1 DEF OtherTypes
  <2> QED BY <1>4, <2>1, <2>2 DEF Fetch
<1>11. ASSUME RightAnswer(at, v), NEW n \in 1 .. at' - 1 PROVE RightAnswer(n, answers'[n])
  <2>1. /\ \A i \in 1 .. at - 1 : answers'[i] = answers[i]
        /\ answers'[at] = v
        /\ n \in 1 .. at - 1 \/ n = at
    BY <1>2, <1>6, Answered
  <2>2. \A i \in 1 .. at - 1 : RightAnswer(i, answers[i])
    BY DEF CleanSoFar
  <2> QED BY <1>11, <2>1, <2>2
<1> QED BY <1>2, <1>3, <1>4, <1>5, <1>7, <1>9, <1>10, <1>11 DEF Untouched

\* Whose turn it is, and for which key.
LEMMA Turns ==
    ASSUME IInv, Asking, at # 7, at # 8 + W
    PROVE  \/ at = 1 /\ Op.tenant = "alpha" /\ Op.key = NoKey
           \/ at = 2 /\ Op.tenant = "beta" /\ Op.key = Foreign["beta"]
           \/ at = 3 /\ Op.tenant = "alpha" /\ Op.key = Foreign["alpha"]
           \/ at = 4 /\ Op.tenant = "alpha" /\ Op.key = Shared
           \/ at \in {5, 6} /\ Op.tenant = "beta" /\ Op.key = Shared
           \/ \E i \in 1 .. W : at = 7 + i /\ Op.tenant = "alpha" /\ Op.key = Wanted[i]
           \/ at = 9 + W /\ Op.tenant = "alpha" /\ Op.key = Shared
           \/ \E i \in 1 .. Len(Task) : at = 9 + W + i /\ Op.tenant = "beta" /\ Op.key = Task[i].key
<1>1. \A c, t, k, p : Ask(c, t, k, p).tenant = t /\ Ask(c, t, k, p).key = k
  BY DEF Ask
<1> HIDE DEF Ask
<1>2. at \in 1 .. Len(Script)
  BY OpTypes
<1>3. \/ at \in 1 .. 7 \/ at \in 8 .. 7 + W \/ at = 8 + W \/ at = 9 + W \/ at \in 10 + W .. 9 + W + Len(Task)
  BY <1>2, ScriptChecks
<1>4. \A n \in 1 .. 7 : n = 1 \/ n = 2 \/ n = 3 \/ n = 4 \/ n = 5 \/ n = 6 \/ n = 7
  OBVIOUS
<1>5. W \in Nat /\ Len(Task) \in Nat
  BY Constants
<1>6. CASE at \in 1 .. 6
  BY <1>1, <1>4, <1>6, ScriptItems DEF Op
<1>7. CASE at \in 8 .. 7 + W
  <2>1. PICK i \in 1 .. W : at = 7 + i
    <3>1. at - 7 \in 1 .. W /\ at = 7 + (at - 7)
      BY <1>5, <1>7
    <3> QED BY <3>1
  <2>2. Op = Ask("Q1", "alpha", Wanted[i], 0)
    BY <2>1, ScriptItems DEF Op
  <2> QED BY <1>1, <2>1, <2>2
<1>8. CASE at = 9 + W
  BY <1>1, <1>8, ScriptItems DEF Op
<1>9. CASE at \in 10 + W .. 9 + W + Len(Task)
  <2>1. PICK i \in 1 .. Len(Task) : at = 9 + W + i
    <3>1. at - (9 + W) \in 1 .. Len(Task) /\ at = 9 + W + (at - (9 + W))
      BY <1>5, <1>9
    <3> QED BY <3>1
  <2>2. Op = Ask("Q3", "beta", Task[i].key, Task[i].phase)
    BY <2>1, ScriptItems DEF Op
  <2> QED BY <1>1, <2>1, <2>2
<1> QED BY <1>3, <1>4, <1>6, <1>7, <1>8, <1>9

\* The keys alpha wants, up to the n-th request.
WantedBefore(n) == {Wanted[i] : i \in {j \in 1 .. W : n > 7 + j}}

LEMMA WantedGrows ==
    ASSUME NEW n \in Nat
    PROVE  /\ WantedBefore(n) \subseteq WantedBefore(n + 1)
           /\ \A i \in 1 .. W : n = 7 + i =>
                 Wanted[i] \in WantedBefore(n + 1) /\ Wanted[i] \notin {Shared} \cup WantedBefore(n)
<1>1. WantedBefore(n) \subseteq WantedBefore(n + 1)
  BY Constants DEF WantedBefore
<1>2. ASSUME NEW i \in 1 .. W, n = 7 + i
      PROVE  Wanted[i] \in WantedBefore(n + 1) /\ Wanted[i] \notin {Shared} \cup WantedBefore(n)
  <2>1. i \in Nat /\ W \in Nat
    BY Constants
  <2>2. Wanted[i] \in WantedBefore(n + 1)
    BY <1>2, <2>1 DEF WantedBefore
  <2>3. Wanted[i] # Shared
    BY Constants, LockfileAssumption
  <2>4. ASSUME NEW j \in 1 .. W, n > 7 + j PROVE Wanted[j] # Wanted[i]
    <3>1. i # j
      BY <1>2, <2>1, <2>4
    <3>2. \A x, y \in DOMAIN Wanted : Wanted[x] = Wanted[y] => x = y
      BY ScriptAssumption
    <3>3. DOMAIN Wanted = 1 .. W
      BY Constants
    <3> QED BY <3>1, <3>2, <3>3
  <2> QED BY <2>2, <2>3, <2>4 DEF WantedBefore
<1> QED BY <1>1, <1>2

\* alpha's requests in a clean run.
LEMMA CleanAlphaAsks ==
    ASSUME IInv, CleanSoFar, NEW v, Fetch(v), clean', Op.tenant = "alpha"
    PROVE  RightAnswer(at, v) /\ CleanAlpha' /\ CleanBeta'
<1> DEFINE k == Op.key
           q == Quota["alpha"]
           n == Len(attempts["alpha"])
           c == cache["alpha"]
<1>1. HandleTypes /\ Counters
  BY TypeParts DEF IInv
<1>2. /\ at \in 1 .. Len(Script) /\ at' = at + 1 /\ at # 7 /\ at # 8 + W /\ k \in Keys \cup {NoKey}
      /\ Handle("alpha", k, v) /\ v \notin {"upstream_fail_closed", "digest_mismatch"}
      /\ "alpha" \in Tenants /\ "beta" \in Tenants
      /\ cache'["beta"] = cache["beta"] /\ attempts'["beta"] = attempts["beta"]
  BY CleanFetched DEF Tenants
<1>3. q \in Nat /\ q >= 1 /\ W = q + 1 /\ W \in Nat /\ at \in Nat /\ Len(Task) \in Nat
  BY <1>2, Constants, QuotaAssumption
<1>4. /\ n = AlphaSpent(at)
      /\ at <= 4 => c = {}
      /\ at > 4 => Shared \in c
      /\ c \subseteq {Shared} \cup WantedBefore(at)
  BY DEF CleanSoFar, CleanAlpha, WantedBefore
<1>5. CleanTenant("alpha")
  BY <1>2 DEF CleanSoFar
<1>6. /\ k = NoKey => v = "grammar_violation"
      /\ k # NoKey /\ k \notin Entries["alpha"] => v = "lockfile_miss"
      /\ k \in Entries["alpha"] /\ k \in c => v = "served_from_cache"
      /\ k \in Entries["alpha"] /\ k \notin c =>
            v = IF n >= q THEN "quota_exceeded" ELSE "served_from_upstream"
      /\ cache'["alpha"] = IF v = "served_from_upstream" THEN c \cup {k} ELSE c
      /\ Len(attempts'["alpha"]) = n + (IF v = "served_from_upstream" THEN 1 ELSE 0)
  BY <1>1, <1>2, <1>5, CleanVerdict
<1>7. \/ at = 1 /\ k = NoKey
      \/ at = 3 /\ k = Foreign["alpha"]
      \/ at = 4 /\ k = Shared
      \/ \E i \in 1 .. W : at = 7 + i /\ k = Wanted[i]
      \/ at = 9 + W /\ k = Shared
  <2>1. Asking
    BY DEF Fetch
  <2> QED BY <1>2, <2>1, Turns
<1>8. /\ WantedBefore(at) \subseteq WantedBefore(at')
      /\ \A i \in 1 .. W : at = 7 + i => Wanted[i] \in WantedBefore(at') /\ Wanted[i] \notin {Shared} \cup WantedBefore(at)
  BY <1>2, <1>3, WantedGrows
<1>9. Shared \in Entries["alpha"] /\ Foreign["alpha"] \notin Entries["alpha"] /\ Foreign["alpha"] # NoKey
  BY Constants, LockfileAssumption DEF Tenants
<1>10. \A i \in 1 .. W : Wanted[i] \in Entries["alpha"]
  BY Constants
<1> HIDE DEF k, q, n, c
<1>11. RightAnswer(at, v) /\ Len(attempts'["alpha"]) = AlphaSpent(at')
       /\ (at' <= 4 => cache'["alpha"] = {}) /\ (at' > 4 => Shared \in cache'["alpha"])
       /\ cache'["alpha"] \subseteq {Shared} \cup WantedBefore(at')
  <2>1. CASE at = 1 /\ k = NoKey
    BY <1>2, <1>3, <1>4, <1>6, <1>8, <2>1 DEF RightAnswer, AlphaSpent
  <2>2. CASE at = 3 /\ k = Foreign["alpha"]
    BY <1>2, <1>3, <1>4, <1>6, <1>8, <1>9, <2>2 DEF RightAnswer, AlphaSpent
  <2>3. CASE at = 4 /\ k = Shared
    <3>1. v = "served_from_upstream"
      BY <1>3, <1>4, <1>6, <1>9, <2>3 DEF AlphaSpent
    <3> QED BY <1>2, <1>3, <1>4, <1>6, <1>8, <2>3, <3>1 DEF RightAnswer, AlphaSpent
  <2>4. ASSUME NEW i \in 1 .. W, at = 7 + i, k = Wanted[i]
        PROVE  /\ RightAnswer(at, v) /\ Len(attempts'["alpha"]) = AlphaSpent(at')
               /\ (at' <= 4 => cache'["alpha"] = {}) /\ (at' > 4 => Shared \in cache'["alpha"])
               /\ cache'["alpha"] \subseteq {Shared} \cup WantedBefore(at')
    <3>1. n = IF i <= q THEN i ELSE q
      BY <1>3, <1>4, <2>4 DEF AlphaSpent, q
    <3>2. v = IF n >= q THEN "quota_exceeded" ELSE "served_from_upstream"
      BY <1>4, <1>6, <1>8, <1>10, <2>4
    <3>3. v = IF i < q THEN "served_from_upstream" ELSE "quota_exceeded"
      BY <1>3, <3>1, <3>2
    <3>4. RightAnswer(at, v)
      BY <1>3, <2>4, <3>3 DEF RightAnswer, q
    <3>5. Len(attempts'["alpha"]) = AlphaSpent(at')
      BY <1>2, <1>3, <1>6, <2>4, <3>1, <3>3 DEF AlphaSpent, q
    <3>6. (at' <= 4 => cache'["alpha"] = {}) /\ (at' > 4 => Shared \in cache'["alpha"])
      BY <1>2, <1>3, <1>4, <1>6, <2>4
    <3>7. cache'["alpha"] \subseteq {Shared} \cup WantedBefore(at')
      BY <1>4, <1>6, <1>8, <2>4
    <3> QED BY <3>4, <3>5, <3>6, <3>7
  <2>5. CASE at = 9 + W /\ k = Shared
    <3>1. v = "served_from_cache"
      BY <1>3, <1>4, <1>6, <1>9, <2>5
    <3>2. RightAnswer(at, v)
      BY <1>3, <2>5, <3>1 DEF RightAnswer
    <3>3. Len(attempts'["alpha"]) = AlphaSpent(at')
      <4>1. AlphaSpent(at) = q /\ AlphaSpent(at') = q
        <5>1. \A m \in Nat : m > 8 /\ m - 7 > q => AlphaSpent(m) = q
          BY <1>3 DEF AlphaSpent, q
        <5>2. at \in Nat /\ at > 8 /\ at - 7 > q /\ at' \in Nat /\ at' > 8 /\ at' - 7 > q
          BY <1>2, <1>3, <2>5
        <5> QED BY <5>1, <5>2
      <4>2. Len(attempts'["alpha"]) = n + 0
        BY <1>6, <3>1
      <4> QED BY <1>3, <1>4, <4>1, <4>2
    <3> QED BY <1>2, <1>3, <1>4, <1>6, <1>8, <2>5, <3>1, <3>2, <3>3
  <2> QED BY <1>7, <2>1, <2>2, <2>3, <2>4, <2>5
<1>12. CleanAlpha'
  BY <1>11 DEF CleanAlpha, WantedBefore, AlphaSpent
<1>13. CleanBeta'
  <2>1. CleanBeta
    BY DEF CleanSoFar
  <2>2. at # 5 /\ (at' <= 5 => at <= 5) /\ (at' > 5 => at > 5) /\ (at' \in 6 .. 10 + W => at \in 6 .. 10 + W)
    BY <1>2, <1>3, <1>7
  <2> QED BY <1>2, <2>1, <2>2 DEF CleanBeta
<1> QED BY <1>11, <1>12, <1>13

\* The keys beta is served fit its quota.
LEMMA TaskFits ==
    /\ IsFiniteSet({Shared} \cup TaskKeys) /\ Cardinality({Shared} \cup TaskKeys) <= Quota["beta"]
    /\ \A i \in 1 .. Len(Task) : Task[i].key \in TaskKeys
<1>1. Cardinality({Shared} \cup TaskKeys) <= Quota["beta"]
  BY ScriptAssumption DEF TaskKeys
<1>2. IsFiniteSet(1 .. Len(Task))
  BY Constants, FS_Interval
<1>3. TaskKeys = {Task[i].key : i \in 1 .. Len(Task)}
  BY Constants DEF TaskKeys
<1>4. IsFiniteSet(TaskKeys)
  <2> DEFINE g == [i \in 1 .. Len(Task) |-> Task[i].key]
  <2>1. g \in [1 .. Len(Task) -> TaskKeys]
    BY <1>3
  <2>2. \A x \in TaskKeys : \E i \in 1 .. Len(Task) : g[i] = x
    BY <1>3
  <2>3. g \in Surjection(1 .. Len(Task), TaskKeys)
    BY <2>1, <2>2 DEF Surjection
  <2> QED BY <1>2, <2>3, FS_Surjection
<1>5. IsFiniteSet({Shared} \cup TaskKeys)
  BY <1>4, FS_AddElement
<1> QED BY <1>1, <1>3, <1>5

\* beta's requests in a clean run.
LEMMA CleanBetaAsks ==
    ASSUME IInv, CleanSoFar, NEW v, Fetch(v), clean', Op.tenant = "beta"
    PROVE  RightAnswer(at, v) /\ CleanAlpha' /\ CleanBeta'
<1> DEFINE k == Op.key
           n == Len(attempts["beta"])
           c == cache["beta"]
<1>1. HandleTypes /\ Counters
  BY TypeParts DEF IInv
<1>2. /\ at \in 1 .. Len(Script) /\ at' = at + 1 /\ at # 7 /\ at # 8 + W /\ k \in Keys \cup {NoKey}
      /\ Handle("beta", k, v) /\ v \notin {"upstream_fail_closed", "digest_mismatch"}
      /\ "alpha" \in Tenants /\ "beta" \in Tenants
      /\ cache'["alpha"] = cache["alpha"] /\ attempts'["alpha"] = attempts["alpha"]
  BY CleanFetched DEF Tenants
<1>3. W \in Nat /\ W >= 2 /\ at \in Nat /\ Len(Task) \in Nat /\ Quota["beta"] \in Nat /\ Quota["alpha"] \in Nat
      /\ W = Quota["alpha"] + 1
  BY <1>2, Constants, QuotaAssumption
<1>4. /\ at <= 5 => c = {}
      /\ at > 5 => Shared \in c
      /\ at \in 6 .. 10 + W => n = 1
      /\ c \subseteq {Shared} \cup TaskKeys
      /\ n = Cardinality(c)
  BY DEF CleanSoFar, CleanBeta
<1>5. CleanTenant("beta")
  BY <1>2 DEF CleanSoFar
<1>6. /\ k # NoKey /\ k \notin Entries["beta"] => v = "lockfile_miss"
      /\ k \in Entries["beta"] /\ k \in c => v = "served_from_cache"
      /\ k \in Entries["beta"] /\ k \notin c =>
            v = IF n >= Quota["beta"] THEN "quota_exceeded" ELSE "served_from_upstream"
      /\ cache'["beta"] = IF v = "served_from_upstream" THEN c \cup {k} ELSE c
      /\ Len(attempts'["beta"]) = n + (IF v = "served_from_upstream" THEN 1 ELSE 0)
  BY <1>1, <1>2, <1>5, CleanVerdict
<1>7. \/ at = 2 /\ k = Foreign["beta"]
      \/ at \in {5, 6} /\ k = Shared
      \/ \E i \in 1 .. Len(Task) : at = 9 + W + i /\ k = Task[i].key
  <2>1. Asking
    BY DEF Fetch
  <2> QED BY <1>2, <2>1, Turns
<1>8. /\ Shared \in Entries["beta"] /\ Foreign["beta"] \notin Entries["beta"] /\ Foreign["beta"] # NoKey
      /\ \A i \in 1 .. Len(Task) : Task[i].key \in Entries["beta"] /\ Task[i].key \in TaskKeys
  BY Constants, LockfileAssumption, TaskFits DEF Tenants
<1> HIDE DEF k, n, c
<1>9. IsFiniteSet(c) /\ Cardinality(c) \in Nat
  BY <1>4, TaskFits, FS_Subset, FS_CardinalityType
<1>10. ASSUME k \in {Shared} \cup TaskKeys, k \notin c
       PROVE  n < Quota["beta"] /\ Cardinality(c \cup {k}) = n + 1
  <2>1. IsFiniteSet(c \cup {k}) /\ Cardinality(c \cup {k}) = Cardinality(c) + 1
    BY <1>9, <1>10, FS_AddElement
  <2>2. c \cup {k} \subseteq {Shared} \cup TaskKeys
    BY <1>4, <1>10
  <2>3. Cardinality(c \cup {k}) <= Cardinality({Shared} \cup TaskKeys) /\ Cardinality({Shared} \cup TaskKeys) \in Nat
    BY <2>2, TaskFits, FS_Subset, FS_CardinalityType
  <2> QED BY <1>3, <1>4, <1>9, <2>1, <2>3, TaskFits
<1>11. ASSUME k \in {Shared} \cup TaskKeys, k \in Entries["beta"]
       PROVE  /\ v = IF k \in c THEN "served_from_cache" ELSE "served_from_upstream"
              /\ cache'["beta"] = c \cup {k}
              /\ Len(attempts'["beta"]) = Cardinality(cache'["beta"])
              /\ cache'["beta"] \subseteq {Shared} \cup TaskKeys
  <2>1. CASE k \in c
    <3>1. v = "served_from_cache"
      BY <1>6, <1>11, <2>1
    <3>2. cache'["beta"] = c /\ c \cup {k} = c
      BY <1>6, <2>1, <3>1
    <3> QED BY <1>4, <1>6, <1>9, <2>1, <3>1, <3>2
  <2>2. CASE k \notin c
    <3>1. n < Quota["beta"] /\ Cardinality(c \cup {k}) = n + 1
      BY <1>10, <1>11, <2>2
    <3>2. v = "served_from_upstream"
      BY <1>3, <1>4, <1>6, <1>9, <1>11, <2>2, <3>1
    <3> QED BY <1>4, <1>6, <1>11, <2>2, <3>1, <3>2
  <2> QED BY <2>1, <2>2
<1>12. RightAnswer(at, v) /\ CleanBeta'
  <2>1. CASE at = 2 /\ k = Foreign["beta"]
    <3>1. v = "lockfile_miss" /\ cache'["beta"] = c /\ Len(attempts'["beta"]) = n
      BY <1>3, <1>4, <1>6, <1>8, <1>9, <2>1
    <3>2. RightAnswer(at, v)
      BY <1>3, <2>1, <3>1 DEF RightAnswer
    <3> QED BY <1>2, <1>4, <2>1, <3>1, <3>2 DEF CleanBeta
  <2>2. CASE at = 5 /\ k = Shared
    <3>1. v = "served_from_upstream" /\ cache'["beta"] = {Shared} /\ Shared \notin c
      BY <1>4, <1>8, <1>11, <2>2
    <3>2. RightAnswer(at, v)
      BY <1>3, <2>2, <3>1 DEF RightAnswer
    <3>3. Cardinality({Shared}) = 1
      BY FS_Singleton
    <3>4. Len(attempts'["beta"]) = Cardinality(cache'["beta"]) /\ cache'["beta"] \subseteq {Shared} \cup TaskKeys
      BY <1>8, <1>11, <2>2
    <3>5. ~(at' <= 5)
      BY <1>2, <2>2
    <3> QED BY <3>1, <3>2, <3>3, <3>4, <3>5 DEF CleanBeta
  <2>3. CASE at = 6 /\ k = Shared
    <3>0. k \in c /\ k \in Entries["beta"]
      BY <1>4, <1>8, <2>3
    <3>1. v = "served_from_cache" /\ cache'["beta"] = c
      BY <1>6, <3>0
    <3>2. RightAnswer(at, v)
      BY <1>3, <2>3, <3>1 DEF RightAnswer
    <3>3. n = 1
      <4>1. at \in 6 .. 10 + W
        BY <1>3, <2>3
      <4> QED BY <1>4, <4>1
    <3>4. Len(attempts'["beta"]) = n + 0
      BY <1>6, <3>1
    <3>5. Len(attempts'["beta"]) = 1 /\ ~(at' <= 5) /\ Shared \in c
      BY <1>2, <2>3, <3>0, <3>3, <3>4
    <3> QED BY <1>4, <3>1, <3>2, <3>3, <3>5 DEF CleanBeta
  <2>4. ASSUME NEW i \in 1 .. Len(Task), at = 9 + W + i, k = Task[i].key PROVE RightAnswer(at, v) /\ CleanBeta'
    <3>1. k \in {Shared} \cup TaskKeys /\ k \in Entries["beta"]
      BY <1>8, <2>4
    <3>2. /\ v \in {"served_from_cache", "served_from_upstream"}
          /\ cache'["beta"] = c \cup {k}
          /\ Len(attempts'["beta"]) = Cardinality(cache'["beta"])
          /\ cache'["beta"] \subseteq {Shared} \cup TaskKeys
      BY <1>11, <3>1
    <3>3. at >= 10 + W /\ at' > 10 + W /\ at > 9 + W /\ at' \in Nat
      <4>1. i \in Nat /\ i >= 1 /\ W \in Nat /\ at \in Nat
        BY <1>3
      <4>2. at = 9 + W + i
        BY <2>4
      <4>3. at >= 10 + W /\ at > 9 + W
        BY ONLY <4>1, <4>2
      <4>4. at' = at + 1
        BY <1>2
      <4> QED BY ONLY <4>1, <4>3, <4>4
    <3>4. RightAnswer(at, v)
      <4>1. v \in Served
        BY <3>2 DEF Served
      <4>2. \A m \in Nat : m >= 10 + W => RightAnswer(m, v)
        BY <1>3, <4>1 DEF RightAnswer
      <4> QED BY <1>3, <3>3, <4>2
    <3>5. Shared \in cache'["beta"] /\ ~(at' <= 5) /\ ~(at' \in 6 .. 10 + W)
      <4>1. Shared \in c
        BY <1>3, <1>4, <3>3
      <4>2. ~(at' <= 5) /\ ~(at' \in 6 .. 10 + W)
        BY ONLY <1>3, <3>3
      <4> QED BY <3>2, <4>1, <4>2
    <3> QED BY <3>2, <3>4, <3>5 DEF CleanBeta
  <2> QED BY <1>7, <2>1, <2>2, <2>3, <2>4
<1>13. CleanAlpha'
  <2>1. CleanAlpha
    BY DEF CleanSoFar
  <2>0. at = 2 \/ at \in {5, 6} \/ at >= 10 + W
    <3>1. ASSUME NEW i \in 1 .. Len(Task), at = 9 + W + i PROVE at >= 10 + W
      BY <1>3, <3>1
    <3> QED BY <1>7, <3>1
  <2>2. /\ at' <= 4 => at <= 4
        /\ at' > 4 => at > 4
    BY <1>2, <1>3, <2>0
  <2>3. AlphaSpent(at') = AlphaSpent(at)
    <3>1. \A m \in Nat : m + 1 <= 4 \/ m \in 5 .. 7 \/ (m > 8 /\ m - 7 > Quota["alpha"]) => AlphaSpent(m + 1) = AlphaSpent(m)
      BY <1>3 DEF AlphaSpent
    <3>2. at + 1 <= 4 \/ at \in 5 .. 7 \/ (at > 8 /\ at - 7 > Quota["alpha"])
      BY <1>3, <2>0
    <3> QED BY <1>2, <1>3, <3>1, <3>2
  <2>4. WantedBefore(at) \subseteq WantedBefore(at')
    BY <1>2, <1>3, WantedGrows
  <2>5. /\ Len(attempts'["alpha"]) = AlphaSpent(at')
        /\ at' <= 4 => cache'["alpha"] = {}
        /\ at' > 4 => Shared \in cache'["alpha"]
        /\ cache'["alpha"] \subseteq {Shared} \cup WantedBefore(at')
    BY <1>2, <2>1, <2>2, <2>3, <2>4 DEF CleanAlpha, WantedBefore
  <2> QED BY <2>5 DEF CleanAlpha, WantedBefore, AlphaSpent
<1> QED BY <1>12, <1>13

LEMMA CleanMarked ==
    ASSUME IInv, CleanSoFar, at \in 1 .. Len(Script), at' = at + 1, at # 7, at # 8 + W, marks' = marks,
           NEW t \in Tenants, NEW d \in {0, 1}, Len(attempts'[t]) = Len(attempts[t]) + d,
           \A u \in Tenants : u # t => attempts'[u] = attempts[u], pkg_gets' = pkg_gets + d
    PROVE  CleanMarks'
<1> DEFINE a == Len(attempts["alpha"])
           b == Len(attempts["beta"])
<1>1. /\ W \in Nat /\ at \in Nat /\ a \in Nat /\ b \in Nat /\ d \in Nat
      /\ "alpha" \in Tenants /\ "beta" \in Tenants
  <2>1. HandleTypes /\ OtherTypes
    BY TypeParts DEF IInv
  <2>2. "alpha" \in Tenants /\ "beta" \in Tenants
    BY DEF Tenants
  <2>3. a \in Nat /\ b \in Nat
    BY <2>1, <2>2 DEF HandleTypes
  <2>4. W \in Nat /\ at \in Nat /\ d \in Nat
    BY <2>1, Constants DEF OtherTypes
  <2> QED BY <2>2, <2>3, <2>4
<1>2. CleanMarks
  BY DEF CleanSoFar
<1>3. t = "alpha" \/ t = "beta"
  BY DEF Tenants
<1>4. pkg_gets' = Len(attempts'["alpha"]) + Len(attempts'["beta"])
  <2>1. pkg_gets = a + b
    BY <1>2 DEF CleanMarks
  <2>2. CASE t = "alpha"
    <3>1. Len(attempts'["alpha"]) = a + d /\ Len(attempts'["beta"]) = b
      BY <1>1, <2>2
    <3> HIDE DEF a, b
    <3> QED BY <1>1, <2>1, <3>1
  <2>3. CASE t = "beta"
    <3>1. Len(attempts'["beta"]) = b + d /\ Len(attempts'["alpha"]) = a
      BY <1>1, <2>3
    <3> HIDE DEF a, b
    <3> QED BY <1>1, <2>1, <3>1
  <2> QED BY <1>3, <2>2, <2>3
<1>5. /\ at' <= 7 <=> at <= 7
      /\ at' <= 8 + W <=> at <= 8 + W
      /\ at' > 7 <=> at > 7
      /\ at' > 8 + W <=> at > 8 + W
  BY <1>1
<1> QED BY <1>2, <1>4, <1>5 DEF CleanMarks

LEMMA CleanFetch == ASSUME IInv, CleanSoFar, NEW v, Fetch(v), clean' PROVE CleanSoFar'
<1>1. /\ at \in 1 .. Len(Script) /\ at' = at + 1 /\ at # 7 /\ at # 8 + W /\ marks' = marks
      /\ Op.tenant \in Tenants /\ Op.key \in Keys \cup {NoKey}
      /\ Handle(Op.tenant, Op.key, v) /\ v \notin {"upstream_fail_closed", "digest_mismatch"}
      /\ \A u \in Tenants : CleanTenant(u)'
      /\ \A u \in Tenants : u # Op.tenant => attempts'[u] = attempts[u]
      /\ pkg_gets' = pkg_gets + (IF v = "served_from_upstream" THEN 1 ELSE 0)
      /\ RightAnswer(at, v) => \A n \in 1 .. at' - 1 : RightAnswer(n, answers'[n])
  BY CleanFetched
<1>2. RightAnswer(at, v) /\ CleanAlpha' /\ CleanBeta'
  BY <1>1, CleanAlphaAsks, CleanBetaAsks DEF Tenants
<1>3. CleanMarks'
  <2>1. HandleTypes /\ Counters /\ CleanTenant(Op.tenant)
    BY <1>1, TypeParts DEF IInv, CleanSoFar
  <2>2. Len(attempts'[Op.tenant]) = Len(attempts[Op.tenant]) + (IF v = "served_from_upstream" THEN 1 ELSE 0)
    BY <1>1, <2>1, CleanVerdict
  <2>3. PICK d \in {0, 1} : d = IF v = "served_from_upstream" THEN 1 ELSE 0
    OBVIOUS
  <2>4. Len(attempts'[Op.tenant]) = Len(attempts[Op.tenant]) + d /\ pkg_gets' = pkg_gets + d
    BY <1>1, <2>2, <2>3
  <2> QED BY <1>1, <2>4, CleanMarked
<1>4. \A n \in 1 .. at' - 1 : RightAnswer(n, answers[n])'
  BY <1>1, <1>2 DEF RightAnswer
<1> QED BY <1>1, <1>2, <1>3, <1>4 DEF CleanSoFar

\* No phase of a clean run's task misses anything, so none is skipped.
LEMMA CleanGoesOn == ASSUME IInv, CleanSoFar, Asking PROVE ~TaskIsOver
<1> SUFFICES ASSUME NEW n \in 1 .. at - 1, Script[n].phase \in 1 .. Op.phase - 1, answers[n] \notin Served PROVE FALSE
  BY DEF TaskIsOver
<1>1. W \in Nat /\ at \in 1 .. Len(Script) /\ n \in Nat /\ Len(Script) \in Nat
  BY Constants, OpTypes
<1>2. n \notin 1 .. 9 + W
  <2>1. Script[n].phase # 0
    OBVIOUS
  <2> QED BY <2>1, ScriptChecks
<1>3. n >= 10 + W
  BY <1>1, <1>2
<1> QED BY <1>3 DEF CleanSoFar, RightAnswer

LEMMA CleanMark == ASSUME IInv, CleanSoFar, TakeMark PROVE CleanSoFar'
<1> DEFINE mark == <<pkg_gets, Len(attempts["alpha"])>>
<1>1. HandleTypes /\ Counters /\ OtherTypes
  BY TypeParts DEF IInv
<1>2. /\ Asking /\ Op.check = "mark" /\ marks' = Append(marks, mark)
      /\ answers' = Append(answers, "none") /\ at' = at + 1
      /\ UNCHANGED <<epoch, cache, attempts, mem, file, sent, contacts, pkg_gets>>
  BY DEF TakeMark, broker
<1>3. at \in 1 .. Len(Script) /\ W \in Nat /\ Quota["alpha"] \in Nat /\ Quota["alpha"] >= 1 /\ W = Quota["alpha"] + 1
      /\ at \in Nat
  BY <1>2, OpTypes, Constants, QuotaAssumption
<1>4. at = 7 \/ at = 8 + W
  <2>1. \/ at \in 1 .. 7 \/ at \in 8 .. 7 + W \/ at = 8 + W \/ at = 9 + W \/ at \in 10 + W .. 9 + W + Len(Task)
    BY <1>3, ScriptChecks
  <2>2. \A n \in 1 .. 7 : n = 1 \/ n = 2 \/ n = 3 \/ n \in 4 .. 6 \/ n = 7
    OBVIOUS
  <2> QED BY <1>2, <2>1, <2>2, ScriptChecks DEF Op
<1>5. /\ CleanAlpha /\ CleanBeta /\ CleanMarks /\ \A u \in Tenants : CleanTenant(u)
      /\ \A n \in 1 .. at - 1 : RightAnswer(n, answers[n])
  BY DEF CleanSoFar
<1>6. ASSUME NEW u \in Tenants PROVE CleanTenant(u)'
  BY <1>2, <1>5, CleanKept DEF Untouched
<1>7. \A n \in 1 .. at' - 1 : RightAnswer(n, answers'[n])
  <2>1. "none" \in AllVerdicts
    BY DEF AllVerdicts
  <2>2. /\ \A n \in 1 .. at - 1 : answers'[n] = answers[n]
        /\ answers'[at] = "none"
        /\ \A n \in 1 .. at' - 1 : n \in 1 .. at - 1 \/ n = at
    BY <1>2, <2>1, Answered
  <2>3. RightAnswer(at, "none")
    BY <1>3, <1>4 DEF RightAnswer
  <2> QED BY <1>5, <2>2, <2>3
<1>8. AlphaSpent(7) = 1 /\ AlphaSpent(8) = 1 /\ AlphaSpent(8 + W) = Quota["alpha"] /\ AlphaSpent(9 + W) = Quota["alpha"]
  <2>1. \A m \in Nat : m > 8 /\ m - 7 > Quota["alpha"] => AlphaSpent(m) = Quota["alpha"]
    BY <1>3 DEF AlphaSpent
  <2>2. 8 + W \in Nat /\ 8 + W > 8 /\ (8 + W) - 7 > Quota["alpha"] /\ 9 + W \in Nat /\ 9 + W > 8 /\ (9 + W) - 7 > Quota["alpha"]
    BY <1>3
  <2>3. AlphaSpent(7) = 1 /\ AlphaSpent(8) = 1
    BY DEF AlphaSpent
  <2> QED BY <2>1, <2>2, <2>3
<1>9. AlphaSpent(at') = AlphaSpent(at) /\ Len(attempts["alpha"]) = AlphaSpent(at)
  <2>1. at' = 8 \/ at' = 9 + W
    BY <1>2, <1>3, <1>4
  <2>2. at = 7 => at' = 8
    BY <1>2
  <2>3. at = 8 + W => at' = 9 + W
    BY <1>2, <1>3
  <2> QED BY <1>4, <1>5, <1>8, <2>2, <2>3 DEF CleanAlpha
<1>10. CleanAlpha'
  <2>1. WantedBefore(at) \subseteq WantedBefore(at')
    BY <1>2, <1>3, WantedGrows
  <2>2. at > 4 /\ ~(at' <= 4)
    BY <1>2, <1>3, <1>4
  <2>3. /\ Len(attempts'["alpha"]) = AlphaSpent(at')
        /\ at' <= 4 => cache'["alpha"] = {}
        /\ at' > 4 => Shared \in cache'["alpha"]
        /\ cache'["alpha"] \subseteq {Shared} \cup WantedBefore(at')
    BY <1>2, <1>5, <1>9, <2>1, <2>2 DEF CleanAlpha, WantedBefore
  <2> QED BY <2>3 DEF CleanAlpha, WantedBefore, AlphaSpent
<1>11. Len(attempts["beta"]) = 1 /\ CleanBeta'
  <2>1. at > 5 /\ ~(at' <= 5) /\ at \in 6 .. 10 + W
    BY <1>2, <1>3, <1>4
  <2>2. Len(attempts["beta"]) = 1
    BY <1>5, <2>1 DEF CleanBeta
  <2>3. CleanBeta'
    BY <1>2, <1>5, <2>1, <2>2 DEF CleanBeta
  <2> QED BY <2>2, <2>3
<1>12. CleanMarks'
  <2>1. /\ marks \in Seq(Nat \X Nat) /\ Len(attempts["alpha"]) \in Nat /\ pkg_gets \in Nat
    BY <1>1 DEF OtherTypes, HandleTypes, Tenants
  <2>2. mark \in Nat \X Nat /\ mark[1] = pkg_gets /\ mark = <<pkg_gets, Len(attempts["alpha"])>>
    BY <2>1
  <2>3. pkg_gets = AlphaSpent(at) + 1
    BY <1>5, <1>9, <1>11 DEF CleanMarks
  <2> HIDE DEF mark
  <2>4. /\ Len(Append(marks, mark)) = Len(marks) + 1 /\ Append(marks, mark)[Len(marks) + 1] = mark
        /\ \A i \in 1 .. Len(marks) : Append(marks, mark)[i] = marks[i]
        /\ Len(marks) \in Nat
    BY <2>1, <2>2, AppendGrows
  <2>5. CASE at = 7
    <3>1. Len(marks) = 0 /\ pkg_gets = 2
      <4>1. AlphaSpent(at) = 1
        BY ONLY <1>8, <2>5
      <4>2. Len(marks) = 0
        BY <1>5, <2>5 DEF CleanMarks
      <4>3. pkg_gets = 2
        BY ONLY <2>3, <4>1
      <4> QED BY <4>2, <4>3
    <3>2. Len(marks') = 1 /\ marks'[1][1] = 2
      BY <1>2, <2>2, <2>4, <3>1
    <3>3. at' = 8 /\ at' > 7 /\ ~(at' <= 7) /\ at' <= 8 + W /\ ~(at' > 8 + W)
      BY <1>2, <1>3, <2>5
    <3>4. pkg_gets' = Len(attempts'["alpha"]) + Len(attempts'["beta"])
      BY <1>2, <1>5 DEF CleanMarks
    <3> QED BY <3>2, <3>3, <3>4 DEF CleanMarks
  <2>6. CASE at = 8 + W
    <3>1. at > 7 /\ ~(at <= 7) /\ at <= 8 + W
      BY <1>3, <2>6
    <3>2. Len(marks) = 1 /\ marks[1][1] = 2
      BY <1>5, <3>1 DEF CleanMarks
    <3>3. mark = <<Quota["alpha"] + 1, Quota["alpha"]>>
      BY <1>8, <1>9, <2>2, <2>3, <2>6
    <3>4. Len(marks') = 2 /\ marks'[1][1] = 2 /\ marks'[2] = <<Quota["alpha"] + 1, Quota["alpha"]>>
      BY <1>2, <2>4, <3>2, <3>3
    <3>5. ~(at' <= 7) /\ ~(at' <= 8 + W)
      BY <1>2, <1>3, <2>6
    <3>6. pkg_gets' = Len(attempts'["alpha"]) + Len(attempts'["beta"])
      BY <1>2, <1>5 DEF CleanMarks
    <3> QED BY <3>4, <3>5, <3>6 DEF CleanMarks
  <2> QED BY <1>4, <2>5, <2>6
<1>13. \A n \in 1 .. at' - 1 : RightAnswer(n, answers[n])'
  BY <1>7 DEF RightAnswer
<1> QED BY <1>6, <1>10, <1>11, <1>12, <1>13 DEF CleanSoFar

\* When all the lines that tell of the upstream are of this window, they are
\* the most of any window.
LEMMA Peak ==
    ASSUME NEW f \in Seq(Lines), epoch \in Nat, \A i \in UpstreamLines(f) : f[i].epoch = epoch
    PROVE  max_in_window(f) = Cardinality(UpstreamLines(f))
<1> DEFINE U == UpstreamLines(f)
           c == Cardinality(U)
           S == {Cardinality({i \in U : f[i].epoch = e}) : e \in 0 .. epoch}
<1>1. c \in Nat
  BY Counted
<1>2. Cardinality({}) = 0
  BY FS_EmptySet
<1> HIDE DEF U
<1>3. \A i \in U : f[i].epoch = epoch
  BY DEF U
<1>4. {i \in U : f[i].epoch = epoch} = U
  BY <1>3
<1>5. \A e \in 0 .. epoch : e # epoch => {i \in U : f[i].epoch = e} = {}
  BY <1>3
<1>6. c \in S
  <2>1. epoch \in 0 .. epoch
    OBVIOUS
  <2>2. Cardinality({i \in U : f[i].epoch = epoch}) = c
    BY <1>4
  <2> QED BY <2>1, <2>2
<1>7. \A x \in S : x = c \/ x = 0
  BY <1>2, <1>4, <1>5
<1>8. max_in_window(f) = Max(S)
  BY DEF max_in_window, U
<1> HIDE DEF c, S
<1>9. S \in SUBSET Nat /\ S # {} /\ \A x \in S : x <= c
  BY <1>1, <1>6, <1>7
<1>10. Max(S) \in S /\ \A x \in S : x <= Max(S)
  BY <1>1, <1>9, GreatestOne
<1>11. Max(S) = c
  <2>1. Max(S) = c \/ Max(S) = 0
    BY <1>7, <1>10
  <2>2. c <= Max(S)
    BY <1>6, <1>10
  <2> QED BY ONLY <1>1, <2>1, <2>2
<1> QED BY <1>8, <1>11 DEF c, U

\* Every check passes at the end of a clean run.
LEMMA ChecksPass ==
    ASSUME IInv, CleanSoFar, pc = "ask", at > Len(Script)
    PROVE  \A c \in Checks : Passed(c)
<1> DEFINE q == Quota["alpha"]
<1>1. HandleTypes /\ Counters /\ OtherTypes /\ RunInv
  BY TypeParts DEF IInv
<1>2. /\ W \in Nat /\ Len(Task) \in Nat /\ q \in Nat /\ q >= 1 /\ W = q + 1 /\ Len(Script) = 9 + W + Len(Task)
  BY Constants, ScriptItems, QuotaAssumption
<1>3. at - 1 = Len(Script) /\ at \in Nat /\ Len(answers) = Len(Script) /\ answers \in Seq(AllVerdicts)
  <2>1. at \in 1 .. Len(Script) + 1 /\ Len(answers) = at - 1 /\ answers \in Seq(AllVerdicts)
    BY <1>1 DEF RunInv, OtherTypes
  <2>2. Len(Script) \in Nat
    BY <1>2
  <2> QED BY <2>1, <2>2
<1>4. \A n \in 1 .. Len(Script) : RightAnswer(n, answers[n])
  BY <1>3 DEF CleanSoFar
<1>5. /\ answers[1] = "grammar_violation" /\ answers[2] = "lockfile_miss" /\ answers[3] = "lockfile_miss"
      /\ answers[4] = "served_from_upstream" /\ answers[5] = "served_from_upstream" /\ answers[6] = "served_from_cache"
      /\ answers[9 + W] = "served_from_cache"
      /\ \A n \in 8 .. 7 + W : answers[n] = IF n - 7 < q THEN "served_from_upstream" ELSE "quota_exceeded"
      /\ \A n \in 10 + W .. 9 + W + Len(Task) : answers[n] \in Served
  <2>1. /\ 1 \in 1 .. Len(Script) /\ 2 \in 1 .. Len(Script) /\ 3 \in 1 .. Len(Script) /\ 4 \in 1 .. Len(Script)
        /\ 5 \in 1 .. Len(Script) /\ 6 \in 1 .. Len(Script) /\ 9 + W \in 1 .. Len(Script)
    BY <1>2
  <2>2. \A n \in 8 .. 7 + W : n \in 1 .. Len(Script)
    BY <1>2
  <2>3. \A n \in 10 + W .. 9 + W + Len(Task) : n \in 1 .. Len(Script) /\ n >= 10 + W
    BY <1>2
  <2> QED BY <1>4, <2>1, <2>2, <2>3 DEF RightAnswer
<1>6. Passed("T1") /\ Passed("T2") /\ Passed("Q2")
  BY <1>5, AskedSets DEF Passed, Got
<1>7. Passed("T3")
  <2>1. /\ SubSeq(answers, 4, 6) \in Seq(AllVerdicts) /\ Len(SubSeq(answers, 4, 6)) = 3
        /\ \A i \in 1 .. 3 : SubSeq(answers, 4, 6)[i] = answers[4 + i - 1]
    <3>1. \A i \in 4 .. 6 : answers[i] \in AllVerdicts
      <4>1. \A i \in 4 .. 6 : i \in 1 .. Len(answers)
        BY <1>2, <1>3
      <4> QED BY <1>3, <4>1, ElementOfSeq
    <3> QED BY <3>1, SubSeqProperties
  <2>2. /\ SubSeq(answers, 4, 6)[1] = answers[4] /\ SubSeq(answers, 4, 6)[2] = answers[5]
        /\ SubSeq(answers, 4, 6)[3] = answers[6]
    BY <2>1
  <2>3. SubSeq(answers, 4, 6) = <<answers[4], answers[5], answers[6]>>
    <3>1. \A x \in Seq(AllVerdicts) : Len(x) = 3 => x = <<x[1], x[2], x[3]>>
      OBVIOUS
    <3> QED BY <2>1, <2>2, <3>1
  <2> QED BY <1>5, <2>3 DEF Passed
<1>8. Passed("Q1")
  <2>1. marks[1][1] = 2 /\ marks[2] = <<q + 1, q>>
    <3>1. at > 7 /\ at > 8 + W
      BY <1>2, <1>3
    <3> QED BY <3>1 DEF CleanSoFar, CleanMarks
  <2>2. Number("Q1", Served) = q - 1
    <3>1. \A n \in 8 .. 7 + W : answers[n] \in Served <=> n - 7 < q
      BY <1>5 DEF Served
    <3>2. 8 .. 6 + q \subseteq 8 .. 7 + W /\ \A n \in 8 .. 7 + W : n - 7 < q <=> n \in 8 .. 6 + q
      BY <1>2
    <3>3. {n \in Asked("Q1") : answers[n] \in Served} = 8 .. 6 + q
      <4>1. Asked("Q1") = 8 .. 7 + W
        BY AskedSets
      <4> QED BY ONLY <3>1, <3>2, <4>1, Zenon
    <3>4. 8 \in Int /\ 6 + q \in Int /\ (IF 8 > 6 + q THEN 0 ELSE (6 + q) - 8 + 1) = q - 1
      BY <1>2
    <3>5. Cardinality(8 .. 6 + q) = q - 1
      BY ONLY <3>4, FS_Interval
    <3> QED BY <3>3, <3>5 DEF Number
  <2>3. Number("Q1", {"quota_exceeded"}) = 2
    <3>1. \A n \in 8 .. 7 + W : answers[n] \in {"quota_exceeded"} <=> ~(n - 7 < q)
      BY <1>5
    <3>2. 7 + q .. 8 + q \subseteq 8 .. 7 + W /\ \A n \in 8 .. 7 + W : ~(n - 7 < q) <=> n \in 7 + q .. 8 + q
      <4>1. 7 + W = 8 + q /\ q \in Nat /\ q >= 1
        BY <1>2
      <4>2. 7 + q .. 8 + q \subseteq 8 .. 8 + q
        BY <4>1
      <4>3. \A n \in 8 .. 8 + q : ~(n - 7 < q) <=> n \in 7 + q .. 8 + q
        BY <4>1
      <4> QED BY ONLY <4>1, <4>2, <4>3
    <3>3. {n \in Asked("Q1") : answers[n] \in {"quota_exceeded"}} = 7 + q .. 8 + q
      <4>1. Asked("Q1") = 8 .. 7 + W
        BY AskedSets
      <4> QED BY ONLY <3>1, <3>2, <4>1, Zenon
    <3>4. 7 + q \in Int /\ 8 + q \in Int /\ (IF 7 + q > 8 + q THEN 0 ELSE (8 + q) - (7 + q) + 1) = 2
      BY <1>2
    <3>5. Cardinality(7 + q .. 8 + q) = 2
      BY ONLY <3>4, FS_Interval
    <3> QED BY <3>3, <3>5 DEF Number
  <2>4. marks[2][1] = q + 1 /\ marks[2][2] = q
    BY <2>1
  <2>5. Len(Wanted) = q + 1
    BY <1>2 DEF W
  <2> QED BY <1>2, <2>1, <2>2, <2>3, <2>4, <2>5 DEF Passed
<1>9. Passed("Q3")
  <2>1. Got("Q3") \subseteq Served
    <3>1. Asked("Q3") = 10 + W .. 9 + W + Len(Task)
      BY AskedSets
    <3>2. \A n \in Asked("Q3") : answers[n] \in Served
      BY <1>5, <3>1
    <3> QED BY <3>2, Zenon DEF Got
  <2>2. Len(attempts["beta"]) <= Quota["beta"]
    BY <1>1 DEF HandleTypes, Tenants
  <2> QED BY <2>1, <2>2 DEF Passed
<1>10. Passed("T4")
  BY DEF Passed, CleanSoFar, CleanTenant
<1> QED BY <1>6, <1>7, <1>8, <1>9, <1>10 DEF Checks

\* verify_tenancy accepts the report of a clean run.
LEMMA CleanReport == ASSUME IInv, CleanSoFar, Report, clean' PROVE verify_tenancy'
<1>1. HandleTypes /\ Counters /\ OtherTypes /\ RunInv
  BY TypeParts DEF IInv
<1>2. PICK ok \in BOOLEAN :
         /\ IF ok THEN UNCHANGED <<clean, faults>> ELSE Fail
         /\ report' = [life |-> life, root |-> mem, upstream_attempts |-> [t \in Tenants |-> Len(attempts[t])],
                       passed |-> {c \in Checks : Passed(c) /\ (c = "Q3" => ok)}]
  BY DEF Report
<1>3. /\ pc = "ask" /\ at > Len(Script) /\ UNCHANGED <<life, epoch, file, mem, attempts>>
  BY DEF Report, broker
<1>4. ok
  BY <1>2 DEF Fail
<1>5. report'.passed = Checks
  <2>1. \A c \in Checks : Passed(c)
    BY <1>3, ChecksPass
  <2>2. {c \in Checks : Passed(c) /\ (c = "Q3" => ok)} = Checks
    BY <1>4, <2>1
  <2> QED BY <1>2, <2>2
<1>6. report'.root = mem /\ report'.upstream_attempts = [t \in Tenants |-> Len(attempts[t])]
  BY <1>2
<1>7. report' # NoReport
  <2>1. mem \in [Tenants -> Seq(Lines)] /\ [t \in Tenants |-> Len(attempts[t])] \in [Tenants -> Nat] /\ life \in Nat
    BY <1>1 DEF HandleTypes, Counters
  <2>2. {c \in Checks : Passed(c) /\ (c = "Q3" => ok)} \in SUBSET Checks
    OBVIOUS
  <2>3. report' \in Reports
    BY <1>2, <2>1, <2>2 DEF Reports
  <2> QED BY <2>3, ReportAssumption
<1>8. ASSUME NEW t \in Tenants
      PROVE  /\ Intact(file[t]) /\ report'.root[t] = file[t]
             /\ Notes(file[t], "tenant_bound") = 1 /\ Notes(file[t], "lockfile_loaded") = 1
             /\ ServedKeys(file[t]) \subseteq Entries[t]
             /\ max_in_window(file[t]) <= Quota[t] /\ max_in_window(file[t]) = report'.upstream_attempts[t]
  <2>1. CleanTenant(t)
    BY DEF CleanSoFar
  <2>2. Intact(file[t])
    <3>1. \A i \in DOMAIN mem[t] : mem[t][i].life = life
      BY <1>1, <1>3 DEF RunInv, Told
    <3>2. mem[t] \in Seq(Lines)
      BY <1>1 DEF HandleTypes
    <3>3. \A i \in DOMAIN mem[t] : 1 \in DOMAIN mem[t]
      BY <3>2
    <3>4. Intact(mem[t])
      BY <3>1, <3>3 DEF Intact
    <3> QED BY <2>1, <3>4 DEF CleanTenant
  <2>3. max_in_window(file[t]) = Len(attempts[t])
    <3>1. mem[t] \in Seq(Lines) /\ epoch \in Nat
      BY <1>1 DEF HandleTypes, Counters
    <3>2. /\ file[t] = mem[t]
          /\ \A i \in UpstreamLines(mem[t]) : mem[t][i].epoch = epoch
          /\ Cardinality(UpstreamLines(mem[t])) = Len(attempts[t])
      BY <2>1 DEF CleanTenant
    <3> QED BY <3>1, <3>2, Peak
  <2>4. Len(attempts[t]) <= Quota[t]
    BY <1>1 DEF HandleTypes
  <2> QED BY <1>6, <2>1, <2>2, <2>3, <2>4 DEF CleanTenant
<1>9. \A u \in ToSet(Public) : u \in Tenants
  <2>1. DOMAIN Public = 1 .. 2 /\ Public[1] = "alpha" /\ Public[2] = "beta"
    BY DEF Public
  <2>2. \A i \in 1 .. 2 : i = 1 \/ i = 2
    OBVIOUS
  <2> QED BY <2>1, <2>2 DEF ToSet, Tenants
<1>10. ASSUME NEW t \in ToSet(Public)
       PROVE  /\ Intact(file'[t]) /\ RootMatches(t)'
              /\ Notes(file'[t], "tenant_bound") = 1 /\ Notes(file'[t], "lockfile_loaded") = 1
              /\ ServedKeys(file'[t]) \subseteq Entries[t]
              /\ max_in_window(file[t])' <= Quota[t] /\ max_in_window(file[t])' = report'.upstream_attempts[t]
  <2>1. t \in Tenants
    BY <1>9
  <2>2. max_in_window(file[t])' = max_in_window(file[t])
    BY <1>3 DEF max_in_window, UpstreamLines
  <2> QED BY <1>3, <1>8, <2>1, <2>2 DEF RootMatches
<1> QED BY <1>5, <1>7, <1>10 DEF verify_tenancy, Intact, Notes, ServedKeys

LEMMA CleanInvStep == IInv /\ CleanInv /\ [Next]_vars => CleanInv'
<1> SUFFICES ASSUME IInv, CleanInv, [Next]_vars PROVE CleanInv'
  OBVIOUS
<1>1. CASE UNCHANGED vars
  <2>1. CleanSoFar => CleanSoFar'
    <3> SUFFICES ASSUME CleanSoFar PROVE CleanSoFar'
      OBVIOUS
    <3>1. \A t \in Tenants : CleanTenant(t)'
      BY <1>1, CleanKept DEF vars, broker, Untouched, CleanSoFar
    <3>2. \A n \in 1 .. at' - 1 : RightAnswer(n, answers[n])'
      BY <1>1 DEF vars, CleanSoFar, RightAnswer
    <3>3. CleanAlpha' /\ CleanBeta' /\ CleanMarks'
      BY <1>1 DEF vars, broker, CleanSoFar, CleanAlpha, AlphaSpent, CleanBeta, CleanMarks
    <3> QED BY <3>1, <3>2, <3>3 DEF CleanSoFar
  <2>2. verify_tenancy' <=> verify_tenancy
    <3>1. report' = report /\ file' = file /\ epoch' = epoch
      BY <1>1 DEF vars, broker
    <3>2. \A t : max_in_window(file[t])' = max_in_window(file[t])
      BY <3>1 DEF max_in_window, UpstreamLines
    <3>3. \A t : /\ Intact(file[t])' <=> Intact(file[t])
                 /\ RootMatches(t)' <=> RootMatches(t)
                 /\ Notes(file[t], "tenant_bound")' = Notes(file[t], "tenant_bound")
                 /\ Notes(file[t], "lockfile_loaded")' = Notes(file[t], "lockfile_loaded")
                 /\ ServedKeys(file[t])' = ServedKeys(file[t])
      BY <3>1 DEF Intact, RootMatches, Notes, ServedKeys
    <3> QED BY <3>1, <3>2, <3>3 DEF verify_tenancy
  <2> QED BY <1>1, <2>1, <2>2 DEF CleanInv, CleanTenancyVerifies, vars
<1>2. ASSUME NEW c \in Configs, StartRun(c) PROVE CleanInv'
  BY <1>2 DEF StartRun, CleanInv, CleanTenancyVerifies
<1>3. CASE Bind
  BY <1>3 DEF Bind, CleanInv, CleanTenancyVerifies
<1>4. CASE Duplicate \/ Raises \/ Kill
  BY <1>4 DEF Duplicate, Raises, Kill, CleanInv, CleanTenancyVerifies
<1>5. CASE Serve
  BY <1>5, CleanServed DEF Serve, CleanInv, CleanTenancyVerifies
<1>6. ASSUME NEW v, Fetch(v) PROVE CleanInv'
  <2>1. pc = "ask" /\ pc' = "ask"
    BY <1>6 DEF Fetch, Asking
  <2>2. clean' => clean
    BY <1>6 DEF Fetch, Fail
  <2>3. clean' => CleanSoFar'
    BY <1>6, <2>1, <2>2, CleanFetch DEF CleanInv
  <2> QED BY <2>1, <2>3 DEF CleanInv, CleanTenancyVerifies
<1>7. CASE Skip
  <2>1. pc = "ask" /\ pc' = "ask" /\ clean' = clean /\ Asking /\ TaskIsOver
    BY <1>7 DEF Skip, Asking
  <2>2. ~clean
    BY <2>1, CleanGoesOn DEF CleanInv
  <2> QED BY <2>1, <2>2 DEF CleanInv, CleanTenancyVerifies
<1>8. CASE TakeMark
  <2>1. pc = "ask" /\ pc' = "ask" /\ clean' = clean
    BY <1>8 DEF TakeMark, Asking
  <2>2. clean => CleanSoFar'
    BY <1>8, <2>1, CleanMark DEF CleanInv
  <2> QED BY <2>1, <2>2 DEF CleanInv, CleanTenancyVerifies
<1>9. CASE Stray \/ Jump
  <2>1. pc' = "ask" /\ ~clean'
    BY <1>9 DEF Stray, Jump, Fail
  <2> QED BY <2>1 DEF CleanInv, CleanTenancyVerifies
<1>10. CASE Report
  <2>1. pc = "ask" /\ pc' = "done" /\ (clean' => clean)
    BY <1>10 DEF Report, Fail
  <2>2. clean' => verify_tenancy'
    BY <1>10, <2>1, CleanReport DEF CleanInv
  <2> QED BY <2>1, <2>2 DEF CleanInv, CleanTenancyVerifies
<1>11. CASE Done
  BY <1>1, <1>11 DEF Done
<1> QED BY <1>1, <1>2, <1>3, <1>4, <1>5, <1>6, <1>7, <1>8, <1>9, <1>10, <1>11 DEF Next

\* M2-M4 the other way, for every pair of lockfiles, every quota and every
\* task that fit one another: a run in which nothing fails verifies, whatever
\* was left by the runs before it.
THEOREM CleanRunIsAccepted == Spec => []CleanTenancyVerifies
<1>1. Init => CleanInv
  BY DEF Init, CleanInv, CleanTenancyVerifies
<1>2. CleanInv => CleanTenancyVerifies
  BY DEF CleanInv
<1> QED BY Inductive, CleanInvStep, <1>1, <1>2, PTL DEF Spec
=============================================================================
