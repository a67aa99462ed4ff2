----------------------------- MODULE FrictionProofs -----------------------------
(***************************************************************************)
(* Theorems about Friction: its typing, that what the sandbox reports and  *)
(* what the broker logged agree, that the loop and the closure pass reach  *)
(* one lockfile, in a number of runs bounded by the missing keys and the   *)
(* failures, and what a verified report vouches for.                       *)
(***************************************************************************)
EXTENDS Friction, SequenceLemmas

\* The keys the manifest needs.
C == Closure(ManifestKeys, {})

\* Where the program is: the closure pass comes after the loop, phases are
\* resolved in a run, and the broker has the lockfile on disk but between an
\* amendment and its reload.
ControlInv ==
    /\ pc = "resolve" => phase <= Len(Roots)
    /\ pc \in {"start_phase", "resolve"} => ~ok
    /\ pc \in {"reload", "closure"} => way = "error_driven"
    /\ pc = "done" => way = "closure"
    /\ way = "error_driven" /\ final # "none" => pc = "closure"
    /\ entries \subseteq live
    /\ pc \notin {"reload", "aborted"} => entries = live

-----------------------------------------------------------------------------
\* Requirements of a key, and the manifest, name keys.
LEMMA RequiredKeys == \A k \in Keys : Requires[k] \in Seq(Keys) /\ ToSet(Requires[k]) \subseteq Keys
BY KeyAssumption DEF ToSet

LEMMA Phases ==
    Len(Roots) \in Nat /\ DOMAIN Roots = 1 .. Len(Roots) /\ \A i \in 1 .. Len(Roots) : Roots[i] \in Seq(Keys)
BY KeyAssumption

LEMMA ManifestIsKeys == ManifestKeys \subseteq Keys
<1>1. \A i \in DOMAIN Roots : Roots[i] \in Seq(Keys)
  BY KeyAssumption
<1>2. \A i \in DOMAIN Roots : ToSet(Roots[i]) \subseteq Keys
  BY <1>1 DEF ToSet
<1> QED BY <1>2 DEF ManifestKeys

\* The walk of amend() has a least fixed point: the intersection of the closed sets.
LEMMA ClosureIsLeast ==
    ASSUME NEW from, from \subseteq Keys, NEW lost
    PROVE  /\ Closure(from, lost) \subseteq Keys
           /\ Closed(Closure(from, lost), from, lost)
           /\ \A T \in SUBSET Keys : Closed(T, from, lost) => Closure(from, lost) \subseteq T
<1> DEFINE I == {k \in Keys : \A T \in SUBSET Keys : Closed(T, from, lost) => k \in T}
<1>1. \A k \in I \ lost : ToSet(Requires[k]) \subseteq I
  <2>1. ASSUME NEW k \in I \ lost PROVE ToSet(Requires[k]) \subseteq I
    <3>1. ToSet(Requires[k]) \subseteq Keys
      BY RequiredKeys
    <3>2. ASSUME NEW T \in SUBSET Keys, Closed(T, from, lost) PROVE ToSet(Requires[k]) \subseteq T
      BY <3>2 DEF Closed
    <3> QED BY <3>1, <3>2
  <2> QED BY <2>1
<1>2. from \subseteq I
  BY DEF Closed
<1>3. Closed(I, from, lost)
  BY <1>1, <1>2 DEF Closed
<1>4. I \in SUBSET Keys /\ \A T \in SUBSET Keys : Closed(T, from, lost) => I \subseteq T
  OBVIOUS
<1> HIDE DEF I
<1>5. \E S \in SUBSET Keys : Closed(S, from, lost) /\ \A T \in SUBSET Keys : Closed(T, from, lost) => S \subseteq T
  BY <1>3, <1>4
<1> QED BY <1>5, Zenon DEF Closure

LEMMA CProperties ==
    /\ C \subseteq Keys /\ ManifestKeys \subseteq C
    /\ \A k \in C : ToSet(Requires[k]) \subseteq C
    /\ \A T \in SUBSET Keys : Closed(T, ManifestKeys, {}) => C \subseteq T
BY ManifestIsKeys, ClosureIsLeast DEF C, Closed

\* What the walk reaches without some keys is part of what it reaches.
LEMMA LostReachesLess ==
    ASSUME NEW lost
    PROVE  Closure(ManifestKeys, lost) \subseteq C
<1>1. Closed(C, ManifestKeys, lost)
  BY CProperties DEF Closed
<1> QED BY <1>1, CProperties, ManifestIsKeys, ClosureIsLeast

-----------------------------------------------------------------------------
\* The initial state.
LEMMA InitTypeControl == Init => TypeOK /\ ControlInv
<1> SUFFICES ASSUME Init PROVE TypeOK /\ ControlInv
  OBVIOUS
<1>1. outcome.live \subseteq Keys /\ outcome.entries \subseteq Keys
  BY DEF Init, Unused
<1>2. /\ live \subseteq Keys /\ entries \subseteq Keys /\ cache \subseteq entries
      /\ missed \subseteq Keys \ entries
      /\ seen \subseteq Keys /\ have \subseteq Keys /\ misses \subseteq Keys \X Reasons
      /\ drifted \subseteq ManifestKeys
      /\ green \subseteq {"error_driven", "closure"} \X SUBSET Keys
  BY KeyAssumption DEF Init
<1>3. run \in 1 .. MAX_RUNS /\ phase \in 1 .. Len(Roots) + 1 /\ queue \in Seq(Keys) /\ faults \in 0 .. MaxFaults
  BY Phases, BoundAssumption DEF Init
<1>4. TypeOK
  BY <1>1, <1>2, <1>3 DEF Init, TypeOK
<1>5. ControlInv
  BY DEF Init, ControlInv
<1> QED BY <1>4, <1>5

\* Faults are counted in numbers.
LEMMA FaultsAreNumbers ==
    ASSUME NEW lost, lost \subseteq Keys
    PROVE  Cardinality(lost) \in Nat
BY KeyAssumption, FS_Subset, FS_CardinalityType

\* Every step keeps the types ...
LEMMA TypeStep ==
    ASSUME TypeOK, ControlInv, [Next]_vars
    PROVE  TypeOK'
<1> USE Phases, BoundAssumption DEF TypeOK, ControlInv
<1>1. CASE StartRun
  <2>1. phase' \in 1 .. Len(Roots) + 1
    BY <1>1 DEF StartRun
  <2>2. have' \subseteq Keys /\ misses' \subseteq Keys \X Reasons /\ ok' \in BOOLEAN
    BY <1>1 DEF StartRun
  <2>3. UNCHANGED <<way, live, entries, cache, missed, run, queue, seen, agree, final, outcome, drifted, green, faults>>
    BY <1>1, Zenon DEF StartRun
  <2> QED BY <1>1, <2>1, <2>2, <2>3 DEF StartRun
<1>2. CASE StartPhase
  <2>1. queue' \in Seq(Keys) /\ seen' \subseteq Keys
    BY <1>2 DEF StartPhase
  <2>2. ok' \in BOOLEAN
    BY <1>2 DEF StartPhase
  <2>3. green' \subseteq {"error_driven", "closure"} \X SUBSET Keys
    BY <1>2 DEF StartPhase
  <2>4. pc' \in {"resolve", "judge"}
    BY <1>2 DEF StartPhase
  <2>5. UNCHANGED <<way, live, entries, cache, missed, run, phase, have, misses, agree, final, outcome, drifted, faults>>
    BY <1>2, Zenon DEF StartPhase
  <2> QED BY <2>1, <2>2, <2>3, <2>4, <2>5
<1>3. CASE Skip
  BY <1>3 DEF Skip
<1>4. CASE NoAnswer
  BY <1>4, BoundAssumption DEF NoAnswer, task
<1>5. CASE EndPhase
  BY <1>5, Phases DEF EndPhase, task
<1>6. CASE ChildFails
  BY <1>6, BoundAssumption DEF ChildFails, task
<1>7. CASE ChildTimesOut
  BY <1>7, BoundAssumption DEF ChildTimesOut, task
<1>8. ASSUME NEW k \in Keys, Miss(k) PROVE TypeOK'
  BY <1>8 DEF Miss, Ask, Reasons
<1>9. ASSUME NEW k \in Keys, FailClosed(k) PROVE TypeOK'
  BY <1>9, BoundAssumption DEF FailClosed, Ask, Reasons
<1>10. ASSUME NEW k \in Keys, Serve(k) PROVE TypeOK'
  <2>1. Rest(k) \in Seq(Keys)
    BY <1>10, RequiredKeys DEF Rest, Serve, Ask
  <2> QED BY <1>10, <2>1 DEF Serve, Ask
<1>11. CASE EndLoop
  BY <1>11 DEF EndLoop, task
<1>12. CASE AmendLive
  BY <1>12, FaultsAreNumbers, BoundAssumption DEF AmendLive, task, reported
<1>13. CASE Reload
  BY <1>13, BoundAssumption DEF Reload, Loaded, MissesSinceLoad, task
<1>14. CASE ClosurePass
  <2>1. PICK lost \in SUBSET Closure(ManifestKeys, {}) :
           /\ faults + Cardinality(lost) <= MaxFaults
           /\ faults' = faults + Cardinality(lost)
           /\ live' = Seed \cup (Closure(ManifestKeys, lost) \ lost)
           /\ entries' = live'
    BY <1>14 DEF ClosurePass
  <2>2. lost \subseteq Keys /\ Closure(ManifestKeys, lost) \subseteq Keys
    BY CProperties, LostReachesLess DEF C
  <2>3. faults' \in 0 .. MaxFaults /\ live' \subseteq Keys
    <3>1. Cardinality(lost) \in Nat
      BY <2>2, FaultsAreNumbers, Zenon
    <3>2. faults \in Nat /\ MaxFaults \in Nat
      OBVIOUS
    <3>3. faults' \in 0 .. MaxFaults
      <4> DEFINE n == Cardinality(lost)
      <4>1. n \in Nat /\ faults + n <= MaxFaults /\ faults' = faults + n
        BY <2>1, <3>1
      <4> HIDE DEF n
      <4> QED BY <3>2, <4>1
    <3>4. live' \subseteq Keys
      BY <2>1, <2>2, KeyAssumption
    <3> QED BY <3>3, <3>4
  <2> QED BY <1>14, <2>1, <2>3 DEF ClosurePass, task
<1>15. CASE DriftCheck
  <2>1. PICK lost \in SUBSET ManifestKeys :
           /\ faults + Cardinality(lost) <= MaxFaults
           /\ faults' = faults + Cardinality(lost)
           /\ drifted' = ManifestKeys \ lost
    BY <1>15 DEF DriftCheck
  <2>2. faults' \in 0 .. MaxFaults
    <3> DEFINE n == Cardinality(lost)
    <3>1. lost \subseteq Keys
      BY ManifestIsKeys
    <3>2. n \in Nat
      BY <3>1, FaultsAreNumbers, Zenon
    <3>3. faults \in Nat /\ MaxFaults \in Nat
      OBVIOUS
    <3>4. faults + n <= MaxFaults /\ faults' = faults + n
      BY <2>1
    <3> HIDE DEF n
    <3> QED BY <3>2, <3>3, <3>4
  <2> QED BY <1>15, <2>1, <2>2 DEF DriftCheck, task
<1>16. CASE SwitchFails
  BY <1>16, BoundAssumption DEF SwitchFails, task
<1>17. CASE UNCHANGED vars
  BY <1>17 DEF vars, task
<1> QED
  BY <1>1, <1>2, <1>3, <1>4, <1>5, <1>6, <1>7, <1>8, <1>9, <1>10, <1>11, <1>12, <1>13, <1>14, <1>15, <1>16, <1>17
     DEF Next, Step, Done

\* ... and the control.
LEMMA ControlStep ==
    ASSUME TypeOK, ControlInv, [Next]_vars
    PROVE  ControlInv'
<1> USE DEF ControlInv
<1>1. CASE StartRun
  BY <1>1 DEF StartRun
<1>2. CASE StartPhase
  BY <1>2 DEF StartPhase
<1>3. CASE Skip
  BY <1>3 DEF Skip
<1>4. CASE NoAnswer
  BY <1>4 DEF NoAnswer, task
<1>5. CASE EndPhase
  BY <1>5 DEF EndPhase, task
<1>6. CASE ChildFails
  BY <1>6 DEF ChildFails, task
<1>7. CASE ChildTimesOut
  BY <1>7 DEF ChildTimesOut, task
<1>8. ASSUME NEW k \in Keys, Miss(k) \/ FailClosed(k) \/ Serve(k) PROVE ControlInv'
  BY <1>8 DEF Miss, FailClosed, Serve, Ask
<1>9. CASE EndLoop
  BY <1>9 DEF EndLoop, task
<1>10. CASE AmendLive
  BY <1>10 DEF AmendLive, task
<1>11. CASE Reload
  BY <1>11 DEF Reload, Loaded, task
<1>12. CASE ClosurePass
  BY <1>12 DEF ClosurePass, task
<1>13. CASE DriftCheck
  BY <1>13 DEF DriftCheck, task
<1>14. CASE SwitchFails
  BY <1>14 DEF SwitchFails, task
<1>15. CASE UNCHANGED vars
  BY <1>15 DEF vars, task
<1> QED
  BY <1>1, <1>2, <1>3, <1>4, <1>5, <1>6, <1>7, <1>8, <1>9, <1>10, <1>11, <1>12, <1>13, <1>14, <1>15
     DEF Next, Step, Done

LEMMA TypeControl == Spec => [](TypeOK /\ ControlInv)
<1>1. TypeOK /\ ControlInv /\ [Next]_vars => (TypeOK /\ ControlInv)'
  BY TypeStep, ControlStep
<1> QED BY InitTypeControl, <1>1, PTL DEF Spec

\* The variables of the experiment keep their types, whatever the project, the
\* seed and the upstream: run_friction_experiment.
THEOREM TypeCorrect == Spec => []TypeOK
BY TypeControl, PTL

-----------------------------------------------------------------------------
\* Faults are never taken back.
LEMMA FaultsGrow ==
    ASSUME TypeOK, [Next]_vars
    PROVE  faults \in Nat /\ faults' \in Nat /\ faults <= faults'
<1>1. faults \in Nat
  BY BoundAssumption DEF TypeOK
<1>2. ASSUME NEW lost, lost \subseteq Keys, faults' = faults + Cardinality(lost)
      PROVE  faults' \in Nat /\ faults <= faults'
  <2> DEFINE n == Cardinality(lost)
  <2>1. n \in Nat /\ faults' = faults + n
    BY <1>2, FaultsAreNumbers
  <2> HIDE DEF n
  <2> QED BY <1>1, <2>1
<1>3. CASE AmendLive
  <2>1. PICK lost \in SUBSET (missed \ live) : faults' = faults + Cardinality(lost)
    BY <1>3 DEF AmendLive
  <2>2. lost \subseteq Keys
    BY <2>1 DEF TypeOK
  <2> QED BY <1>1, <1>2, <2>1, <2>2
<1>4. CASE ClosurePass
  <2>1. PICK lost \in SUBSET C : faults' = faults + Cardinality(lost)
    BY <1>4 DEF ClosurePass, C
  <2>2. lost \subseteq Keys
    BY <2>1, CProperties
  <2> QED BY <1>1, <1>2, <2>1, <2>2
<1>5. CASE DriftCheck
  <2>1. PICK lost \in SUBSET ManifestKeys : faults' = faults + Cardinality(lost)
    BY <1>5 DEF DriftCheck
  <2> QED BY <1>1, <1>2, <2>1, ManifestIsKeys
<1>6. ASSUME NEW k \in Keys, Miss(k) \/ FailClosed(k) \/ Serve(k) PROVE faults' \in Nat /\ faults <= faults'
  BY <1>1, <1>6 DEF Miss, FailClosed, Serve
<1>7. CASE NoAnswer \/ ChildFails \/ ChildTimesOut \/ SwitchFails
  BY <1>1, <1>7 DEF NoAnswer, ChildFails, ChildTimesOut, SwitchFails
<1>8. CASE StartRun \/ StartPhase \/ Skip \/ EndPhase \/ EndLoop \/ Reload
  BY <1>1, <1>8 DEF StartRun, StartPhase, Skip, EndPhase, EndLoop, Reload
<1>9. CASE UNCHANGED vars
  BY <1>1, <1>9 DEF vars
<1> QED BY <1>1, <1>3, <1>4, <1>5, <1>6, <1>7, <1>8, <1>9 DEF Next, Step, Done

\* While nothing failed, the log since the last load holds what the run of the
\* sandbox has missed.
ReportInv ==
    faults = 0 =>
        /\ agree
        /\ pc = "start_run" => missed = {}
        /\ pc \in {"start_phase", "resolve", "judge"} => missed = reported

LEMMA InitReport == Init => ReportInv
BY DEF Init, ReportInv

LEMMA ReportedGrows ==
    ASSUME NEW k, NEW r, misses' = misses \cup {<<k, r>>}
    PROVE  reported' = reported \cup {k}
<1>1. <<k, r>>[1] = k
  OBVIOUS
<1> QED BY <1>1, Zenon DEF reported

LEMMA ReportStep ==
    ASSUME TypeOK, ControlInv, ReportInv, [Next]_vars
    PROVE  ReportInv'
<1> SUFFICES ASSUME faults' = 0, faults = 0 PROVE ReportInv'
  <2>1. faults' = 0 => faults = 0
    BY FaultsGrow
  <2> QED BY <2>1 DEF ReportInv
<1> USE DEF ReportInv
<1>1. CASE StartRun
  BY <1>1 DEF StartRun, reported
<1>2. CASE StartPhase
  BY <1>2 DEF StartPhase, reported
<1>3. CASE Skip
  BY <1>3 DEF Skip, reported
<1>4. CASE NoAnswer \/ ChildFails \/ ChildTimesOut \/ SwitchFails
  BY <1>4 DEF NoAnswer, ChildFails, ChildTimesOut, SwitchFails
<1>5. CASE EndPhase
  BY <1>5 DEF EndPhase, task, reported
<1>6. ASSUME NEW k \in Keys, Miss(k) PROVE ReportInv'
  <2>1. /\ missed' = missed \cup {k} /\ misses' = misses \cup {<<k, "lockfile_miss">>}
        /\ pc = "resolve" /\ UNCHANGED <<pc, agree, faults>>
    BY <1>6 DEF Miss, Ask
  <2>2. reported' = reported \cup {k}
    BY <2>1, ReportedGrows
  <2> QED BY <2>1, <2>2
<1>7. ASSUME NEW k \in Keys, FailClosed(k) PROVE ReportInv'
  BY <1>7 DEF FailClosed
<1>8. ASSUME NEW k \in Keys, Serve(k) PROVE ReportInv'
  BY <1>8 DEF Serve, Ask, reported
<1>9. CASE EndLoop \/ AmendLive
  BY <1>9 DEF EndLoop, AmendLive
<1>10. CASE Reload
  BY <1>10 DEF Reload, MissesSinceLoad
<1>11. CASE ClosurePass \/ DriftCheck
  BY <1>11 DEF ClosurePass, DriftCheck
<1>12. CASE UNCHANGED vars
  BY <1>12 DEF vars, task, reported
<1> QED
  BY <1>1, <1>2, <1>3, <1>4, <1>5, <1>6, <1>7, <1>8, <1>9, <1>10, <1>11, <1>12 DEF Next, Step, Done

\* The sandbox reports as missing what the broker logged, as long as no fetch and
\* no child failed: sandbox_report_matches_transcript.
THEOREM ReportAgrees == Spec => []ReportMatchesTranscript
<1>1. TypeOK /\ ControlInv /\ ReportInv /\ [Next]_vars => ReportInv'
  BY ReportStep
<1>2. ReportInv => ReportMatchesTranscript
  BY DEF ReportInv, ReportMatchesTranscript
<1> QED BY TypeControl, InitReport, <1>1, <1>2, PTL DEF Spec

-----------------------------------------------------------------------------
\* A run that is over and "ok" was green behind the lockfile that is loaded, and
\* so was the final run of the loop.
GreenInv ==
    /\ ok /\ pc \in {"judge", "done"} => <<way, entries>> \in green
    /\ final = "green" /\ way = "error_driven" => <<"error_driven", entries>> \in green
    /\ outcome.final = "green" => <<"error_driven", outcome.entries>> \in green

LEMMA InitGreen == Init => GreenInv
BY DEF Init, Unused, GreenInv

LEMMA GreenStep ==
    ASSUME ControlInv, GreenInv, [Next]_vars
    PROVE  GreenInv'
<1> USE DEF ControlInv, GreenInv
<1>1. CASE StartRun \/ Skip \/ NoAnswer
  BY <1>1 DEF StartRun, Skip, NoAnswer, task
<1>2. CASE StartPhase
  BY <1>2 DEF StartPhase
<1>3. CASE EndPhase \/ ChildFails \/ ChildTimesOut
  BY <1>3 DEF EndPhase, ChildFails, ChildTimesOut, task
<1>4. ASSUME NEW k \in Keys, Miss(k) \/ FailClosed(k) \/ Serve(k) PROVE GreenInv'
  BY <1>4 DEF Miss, FailClosed, Serve, Ask
<1>5. CASE EndLoop
  BY <1>5 DEF EndLoop, task
<1>6. CASE AmendLive \/ Reload
  BY <1>6 DEF AmendLive, Reload, task
<1>7. CASE ClosurePass
  BY <1>7 DEF ClosurePass, task
<1>8. CASE DriftCheck \/ SwitchFails
  BY <1>8 DEF DriftCheck, SwitchFails, task
<1>9. CASE UNCHANGED vars
  BY <1>9 DEF vars, task
<1> QED BY <1>1, <1>2, <1>3, <1>4, <1>5, <1>6, <1>7, <1>8, <1>9 DEF Next, Step, Done

-----------------------------------------------------------------------------
\* The lockfile on disk stays between the seed and the closure of the manifest,
\* as the walk of resolve() never leaves the closure.
LockInv ==
    /\ Seed \subseteq live /\ live \subseteq Seed \cup C
    /\ missed \subseteq C
    /\ pc = "resolve" => ToSet(queue) \subseteq C

\* The keys resolve() has dealt with or will.
Reached == have \cup reported \cup ToSet(queue)

\* What the walk has fetched is pinned, and what it requires was reached; the
\* roots of the phases that are over were fetched.
WalkInv ==
    /\ pc \in {"start_phase", "resolve"} =>
          have \subseteq entries /\ \A i \in 1 .. phase - 1 : ToSet(Roots[i]) \subseteq have
    /\ pc = "start_phase" => misses = {} /\ \A k \in have : ToSet(Requires[k]) \subseteq have
    /\ pc = "resolve" => /\ seen \subseteq have \cup reported
                         /\ ToSet(Roots[phase]) \subseteq Reached
                         /\ \A k \in have : ToSet(Requires[k]) \subseteq Reached

\* A run that went green had the closure of the manifest pinned.
PinnedInv ==
    /\ ok /\ pc = "judge" => C \subseteq entries
    /\ final = "green" /\ way = "error_driven" => C \subseteq entries
    /\ outcome.final = "green" => outcome.live = Seed \cup C

\* The manifest is the union of its phases.
LEMMA ManifestElements ==
    /\ \A i \in 1 .. Len(Roots) : ToSet(Roots[i]) \subseteq ManifestKeys
    /\ \A S : (\A i \in 1 .. Len(Roots) : ToSet(Roots[i]) \subseteq S) => ManifestKeys \subseteq S
BY Phases DEF ManifestKeys

LEMMA InitWalk == Init => LockInv /\ WalkInv /\ PinnedInv
<1> SUFFICES ASSUME Init PROVE LockInv /\ WalkInv /\ PinnedInv
  OBVIOUS
<1>1. outcome.final = "none"
  BY DEF Init, Unused
<1> QED BY <1>1 DEF Init, LockInv, WalkInv, PinnedInv

\* The key asked for, and the queue and the keys dealt with after it.
LEMMA AskedKey ==
    ASSUME TypeOK, LockInv, NEW k \in Keys, Ask(k)
    PROVE  /\ pc = "resolve" /\ pc' = "resolve" /\ k \in C
           /\ Tail(queue) \in Seq(Keys) /\ ToSet(queue) = {k} \cup ToSet(Tail(queue))
           /\ ToSet(Requires[k]) \subseteq C
           /\ seen' = seen \cup {k}
           /\ UNCHANGED <<way, live, entries, run, phase, ok, agree, final, outcome, green>>
<1>1. /\ pc = "resolve" /\ pc' = "resolve" /\ queue # <<>> /\ k = Head(queue) /\ seen' = seen \cup {k}
      /\ UNCHANGED <<way, live, entries, run, phase, ok, agree, final, outcome, green>>
  BY DEF Ask
<1>2. queue \in Seq(Keys)
  BY DEF TypeOK
<1>3. Tail(queue) \in Seq(Keys) /\ ToSet(queue) = {k} \cup ToSet(Tail(queue))
  BY <1>1, <1>2, QueueElements
<1>4. k \in C
  BY <1>1, <1>3 DEF LockInv
<1> QED BY <1>1, <1>3, <1>4, CProperties

\* The queue of a key that is served.
LEMMA ServedQueue ==
    ASSUME TypeOK, LockInv, NEW k \in Keys, Serve(k)
    PROVE  ToSet(queue') = ToSet(Tail(queue)) \cup ToSet(Requires[k])
<1>1. Tail(queue) \in Seq(Keys) /\ queue' = Tail(queue) \o Requires[k]
  BY AskedKey DEF Serve, Rest
<1>2. Requires[k] \in Seq(Keys)
  BY RequiredKeys
<1>3. ToSet(Tail(queue) \o Requires[k]) = ToSet(Tail(queue)) \cup ToSet(Requires[k])
  BY ONLY <1>1, <1>2, ConcatElements
<1> QED BY ONLY <1>1, <1>3

LEMMA LockStep ==
    ASSUME TypeOK, ControlInv, LockInv, [Next]_vars
    PROVE  LockInv'
<1> USE DEF LockInv
<1>1. CASE StartRun \/ NoAnswer \/ EndPhase \/ ChildFails \/ ChildTimesOut
  BY <1>1 DEF StartRun, NoAnswer, EndPhase, ChildFails, ChildTimesOut, task
<1>2. CASE StartPhase
  <2>1. UNCHANGED <<live, missed>>
    BY <1>2 DEF StartPhase
  <2>2. ASSUME pc' = "resolve" PROVE ToSet(queue') \subseteq C
    <3>1. phase \in 1 .. Len(Roots) /\ queue' = Roots[phase]
      BY <1>2, <2>2, Phases DEF StartPhase, TypeOK
    <3> QED BY <3>1, ManifestElements, CProperties
  <2> QED BY <2>1, <2>2
<1>3. CASE Skip
  <2>1. queue \in Seq(Keys) /\ queue # <<>> /\ pc = "resolve" /\ queue' = Tail(queue) /\ UNCHANGED <<pc, live, missed>>
    BY <1>3 DEF Skip, TypeOK
  <2> QED BY <2>1, QueueElements
<1>4. ASSUME NEW k \in Keys, Miss(k) PROVE LockInv'
  <2>1. Ask(k) /\ missed' = missed \cup {k} /\ queue' = Tail(queue)
    BY <1>4 DEF Miss
  <2> QED BY <2>1, AskedKey
<1>5. ASSUME NEW k \in Keys, FailClosed(k) PROVE LockInv'
  <2>1. Ask(k) /\ missed' = missed /\ queue' = Tail(queue)
    BY <1>5 DEF FailClosed
  <2> QED BY <2>1, AskedKey
<1>6. ASSUME NEW k \in Keys, Serve(k) PROVE LockInv'
  <2>1. Ask(k) /\ missed' = missed
    BY <1>6 DEF Serve
  <2> QED BY <1>6, <2>1, AskedKey, ServedQueue
<1>7. CASE EndLoop \/ DriftCheck \/ SwitchFails
  BY <1>7 DEF EndLoop, DriftCheck, SwitchFails, task
<1>8. CASE AmendLive
  <2>1. PICK lost \in SUBSET (missed \ live) : live' = live \cup (missed \ lost)
    BY <1>8 DEF AmendLive
  <2> QED BY <1>8, <2>1 DEF AmendLive
<1>9. CASE Reload
  BY <1>9 DEF Reload, MissesSinceLoad
<1>10. CASE ClosurePass
  <2>1. PICK lost \in SUBSET C : live' = Seed \cup (Closure(ManifestKeys, lost) \ lost)
    BY <1>10 DEF ClosurePass, C
  <2>2. Closure(ManifestKeys, lost) \subseteq C
    BY LostReachesLess
  <2>3. missed' = {} /\ pc' = "start_run"
    BY <1>10 DEF ClosurePass
  <2> QED BY <2>1, <2>2, <2>3
<1>11. CASE UNCHANGED vars
  BY <1>11 DEF vars, task
<1> QED
  BY <1>1, <1>2, <1>3, <1>4, <1>5, <1>6, <1>7, <1>8, <1>9, <1>10, <1>11 DEF Next, Step, Done

\* A step of resolve() that forgets no key it reached keeps the invariant of the walk.
LEMMA WalkGrows ==
    ASSUME WalkInv, pc = "resolve", pc' = "resolve", phase' = phase, have \subseteq have', have' \subseteq entries',
           Reached \subseteq Reached', seen' \subseteq have' \cup reported',
           \A k \in have' \ have : ToSet(Requires[k]) \subseteq Reached'
    PROVE  WalkInv'
<1>1. have' \subseteq entries' /\ \A i \in 1 .. phase' - 1 : ToSet(Roots[i]) \subseteq have'
  BY DEF WalkInv
<1>2. ToSet(Roots[phase']) \subseteq Reached'
  BY DEF WalkInv
<1>3. \A k \in have' : ToSet(Requires[k]) \subseteq Reached'
  BY DEF WalkInv
<1> QED BY <1>1, <1>2, <1>3 DEF WalkInv

LEMMA WalkStep ==
    ASSUME TypeOK, ControlInv, LockInv, WalkInv, [Next]_vars
    PROVE  WalkInv'
<1>1. CASE StartRun
  BY <1>1 DEF StartRun, WalkInv
<1>2. CASE StartPhase
  <2>1. /\ pc = "start_phase" /\ UNCHANGED <<phase, have, misses, entries>>
        /\ pc' = "judge" \/ (pc' = "resolve" /\ queue' = Roots[phase] /\ seen' = {})
    BY <1>2 DEF StartPhase
  <2>2. CASE pc' = "judge"
    BY <2>2 DEF WalkInv
  <2>3. CASE pc' = "resolve"
    <3>1. ToSet(Roots[phase]) \subseteq Reached' /\ have \subseteq Reached' /\ seen' = {}
      BY <2>1, <2>3 DEF Reached
    <3> QED BY <2>1, <2>3, <3>1 DEF WalkInv
  <2> QED BY <2>1, <2>2, <2>3
<1>3. CASE Skip
  <2>1. /\ pc = "resolve" /\ queue # <<>> /\ queue' = Tail(queue) /\ Head(queue) \in have \cup seen
        /\ UNCHANGED <<pc, phase, have, misses, entries, seen>>
    BY <1>3 DEF Skip, Skipped
  <2>2. ToSet(queue) = {Head(queue)} \cup ToSet(queue') /\ reported' = reported
    BY <2>1, QueueElements DEF TypeOK, reported
  <2>3. seen \subseteq have \cup reported /\ have \subseteq entries
    BY <2>1 DEF WalkInv
  <2>4. Reached \subseteq Reached'
    BY <2>1, <2>2, <2>3 DEF Reached
  <2> QED BY <2>1, <2>2, <2>3, <2>4, WalkGrows
<1>4. ASSUME NEW k \in Keys, NEW r, Ask(k), misses' = misses \cup {<<k, r>>}, queue' = Tail(queue), have' = have
      PROVE  WalkInv'
  <2>1. reported' = reported \cup {k}
    BY <1>4, ReportedGrows
  <2>2. pc = "resolve" /\ pc' = "resolve" /\ phase' = phase /\ entries' = entries /\ seen' = seen \cup {k}
        /\ ToSet(queue) = {k} \cup ToSet(queue')
    BY <1>4, AskedKey
  <2>3. seen \subseteq have \cup reported /\ have \subseteq entries
    BY <2>2 DEF WalkInv
  <2>4. Reached \subseteq Reached'
    BY <1>4, <2>1, <2>2 DEF Reached
  <2> QED BY <1>4, <2>1, <2>2, <2>3, <2>4, WalkGrows
<1>5. ASSUME NEW k \in Keys, Miss(k) \/ FailClosed(k) PROVE WalkInv'
  BY <1>4, <1>5 DEF Miss, FailClosed
<1>6. ASSUME NEW k \in Keys, Serve(k) PROVE WalkInv'
  <2>1. Ask(k) /\ k \in entries /\ have' = have \cup {k} /\ misses' = misses
    BY <1>6 DEF Serve
  <2>2. pc = "resolve" /\ pc' = "resolve" /\ phase' = phase /\ entries' = entries /\ seen' = seen \cup {k}
        /\ ToSet(queue) = {k} \cup ToSet(Tail(queue))
    BY <2>1, AskedKey
  <2>3. ToSet(queue') = ToSet(Tail(queue)) \cup ToSet(Requires[k]) /\ reported' = reported
    BY <1>6, <2>1, ServedQueue DEF reported
  <2>4. seen \subseteq have \cup reported /\ have \subseteq entries
    BY <2>2 DEF WalkInv
  <2>5. Reached \subseteq Reached' /\ ToSet(Requires[k]) \subseteq Reached'
    BY <2>1, <2>2, <2>3 DEF Reached
  <2> QED BY <2>1, <2>2, <2>3, <2>4, <2>5, WalkGrows
<1>7. CASE EndPhase
  <2>1. /\ pc = "resolve" /\ queue = <<>> /\ UNCHANGED <<have, misses, entries>>
        /\ pc' = "judge" \/ (pc' = "start_phase" /\ phase' = phase + 1 /\ misses = {})
    BY <1>7 DEF EndPhase, task
  <2>2. CASE pc' = "judge"
    BY <2>2 DEF WalkInv
  <2>3. CASE pc' = "start_phase"
    <3>1. phase' = phase + 1 /\ misses = {} /\ phase \in Nat
      BY <2>1, <2>3, Phases DEF TypeOK
    <3>2. Reached = have
      BY <2>1, <3>1 DEF Reached, reported, ToSet
    <3>3. \A i \in 1 .. phase' - 1 : ToSet(Roots[i]) \subseteq have
      BY <2>1, <3>1, <3>2 DEF WalkInv
    <3> QED BY <2>1, <2>3, <3>1, <3>2, <3>3 DEF WalkInv
  <2> QED BY <2>1, <2>2, <2>3
<1>8. CASE NoAnswer \/ ChildFails \/ ChildTimesOut \/ EndLoop \/ AmendLive \/ DriftCheck \/ SwitchFails
  BY <1>8 DEF NoAnswer, ChildFails, ChildTimesOut, EndLoop, AmendLive, DriftCheck, SwitchFails, WalkInv
<1>9. CASE Reload \/ ClosurePass
  BY <1>9 DEF Reload, ClosurePass, WalkInv
<1>10. CASE UNCHANGED vars
  BY <1>10 DEF vars, task, WalkInv, Reached, reported
<1> QED
  BY <1>1, <1>2, <1>3, <1>5, <1>6, <1>7, <1>8, <1>9, <1>10 DEF Next, Step, Done

LEMMA PinnedStep ==
    ASSUME TypeOK, ControlInv, LockInv, WalkInv, PinnedInv, [Next]_vars
    PROVE  PinnedInv'
<1> USE DEF PinnedInv
<1>1. CASE StartRun \/ Skip \/ NoAnswer
  BY <1>1 DEF StartRun, Skip, NoAnswer, task, ControlInv
<1>2. CASE StartPhase
  <2>1. pc = "start_phase" /\ UNCHANGED <<way, entries, final, outcome>>
    BY <1>2 DEF StartPhase
  <2>2. ASSUME ok', pc' = "judge" PROVE C \subseteq entries
    <3>1. phase = Len(Roots) + 1
      BY <1>2, <2>2, Phases DEF StartPhase, TypeOK
    <3>2. \A i \in 1 .. Len(Roots) : ToSet(Roots[i]) \subseteq have
      BY <2>1, <3>1, Phases DEF WalkInv
    <3>3. Closed(have, ManifestKeys, {})
      BY <2>1, <3>2, ManifestElements DEF WalkInv, Closed
    <3>4. C \subseteq have
      BY <3>3, CProperties DEF TypeOK
    <3> QED BY <2>1, <3>4 DEF WalkInv
  <2> QED BY <2>1, <2>2
<1>3. CASE EndPhase \/ ChildFails \/ ChildTimesOut
  BY <1>3 DEF EndPhase, ChildFails, ChildTimesOut, task, ControlInv
<1>4. ASSUME NEW k \in Keys, Miss(k) \/ FailClosed(k) \/ Serve(k) PROVE PinnedInv'
  BY <1>4 DEF Miss, FailClosed, Serve, Ask
<1>5. CASE EndLoop
  BY <1>5 DEF EndLoop, task
<1>6. CASE AmendLive \/ Reload
  BY <1>6 DEF AmendLive, Reload, task, ControlInv
<1>7. CASE ClosurePass
  <2>1. pc' = "start_run" /\ way' = "closure" /\ outcome'.final = final /\ outcome'.live = live /\ pc = "closure"
    BY <1>7 DEF ClosurePass
  <2>2. ASSUME final = "green" PROVE live = Seed \cup C
    BY <2>1, <2>2 DEF ControlInv, LockInv
  <2> QED BY <2>1, <2>2
<1>8. CASE DriftCheck \/ SwitchFails
  BY <1>8 DEF DriftCheck, SwitchFails, task
<1>9. CASE UNCHANGED vars
  BY <1>9 DEF vars, task
<1> QED BY <1>1, <1>2, <1>3, <1>4, <1>5, <1>6, <1>7, <1>8, <1>9 DEF Next, Step, Done

LEMMA WalkAlways == Spec => [](TypeOK /\ ControlInv /\ LockInv /\ WalkInv /\ PinnedInv)
<1>1. TypeOK /\ ControlInv /\ LockInv /\ WalkInv /\ PinnedInv /\ [Next]_vars => (LockInv /\ WalkInv /\ PinnedInv)'
  BY LockStep, WalkStep, PinnedStep
<1> QED BY TypeControl, InitWalk, <1>1, PTL DEF Spec

\* Growing the lockfile by errors and closing it from the manifest reach the same
\* keys, for every project, seed and pattern of failures: verify_workload's
\* "closure amendment reaches the same lockfile in one pass".
THEOREM OneLockfile == Spec => []SameLockfile
<1>1. LockInv /\ PinnedInv => SameLockfile
  BY DEF LockInv, PinnedInv, SameLockfile, C
<1> QED BY WalkAlways, <1>1, PTL

-----------------------------------------------------------------------------
\* Every run but the first was paid for by a key pinned since the seed or by a
\* failure, and so is the run in progress once something is missed: by a key the
\* broker logged, or by a failure.  Only a loop that used up its runs has no
\* final one.
Paid == Cardinality(live \ Seed) + faults

RunInv ==
    /\ run <= 1 + Missing + faults
    /\ way = "error_driven" => run <= 1 + Paid
    /\ way = "error_driven" /\ pc \in {"start_phase", "resolve", "judge"} =>
          misses = {} \/ missed # {} \/ run <= Paid
    /\ pc = "reload" => run <= Paid
    /\ pc = "closure" => final # "none" \/ MAX_RUNS <= Missing + faults
    /\ way = "closure" => outcome.final # "none" \/ MAX_RUNS <= Missing + faults

\* Sets of keys are finite; a larger one has more elements.
LEMMA KeysAreFinite ==
    \A S \in SUBSET Keys : /\ Cardinality(S) \in Nat
                           /\ \A T \in SUBSET S : Cardinality(T) <= Cardinality(S) /\ (T # S => Cardinality(T) < Cardinality(S))
<1> TAKE S \in SUBSET Keys
<1>1. IsFiniteSet(S) /\ Cardinality(S) \in Nat
  BY KeyAssumption, FS_Subset, FS_CardinalityType
<1>2. ASSUME NEW T \in SUBSET S
      PROVE  Cardinality(T) <= Cardinality(S) /\ (T # S => Cardinality(T) < Cardinality(S))
  <2>1. Cardinality(T) \in Nat /\ Cardinality(T) <= Cardinality(S) /\ (Cardinality(S) = Cardinality(T) => S = T)
    BY <1>1, FS_Subset, FS_CardinalityType
  <2> QED BY <1>1, <2>1
<1> QED BY <1>1, <1>2

LEMMA Numbers ==
    ASSUME TypeOK, LockInv
    PROVE  /\ run \in Nat /\ MAX_RUNS \in Nat /\ run <= MAX_RUNS /\ faults \in Nat
           /\ Missing \in Nat /\ Cardinality(live \ Seed) \in Nat /\ Cardinality(live \ Seed) <= Missing
<1>1. run \in Nat /\ MAX_RUNS \in Nat /\ run <= MAX_RUNS /\ faults \in Nat
  BY BoundAssumption DEF TypeOK
<1>2. live \ Seed \subseteq C \ Seed /\ C \ Seed \subseteq Keys
  BY CProperties DEF LockInv
<1> QED BY <1>1, <1>2, KeysAreFinite DEF Missing, C

LEMMA InitRun == Init => RunInv
<1> SUFFICES ASSUME Init PROVE RunInv
  OBVIOUS
<1>1. Cardinality(C \ Seed) \in Nat /\ Cardinality(live \ Seed) \in Nat
  BY CProperties, KeyAssumption, KeysAreFinite DEF Init
<1> QED BY <1>1 DEF Init, RunInv, Missing, Paid, C

\* What amend() pins and what its source fails to deliver pay for the next run.
LEMMA AmendmentPays ==
    ASSUME TypeOK, TypeOK', ControlInv, LockInv, RunInv, AmendLive
    PROVE  run <= Paid'
<1>1. pc = "judge" /\ way = "error_driven" /\ misses # {}
  BY DEF AmendLive
<1>2. PICK lost \in SUBSET (missed \ live) : faults' = faults + Cardinality(lost) /\ live' = live \cup (missed \ lost)
  BY DEF AmendLive
<1>3. missed \subseteq Keys /\ missed \cap live = {} /\ live \subseteq Keys /\ live' \subseteq Keys
  BY <1>1 DEF TypeOK, ControlInv
<1> DEFINE old == Cardinality(live \ Seed)
           new == Cardinality(live' \ Seed)
           n == Cardinality(lost)
<1>4. live \ Seed \subseteq live' \ Seed /\ live' \ Seed \subseteq Keys /\ lost \subseteq Keys
  BY <1>2, <1>3
<1>5. old \in Nat /\ new \in Nat /\ n \in Nat /\ old <= new
  BY <1>4, KeysAreFinite
<1>6. run \in Nat /\ faults \in Nat /\ faults' = faults + n
  BY <1>2, Numbers
<1>7. run <= 1 + (old + faults) /\ (missed # {} \/ run <= old + faults)
  BY <1>1 DEF RunInv, Paid
<1>8. missed # {} => n > 0 \/ old < new
  <2>1. ASSUME missed # {}, lost = {} PROVE old < new
    <3>1. live \ Seed # live' \ Seed
      BY <1>2, <1>3, <2>1 DEF LockInv
    <3> QED BY <1>4, <3>1, KeysAreFinite
  <2>2. ASSUME lost # {} PROVE n > 0
    <3>1. IsFiniteSet(lost)
      BY <1>4, KeyAssumption, FS_Subset
    <3>2. n # 0
      BY <2>2, <3>1, FS_EmptySet
    <3> QED BY <1>5, <3>2
  <2> QED BY <2>1, <2>2
<1>9. Paid' = new + faults'
  BY DEF Paid
<1> HIDE DEF old, new, n
<1> QED BY <1>5, <1>6, <1>7, <1>8, <1>9

\* A bound on a sum stays one when a summand grows.
LEMMA SumGrows ==
    \A a, b, c, d \in Nat :
        c <= d => /\ a <= 1 + b + c => a <= 1 + b + d
                  /\ a <= b + c => a <= b + d
                  /\ a <= 1 + c => a <= 1 + d
OBVIOUS

LEMMA RunStep ==
    ASSUME TypeOK, TypeOK', ControlInv, LockInv, RunInv, [Next]_vars
    PROVE  RunInv'
<1>1. /\ run \in Nat /\ MAX_RUNS \in Nat /\ run <= MAX_RUNS /\ Missing \in Nat
      /\ Cardinality(live \ Seed) \in Nat /\ Cardinality(live \ Seed) <= Missing
  BY Numbers
<1>2. faults \in Nat /\ faults' \in Nat /\ faults <= faults'
  BY FaultsGrow
<1>3. Missing' = Missing
  BY DEF Missing
<1>4. ASSUME run' = run PROVE run' <= 1 + Missing' + faults'
  <2>1. run <= 1 + Missing + faults
    BY DEF RunInv
  <2>2. run <= 1 + Missing + faults'
    BY <1>1, <1>2, <2>1, SumGrows, Zenon
  <2> QED BY ONLY <1>3, <1>4, <2>2
<1>5. MAX_RUNS <= Missing + faults => MAX_RUNS <= Missing' + faults'
  <2>1. MAX_RUNS <= Missing + faults => MAX_RUNS <= Missing + faults'
    BY <1>1, <1>2, SumGrows, Zenon
  <2> QED BY ONLY <1>3, <2>1
<1>6. ASSUME UNCHANGED <<run, live, way>>
      PROVE  /\ way' = "error_driven" => run' <= 1 + Paid'
             /\ Paid <= Paid' /\ Paid \in Nat /\ Paid' \in Nat
  <2>1. Paid \in Nat /\ Paid' \in Nat /\ Paid <= Paid'
    BY <1>1, <1>2, <1>6 DEF Paid
  <2>2. way = "error_driven" => run <= 1 + Paid
    BY DEF RunInv
  <2>3. run' = run /\ way' = way
    BY <1>6
  <2>4. run <= 1 + Paid => run <= 1 + Paid'
    BY <1>1, <2>1, SumGrows, Zenon
  <2> QED BY <2>1, <2>2, <2>3, <2>4
<1>7. CASE StartRun
  <2>1. UNCHANGED <<run, live, way, final, outcome, faults>> /\ pc' = "start_phase" /\ misses' = {}
    BY <1>7 DEF StartRun
  <2> QED BY <1>3, <1>4, <1>6, <2>1 DEF RunInv
<1>8. CASE StartPhase \/ Skip \/ EndPhase
  <2>1. /\ UNCHANGED <<run, live, way, final, outcome, faults, missed, misses>>
        /\ pc \in {"start_phase", "resolve"} /\ pc' \in {"start_phase", "resolve", "judge"}
    BY <1>8 DEF StartPhase, Skip, EndPhase, task
  <2>2. Paid' = Paid
    BY <2>1 DEF Paid
  <2> QED BY <1>3, <1>4, <1>6, <2>1, <2>2 DEF RunInv
<1>9. CASE NoAnswer \/ ChildTimesOut \/ SwitchFails
  <2>1. UNCHANGED <<run, live, way, outcome>> /\ pc' = "aborted"
    BY <1>9 DEF NoAnswer, ChildTimesOut, SwitchFails
  <2> QED BY <1>4, <1>5, <1>6, <2>1 DEF RunInv
<1>10. CASE ChildFails
  <2>1. UNCHANGED <<run, live, way, outcome>> /\ pc' = "judge" /\ misses' = {}
    BY <1>10 DEF ChildFails, task
  <2> QED BY <1>4, <1>5, <1>6, <2>1 DEF RunInv
<1>11. ASSUME NEW k \in Keys, Miss(k) PROVE RunInv'
  <2>1. UNCHANGED <<run, live, way, outcome, faults, pc>> /\ pc = "resolve" /\ missed' # {}
    BY <1>11 DEF Miss, Ask
  <2> QED BY <1>3, <1>4, <1>6, <2>1 DEF RunInv
<1>12. ASSUME NEW k \in Keys, FailClosed(k) PROVE RunInv'
  <2>1. UNCHANGED <<run, live, way, outcome, pc>> /\ pc = "resolve" /\ faults' = faults + 1
    BY <1>12 DEF FailClosed, Ask
  <2>2. Paid' = Paid + 1 /\ Paid \in Nat
    BY <1>1, <1>2, <2>1 DEF Paid
  <2> QED BY <1>1, <1>4, <1>5, <1>6, <2>1, <2>2 DEF RunInv
<1>13. ASSUME NEW k \in Keys, Serve(k) PROVE RunInv'
  <2>1. UNCHANGED <<run, live, way, outcome, faults, pc, missed, misses>> /\ pc = "resolve"
    BY <1>13 DEF Serve, Ask
  <2>2. Paid' = Paid
    BY <2>1 DEF Paid
  <2> QED BY <1>3, <1>4, <1>6, <2>1, <2>2 DEF RunInv
<1>14. CASE EndLoop
  <2>1. UNCHANGED <<run, live, way, outcome, faults>> /\ pc' = "closure" /\ final' # "none"
    BY <1>14 DEF EndLoop
  <2> QED BY <1>3, <1>4, <1>6, <2>1 DEF RunInv
<1>15. CASE AmendLive
  <2>1. pc' = "reload" /\ way = "error_driven" /\ UNCHANGED <<run, way>>
    BY <1>15 DEF AmendLive
  <2>2. run' <= Paid' /\ Paid' \in Nat
    <3>1. run <= Paid'
      BY <1>15, AmendmentPays
    <3>2. live' \ Seed \subseteq Keys
      BY DEF TypeOK
    <3> QED BY <1>2, <2>1, <3>1, <3>2, KeysAreFinite DEF Paid
  <2>3. run' <= 1 + Missing' + faults'
    BY <1>4, <2>1
  <2>4. run' <= 1 + Paid'
    <3>1. \A a, b \in Nat : a <= b => a <= 1 + b
      OBVIOUS
    <3> QED BY <1>1, <2>1, <2>2, <3>1, Zenon
  <2> QED BY <1>5, <2>1, <2>2, <2>3, <2>4 DEF RunInv
<1>16. CASE Reload
  <2>1. /\ pc = "reload" /\ way = "error_driven" /\ UNCHANGED <<live, way, faults>>
        /\ IF run < MAX_RUNS THEN run' = run + 1 /\ pc' = "start_run" ELSE pc' = "closure" /\ run' = run
    BY <1>16 DEF Reload, ControlInv
  <2>2. run <= Paid /\ Paid \in Nat /\ Paid' = Paid /\ Paid <= Missing + faults
    BY <1>1, <1>2, <2>1 DEF RunInv, Paid
  <2> QED BY <1>1, <1>2, <1>3, <2>1, <2>2 DEF RunInv
<1>17. CASE ClosurePass
  <2>1. /\ pc = "closure" /\ way' = "closure" /\ outcome'.final = final /\ pc' = "start_run" /\ run' = run
    BY <1>17 DEF ClosurePass
  <2> QED BY <1>4, <1>5, <2>1 DEF RunInv
<1>18. CASE DriftCheck
  <2>1. UNCHANGED <<run, live, way, outcome>> /\ pc' = "done" /\ way = "closure"
    BY <1>18 DEF DriftCheck
  <2> QED BY <1>4, <1>5, <1>6, <2>1 DEF RunInv
<1>19. CASE UNCHANGED vars
  <2>1. UNCHANGED <<run, live, way, outcome, faults, pc, missed, misses, final>>
    BY <1>19 DEF vars, task
  <2>2. Paid' = Paid
    BY <2>1 DEF Paid
  <2> QED BY <1>3, <2>1, <2>2 DEF RunInv
<1> QED
  BY <1>7, <1>8, <1>9, <1>10, <1>11, <1>12, <1>13, <1>14, <1>15, <1>16, <1>17, <1>18, <1>19 DEF Next, Step, Done

LEMMA RunAlways == Spec => []RunInv
<1>1. TypeOK /\ TypeOK' /\ ControlInv /\ LockInv /\ RunInv /\ [Next]_vars => RunInv'
  BY RunStep
<1> QED BY WalkAlways, InitRun, <1>1, PTL DEF Spec

\* The loop needs at most one run more than the keys the seed lacks and the
\* failures on the way, whatever MAX_RUNS is: the loop of run_friction_experiment.
THEOREM RunsBounded == Spec => []RunsAreBounded
<1>1. RunInv => RunsAreBounded
  BY DEF RunInv, RunsAreBounded
<1> QED BY RunAlways, <1>1, PTL

\* A report that verifies is of a task that went green behind the public lockfile,
\* in the closure run and, unless MAX_RUNS is too small for the missing keys and
\* the failures, at the end of the loop: verify_workload over every experiment.
THEOREM VerifiedGreen == Spec => []VerifiedWorkloadIsGreen
<1>1. ControlInv /\ GreenInv /\ [Next]_vars => GreenInv'
  BY GreenStep
<1>2. ControlInv /\ GreenInv /\ RunInv => VerifiedWorkloadIsGreen
  BY DEF ControlInv, GreenInv, RunInv, VerifiedWorkloadIsGreen, verify_workload, FinalRunOk
<1> QED BY TypeControl, InitGreen, RunAlways, <1>1, <1>2, PTL DEF Spec
=============================================================================
