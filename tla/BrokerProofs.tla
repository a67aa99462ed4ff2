----------------------------- MODULE BrokerProofs -----------------------------
(***************************************************************************)
(* Theorems about Broker: its typing, S5 (served bytes are pinned) over    *)
(* every interleaving of threads, upstream answers and reloads, that the   *)
(* broker implements SoleEgress, and its evidence: responses, requests and *)
(* fetches balance with the lines of the transcript, and with reloads      *)
(* between runs verdicts agree with the lockfile they were reached under.  *)
(***************************************************************************)
EXTENDS Broker, SequenceLemmas

USE DEF transcript

\* Thread t holds the pin of its key in a lockfile that was in force.
HoldsPin(t) ==
    /\ key[t] \in Keys
    /\ pin[t] \in Digests
    /\ \E L \in loaded : L[key[t]] = pin[t]

\* What the locals of handle() hold at each place.
LocalsOf(t) ==
    /\ pc[t] \in {"log_request", "lookup"} => key[t] \in Keys
    /\ pc[t] \in {"cache", "gate", "fetch", "await", "check"} => HoldsPin(t)
    /\ pc[t] = "check" => data[t] \in Blobs
    /\ pc[t] = "log_verdict" => verdict[t] \in Verdicts
    /\ pc[t] = "reply" => verdict[t] \in Answers
    /\ verdict[t] # "none" => pc[t] \in {"log_verdict", "reply"}
LocalsInv == \A t \in Threads : LocalsOf(t)

LoadedInv == lockfile \in loaded

\* Cached bytes match a pin of a lockfile that was in force.
CacheInv ==
    \A k \in Keys : cache[k] # NoData => \E L \in loaded : L[k] = Sha256(cache[k])

\* A thread that decided to serve holds bytes that match its pin.
ServesPinned(t) ==
    verdict[t] \in Served =>
        /\ HoldsPin(t)
        /\ data[t] \in Blobs
        /\ Sha256(data[t]) = pin[t]
ServeInv == \A t \in Threads : ServesPinned(t)

IInv == TypeOK /\ LocalsInv /\ LoadedInv /\ CacheInv /\ ServeInv /\ ServedBytesArePinned

-----------------------------------------------------------------------------
\* The lines a thread or the lab appends are transcript lines.
LEMMA LineTypes ==
    /\ \A k \in Keys : RequestLine(k) \in Lines
    /\ \A v \in Verdicts, k \in Keys \cup {NoKey} : VerdictLine(v, k) \in Lines
    /\ \A L \in Lockfiles : NoteLine(L) \in Lines
    /\ Garbled \in Lines /\ Garbled.kind = "garbled" /\ NoLine \notin Lines
BY DEF RequestLine, VerdictLine, NoteLine, Garbled, NoLine, Lines

\* What append leaves in the file when it returns and when it raises.
LEMMA WriteTypes ==
    ASSUME TypeOK, NEW line \in Lines
    PROVE  /\ Write(line) => log' \in Seq(Lines) /\ tail' = NoLine
           /\ WriteFails(line) => log' = log /\ tail' \in Lines \cup {NoLine} /\ faults' = faults + 1
<1>1. ASSUME Write(line) PROVE log' \in Seq(Lines) /\ tail' = NoLine
  <2>1. PICK got \in Lines : log' = Append(log, got)
    BY <1>1, LineTypes DEF Write
  <2> QED BY <1>1, <2>1, AppendProperties DEF TypeOK, Write
<1>2. ASSUME WriteFails(line) PROVE log' = log /\ tail' \in Lines \cup {NoLine} /\ faults' = faults + 1
  BY <1>2, LineTypes DEF TypeOK, WriteFails
<1> QED BY <1>1, <1>2

\* The digest a lockfile states for a key it pins is a digest.
LEMMA PinType ==
    \A L \in Lockfiles, k \in Keys :
        L[k] \in Digests \cup {NoPin} /\ (Pins(L, k) => L[k] \in Digests)
BY LockfileAssumption DEF Pins

\* Two lockfiles that both pin a key pin it to one digest.
LEMMA OneDigest ==
    ASSUME PinsAgree, NEW L \in Lockfiles, NEW M \in Lockfiles, NEW k \in Keys,
           L[k] \in Digests, M[k] \in Digests
    PROVE  L[k] = M[k]
BY LockfileAssumption DEF PinsAgree

\* Verdicts are answers.
LEMMA VerdictTypes == Verdicts \subseteq Answers /\ Served \subseteq Verdicts /\ UpstreamVerdicts \subseteq Verdicts
BY DEF Verdicts, Answers, Served, UpstreamVerdicts

LEMMA InitIInv == Init => IInv
<1> SUFFICES ASSUME Init PROVE IInv
  OBVIOUS
<1> USE LockfileAssumption DEF Init
<1>1. log \in Seq(Lines)
  <2>1. NoteLine(InitialLockfile) \in Lines
    BY LineTypes
  <2> QED BY <2>1, EmptySeq
<1>2. TypeOK
  BY <1>1 DEF TypeOK, Places
<1>3. LocalsInv /\ LoadedInv /\ CacheInv
  BY DEF LocalsInv, LocalsOf, LoadedInv, CacheInv
<1>4. ServeInv /\ ServedBytesArePinned
  BY DEF ServeInv, ServesPinned, ServedBytesArePinned, Served
<1> QED BY <1>2, <1>3, <1>4 DEF IInv

LEMMA TypeStep == TypeOK /\ LocalsInv /\ LoadedInv /\ ServeInv /\ [Next]_vars => TypeOK'
<1> SUFFICES ASSUME TypeOK, LocalsInv, LoadedInv, ServeInv, [Next]_vars PROVE TypeOK'
  OBVIOUS
<1> USE LockfileAssumption, FlagAssumption DEF TypeOK, Places, Goto, Decide, Conclude, lab
<1>1. ASSUME NEW t \in Threads, ReadNotJson(t) \/ ReadBadRequest(t) PROVE TypeOK'
  <2>1. "not_json" \in Answers /\ "grammar_violation" \in Answers
    BY DEF Answers, Verdicts
  <2>2. CASE ReadNotJson(t)
    BY <2>1, <2>2 DEF ReadNotJson, TakeLine
  <2>3. CASE ReadBadRequest(t)
    BY <2>1, <2>3 DEF ReadBadRequest, TakeLine
  <2> QED BY <1>1, <2>2, <2>3
<1>15. ASSUME NEW t \in Threads, NEW k \in Keys, ReadRequest(t, k) PROVE TypeOK'
  BY <1>15 DEF ReadRequest, TakeLine
<1>2. ASSUME NEW t \in Threads, LogRequest(t) PROVE TypeOK'
  <2>1. log' \in Seq(Lines) /\ tail' = NoLine
    BY <1>2, LineTypes, WriteTypes DEF LogRequest, LocalsInv, LocalsOf
  <2> QED BY <1>2, <2>1 DEF LogRequest
<1>3. ASSUME NEW t \in Threads, Lookup(t) PROVE TypeOK'
  <2>1. key[t] \in Keys /\ lockfile[key[t]] \in Digests \cup {NoPin}
    BY <1>3, PinType DEF Lookup, LocalsInv, LocalsOf
  <2>2. "lockfile_miss" \in Answers
    BY DEF Answers, Verdicts
  <2> QED BY <1>3, <2>1, <2>2 DEF Lookup
<1>4. ASSUME NEW t \in Threads, CacheLookup(t) PROVE TypeOK'
  <2>1. "served_from_cache" \in Answers
    BY DEF Answers, Verdicts, Served
  <2>2. key[t] \in Keys
    BY <1>4 DEF CacheLookup, LocalsInv, LocalsOf, HoldsPin
  <2> QED BY <1>4, <2>1, <2>2 DEF CacheLookup
<1>5. ASSUME NEW t \in Threads, Gate(t) PROVE TypeOK'
  <2>1. "quota_exceeded" \in Answers
    BY DEF Answers, Verdicts
  <2>2. pc' \in [Threads -> Places]
    BY <1>5 DEF Gate, Refuse
  <2>3. verdict' \in [Threads -> Answers \cup {"none"}]
    BY <1>5, <2>1 DEF Gate, Refuse
  <2> QED BY <1>5, <2>2, <2>3 DEF Gate
<1>6. ASSUME NEW t \in Threads, Fetch(t) PROVE TypeOK'
  <2>1. key[t] \in Keys
    BY <1>6 DEF Fetch, LocalsInv, LocalsOf, HoldsPin
  <2> QED BY <1>6, <2>1 DEF Fetch
<1>7. ASSUME NEW t \in Threads, UpstreamFails(t) PROVE TypeOK'
  <2>1. "upstream_fail_closed" \in Answers
    BY DEF Answers, Verdicts, UpstreamVerdicts
  <2> QED BY <1>7, <2>1 DEF UpstreamFails
<1>16. ASSUME NEW t \in Threads, NEW b \in Blobs, UpstreamAnswers(t, b) PROVE TypeOK'
  BY <1>16 DEF UpstreamAnswers
<1>8. ASSUME NEW t \in Threads, Check(t) PROVE TypeOK'
  <2>1. "served_from_upstream" \in Answers /\ "digest_mismatch" \in Answers
    BY DEF Answers, Verdicts, UpstreamVerdicts
  <2>2. pc' \in [Threads -> Places] /\ verdict' \in [Threads -> Answers \cup {"none"}]
    <3>1. pc' = [pc EXCEPT ![t] = "log_verdict"]
      BY <1>8, Zenon DEF Check
    <3>2. \E v \in Answers : verdict' = [verdict EXCEPT ![t] = v]
      BY <1>8, <2>1, Zenon DEF Check
    <3> QED BY <3>1, <3>2
  <2>3. cache' \in [Keys -> Blobs \cup {NoData}]
    <3>1. key[t] \in Keys /\ data[t] \in Blobs \cup {NoData}
      BY <1>8 DEF Check, LocalsInv, LocalsOf, HoldsPin
    <3>2. CASE Matches(t) /\ ~NoCache
      BY <1>8, <3>1, <3>2 DEF Check
    <3>3. CASE ~Matches(t) \/ NoCache
      BY <1>8, <3>3 DEF Check
    <3> QED BY <3>2, <3>3
  <2> QED BY <1>8, <2>2, <2>3 DEF Check
<1>9. ASSUME NEW t \in Threads, LogVerdict(t) PROVE TypeOK'
  <2>1. log' \in Seq(Lines) /\ tail' = NoLine
    BY <1>9, LineTypes, WriteTypes DEF LogVerdict, LocalsInv, LocalsOf
  <2> QED BY <1>9, <2>1 DEF LogVerdict
<1>10. ASSUME NEW t \in Threads, Reply(t) PROVE TypeOK'
  <2>1. answered' \in [Answers \X (Keys \cup {NoKey}) -> Nat]
    BY <1>10 DEF Reply, LocalsInv, LocalsOf
  <2>2. released' \in SUBSET Releases
    BY <1>10 DEF Reply, ServeInv, ServesPinned, HoldsPin, Releases
  <2> QED BY <1>10, <2>1, <2>2 DEF Reply, Finish
<1>11. ASSUME NEW t \in Threads, Hangup(t) PROVE TypeOK'
  BY <1>11 DEF Hangup, Finish
<1>17. ASSUME NEW t \in Threads, AppendFails(t) PROVE TypeOK'
  <2>1. PICK line \in Lines : WriteFails(line)
    BY <1>17, LineTypes DEF AppendFails, LocalsInv, LocalsOf
  <2>2. log' = log /\ tail' \in Lines \cup {NoLine} /\ faults' \in Nat
    BY <2>1, WriteTypes
  <2> QED BY <1>17, <2>2 DEF AppendFails, OnAppendError, Finish
<1>12. ASSUME Reload PROVE TypeOK'
  BY <1>12, LockfileAssumption DEF Reload, locals
<1>13. ASSUME NoteLoad PROVE TypeOK'
  <2>1. log' \in Seq(Lines) /\ tail' = NoLine
    BY <1>13, LineTypes, WriteTypes DEF NoteLoad
  <2> QED BY <1>13, <2>1 DEF NoteLoad, locals
<1>18. ASSUME NoteFails PROVE TypeOK'
  <2>1. log' = log /\ tail' \in Lines \cup {NoLine} /\ faults' \in Nat
    BY <1>18, LineTypes, WriteTypes DEF NoteFails
  <2> QED BY <1>18, <2>1 DEF NoteFails, locals
<1>14. ASSUME UNCHANGED vars PROVE TypeOK'
  BY <1>14 DEF vars, locals
<1> QED BY <1>1, <1>2, <1>3, <1>4, <1>5, <1>6, <1>7, <1>8, <1>9, <1>10, <1>11, <1>12, <1>13, <1>14, <1>15, <1>16,
           <1>17, <1>18
        DEF Next, Handle, Sandbox, Wait

-----------------------------------------------------------------------------
\* The actions of Next, for the case splits below.
LEMMA NextCases ==
    ASSUME [Next]_vars
    PROVE  \/ \E t \in Threads : Sandbox(t) \/ Handle(t)
           \/ Reload
           \/ UNCHANGED <<locals, lockfile, loaded, cache, answered, released>>
BY DEF Next, NoteLoad, NoteFails, Wait, vars, lab

\* Lockfiles in force are remembered.
LEMMA LoadedStep == LoadedInv /\ [Next]_vars => LoadedInv' /\ loaded \subseteq loaded'
<1> SUFFICES ASSUME LoadedInv, [Next]_vars PROVE LoadedInv' /\ loaded \subseteq loaded'
  OBVIOUS
<1>1. CASE Reload
  BY <1>1 DEF Reload, LoadedInv
<1>2. CASE UNCHANGED <<lockfile, loaded>>
  BY <1>2 DEF LoadedInv
<1>3. ASSUME NEW t \in Threads, Sandbox(t) \/ Handle(t) PROVE UNCHANGED <<lockfile, loaded>>
  BY <1>3 DEF Sandbox, Handle, lab, TakeLine, ReadNotJson, ReadBadRequest, ReadRequest, LogRequest,
              Lookup, CacheLookup, Gate, Fetch, UpstreamFails, UpstreamAnswers, Check, LogVerdict,
              Reply, Hangup, AppendFails
<1> QED BY <1>1, <1>2, <1>3, NextCases

\* A thread's step leaves the locals of the other threads alone.
LEMMA Frame ==
    ASSUME TypeOK, NEW t \in Threads, NEW u \in Threads, u # t, Sandbox(t) \/ Handle(t)
    PROVE  /\ pc'[u] = pc[u] /\ key'[u] = key[u] /\ pin'[u] = pin[u]
           /\ data'[u] = data[u] /\ verdict'[u] = verdict[u]
<1> USE DEF TypeOK, Goto, Decide, Conclude
<1>1. CASE Sandbox(t)
  BY <1>1 DEF Sandbox, TakeLine, ReadNotJson, ReadBadRequest, ReadRequest, Reply, Hangup, Finish
<1>2. CASE LogRequest(t) \/ Lookup(t)
  BY <1>2 DEF LogRequest, Lookup
<1>3. CASE CacheLookup(t) \/ Fetch(t) \/ UpstreamFails(t)
  BY <1>3 DEF CacheLookup, Fetch, UpstreamFails
<1>4. CASE Gate(t)
  BY <1>4 DEF Gate, Refuse
<1>5. CASE \E b \in Blobs : UpstreamAnswers(t, b)
  BY <1>5 DEF UpstreamAnswers
<1>6. CASE Check(t)
  BY <1>6, Zenon DEF Check
<1>7. CASE LogVerdict(t)
  BY <1>7 DEF LogVerdict
<1>8. CASE AppendFails(t)
  BY <1>8 DEF AppendFails, OnAppendError, Finish
<1> QED BY <1>1, <1>2, <1>3, <1>4, <1>5, <1>6, <1>7, <1>8 DEF Handle

\* A thread's step leaves its own locals in order.
LEMMA OwnStep ==
    ASSUME PinsAgree, TypeOK, LocalsInv, LoadedInv, CacheInv, ServeInv,
           NEW t \in Threads, Sandbox(t) \/ Handle(t)
    PROVE  (LocalsOf(t) /\ ServesPinned(t))'
<1> USE DEF TypeOK, Goto, Decide, Conclude, LocalsOf, ServesPinned, HoldsPin, lab
<1>1. LocalsOf(t) /\ ServesPinned(t)
  BY DEF LocalsInv, ServeInv
<1>2. ASSUME NEW k \in Keys, ReadRequest(t, k) PROVE (LocalsOf(t) /\ ServesPinned(t))'
  BY <1>1, <1>2 DEF ReadRequest, TakeLine, Served, Verdicts
<1>3. CASE ReadNotJson(t) \/ ReadBadRequest(t)
  <2>1. "grammar_violation" \in Verdicts /\ {"grammar_violation", "not_json"} \subseteq Answers
    BY DEF Verdicts, Answers
  <2>2. verdict'[t] \notin Served
    BY <1>3 DEF ReadNotJson, ReadBadRequest, TakeLine, Served
  <2>3. LocalsOf(t)'
    BY <1>1, <1>3, <2>1 DEF ReadNotJson, ReadBadRequest, TakeLine
  <2> QED BY <2>2, <2>3
<1>4. CASE LogRequest(t)
  BY <1>1, <1>4 DEF LogRequest
<1>5. CASE Lookup(t)
  <2>1. lockfile[key[t]] \in Digests \cup {NoPin} /\ (Pins(lockfile, key[t]) => lockfile[key[t]] \in Digests)
    BY <1>1, <1>5, PinType DEF Lookup
  <2>2. "lockfile_miss" \in Verdicts /\ "lockfile_miss" \notin Served /\ "none" \notin Served
    BY DEF Verdicts, Served
  <2>3. verdict[t] = "none"
    BY <1>1, <1>5 DEF Lookup
  <2>4. CASE Pins(lockfile, key[t])
    BY <1>1, <1>5, <2>1, <2>2, <2>3, <2>4 DEF Lookup, LoadedInv
  <2>5. CASE ~Pins(lockfile, key[t])
    BY <1>1, <1>5, <2>2, <2>3, <2>5 DEF Lookup
  <2> QED BY <2>4, <2>5
<1>6. CASE CacheLookup(t)
  <2>1. verdict[t] = "none" /\ "none" \notin Served
    BY <1>1, <1>6 DEF CacheLookup, Served
  <2>2. "served_from_cache" \in Verdicts
    BY DEF Verdicts, Served
  <2> DEFINE hit == IF NoCache THEN NoData ELSE cache[key[t]]
  <2>3. CASE hit = NoData
    BY <1>1, <1>6, <2>1, <2>3 DEF CacheLookup
  <2>4. CASE hit # NoData
    <3>1. hit = cache[key[t]] /\ hit \in Blobs /\ HoldsPin(t)
      BY <1>1, <1>6, <2>4 DEF CacheLookup
    <3>2. PICK L \in loaded : L[key[t]] = Sha256(hit)
      BY <2>4, <3>1 DEF CacheInv
    <3>3. PICK M \in loaded : M[key[t]] = pin[t]
      BY <3>1
    <3>4. Sha256(hit) \in Digests
      BY <3>1 DEF Digests
    <3>5. L[key[t]] = M[key[t]]
      <4>1. L \in Lockfiles /\ M \in Lockfiles /\ key[t] \in Keys
        BY <3>1
      <4>2. L[key[t]] \in Digests /\ M[key[t]] \in Digests
        BY <3>1, <3>2, <3>3, <3>4
      <4> QED BY <4>1, <4>2, OneDigest, Zenon
    <3>6. Sha256(hit) = pin[t]
      BY <3>2, <3>3, <3>5
    <3>7. /\ data' = [data EXCEPT ![t] = hit]
          /\ pc' = [pc EXCEPT ![t] = "log_verdict"]
          /\ verdict' = [verdict EXCEPT ![t] = "served_from_cache"]
          /\ UNCHANGED <<key, pin, loaded>>
      BY <1>6, <2>4 DEF CacheLookup
    <3>8. data'[t] = hit /\ pin'[t] = pin[t]
      BY <3>7
    <3>9. HoldsPin(t)'
      BY <3>1, <3>7
    <3>10. LocalsOf(t)'
      BY <2>2, <3>7
    <3>11. ServesPinned(t)'
      BY <3>1, <3>6, <3>8, <3>9
    <3> QED BY <3>10, <3>11
  <2> QED BY <2>3, <2>4
<1>7. CASE Gate(t)
  <2>1. "quota_exceeded" \in Verdicts /\ "quota_exceeded" \notin Served /\ "none" \notin Served
    BY DEF Verdicts, Served
  <2> QED BY <1>1, <1>7, <2>1 DEF Gate, Refuse
<1>8. CASE Fetch(t)
  BY <1>1, <1>8 DEF Fetch, Served
<1>9. CASE UpstreamFails(t)
  <2>1. "upstream_fail_closed" \in Verdicts /\ "upstream_fail_closed" \notin Served
    BY DEF Verdicts, UpstreamVerdicts, Served
  <2> QED BY <1>1, <1>9, <2>1 DEF UpstreamFails
<1>10. ASSUME NEW b \in Blobs, UpstreamAnswers(t, b) PROVE (LocalsOf(t) /\ ServesPinned(t))'
  BY <1>1, <1>10 DEF UpstreamAnswers, Served
<1>11. CASE Check(t)
  <2>1. {"served_from_upstream", "digest_mismatch"} \subseteq Verdicts /\ "digest_mismatch" \notin Served
    BY DEF Verdicts, UpstreamVerdicts, Served
  <2>2. /\ pc' = [pc EXCEPT ![t] = "log_verdict"] /\ UNCHANGED <<key, pin, data, loaded>>
        /\ verdict' = [verdict EXCEPT ![t] = IF Matches(t) THEN "served_from_upstream" ELSE "digest_mismatch"]
    BY <1>11, Zenon DEF Check
  <2>3. HoldsPin(t) /\ data[t] \in Blobs
    BY <1>1, <1>11 DEF Check
  <2>4. HoldsPin(t)' /\ data'[t] = data[t] /\ pin'[t] = pin[t]
    BY <2>2, <2>3
  <2>5. LocalsOf(t)'
    BY <2>1, <2>2
  <2>6. ServesPinned(t)'
    BY <2>1, <2>2, <2>3, <2>4 DEF Matches
  <2> QED BY <2>5, <2>6
<1>12. CASE LogVerdict(t)
  BY <1>1, <1>12, VerdictTypes DEF LogVerdict
<1>13. CASE Reply(t) \/ Hangup(t) \/ AppendFails(t)
  <2>1. Finish(t)
    BY <1>13 DEF Reply, Hangup, AppendFails, OnAppendError
  <2> QED BY <2>1 DEF Finish, Served
<1> QED BY <1>2, <1>3, <1>4, <1>5, <1>6, <1>7, <1>8, <1>9, <1>10, <1>11, <1>12, <1>13 DEF Sandbox, Handle

\* The locals of every thread stay in order.
LEMMA ThreadsStep ==
    PinsAgree /\ TypeOK /\ LocalsInv /\ LoadedInv /\ CacheInv /\ ServeInv /\ [Next]_vars
        => (LocalsInv /\ ServeInv)'
<1> SUFFICES ASSUME PinsAgree, TypeOK, LocalsInv, LoadedInv, CacheInv, ServeInv, [Next]_vars,
                    NEW u \in Threads
             PROVE  (LocalsOf(u) /\ ServesPinned(u))'
  BY DEF LocalsInv, ServeInv
<1>1. LocalsOf(u) /\ ServesPinned(u) /\ loaded \subseteq loaded'
  BY LoadedStep DEF LocalsInv, ServeInv
<1>2. ASSUME NEW t \in Threads, t # u, Sandbox(t) \/ Handle(t) PROVE (LocalsOf(u) /\ ServesPinned(u))'
  BY <1>1, <1>2, Frame DEF LocalsOf, ServesPinned, HoldsPin
<1>3. CASE Reload
  BY <1>1, <1>3 DEF Reload, locals, LocalsOf, ServesPinned, HoldsPin
<1>4. CASE UNCHANGED <<locals, loaded>>
  BY <1>1, <1>4 DEF locals, LocalsOf, ServesPinned, HoldsPin
<1> QED BY <1>2, <1>3, <1>4, OwnStep, NextCases

\* What a step does to the cache: nothing, or it fills one key with bytes that
\* match the pin the thread holds.
LEMMA CacheChange ==
    ASSUME TypeOK, LocalsInv, [Next]_vars
    PROVE  \/ cache' = cache
           \/ \E t \in Threads : /\ HoldsPin(t) /\ data[t] \in Blobs /\ Sha256(data[t]) = pin[t]
                                 /\ cache' = [cache EXCEPT ![key[t]] = data[t]]
<1>1. ASSUME NEW t \in Threads, Check(t)
      PROVE  \/ cache' = cache
             \/ /\ HoldsPin(t) /\ data[t] \in Blobs /\ Sha256(data[t]) = pin[t]
                /\ cache' = [cache EXCEPT ![key[t]] = data[t]]
  <2>1. HoldsPin(t) /\ data[t] \in Blobs
    BY <1>1 DEF Check, LocalsInv, LocalsOf
  <2>2. cache' = cache \/ (Matches(t) /\ cache' = [cache EXCEPT ![key[t]] = data[t]])
    BY <1>1, Zenon DEF Check
  <2> QED BY <2>1, <2>2 DEF Matches
<1>2. ASSUME NEW t \in Threads, Sandbox(t) \/ Handle(t), ~Check(t) PROVE cache' = cache
  BY <1>2 DEF Sandbox, Handle, TakeLine, ReadNotJson, ReadBadRequest, ReadRequest, LogRequest,
              Lookup, CacheLookup, Gate, Fetch, UpstreamFails, UpstreamAnswers, LogVerdict,
              Reply, Hangup, AppendFails
<1>3. CASE Reload
  BY <1>3 DEF Reload
<1> QED BY <1>1, <1>2, <1>3, NextCases

\* Filling a key a lockfile pins keeps the cache pinned and changes no cached
\* bytes: the pins of a key agree and Sha256 does not collide.
LEMMA CacheStep ==
    ASSUME PinsAgree, TypeOK, LocalsInv, LoadedInv, CacheInv, [Next]_vars
    PROVE  CacheInv' /\ \A k \in Keys : cache[k] # NoData => cache'[k] = cache[k]
<1>1. loaded \subseteq loaded'
  BY LoadedStep
<1>2. CASE cache' = cache
  BY <1>1, <1>2 DEF CacheInv
<1>3. ASSUME NEW t \in Threads, HoldsPin(t), data[t] \in Blobs, Sha256(data[t]) = pin[t],
             cache' = [cache EXCEPT ![key[t]] = data[t]]
      PROVE  CacheInv' /\ \A k \in Keys : cache[k] # NoData => cache'[k] = cache[k]
  <2>1. key[t] \in Keys /\ pin[t] \in Digests
    BY <1>3 DEF HoldsPin
  <2>2. PICK M \in loaded : M[key[t]] = Sha256(data[t])
    BY <1>3 DEF HoldsPin
  <2>3. cache'[key[t]] = data[t] /\ \A k \in Keys : k # key[t] => cache'[k] = cache[k]
    BY <1>3, <2>1 DEF TypeOK
  <2>4. CacheInv'
    BY <1>1, <2>2, <2>3 DEF CacheInv
  <2>5. ASSUME cache[key[t]] # NoData PROVE data[t] = cache[key[t]]
    <3>1. PICK L \in loaded : L[key[t]] = Sha256(cache[key[t]])
      BY <2>1, <2>5 DEF CacheInv
    <3>2. cache[key[t]] \in Blobs
      BY <2>1, <2>5 DEF TypeOK
    <3>3. Sha256(cache[key[t]]) \in Digests /\ Sha256(data[t]) \in Digests
      BY <1>3, <3>2 DEF Digests
    <3>4. L \in Lockfiles /\ M \in Lockfiles /\ NoPin \notin Digests
      BY LockfileAssumption DEF TypeOK
    <3>5. L[key[t]] = M[key[t]]
      BY <2>1, <2>2, <3>1, <3>3, <3>4 DEF PinsAgree
    <3>6. Sha256(cache[key[t]]) = Sha256(data[t])
      BY <2>2, <3>1, <3>5
    <3> QED BY <3>6 DEF Sha256
  <2> QED BY <2>3, <2>4, <2>5
<1> QED BY <1>2, <1>3, CacheChange

\* What a step does to the bytes released: nothing, or it adds a body that
\* matches a pin in force at some time.
LEMMA ReleaseChange ==
    ASSUME TypeOK, ServeInv, [Next]_vars
    PROVE  \/ released' = released
           \/ \E t \in Threads :
                 /\ HoldsPin(t) /\ data[t] \in Blobs /\ Sha256(data[t]) = pin[t]
                 /\ released' = released \cup {[key |-> key[t], data |-> data[t], sha256 |-> pin[t]]}
                 /\ loaded' = loaded
<1>1. ASSUME NEW t \in Threads, Reply(t)
      PROVE  \/ released' = released
             \/ /\ HoldsPin(t) /\ data[t] \in Blobs /\ Sha256(data[t]) = pin[t]
                /\ released' = released \cup {[key |-> key[t], data |-> data[t], sha256 |-> pin[t]]}
                /\ loaded' = loaded
  BY <1>1 DEF Reply, ServeInv, ServesPinned, lab
<1>2. ASSUME NEW t \in Threads, Sandbox(t) \/ Handle(t), ~Reply(t) PROVE released' = released
  BY <1>2 DEF Sandbox, Handle, TakeLine, ReadNotJson, ReadBadRequest, ReadRequest, LogRequest,
              Lookup, CacheLookup, Gate, Fetch, UpstreamFails, UpstreamAnswers, Check, LogVerdict,
              Hangup, AppendFails
<1>3. CASE Reload
  BY <1>3 DEF Reload
<1> QED BY <1>1, <1>2, <1>3, NextCases

LEMMA ServedStep ==
    ASSUME TypeOK, LoadedInv, ServeInv, ServedBytesArePinned, [Next]_vars
    PROVE  ServedBytesArePinned'
<1>1. loaded \subseteq loaded'
  BY LoadedStep
<1>2. CASE released' = released
  BY <1>1, <1>2 DEF ServedBytesArePinned
<1>3. ASSUME NEW t \in Threads, HoldsPin(t), data[t] \in Blobs, Sha256(data[t]) = pin[t],
             released' = released \cup {[key |-> key[t], data |-> data[t], sha256 |-> pin[t]]}
      PROVE  ServedBytesArePinned'
  BY <1>1, <1>3 DEF ServedBytesArePinned, HoldsPin
<1> QED BY <1>2, <1>3, ReleaseChange

LEMMA IInvStep == PinsAgree /\ IInv /\ [Next]_vars => IInv'
BY TypeStep, LoadedStep, ThreadsStep, CacheStep, ServedStep DEF IInv

LEMMA Inductive == PinsAgree => (Spec => []IInv)
<1> SUFFICES ASSUME PinsAgree PROVE Spec => []IInv
  OBVIOUS
<1>1. IInv /\ [Next]_vars => IInv'
  BY IInvStep
<1> QED BY InitIInv, <1>1, PTL DEF Spec

\* Broker is well typed as long as the lockfiles it loads agree on their pins.
THEOREM TypeCorrect == PinsAgree => (Spec => []TypeOK)
<1> SUFFICES ASSUME PinsAgree PROVE Spec => []TypeOK
  OBVIOUS
<1>1. IInv => TypeOK
  BY DEF IInv
<1> QED BY Inductive, <1>1, PTL

\* S5 for any number of threads, keys, blobs and lockfiles: whatever the
\* upstream answers and whenever the lab reloads, the bytes handle() serves are
\* the bytes a lockfile that was in force pins, provided that the lockfiles
\* agree on the keys they both pin.
THEOREM ServedIsPinned == PinsAgree => (Spec => []ServedBytesArePinned)
<1> SUFFICES ASSUME PinsAgree PROVE Spec => []ServedBytesArePinned
  OBVIOUS
<1>1. IInv => ServedBytesArePinned
  BY DEF IInv
<1> QED BY Inductive, <1>1, PTL

\* Threads that fetch the same key at once never replace cached bytes by others.
THEOREM CacheStable == PinsAgree => (Spec => CacheIsStable)
<1> SUFFICES ASSUME PinsAgree PROVE Spec => CacheIsStable
  OBVIOUS
<1>1. IInv /\ [Next]_vars => [\A k \in Keys : cache[k] # NoData => cache'[k] = cache[k]]_vars
  BY CacheStep DEF IInv
<1> QED BY Inductive, <1>1, PTL DEF Spec, CacheIsStable

-----------------------------------------------------------------------------
\* The state of SoleEgress that a state of Broker stands for.
PinsOf == {p \in Keys \X Digests : \E L \in loaded : L[p[1]] = p[2]}
ReleasedOf == {<<r.key, r.data>> : r \in released}

\* Every step of the broker is a step of the promise or a stutter.
LEMMA PromiseStep ==
    ASSUME IInv, [Next]_vars
    PROVE  [Promise!Next]_<<PinsOf, ReleasedOf>>
<1> USE DEF IInv
<1>1. loaded \subseteq loaded'
  BY LoadedStep
<1>2. PinsOf \subseteq PinsOf'
  BY <1>1 DEF PinsOf
<1>3. CASE released' = released
  <2>1. ReleasedOf' = ReleasedOf
    BY <1>3 DEF ReleasedOf
  <2>2. PinsOf' \in SUBSET (Keys \X Digests) /\ PinsOf' = PinsOf \cup PinsOf'
    BY <1>2 DEF PinsOf
  <2>3. Promise!Pin
    BY <2>1, <2>2 DEF Promise!Pin, PinsOf, ReleasedOf
  <2> QED BY <2>3 DEF Promise!Next
<1>4. ASSUME NEW t \in Threads, HoldsPin(t), data[t] \in Blobs, Sha256(data[t]) = pin[t],
             released' = released \cup {[key |-> key[t], data |-> data[t], sha256 |-> pin[t]]},
             loaded' = loaded
      PROVE  Promise!Next
  <2>1. key[t] \in Keys /\ <<key[t], Sha256(data[t])>> \in PinsOf
    BY <1>4 DEF HoldsPin, PinsOf
  <2>2. PinsOf' = PinsOf
    BY <1>4 DEF PinsOf
  <2>3. ReleasedOf' = ReleasedOf \cup {<<key[t], data[t]>>}
    <3> DEFINE new == [key |-> key[t], data |-> data[t], sha256 |-> pin[t]]
    <3>1. released' = released \cup {new} /\ <<new.key, new.data>> = <<key[t], data[t]>>
      BY <1>4
    <3> HIDE DEF new
    <3> QED BY <3>1 DEF ReleasedOf
  <2>4. \E k \in Keys, b \in Blobs :
           <<k, Sha256(b)>> \in PinsOf /\ ReleasedOf' = ReleasedOf \cup {<<k, b>>} /\ UNCHANGED PinsOf
    BY <1>4, <2>1, <2>2, <2>3
  <2> QED BY <2>4 DEF Promise!Next, Promise!Release, PinsOf, ReleasedOf
<1> QED BY <1>3, <1>4, ReleaseChange

\* The broker implements SoleEgress: the sandbox only ever receives bytes whose
\* digest was pinned when it received them, and pins are never taken back.
THEOREM Implements == PinsAgree => (Spec => ImplementsPromise)
<1> SUFFICES ASSUME PinsAgree PROVE Spec => ImplementsPromise
  OBVIOUS
<1>1. Init => Promise!Init
  BY DEF Init, Promise!Init
<1>2. IInv /\ [Next]_vars => [Promise!Next]_<<PinsOf, ReleasedOf>>
  BY PromiseStep
<1> QED BY Inductive, <1>1, <1>2, PTL DEF Spec, ImplementsPromise, Promise!Spec, PinsOf, ReleasedOf

-----------------------------------------------------------------------------
\* The evidence.

\* The threads that count for a key: a response decided and logged, a request
\* logged and not yet decided, a fetch made and not yet told of.
Waiting(v, k) == {t \in Threads : pc[t] = "reply" /\ verdict[t] = v /\ key[t] = k}
Open(k) == {t \in Threads : key[t] = k /\ pc[t] \notin {"log_request", "reply"}}
Spent(k) ==
    {t \in Threads : /\ key[t] = k
                     /\ \/ pc[t] \in {"await", "check"}
                        \/ pc[t] = "log_verdict" /\ verdict[t] \in UpstreamVerdicts}

\* A thread that waits for a line has no request.
IdleInv == \A t \in Threads : pc[t] = "idle" => key[t] = NoKey

\* A response given or under way has its line.
ResponseInv ==
    \A v \in Verdicts, k \in Keys \cup {NoKey} :
        answered[v, k] + Cardinality(Waiting(v, k)) <= Cardinality(LinesOf({v}, k)) + Cardinality(GarbledLines)

\* An unfinished line spoils the next one.
Spoils == IF tail = NoLine THEN 0 ELSE 1

\* Every line that is or will be garbled is one that a failed write left.
GarbledInv == Cardinality(GarbledLines) + Spoils <= faults

-----------------------------------------------------------------------------
\* A set of threads that a step changes by one thread at most.
LEMMA CountThreads ==
    ASSUME NEW S \in SUBSET Threads, NEW T \in SUBSET Threads, NEW t \in Threads, S \ {t} = T \ {t}
    PROVE  /\ Cardinality(S) \in Nat /\ Cardinality(T) \in Nat
           /\ (t \in S <=> t \in T) => T = S
           /\ t \notin S /\ t \in T => Cardinality(T) = Cardinality(S) + 1
           /\ t \in S /\ t \notin T => Cardinality(S) = Cardinality(T) + 1
<1>1. IsFiniteSet(S) /\ IsFiniteSet(T)
  BY ThreadAssumption, FS_Subset
<1>2. Cardinality(S) \in Nat /\ Cardinality(T) \in Nat
  BY <1>1, FS_CardinalityType
<1>3. ASSUME t \notin S, t \in T PROVE Cardinality(T) = Cardinality(S) + 1
  <2>1. T = S \cup {t}
    BY <1>3
  <2> QED BY <1>1, <1>3, <2>1, FS_AddElement
<1>4. ASSUME t \in S, t \notin T PROVE Cardinality(S) = Cardinality(T) + 1
  <2>1. S = T \cup {t}
    BY <1>4
  <2> QED BY <1>1, <1>4, <2>1, FS_AddElement
<1>5. (t \in S <=> t \in T) => T = S
  OBVIOUS
<1> QED BY <1>2, <1>3, <1>4, <1>5

\* The lines of the transcript, and one more.
LEMMA LogGrows ==
    ASSUME TypeOK, NEW line \in Lines, log' = Append(log, line)
    PROVE  /\ Len(log) \in Nat /\ DOMAIN log = 1 .. Len(log) /\ DOMAIN log' = 1 .. Len(log) + 1
           /\ Len(log') = Len(log) + 1 /\ log' \in Seq(Lines)
           /\ log'[Len(log) + 1] = line /\ \A i \in 1 .. Len(log) : log'[i] = log[i]
<1>1. log \in Seq(Lines)
  BY DEF TypeOK
<1>2. /\ log' \in Seq(Lines) /\ Len(log') = Len(log) + 1 /\ log'[Len(log) + 1] = line
      /\ \A i \in 1 .. Len(log) : log'[i] = log[i]
  BY <1>1, AppendProperties
<1> QED BY <1>1, <1>2

\* How lines are counted when one is appended: verdicts,
LEMMA CountVerdicts ==
    ASSUME TypeOK, NEW line \in Lines, log' = Append(log, line), NEW V, NEW k
    PROVE  /\ Cardinality(LinesOf(V, k)) \in Nat
           /\ line.kind = "verdict" /\ line.verdict \in V /\ line.key = k =>
                 Cardinality(LinesOf(V, k))' = Cardinality(LinesOf(V, k)) + 1
           /\ ~(line.kind = "verdict" /\ line.verdict \in V /\ line.key = k) => LinesOf(V, k)' = LinesOf(V, k)
<1>1. Len(log) \in Nat /\ LinesOf(V, k) \in SUBSET (1 .. Len(log))
  BY LogGrows DEF LinesOf
<1>2. CASE line.kind = "verdict" /\ line.verdict \in V /\ line.key = k
  <2>1. LinesOf(V, k)' = LinesOf(V, k) \cup {Len(log) + 1}
    BY <1>2, LogGrows DEF LinesOf
  <2> QED BY <1>1, <1>2, <2>1, CountIndexes
<1>3. CASE ~(line.kind = "verdict" /\ line.verdict \in V /\ line.key = k)
  <2>1. LinesOf(V, k)' = LinesOf(V, k)
    BY <1>3, LogGrows DEF LinesOf
  <2> QED BY <1>1, <1>3, <2>1, CountIndexes
<1> QED BY <1>2, <1>3

\* requests,
LEMMA CountRequests ==
    ASSUME TypeOK, NEW line \in Lines, log' = Append(log, line), NEW k
    PROVE  /\ Cardinality(RequestsOf(k)) \in Nat
           /\ line.kind = "request" /\ line.key = k => Cardinality(RequestsOf(k))' = Cardinality(RequestsOf(k)) + 1
           /\ ~(line.kind = "request" /\ line.key = k) => RequestsOf(k)' = RequestsOf(k)
<1>1. Len(log) \in Nat /\ RequestsOf(k) \in SUBSET (1 .. Len(log))
  BY LogGrows DEF RequestsOf
<1>2. CASE line.kind = "request" /\ line.key = k
  <2>1. RequestsOf(k)' = RequestsOf(k) \cup {Len(log) + 1}
    BY <1>2, LogGrows DEF RequestsOf
  <2> QED BY <1>1, <1>2, <2>1, CountIndexes
<1>3. CASE ~(line.kind = "request" /\ line.key = k)
  <2>1. RequestsOf(k)' = RequestsOf(k)
    BY <1>3, LogGrows DEF RequestsOf
  <2> QED BY <1>1, <1>3, <2>1, CountIndexes
<1> QED BY <1>2, <1>3

\* and garbled lines.
LEMMA CountGarbled ==
    ASSUME TypeOK, NEW line \in Lines, log' = Append(log, line)
    PROVE  /\ Cardinality(GarbledLines) \in Nat
           /\ line.kind = "garbled" => Cardinality(GarbledLines)' = Cardinality(GarbledLines) + 1
           /\ line.kind # "garbled" => GarbledLines' = GarbledLines
<1>1. Len(log) \in Nat /\ GarbledLines \in SUBSET (1 .. Len(log))
  BY LogGrows DEF GarbledLines
<1>2. CASE line.kind = "garbled"
  <2>1. GarbledLines' = GarbledLines \cup {Len(log) + 1}
    BY <1>2, LogGrows DEF GarbledLines
  <2> QED BY <1>1, <1>2, <2>1, CountIndexes
<1>3. CASE line.kind # "garbled"
  <2>1. GarbledLines' = GarbledLines
    BY <1>3, LogGrows DEF GarbledLines
  <2> QED BY <1>1, <1>3, <2>1, CountIndexes
<1> QED BY <1>2, <1>3

\* A write counts its line, or a garbled one when there is an unfinished line.
LEMMA WriteCounts ==
    ASSUME TypeOK, NEW line \in Lines, line.kind # "garbled", Write(line)
    PROVE  /\ Spoils \in {0, 1} /\ Spoils' = 0
           /\ Cardinality(GarbledLines)' = Cardinality(GarbledLines) + Spoils
           /\ \A V, k : line.kind = "verdict" /\ line.verdict \in V /\ line.key = k =>
                 Cardinality(LinesOf(V, k))' = Cardinality(LinesOf(V, k)) + 1 - Spoils
           /\ \A V, k : ~(line.kind = "verdict" /\ line.verdict \in V /\ line.key = k) =>
                 LinesOf(V, k)' = LinesOf(V, k)
           /\ \A k : line.kind = "request" /\ line.key = k =>
                 Cardinality(RequestsOf(k))' = Cardinality(RequestsOf(k)) + 1 - Spoils
           /\ \A k : ~(line.kind = "request" /\ line.key = k) => RequestsOf(k)' = RequestsOf(k)
<1>1. Spoils \in {0, 1} /\ Spoils' = 0
  BY DEF Write, Spoils
<1>2. CASE tail = NoLine
  <2>1. log' = Append(log, line) /\ Spoils = 0
    BY <1>2 DEF Write, Spoils
  <2>2. Cardinality(GarbledLines)' = Cardinality(GarbledLines) + Spoils
    BY <2>1, CountGarbled
  <2>3. ASSUME NEW V, NEW k
        PROVE  /\ line.kind = "verdict" /\ line.verdict \in V /\ line.key = k =>
                     Cardinality(LinesOf(V, k))' = Cardinality(LinesOf(V, k)) + 1 - Spoils
               /\ ~(line.kind = "verdict" /\ line.verdict \in V /\ line.key = k) =>
                     LinesOf(V, k)' = LinesOf(V, k)
    BY <2>1, CountVerdicts
  <2>4. ASSUME NEW k
        PROVE  /\ line.kind = "request" /\ line.key = k =>
                     Cardinality(RequestsOf(k))' = Cardinality(RequestsOf(k)) + 1 - Spoils
               /\ ~(line.kind = "request" /\ line.key = k) => RequestsOf(k)' = RequestsOf(k)
    BY <2>1, CountRequests
  <2> QED BY <1>1, <2>2, <2>3, <2>4
<1>3. CASE tail # NoLine
  <2>1. log' = Append(log, Garbled) /\ Spoils = 1 /\ Garbled \in Lines /\ Garbled.kind = "garbled"
    BY <1>3, LineTypes DEF Write, Spoils
  <2>2. Cardinality(GarbledLines)' = Cardinality(GarbledLines) + Spoils
    BY <2>1, CountGarbled
  <2>3. ASSUME NEW V, NEW k
        PROVE  LinesOf(V, k)' = LinesOf(V, k) /\ Cardinality(LinesOf(V, k)) \in Nat
    BY <2>1, CountVerdicts
  <2>4. ASSUME NEW k
        PROVE  RequestsOf(k)' = RequestsOf(k) /\ Cardinality(RequestsOf(k)) \in Nat
    BY <2>1, CountRequests
  <2>5. ASSUME NEW V, NEW k
        PROVE  Cardinality(LinesOf(V, k))' = Cardinality(LinesOf(V, k)) + 1 - Spoils
    BY <2>1, <2>3
  <2>6. ASSUME NEW k
        PROVE  Cardinality(RequestsOf(k))' = Cardinality(RequestsOf(k)) + 1 - Spoils
    BY <2>1, <2>4
  <2> QED BY <1>1, <2>2, <2>3, <2>4, <2>5, <2>6
<1> QED BY <1>2, <1>3

\* The counts are natural numbers.
LEMMA CountTypes ==
    ASSUME TypeOK
    PROVE  /\ \A V, k : Cardinality(LinesOf(V, k)) \in Nat
           /\ \A k : Cardinality(RequestsOf(k)) \in Nat
           /\ Cardinality(GarbledLines) \in Nat
           /\ \A v, k : Cardinality(Waiting(v, k)) \in Nat
           /\ \A k : Cardinality(Open(k)) \in Nat /\ Cardinality(Spent(k)) \in Nat
<1>1. Len(log) \in Nat /\ DOMAIN log = 1 .. Len(log) /\ IsFiniteSet(1 .. Len(log))
  <2>1. log \in Seq(Lines)
    BY DEF TypeOK
  <2>2. Len(log) \in Nat /\ DOMAIN log = 1 .. Len(log)
    BY <2>1
  <2> QED BY <2>2, FS_Interval
<1>2. ASSUME NEW V, NEW k PROVE Cardinality(LinesOf(V, k)) \in Nat /\ Cardinality(RequestsOf(k)) \in Nat
  <2>1. LinesOf(V, k) \subseteq 1 .. Len(log) /\ RequestsOf(k) \subseteq 1 .. Len(log)
    BY <1>1 DEF LinesOf, RequestsOf
  <2> QED BY <1>1, <2>1, FS_Subset, FS_CardinalityType
<1>4. Cardinality(GarbledLines) \in Nat
  <2>1. GarbledLines \subseteq 1 .. Len(log)
    BY <1>1 DEF GarbledLines
  <2> QED BY <1>1, <2>1, FS_Subset, FS_CardinalityType
<1>3. ASSUME NEW v, NEW k
      PROVE  /\ Cardinality(Waiting(v, k)) \in Nat
             /\ Cardinality(Open(k)) \in Nat /\ Cardinality(Spent(k)) \in Nat
  <2>1. Waiting(v, k) \subseteq Threads /\ Open(k) \subseteq Threads /\ Spent(k) \subseteq Threads
    BY DEF Waiting, Open, Spent
  <2> QED BY <2>1, ThreadAssumption, FS_Subset, FS_CardinalityType
<1> QED BY <1>2, <1>3, <1>4

\* A step of a thread moves no other thread in or out of these sets.
LEMMA SetsFrame ==
    ASSUME TypeOK, NEW t \in Threads, Sandbox(t) \/ Handle(t)
    PROVE  /\ \A v, k : Waiting(v, k)' \ {t} = Waiting(v, k) \ {t}
           /\ \A k : Open(k)' \ {t} = Open(k) \ {t} /\ Spent(k)' \ {t} = Spent(k) \ {t}
<1>1. \A u \in Threads \ {t} : pc'[u] = pc[u] /\ key'[u] = key[u] /\ verdict'[u] = verdict[u]
  BY Frame
<1>2. ASSUME NEW v, NEW k PROVE Waiting(v, k)' \ {t} = Waiting(v, k) \ {t}
  BY <1>1 DEF Waiting
<1>3. ASSUME NEW k PROVE Open(k)' \ {t} = Open(k) \ {t} /\ Spent(k)' \ {t} = Spent(k) \ {t}
  BY <1>1 DEF Open, Spent
<1> QED BY <1>2, <1>3

-----------------------------------------------------------------------------
\* The steps of a thread that neither write to the transcript, nor end a request,
\* nor fetch.
Quiet(t) ==
    \/ ReadNotJson(t) \/ ReadBadRequest(t) \/ \E k \in Keys : ReadRequest(t, k)
    \/ Lookup(t) \/ CacheLookup(t) \/ Gate(t)
    \/ UpstreamFails(t) \/ (\E b \in Blobs : UpstreamAnswers(t, b)) \/ Check(t)

\* The steps of the broker.
LEMMA StepCases ==
    ASSUME [Next]_vars
    PROVE  \/ \E t \in Threads : \/ Quiet(t) \/ LogRequest(t) \/ LogVerdict(t) \/ Fetch(t)
                                 \/ Reply(t) \/ Hangup(t) \/ AppendFails(t)
           \/ Reload \/ NoteLoad \/ NoteFails \/ UNCHANGED vars
BY DEF Next, Handle, Sandbox, Wait, Quiet

\* Who belongs to these sets, in a state and in the next.
LEMMA Members ==
    ASSUME NEW t \in Threads
    PROVE  /\ \A v, k : t \in Waiting(v, k) <=> pc[t] = "reply" /\ verdict[t] = v /\ key[t] = k
           /\ \A v, k : t \in Waiting(v, k)' <=> pc'[t] = "reply" /\ verdict'[t] = v /\ key'[t] = k
           /\ \A k : t \in Open(k) <=> key[t] = k /\ pc[t] # "log_request" /\ pc[t] # "reply"
           /\ \A k : t \in Open(k)' <=> key'[t] = k /\ pc'[t] # "log_request" /\ pc'[t] # "reply"
           /\ \A k : t \in Spent(k) <=>
                 /\ key[t] = k
                 /\ pc[t] = "await" \/ pc[t] = "check" \/ (pc[t] = "log_verdict" /\ verdict[t] \in UpstreamVerdicts)
           /\ \A k : t \in Spent(k)' <=>
                 /\ key'[t] = k
                 /\ pc'[t] = "await" \/ pc'[t] = "check" \/ (pc'[t] = "log_verdict" /\ verdict'[t] \in UpstreamVerdicts)
BY DEF Waiting, Open, Spent

\* A quiet step counts nothing and moves its thread in or out of no set.
LEMMA QuietKeeps ==
    ASSUME TypeOK, LocalsInv, IdleInv, NEW t \in Threads, Quiet(t)
    PROVE  /\ UNCHANGED <<log, tail, answered, attempts, faults>>
           /\ \A v \in Verdicts : \A k : t \notin Waiting(v, k) /\ t \notin Waiting(v, k)'
           /\ \A k \in Keys : t \in Open(k) <=> t \in Open(k)'
           /\ \A k \in Keys : t \in Spent(k) <=> t \in Spent(k)'
           /\ pc'[t] # "idle"
<1> DEFINE Goal ==
        /\ UNCHANGED <<log, tail, answered, attempts, faults>>
        /\ pc[t] # "reply" /\ (pc'[t] = "reply" => verdict'[t] = "not_json")
        /\ \A k \in Keys : t \in Open(k) <=> t \in Open(k)'
        /\ \A k \in Keys : t \in Spent(k) <=> t \in Spent(k)'
        /\ pc'[t] # "idle"
<1>1. ASSUME ReadNotJson(t) \/ ReadBadRequest(t) PROVE Goal
  <2>1. /\ pc[t] = "idle" /\ key[t] = NoKey /\ key' = key
        /\ UNCHANGED <<log, tail, answered, attempts, faults>>
    BY <1>1 DEF TypeOK, Goto, Decide, Conclude, ReadNotJson, ReadBadRequest, TakeLine, IdleInv
  <2>2. \/ pc'[t] = "reply" /\ verdict'[t] = "not_json"
        \/ pc'[t] = "log_verdict"
    BY <1>1 DEF TypeOK, Goto, Decide, Conclude, ReadNotJson, ReadBadRequest
  <2> QED BY <2>1, <2>2, SentinelAssumption, Members
<1>2. ASSUME NEW k \in Keys, ReadRequest(t, k) PROVE Goal
  <2>1. /\ pc[t] = "idle" /\ key[t] = NoKey /\ pc'[t] = "log_request"
        /\ UNCHANGED <<log, tail, answered, attempts, faults>>
    BY <1>2 DEF TypeOK, Goto, Decide, Conclude, ReadRequest, TakeLine, IdleInv
  <2> QED BY <2>1, SentinelAssumption, Members
<1>3. ASSUME Lookup(t) PROVE Goal
  <2>1. pc[t] = "lookup" /\ UNCHANGED <<key, log, tail, answered, attempts, faults>>
    BY <1>3, Zenon DEF Lookup
  <2>2. \/ pc' = [pc EXCEPT ![t] = "cache"]
        \/ pc' = [pc EXCEPT ![t] = "log_verdict"] /\ verdict' = [verdict EXCEPT ![t] = "lockfile_miss"]
    BY <1>3, Zenon DEF Lookup, Goto, Decide, Conclude
  <2>3. \/ pc'[t] = "cache"
        \/ pc'[t] = "log_verdict" /\ verdict'[t] = "lockfile_miss"
    BY <2>2 DEF TypeOK
  <2> QED BY <2>1, <2>3, Members DEF UpstreamVerdicts
<1>4. ASSUME CacheLookup(t) PROVE Goal
  <2>1. pc[t] = "cache" /\ UNCHANGED <<key, log, tail, answered, attempts, faults>>
    BY <1>4, Zenon DEF CacheLookup
  <2>2. \/ pc' = [pc EXCEPT ![t] = "gate"]
        \/ pc' = [pc EXCEPT ![t] = "log_verdict"] /\ verdict' = [verdict EXCEPT ![t] = "served_from_cache"]
    BY <1>4, Zenon DEF CacheLookup, Goto, Decide, Conclude
  <2>3. \/ pc'[t] = "gate"
        \/ pc'[t] = "log_verdict" /\ verdict'[t] = "served_from_cache"
    BY <2>2 DEF TypeOK
  <2> QED BY <2>1, <2>3, Members DEF UpstreamVerdicts
<1>5. ASSUME Gate(t) PROVE Goal
  <2>1. pc[t] = "gate" /\ UNCHANGED <<key, log, tail, answered, attempts, faults>>
    BY <1>5, Zenon DEF Gate
  <2>2. \/ pc' = [pc EXCEPT ![t] = "fetch"]
        \/ pc' = [pc EXCEPT ![t] = "log_verdict"] /\ verdict' = [verdict EXCEPT ![t] = "quota_exceeded"]
    BY <1>5, Zenon DEF Gate, Refuse, Goto, Decide, Conclude
  <2>3. \/ pc'[t] = "fetch"
        \/ pc'[t] = "log_verdict" /\ verdict'[t] = "quota_exceeded"
    BY <2>2 DEF TypeOK
  <2> QED BY <2>1, <2>3, Members DEF UpstreamVerdicts
<1>6. ASSUME UpstreamFails(t) PROVE Goal
  <2>1. pc[t] = "await" /\ UNCHANGED <<key, log, tail, answered, attempts, faults>>
    BY <1>6 DEF UpstreamFails
  <2>2. pc' = [pc EXCEPT ![t] = "log_verdict"] /\ verdict' = [verdict EXCEPT ![t] = "upstream_fail_closed"]
    BY <1>6, Zenon DEF UpstreamFails, Goto, Decide, Conclude
  <2>3. pc'[t] = "log_verdict" /\ verdict'[t] = "upstream_fail_closed"
    BY <2>2 DEF TypeOK
  <2> QED BY <2>1, <2>3, Members DEF UpstreamVerdicts
<1>7. ASSUME NEW b \in Blobs, UpstreamAnswers(t, b) PROVE Goal
  <2>1. /\ pc[t] = "await" /\ UNCHANGED <<key, log, tail, answered, attempts, faults>>
        /\ pc'[t] = "check"
    BY <1>7 DEF TypeOK, Goto, Decide, Conclude, UpstreamAnswers
  <2> QED BY <2>1, Members
<1>8. ASSUME Check(t) PROVE Goal
  <2>1. pc[t] = "check" /\ UNCHANGED <<key, log, tail, answered, attempts, faults>>
    BY <1>8, Zenon DEF Check
  <2>2. \/ pc' = [pc EXCEPT ![t] = "log_verdict"] /\ verdict' = [verdict EXCEPT ![t] = "served_from_upstream"]
        \/ pc' = [pc EXCEPT ![t] = "log_verdict"] /\ verdict' = [verdict EXCEPT ![t] = "digest_mismatch"]
    BY <1>8, Zenon DEF Check, Goto, Decide, Conclude
  <2>3. \/ pc'[t] = "log_verdict" /\ verdict'[t] = "served_from_upstream"
        \/ pc'[t] = "log_verdict" /\ verdict'[t] = "digest_mismatch"
    BY <2>2 DEF TypeOK
  <2> QED BY <2>1, <2>3, Members DEF UpstreamVerdicts
<1>9. Goal
  BY <1>1, <1>2, <1>3, <1>4, <1>5, <1>6, <1>7, <1>8 DEF Quiet
<1>10. "not_json" \notin Verdicts
  BY DEF Verdicts, Served, UpstreamVerdicts
<1> QED BY <1>9, <1>10, Members

LEMMA IdleStep == TypeOK /\ LocalsInv /\ IdleInv /\ [Next]_vars => IdleInv'
<1> SUFFICES ASSUME TypeOK, LocalsInv, IdleInv, [Next]_vars PROVE IdleInv'
  OBVIOUS
<1>1. ASSUME NEW t \in Threads, Sandbox(t) \/ Handle(t), pc'[t] = "idle" => key'[t] = NoKey PROVE IdleInv'
  BY <1>1, Frame DEF IdleInv
<1>2. ASSUME NEW t \in Threads, Quiet(t) PROVE IdleInv'
  <2>1. Sandbox(t) \/ Handle(t)
    BY <1>2 DEF Quiet, Sandbox, Handle
  <2> QED BY <1>1, <1>2, <2>1, QuietKeeps
<1>3. ASSUME NEW t \in Threads, LogRequest(t) \/ LogVerdict(t) \/ Fetch(t) PROVE IdleInv'
  BY <1>1, <1>3 DEF LogRequest, LogVerdict, Fetch, Goto, TypeOK, Handle
<1>4. ASSUME NEW t \in Threads, Reply(t) \/ Hangup(t) \/ AppendFails(t) PROVE IdleInv'
  <2>1. key' = [key EXCEPT ![t] = NoKey]
    BY <1>4 DEF Reply, Hangup, AppendFails, OnAppendError, Finish
  <2> QED BY <1>1, <1>4, <2>1 DEF TypeOK, Handle, Sandbox
<1>5. CASE Reload \/ NoteLoad \/ NoteFails \/ UNCHANGED vars
  BY <1>5 DEF Reload, NoteLoad, NoteFails, vars, locals, IdleInv
<1> QED BY <1>2, <1>3, <1>4, <1>5, StepCases

\* What the lab does changes no count but adds a note, or a garbled line.
LEMMA LabCounts ==
    ASSUME TypeOK, Reload \/ NoteLoad \/ NoteFails \/ UNCHANGED vars
    PROVE  /\ UNCHANGED <<pc, key, verdict, answered, attempts>>
           /\ \A V, k : LinesOf(V, k)' = LinesOf(V, k)
           /\ \A k : RequestsOf(k)' = RequestsOf(k)
           /\ Cardinality(GarbledLines) <= Cardinality(GarbledLines)' /\ Cardinality(GarbledLines)' \in Nat
           /\ faults <= faults' /\ faults' \in Nat
           /\ GarbledInv => GarbledInv'
<1>1. UNCHANGED <<pc, key, verdict, answered, attempts>>
  BY DEF Reload, NoteLoad, NoteFails, vars, locals
<1> DEFINE g == Cardinality(GarbledLines)
           g1 == Cardinality(GarbledLines)'
<1>2. g \in Nat /\ faults \in Nat
  BY CountTypes DEF TypeOK
<1>3. CASE log' = log /\ tail' = tail /\ faults' = faults
  <2>1. /\ \A V, k : LinesOf(V, k)' = LinesOf(V, k)
        /\ \A k : RequestsOf(k)' = RequestsOf(k)
        /\ g1 = g /\ Spoils' = Spoils
    BY <1>3 DEF LinesOf, RequestsOf, GarbledLines, Spoils
  <2>2. g <= g1 /\ g1 \in Nat /\ faults <= faults' /\ faults' \in Nat
    BY <1>2, <1>3, <2>1
  <2>3. GarbledInv => GarbledInv'
    BY <1>3, <2>1 DEF GarbledInv
  <2> QED BY <1>1, <2>1, <2>2, <2>3
<1>4. CASE NoteLoad
  <2>1. Write(NoteLine(lockfile)) /\ NoteLine(lockfile) \in Lines /\ faults' = faults
    BY <1>4, LineTypes DEF NoteLoad, TypeOK
  <2>2. NoteLine(lockfile).kind = "note"
    BY DEF NoteLine
  <2>3. /\ \A V, k : LinesOf(V, k)' = LinesOf(V, k)
        /\ \A k : RequestsOf(k)' = RequestsOf(k)
    BY <2>1, <2>2, WriteCounts
  <2>4. Spoils \in {0, 1} /\ Spoils' = 0 /\ g1 = g + Spoils
    BY <2>1, <2>2, WriteCounts
  <2> HIDE DEF g, g1
  <2>5. g <= g1 /\ g1 \in Nat /\ faults <= faults' /\ faults' \in Nat
    BY <1>2, <2>1, <2>4
  <2>6. g + Spoils <= faults => g1 + Spoils' <= faults'
    BY <1>2, <2>1, <2>4
  <2> QED BY <1>1, <2>3, <2>5, <2>6 DEF g, g1, GarbledInv
<1>5. CASE NoteFails
  <2>1. log' = log /\ faults' = faults + 1
    BY <1>5 DEF NoteFails, WriteFails
  <2>2. /\ \A V, k : LinesOf(V, k)' = LinesOf(V, k)
        /\ \A k : RequestsOf(k)' = RequestsOf(k)
        /\ g1 = g
    BY <2>1 DEF LinesOf, RequestsOf, GarbledLines
  <2>3. Spoils \in {0, 1} /\ Spoils' \in {0, 1}
    BY DEF Spoils
  <2> HIDE DEF g, g1
  <2>4. g <= g1 /\ g1 \in Nat /\ faults <= faults' /\ faults' \in Nat
    BY <1>2, <2>1, <2>2
  <2>5. ASSUME GarbledInv PROVE GarbledInv'
    <3> DEFINE b == Spoils
               b1 == Spoils'
    <3>1. g + b <= faults
      BY <2>5 DEF GarbledInv, g
    <3>2. b \in {0, 1} /\ b1 \in {0, 1}
      BY <2>3
    <3> HIDE DEF b, b1
    <3>3. g1 + b1 <= faults'
      BY <1>2, <2>1, <2>2, <3>1, <3>2
    <3> QED BY <3>3 DEF g1, b1, GarbledInv
  <2> QED BY <1>1, <2>2, <2>4, <2>5 DEF g, g1
<1> QED BY <1>3, <1>4, <1>5 DEF Reload, vars

\* The line a thread writes, and where it goes.
LEMMA LogRequestCounts ==
    ASSUME TypeOK, LocalsInv, NEW t \in Threads, LogRequest(t)
    PROVE  /\ pc[t] = "log_request" /\ pc'[t] = "lookup" /\ key[t] \in Keys
           /\ UNCHANGED <<key, verdict, answered, attempts, faults>>
           /\ Spoils \in {0, 1} /\ Spoils' = 0
           /\ Cardinality(GarbledLines)' = Cardinality(GarbledLines) + Spoils
           /\ \A V, k : LinesOf(V, k)' = LinesOf(V, k)
           /\ \A k : k = key[t] => Cardinality(RequestsOf(k))' = Cardinality(RequestsOf(k)) + 1 - Spoils
           /\ \A k : k # key[t] => RequestsOf(k)' = RequestsOf(k)
<1>1. /\ pc[t] = "log_request" /\ pc'[t] = "lookup" /\ Write(RequestLine(key[t]))
      /\ UNCHANGED <<key, verdict, answered, attempts, faults>>
  BY DEF LogRequest, Goto, TypeOK
<1>2. key[t] \in Keys /\ RequestLine(key[t]) \in Lines
  BY <1>1, LineTypes DEF LocalsInv, LocalsOf
<1>3. RequestLine(key[t]).kind = "request" /\ RequestLine(key[t]).key = key[t]
  BY DEF RequestLine
<1>4. \A V, k : LinesOf(V, k)' = LinesOf(V, k)
  BY <1>1, <1>2, <1>3, WriteCounts
<1>5. \A k : k # key[t] => RequestsOf(k)' = RequestsOf(k)
  BY <1>1, <1>2, <1>3, WriteCounts
<1>6. \A k : k = key[t] => Cardinality(RequestsOf(k))' = Cardinality(RequestsOf(k)) + 1 - Spoils
  BY <1>1, <1>2, <1>3, WriteCounts
<1>7. Spoils \in {0, 1} /\ Spoils' = 0 /\ Cardinality(GarbledLines)' = Cardinality(GarbledLines) + Spoils
  BY <1>1, <1>2, <1>3, WriteCounts
<1> QED BY <1>1, <1>2, <1>4, <1>5, <1>6, <1>7

LEMMA LogVerdictCounts ==
    ASSUME TypeOK, LocalsInv, NEW t \in Threads, LogVerdict(t)
    PROVE  /\ pc[t] = "log_verdict" /\ pc'[t] = "reply" /\ verdict[t] \in Verdicts
           /\ key'[t] = key[t] /\ verdict'[t] = verdict[t]
           /\ UNCHANGED <<key, verdict, answered, attempts, faults>>
           /\ Spoils \in {0, 1} /\ Spoils' = 0
           /\ Cardinality(GarbledLines)' = Cardinality(GarbledLines) + Spoils
           /\ \A k : RequestsOf(k)' = RequestsOf(k)
           /\ \A V, k : verdict[t] \in V /\ key[t] = k =>
                 Cardinality(LinesOf(V, k))' = Cardinality(LinesOf(V, k)) + 1 - Spoils
           /\ \A V, k : ~(verdict[t] \in V /\ key[t] = k) => LinesOf(V, k)' = LinesOf(V, k)
<1> DEFINE line == VerdictLine(verdict[t], key[t])
<1>1. /\ pc[t] = "log_verdict" /\ pc'[t] = "reply" /\ Write(line)
      /\ UNCHANGED <<key, verdict, answered, attempts, faults>>
  BY DEF LogVerdict, Goto, TypeOK
<1>2. verdict[t] \in Verdicts /\ line \in Lines
  BY <1>1, LineTypes DEF LocalsInv, LocalsOf, TypeOK
<1>3. line.kind = "verdict" /\ line.verdict = verdict[t] /\ line.key = key[t]
  BY DEF VerdictLine
<1> HIDE DEF line
<1>4. \A k : RequestsOf(k)' = RequestsOf(k)
  BY <1>1, <1>2, <1>3, WriteCounts
<1>5. ASSUME NEW V, NEW k
      PROVE  /\ verdict[t] \in V /\ key[t] = k =>
                   Cardinality(LinesOf(V, k))' = Cardinality(LinesOf(V, k)) + 1 - Spoils
             /\ ~(verdict[t] \in V /\ key[t] = k) => LinesOf(V, k)' = LinesOf(V, k)
  BY <1>1, <1>2, <1>3, WriteCounts
<1>6. Spoils \in {0, 1} /\ Spoils' = 0 /\ Cardinality(GarbledLines)' = Cardinality(GarbledLines) + Spoils
  BY <1>1, <1>2, <1>3, WriteCounts
<1> QED BY <1>1, <1>2, <1>4, <1>5, <1>6

\* A request ends: its thread leaves every set, and the finished lines stay.
LEMMA FinishCounts ==
    ASSUME TypeOK, LocalsInv, NEW t \in Threads, Reply(t) \/ Hangup(t) \/ AppendFails(t)
    PROVE  /\ pc[t] \in {"reply", "log_request", "log_verdict"} /\ pc'[t] = "idle" /\ key'[t] = NoKey
           /\ UNCHANGED <<log, attempts>>
           /\ \A V, k : LinesOf(V, k)' = LinesOf(V, k)
           /\ \A k : RequestsOf(k)' = RequestsOf(k)
           /\ GarbledLines' = GarbledLines
           /\ AppendFails(t) => pc[t] # "reply" /\ faults' = faults + 1
           /\ ~AppendFails(t) => pc[t] = "reply" /\ UNCHANGED <<tail, faults>>
<1>1. Finish(t) /\ UNCHANGED <<log, attempts>>
  BY DEF Reply, Hangup, AppendFails, WriteFails, OnAppendError
<1>2. pc'[t] = "idle" /\ key'[t] = NoKey
  BY <1>1 DEF Finish, Goto, TypeOK
<1>3. \A V, k : LinesOf(V, k)' = LinesOf(V, k)
  BY <1>1 DEF LinesOf
<1>4. (\A k : RequestsOf(k)' = RequestsOf(k)) /\ GarbledLines' = GarbledLines
  BY <1>1 DEF RequestsOf, GarbledLines
<1>5. AppendFails(t) => pc[t] \in {"log_request", "log_verdict"} /\ faults' = faults + 1
  BY DEF AppendFails, WriteFails
<1>6. ~AppendFails(t) => pc[t] = "reply" /\ UNCHANGED <<tail, faults>>
  BY DEF Reply, Hangup
<1> QED BY <1>1, <1>2, <1>3, <1>4, <1>5, <1>6

\* What a thread's response adds to the history.
LEMMA AnsweredStep ==
    ASSUME TypeOK, LocalsInv, NEW t \in Threads, Reply(t) \/ Hangup(t) \/ AppendFails(t)
    PROVE  \A v \in Verdicts, k \in Keys \cup {NoKey} :
              answered'[v, k] = IF Reply(t) /\ verdict[t] = v /\ key[t] = k THEN answered[v, k] + 1 ELSE answered[v, k]
<1> SUFFICES ASSUME NEW v \in Verdicts, NEW k \in Keys \cup {NoKey}
             PROVE  answered'[v, k] = IF Reply(t) /\ verdict[t] = v /\ key[t] = k
                                      THEN answered[v, k] + 1 ELSE answered[v, k]
  OBVIOUS
<1>1. CASE Reply(t)
  <2>1. <<v, k>> \in Answers \X (Keys \cup {NoKey}) /\ answered \in [Answers \X (Keys \cup {NoKey}) -> Nat]
    BY VerdictTypes DEF TypeOK
  <2>2. answered' = [answered EXCEPT ![<<verdict[t], key[t]>>] = @ + 1]
    BY <1>1 DEF Reply
  <2>3. <<verdict[t], key[t]>> \in Answers \X (Keys \cup {NoKey})
    BY <1>1 DEF Reply, LocalsInv, LocalsOf, TypeOK
  <2> QED BY <1>1, <2>1, <2>2, <2>3
<1>2. CASE ~Reply(t)
  BY <1>2 DEF Hangup, AppendFails
<1> QED BY <1>1, <1>2

-----------------------------------------------------------------------------
\* Garbled lines are at most the writes that failed.
LEMMA GarbledStep == TypeOK /\ LocalsInv /\ IdleInv /\ GarbledInv /\ [Next]_vars => GarbledInv'
<1> SUFFICES ASSUME TypeOK, LocalsInv, IdleInv, GarbledInv, [Next]_vars PROVE GarbledInv'
  OBVIOUS
<1> DEFINE G == Cardinality(GarbledLines)
           G1 == Cardinality(GarbledLines)'
           b == Spoils
           b1 == Spoils'
<1>1. G + b <= faults /\ G \in Nat /\ faults \in Nat /\ b \in {0, 1} /\ b1 \in {0, 1}
  BY CountTypes DEF GarbledInv, Spoils, TypeOK
<1>2. ASSUME UNCHANGED <<log, tail, faults>> PROVE GarbledInv'
  BY <1>2 DEF GarbledInv, GarbledLines, Spoils
<1>3. ASSUME NEW t \in Threads, Quiet(t) PROVE GarbledInv'
  BY <1>2, <1>3, QuietKeeps
<1>4. ASSUME NEW t \in Threads, Fetch(t) PROVE GarbledInv'
  BY <1>2, <1>4 DEF Fetch
<1>5. ASSUME NEW t \in Threads, LogRequest(t) \/ LogVerdict(t) PROVE GarbledInv'
  <2>1. b1 = 0 /\ G1 = G + b /\ faults' = faults
    BY <1>5, LogRequestCounts, LogVerdictCounts
  <2> HIDE DEF G, G1, b, b1
  <2>2. G1 + b1 <= faults'
    BY <1>1, <2>1
  <2> QED BY <2>2 DEF G1, b1, GarbledInv
<1>6. ASSUME NEW t \in Threads, Reply(t) \/ Hangup(t) PROVE GarbledInv'
  BY <1>2, <1>6 DEF Reply, Hangup
<1>7. ASSUME NEW t \in Threads, AppendFails(t) PROVE GarbledInv'
  <2>1. G1 = G /\ faults' = faults + 1
    BY <1>7, FinishCounts
  <2> HIDE DEF G, G1, b, b1
  <2>2. G1 + b1 <= faults'
    BY <1>1, <2>1
  <2> QED BY <2>2 DEF G1, b1, GarbledInv
<1>8. ASSUME Reload \/ NoteLoad \/ NoteFails \/ UNCHANGED vars PROVE GarbledInv'
  BY <1>8, LabCounts
<1> QED BY <1>3, <1>4, <1>5, <1>6, <1>7, <1>8, StepCases

\* Responses given and under way never outnumber their lines and the garbled ones.
LEMMA ResponseStep == TypeOK /\ LocalsInv /\ IdleInv /\ ResponseInv /\ [Next]_vars => ResponseInv'
<1> SUFFICES ASSUME TypeOK, LocalsInv, IdleInv, ResponseInv, [Next]_vars,
                    NEW v \in Verdicts, NEW k \in Keys \cup {NoKey}
             PROVE  answered'[v, k] + Cardinality(Waiting(v, k)')
                       <= Cardinality(LinesOf({v}, k)') + Cardinality(GarbledLines)'
  BY DEF ResponseInv
<1> DEFINE W == Waiting(v, k)
           W1 == Waiting(v, k)'
           N == Cardinality(LinesOf({v}, k))
           N1 == Cardinality(LinesOf({v}, k)')
           G == Cardinality(GarbledLines)
           G1 == Cardinality(GarbledLines)'
           a == answered[v, k]
           a1 == answered'[v, k]
           Goal == a1 + Cardinality(W1) <= N1 + G1
<1>1. a + Cardinality(W) <= N + G
  BY DEF ResponseInv
<1>2. a \in Nat /\ Cardinality(W) \in Nat /\ N \in Nat /\ G \in Nat
  <2>1. <<v, k>> \in Answers \X (Keys \cup {NoKey})
    BY VerdictTypes
  <2> QED BY <2>1, CountTypes DEF TypeOK
<1>3. ASSUME NEW t \in Threads, Sandbox(t) \/ Handle(t)
      PROVE  /\ Cardinality(W1) \in Nat
             /\ (t \in W <=> t \in W1) => W1 = W
             /\ t \notin W /\ t \in W1 => Cardinality(W1) = Cardinality(W) + 1
             /\ t \in W /\ t \notin W1 => Cardinality(W) = Cardinality(W1) + 1
  <2>1. W \in SUBSET Threads /\ W1 \in SUBSET Threads
    BY DEF Waiting
  <2>2. W \ {t} = W1 \ {t}
    BY <1>3, SetsFrame
  <2> HIDE DEF W, W1
  <2> QED BY <2>1, <2>2, CountThreads
<1>4. ASSUME NEW t \in Threads, Quiet(t) PROVE Goal
  <2>1. Sandbox(t) \/ Handle(t)
    BY <1>4 DEF Quiet, Sandbox, Handle
  <2>2. t \notin W /\ t \notin W1 /\ UNCHANGED <<log, answered>>
    BY <1>4, QuietKeeps
  <2>3. W1 = W /\ LinesOf({v}, k)' = LinesOf({v}, k) /\ GarbledLines' = GarbledLines
    BY <1>3, <2>1, <2>2 DEF LinesOf, GarbledLines
  <2> QED BY <1>1, <2>2, <2>3
<1>5. ASSUME NEW t \in Threads, LogRequest(t) PROVE Goal
  <2>1. /\ pc[t] = "log_request" /\ pc'[t] = "lookup" /\ answered' = answered
        /\ N1 = N /\ Spoils \in {0, 1} /\ G1 = G + Spoils
    BY <1>5, LogRequestCounts
  <2>3. t \notin W /\ t \notin W1
    BY <2>1, Members
  <2>4. a1 = a
    BY <2>1
  <2>2. W1 = W
    BY <1>3, <1>5, <2>3 DEF Handle
  <2> HIDE DEF W, W1, N, N1, G, G1, a, a1
  <2> QED BY <1>1, <1>2, <2>1, <2>2, <2>4
<1>6. ASSUME NEW t \in Threads, Fetch(t) PROVE Goal
  <2>1. pc[t] = "fetch" /\ pc'[t] = "await" /\ UNCHANGED <<log, answered>>
    BY <1>6 DEF Fetch, Goto, TypeOK
  <2>2. W1 = W /\ LinesOf({v}, k)' = LinesOf({v}, k) /\ GarbledLines' = GarbledLines
    BY <1>3, <1>6, <2>1, Members DEF Handle, LinesOf, GarbledLines
  <2> QED BY <1>1, <2>1, <2>2
<1>7. ASSUME NEW t \in Threads, LogVerdict(t) PROVE Goal
  <2>1. a1 = a /\ t \notin W /\ Spoils \in {0, 1} /\ G1 = G + Spoils
    BY <1>7, LogVerdictCounts, Members
  <2>2. CASE verdict[t] = v /\ key[t] = k
    <3>1. t \in W1
      BY <1>7, <2>2, LogVerdictCounts, Members
    <3>2. N1 = N + 1 - Spoils
      BY <1>7, <2>2, LogVerdictCounts
    <3>3. Cardinality(W1) = Cardinality(W) + 1
      BY <1>3, <1>7, <2>1, <3>1 DEF Handle
    <3> HIDE DEF W, W1, N, N1, G, G1, a, a1
    <3> QED BY <1>1, <1>2, <2>1, <3>2, <3>3
  <2>3. CASE ~(verdict[t] = v /\ key[t] = k)
    <3>1. t \notin W1
      BY <1>7, <2>3, LogVerdictCounts, Members
    <3>2. N1 = N
      BY <1>7, <2>3, LogVerdictCounts
    <3>3. W1 = W
      BY <1>3, <1>7, <2>1, <3>1 DEF Handle
    <3> HIDE DEF W, W1, N, N1, G, G1, a, a1
    <3> QED BY <1>1, <1>2, <2>1, <3>2, <3>3
  <2> QED BY <2>2, <2>3
<1>8. ASSUME NEW t \in Threads, Reply(t) \/ Hangup(t) \/ AppendFails(t) PROVE Goal
  <2>1. t \notin W1 /\ N1 = N /\ G1 = G
    BY <1>8, FinishCounts, Members
  <2>2. a1 = IF Reply(t) /\ verdict[t] = v /\ key[t] = k THEN a + 1 ELSE a
    BY <1>8, AnsweredStep
  <2>3. Reply(t) /\ verdict[t] = v /\ key[t] = k => t \in W
    BY Members DEF Reply
  <2>4. /\ Cardinality(W1) \in Nat
        /\ t \notin W => W1 = W
        /\ t \in W => Cardinality(W) = Cardinality(W1) + 1
    BY <1>3, <1>8, <2>1 DEF Handle, Sandbox
  <2> HIDE DEF W, W1, N, N1, G, G1, a, a1
  <2> QED BY <1>1, <1>2, <2>1, <2>2, <2>3, <2>4
<1>9. ASSUME Reload \/ NoteLoad \/ NoteFails \/ UNCHANGED vars PROVE Goal
  <2>1. /\ UNCHANGED <<pc, key, verdict, answered>> /\ LinesOf({v}, k)' = LinesOf({v}, k)
        /\ G <= G1 /\ G1 \in Nat
    BY <1>9, LabCounts
  <2>2. W1 = W /\ N1 = N /\ a1 = a
    BY <2>1 DEF Waiting
  <2> HIDE DEF W, W1, N, N1, G, G1, a, a1
  <2> QED BY <1>1, <1>2, <2>1, <2>2
<1> QED BY <1>4, <1>5, <1>6, <1>7, <1>8, <1>9, StepCases

\* Requests and verdicts balance up to the threads between the two and the lines lost.
LEMMA DecisionStep == TypeOK /\ LocalsInv /\ IdleInv /\ RequestsHaveOneVerdict /\ [Next]_vars => RequestsHaveOneVerdict'
<1> SUFFICES ASSUME TypeOK, LocalsInv, IdleInv, RequestsHaveOneVerdict, [Next]_vars, NEW k \in Keys
             PROVE  /\ Cardinality(LinesOf(Verdicts, k)') + Cardinality(Open(k)')
                           <= Cardinality(RequestsOf(k)') + Cardinality(GarbledLines)'
                    /\ Cardinality(RequestsOf(k)') <= Cardinality(LinesOf(Verdicts, k)') + Cardinality(Open(k)')
                           + Cardinality(GarbledLines)' + faults'
  BY DEF RequestsHaveOneVerdict, Open
<1> DEFINE W == Open(k)
           W1 == Open(k)'
           N == Cardinality(LinesOf(Verdicts, k))
           N1 == Cardinality(LinesOf(Verdicts, k)')
           R == Cardinality(RequestsOf(k))
           R1 == Cardinality(RequestsOf(k)')
           G == Cardinality(GarbledLines)
           G1 == Cardinality(GarbledLines)'
           Goal == N1 + Cardinality(W1) <= R1 + G1 /\ R1 <= N1 + Cardinality(W1) + G1 + faults'
<1>1. N + Cardinality(W) <= R + G /\ R <= N + Cardinality(W) + G + faults
  BY DEF RequestsHaveOneVerdict, Open
<1>2. R \in Nat /\ Cardinality(W) \in Nat /\ N \in Nat /\ G \in Nat /\ faults \in Nat
  BY CountTypes DEF TypeOK
<1>3. ASSUME NEW t \in Threads, Sandbox(t) \/ Handle(t)
      PROVE  /\ Cardinality(W1) \in Nat
             /\ (t \in W <=> t \in W1) => W1 = W
             /\ t \notin W /\ t \in W1 => Cardinality(W1) = Cardinality(W) + 1
             /\ t \in W /\ t \notin W1 => Cardinality(W) = Cardinality(W1) + 1
  <2>1. W \in SUBSET Threads /\ W1 \in SUBSET Threads
    BY DEF Open
  <2>2. W \ {t} = W1 \ {t}
    BY <1>3, SetsFrame
  <2> HIDE DEF W, W1
  <2> QED BY <2>1, <2>2, CountThreads
<1>4. ASSUME NEW t \in Threads, Quiet(t) PROVE Goal
  <2>1. Sandbox(t) \/ Handle(t)
    BY <1>4 DEF Quiet, Sandbox, Handle
  <2>2. (t \in W <=> t \in W1) /\ UNCHANGED <<log, attempts, faults>>
    BY <1>4, QuietKeeps
  <2>3. W1 = W /\ N1 = N /\ R1 = R /\ G1 = G
    BY <1>3, <2>1, <2>2 DEF LinesOf, RequestsOf, GarbledLines
  <2> QED BY <1>1, <2>2, <2>3
<1>5. ASSUME NEW t \in Threads, LogRequest(t) PROVE Goal
  <2>1. /\ N1 = N /\ faults' = faults /\ t \notin W /\ (t \in W1 <=> key[t] = k)
        /\ Spoils \in {0, 1} /\ G1 = G + Spoils
    BY <1>5, LogRequestCounts, Members
  <2>2. CASE key[t] = k
    <3>1. R1 = R + 1 - Spoils
      BY <1>5, <2>2, LogRequestCounts
    <3>2. Cardinality(W1) = Cardinality(W) + 1
      BY <1>3, <1>5, <2>1, <2>2 DEF Handle
    <3> HIDE DEF W, W1, N, N1, R, R1, G, G1
    <3> QED BY <1>1, <1>2, <2>1, <3>1, <3>2
  <2>3. CASE key[t] # k
    <3>1. R1 = R
      BY <1>5, <2>3, LogRequestCounts
    <3>2. W1 = W
      BY <1>3, <1>5, <2>1, <2>3 DEF Handle
    <3> HIDE DEF W, W1, N, N1, R, R1, G, G1
    <3> QED BY <1>1, <1>2, <2>1, <3>1, <3>2
  <2> QED BY <2>2, <2>3
<1>6. ASSUME NEW t \in Threads, Fetch(t) PROVE Goal
  <2>1. pc[t] = "fetch" /\ pc'[t] = "await" /\ UNCHANGED <<key, log, faults>>
    BY <1>6 DEF Fetch, Goto, TypeOK
  <2>2. W1 = W /\ N1 = N /\ R1 = R /\ G1 = G
    BY <1>3, <1>6, <2>1, Members DEF Handle, LinesOf, RequestsOf, GarbledLines
  <2> QED BY <1>1, <2>1, <2>2
<1>7. ASSUME NEW t \in Threads, LogVerdict(t) PROVE Goal
  <2>1. /\ R1 = R /\ faults' = faults /\ t \notin W1 /\ (t \in W <=> key[t] = k)
        /\ Spoils \in {0, 1} /\ G1 = G + Spoils
    BY <1>7, LogVerdictCounts, Members
  <2>2. CASE key[t] = k
    <3>1. N1 = N + 1 - Spoils
      BY <1>7, <2>2, LogVerdictCounts
    <3>2. Cardinality(W) = Cardinality(W1) + 1 /\ Cardinality(W1) \in Nat
      BY <1>3, <1>7, <2>1, <2>2 DEF Handle
    <3> HIDE DEF W, W1, N, N1, R, R1, G, G1
    <3> QED BY <1>1, <1>2, <2>1, <3>1, <3>2
  <2>3. CASE key[t] # k
    <3>1. N1 = N
      BY <1>7, <2>3, LogVerdictCounts
    <3>2. W1 = W
      BY <1>3, <1>7, <2>1, <2>3 DEF Handle
    <3> HIDE DEF W, W1, N, N1, R, R1, G, G1
    <3> QED BY <1>1, <1>2, <2>1, <3>1, <3>2
  <2> QED BY <2>2, <2>3
<1>8. ASSUME NEW t \in Threads, Reply(t) \/ Hangup(t) \/ AppendFails(t) PROVE Goal
  <2>1. N1 = N /\ R1 = R /\ G1 = G
    BY <1>8, FinishCounts
  <2>2. t \notin W1
    BY <1>8, FinishCounts, Members, SentinelAssumption
  <2>3. ~AppendFails(t) => t \notin W /\ faults' = faults
    BY <1>8, FinishCounts, Members
  <2>4. AppendFails(t) => faults' = faults + 1
    BY <1>8, FinishCounts
  <2>5. /\ Cardinality(W1) \in Nat
        /\ t \notin W => W1 = W
        /\ t \in W => Cardinality(W) = Cardinality(W1) + 1
    BY <1>3, <1>8, <2>2 DEF Handle, Sandbox
  <2> HIDE DEF W, W1, N, N1, R, R1, G, G1
  <2> QED BY <1>1, <1>2, <2>1, <2>3, <2>4, <2>5
<1>9. ASSUME Reload \/ NoteLoad \/ NoteFails \/ UNCHANGED vars PROVE Goal
  <2>1. /\ UNCHANGED <<pc, key, verdict, attempts>> /\ N1 = N /\ R1 = R
        /\ G <= G1 /\ G1 \in Nat /\ faults <= faults' /\ faults' \in Nat
    BY <1>9, LabCounts
  <2>2. W1 = W
    BY <2>1 DEF Open
  <2> HIDE DEF W, W1, N, N1, R, R1, G, G1
  <2> QED BY <1>1, <1>2, <2>1, <2>2
<1> QED BY <1>4, <1>5, <1>6, <1>7, <1>8, <1>9, StepCases

\* Fetches and the verdicts that tell of them balance up to the threads between
\* and the lines lost.
LEMMA AttemptStep == TypeOK /\ LocalsInv /\ IdleInv /\ AttemptsHaveEvidence /\ [Next]_vars => AttemptsHaveEvidence'
<1> SUFFICES ASSUME TypeOK, LocalsInv, IdleInv, AttemptsHaveEvidence, [Next]_vars, NEW k \in Keys
             PROVE  /\ Cardinality(LinesOf(UpstreamVerdicts, k)') + Cardinality(Spent(k)') <= attempts'[k]
                    /\ attempts'[k] <= Cardinality(LinesOf(UpstreamVerdicts, k)') + Cardinality(Spent(k)')
                           + Cardinality(GarbledLines)' + faults'
  BY DEF AttemptsHaveEvidence, Spent
<1> DEFINE W == Spent(k)
           W1 == Spent(k)'
           N == Cardinality(LinesOf(UpstreamVerdicts, k))
           N1 == Cardinality(LinesOf(UpstreamVerdicts, k)')
           R == attempts[k]
           R1 == attempts'[k]
           G == Cardinality(GarbledLines)
           G1 == Cardinality(GarbledLines)'
           Goal == N1 + Cardinality(W1) <= R1 /\ R1 <= N1 + Cardinality(W1) + G1 + faults'
<1>1. N + Cardinality(W) <= R /\ R <= N + Cardinality(W) + G + faults
  BY DEF AttemptsHaveEvidence, Spent
<1>2. R \in Nat /\ Cardinality(W) \in Nat /\ N \in Nat /\ G \in Nat /\ faults \in Nat
  BY CountTypes DEF TypeOK
<1>3. ASSUME NEW t \in Threads, Sandbox(t) \/ Handle(t)
      PROVE  /\ Cardinality(W1) \in Nat
             /\ (t \in W <=> t \in W1) => W1 = W
             /\ t \notin W /\ t \in W1 => Cardinality(W1) = Cardinality(W) + 1
             /\ t \in W /\ t \notin W1 => Cardinality(W) = Cardinality(W1) + 1
  <2>1. W \in SUBSET Threads /\ W1 \in SUBSET Threads
    BY DEF Spent
  <2>2. W \ {t} = W1 \ {t}
    BY <1>3, SetsFrame
  <2> HIDE DEF W, W1
  <2> QED BY <2>1, <2>2, CountThreads
<1>4. ASSUME NEW t \in Threads, Quiet(t) PROVE Goal
  <2>1. Sandbox(t) \/ Handle(t)
    BY <1>4 DEF Quiet, Sandbox, Handle
  <2>2. (t \in W <=> t \in W1) /\ UNCHANGED <<log, attempts, faults>>
    BY <1>4, QuietKeeps
  <2>3. W1 = W /\ N1 = N /\ R1 = R /\ G1 = G
    BY <1>3, <2>1, <2>2 DEF LinesOf, GarbledLines
  <2> QED BY <1>1, <2>2, <2>3
<1>5. ASSUME NEW t \in Threads, LogRequest(t) PROVE Goal
  <2>1. /\ N1 = N /\ R1 = R /\ faults' = faults /\ t \notin W /\ t \notin W1
        /\ Spoils \in {0, 1} /\ G1 = G + Spoils
    BY <1>5, LogRequestCounts, Members
  <2>2. W1 = W
    BY <1>3, <1>5, <2>1 DEF Handle
  <2> HIDE DEF W, W1, N, N1, R, R1, G, G1
  <2> QED BY <1>1, <1>2, <2>1, <2>2
<1>6. ASSUME NEW t \in Threads, Fetch(t) PROVE Goal
  <2>1. /\ pc[t] = "fetch" /\ pc'[t] = "await" /\ UNCHANGED <<key, log, faults>>
        /\ attempts' = [attempts EXCEPT ![key[t]] = @ + 1] /\ key[t] \in Keys
    BY <1>6 DEF Fetch, Goto, TypeOK, LocalsInv, LocalsOf, HoldsPin
  <2>2. N1 = N /\ G1 = G /\ t \notin W /\ (t \in W1 <=> key[t] = k)
    BY <2>1, Members DEF LinesOf, GarbledLines
  <2>3. CASE key[t] = k
    <3>1. R1 = R + 1
      BY <2>1, <2>3 DEF TypeOK
    <3>2. Cardinality(W1) = Cardinality(W) + 1
      BY <1>3, <1>6, <2>2, <2>3 DEF Handle
    <3> HIDE DEF W, W1, N, N1, R, R1, G, G1
    <3> QED BY <1>1, <1>2, <2>1, <2>2, <3>1, <3>2
  <2>4. CASE key[t] # k
    <3>1. R1 = R
      BY <2>1, <2>4 DEF TypeOK
    <3>2. W1 = W
      BY <1>3, <1>6, <2>2, <2>4 DEF Handle
    <3> HIDE DEF W, W1, N, N1, R, R1, G, G1
    <3> QED BY <1>1, <1>2, <2>1, <2>2, <3>1, <3>2
  <2> QED BY <2>3, <2>4
<1>7. ASSUME NEW t \in Threads, LogVerdict(t) PROVE Goal
  <2>1. /\ R1 = R /\ faults' = faults /\ t \notin W1
        /\ (t \in W <=> key[t] = k /\ verdict[t] \in UpstreamVerdicts)
        /\ Spoils \in {0, 1} /\ G1 = G + Spoils
    BY <1>7, LogVerdictCounts, Members
  <2>2. CASE key[t] = k /\ verdict[t] \in UpstreamVerdicts
    <3>1. N1 = N + 1 - Spoils
      BY <1>7, <2>2, LogVerdictCounts
    <3>2. Cardinality(W) = Cardinality(W1) + 1 /\ Cardinality(W1) \in Nat
      BY <1>3, <1>7, <2>1, <2>2 DEF Handle
    <3> HIDE DEF W, W1, N, N1, R, R1, G, G1
    <3> QED BY <1>1, <1>2, <2>1, <3>1, <3>2
  <2>3. CASE ~(key[t] = k /\ verdict[t] \in UpstreamVerdicts)
    <3>1. N1 = N
      BY <1>7, <2>3, LogVerdictCounts
    <3>2. W1 = W
      BY <1>3, <1>7, <2>1, <2>3 DEF Handle
    <3> HIDE DEF W, W1, N, N1, R, R1, G, G1
    <3> QED BY <1>1, <1>2, <2>1, <3>1, <3>2
  <2> QED BY <2>2, <2>3
<1>8. ASSUME NEW t \in Threads, Reply(t) \/ Hangup(t) \/ AppendFails(t) PROVE Goal
  <2>1. N1 = N /\ R1 = R /\ G1 = G
    BY <1>8, FinishCounts
  <2>2. t \notin W1
    BY <1>8, FinishCounts, Members, SentinelAssumption
  <2>3. ~AppendFails(t) => t \notin W /\ faults' = faults
    BY <1>8, FinishCounts, Members
  <2>4. AppendFails(t) => faults' = faults + 1
    BY <1>8, FinishCounts
  <2>5. /\ Cardinality(W1) \in Nat
        /\ t \notin W => W1 = W
        /\ t \in W => Cardinality(W) = Cardinality(W1) + 1
    BY <1>3, <1>8, <2>2 DEF Handle, Sandbox
  <2> HIDE DEF W, W1, N, N1, R, R1, G, G1
  <2> QED BY <1>1, <1>2, <2>1, <2>3, <2>4, <2>5
<1>9. ASSUME Reload \/ NoteLoad \/ NoteFails \/ UNCHANGED vars PROVE Goal
  <2>1. /\ UNCHANGED <<pc, key, verdict, attempts>> /\ N1 = N /\ R1 = R
        /\ G <= G1 /\ G1 \in Nat /\ faults <= faults' /\ faults' \in Nat
    BY <1>9, LabCounts
  <2>2. W1 = W
    BY <2>1 DEF Spent
  <2> HIDE DEF W, W1, N, N1, R, R1, G, G1
  <2> QED BY <1>1, <1>2, <2>1, <2>2
<1> QED BY <1>4, <1>5, <1>6, <1>7, <1>8, <1>9, StepCases

-----------------------------------------------------------------------------
\* No line of a verdict, no request and no thread at work at first.
LEMMA InitCounts ==
    ASSUME Init
    PROVE  /\ \A V, k : Cardinality(LinesOf(V, k)) = 0
           /\ \A k : Cardinality(RequestsOf(k)) = 0
           /\ Cardinality(GarbledLines) = 0
           /\ \A v, k : Cardinality(Waiting(v, k)) = 0
           /\ \A k \in Keys : Cardinality(Open(k)) = 0 /\ Cardinality(Spent(k)) = 0
<1>1. \A i \in DOMAIN log : log[i].kind = "note"
  BY DEF Init, NoteLine
<1>2. ASSUME NEW V, NEW k PROVE LinesOf(V, k) = {} /\ RequestsOf(k) = {}
  BY <1>1 DEF LinesOf, RequestsOf
<1>6. GarbledLines = {}
  BY <1>1 DEF GarbledLines
<1>3. \A t \in Threads : pc[t] = "idle" /\ key[t] = NoKey
  BY DEF Init
<1>4. ASSUME NEW v, NEW k PROVE Waiting(v, k) = {}
  BY <1>3 DEF Waiting
<1>5. ASSUME NEW k \in Keys PROVE Open(k) = {} /\ Spent(k) = {}
  BY <1>3, SentinelAssumption DEF Open, Spent
<1> QED BY <1>2, <1>4, <1>5, <1>6, FS_EmptySet

EvidenceInv == IdleInv /\ GarbledInv /\ ResponseInv /\ RequestsHaveOneVerdict /\ AttemptsHaveEvidence

LEMMA InitEvidence == Init => EvidenceInv
<1> SUFFICES ASSUME Init PROVE EvidenceInv
  OBVIOUS
<1>1. IdleInv
  BY DEF Init, IdleInv
<1>2. ResponseInv
  <2>1. \A v \in Verdicts, k \in Keys \cup {NoKey} : answered[v, k] = 0
    BY VerdictTypes DEF Init
  <2>2. ASSUME NEW v \in Verdicts, NEW k \in Keys \cup {NoKey}
        PROVE  answered[v, k] + Cardinality(Waiting(v, k)) <= Cardinality(LinesOf({v}, k)) + Cardinality(GarbledLines)
    <3> DEFINE a == answered[v, k]
               w == Cardinality(Waiting(v, k))
               n == Cardinality(LinesOf({v}, k))
               g == Cardinality(GarbledLines)
    <3>1. a = 0 /\ w = 0 /\ n = 0 /\ g = 0
      BY <2>1, InitCounts
    <3> HIDE DEF a, w, n, g
    <3>2. a + w <= n + g
      BY <3>1
    <3> QED BY <3>2 DEF a, w, n, g
  <2> QED BY <2>2 DEF ResponseInv
<1>5. faults = 0 /\ GarbledInv
  <2> DEFINE g == Cardinality(GarbledLines)
             b == Spoils
  <2>1. faults = 0 /\ b = 0
    BY DEF Init, Spoils
  <2>2. g = 0
    BY InitCounts
  <2> HIDE DEF g, b
  <2>3. g + b <= faults
    BY <2>1, <2>2
  <2> QED BY <2>1, <2>3 DEF g, b, GarbledInv
<1>3. RequestsHaveOneVerdict
  BY <1>5, InitCounts DEF RequestsHaveOneVerdict, Open
<1>4. AttemptsHaveEvidence
  <2>1. \A k \in Keys : attempts[k] = 0
    BY DEF Init
  <2> QED BY <1>5, <2>1, InitCounts DEF AttemptsHaveEvidence, Spent
<1> QED BY <1>1, <1>2, <1>3, <1>4, <1>5 DEF EvidenceInv

LEMMA EvidenceInductive == PinsAgree => (Spec => []EvidenceInv)
<1> SUFFICES ASSUME PinsAgree PROVE Spec => []EvidenceInv
  OBVIOUS
<1>1. IInv /\ EvidenceInv /\ [Next]_vars => EvidenceInv'
  BY IdleStep, GarbledStep, ResponseStep, DecisionStep, AttemptStep DEF IInv, EvidenceInv
<1> QED BY Inductive, InitEvidence, <1>1, PTL DEF Spec

\* A response never runs ahead of its evidence, over every interleaving of the
\* threads and whichever writes fail: what a response lacks in lines of its
\* verdict the transcript shows as lines that cannot be read, one per write
\* that failed at most.
THEOREM ResponsesAreLogged == PinsAgree => (Spec => []AnswersHaveEvidence)
<1> SUFFICES ASSUME PinsAgree PROVE Spec => []AnswersHaveEvidence
  OBVIOUS
<1> DEFINE g == Cardinality(GarbledLines)
<1>1. TypeOK /\ ResponseInv =>
         \A v \in Verdicts, k \in Keys \cup {NoKey} : answered[v, k] <= Cardinality(LinesOf({v}, k)) + g
  <2> SUFFICES ASSUME TypeOK, ResponseInv, NEW v \in Verdicts, NEW k \in Keys \cup {NoKey}
               PROVE  answered[v, k] <= Cardinality(LinesOf({v}, k)) + g
    OBVIOUS
  <2>1. answered[v, k] + Cardinality(Waiting(v, k)) <= Cardinality(LinesOf({v}, k)) + g
    BY DEF ResponseInv
  <2>2. <<v, k>> \in Answers \X (Keys \cup {NoKey})
    BY VerdictTypes
  <2>3. answered[v, k] \in Nat /\ Cardinality(Waiting(v, k)) \in Nat /\ Cardinality(LinesOf({v}, k)) \in Nat
    BY <2>2, CountTypes DEF TypeOK
  <2> DEFINE a == answered[v, k]
             w == Cardinality(Waiting(v, k))
             n == Cardinality(LinesOf({v}, k))
  <2>4. a + w <= n + g /\ a \in Nat /\ w \in Nat /\ n \in Nat /\ g \in Nat
    BY <2>1, <2>3, CountTypes
  <2> HIDE DEF a, w, n, g
  <2>5. a <= n + g
    BY <2>4
  <2> QED BY <2>5 DEF a, n
<1>2. TypeOK /\ GarbledInv => g <= faults
  <2> SUFFICES ASSUME TypeOK, GarbledInv PROVE g <= faults
    OBVIOUS
  <2>1. g + Spoils <= faults /\ g \in Nat /\ faults \in Nat /\ Spoils \in {0, 1}
    BY CountTypes DEF GarbledInv, Spoils, TypeOK
  <2> HIDE DEF g
  <2> QED BY <2>1
<1>3. IInv /\ EvidenceInv => AnswersHaveEvidence
  BY <1>1, <1>2 DEF IInv, EvidenceInv, AnswersHaveEvidence
<1> QED BY Inductive, EvidenceInductive, <1>3, PTL

\* Every request of the transcript has one verdict or a thread at work on it, up
\* to the lines that failed writes lost and those that they garbled.
THEOREM OneVerdictEach == PinsAgree => (Spec => []RequestsHaveOneVerdict)
<1> SUFFICES ASSUME PinsAgree PROVE Spec => []RequestsHaveOneVerdict
  OBVIOUS
<1>1. EvidenceInv => RequestsHaveOneVerdict
  BY DEF EvidenceInv
<1> QED BY EvidenceInductive, <1>1, PTL

\* "Every upstream attempt is a transcript verdict": what the broker fetched is
\* what its transcript tells of, up to the fetches under way and the lines lost.
THEOREM FetchesAreTold == PinsAgree => (Spec => []AttemptsHaveEvidence)
<1> SUFFICES ASSUME PinsAgree PROVE Spec => []AttemptsHaveEvidence
  OBVIOUS
<1>1. EvidenceInv => AttemptsHaveEvidence
  BY DEF EvidenceInv
<1> QED BY EvidenceInductive, <1>1, PTL

-----------------------------------------------------------------------------
\* The lines a reader gets.
LEMMA FileType == TypeOK => File \in Seq(Lines)
<1> SUFFICES ASSUME TypeOK PROVE File \in Seq(Lines)
  OBVIOUS
<1>1. log \in Seq(Lines) /\ (tail # NoLine => tail \in Lines)
  BY DEF TypeOK
<1>2. tail # NoLine => Append(log, tail) \in Seq(Lines)
  BY <1>1, AppendProperties
<1> QED BY <1>1, <1>2 DEF File

LEMMA FileGrows ==
    ASSUME TypeOK, NEW line \in Lines, File' = Append(File, line)
    PROVE  /\ Len(File) \in Nat /\ DOMAIN File = 1 .. Len(File) /\ DOMAIN File' = 1 .. Len(File) + 1
           /\ Len(File') = Len(File) + 1 /\ File' \in Seq(Lines)
           /\ File'[Len(File) + 1] = line /\ \A i \in 1 .. Len(File) : File'[i] = File[i]
<1>1. File \in Seq(Lines)
  BY FileType
<1>2. /\ File' \in Seq(Lines) /\ Len(File') = Len(File) + 1 /\ File'[Len(File) + 1] = line
      /\ \A i \in 1 .. Len(File) : File'[i] = File[i]
  BY <1>1, AppendProperties
<1> QED BY <1>1, <1>2

\* A step that writes nothing leaves the lines,
LEMMA FileKept ==
    ASSUME log' = log, tail' = tail
    PROVE  File' = File /\ (Readable' => Readable)
<1>1. File' = File
  BY DEF File
<1> QED BY <1>1 DEF Readable

\* and a line that spoils none is one more of them: the file was readable before.
LEMMA FileAppended ==
    ASSUME TypeOK, NEW line \in Lines, File' = Append(File, line), Readable'
    PROVE  Readable
<1>1. /\ DOMAIN File = 1 .. Len(File) /\ DOMAIN File' = 1 .. Len(File) + 1 /\ Len(File) \in Nat
      /\ \A i \in 1 .. Len(File) : File'[i] = File[i]
  BY FileGrows
<1> QED BY <1>1 DEF Readable

\* A line written to a file that can still be read: it follows the others.
LEMMA FileWritten ==
    ASSUME TypeOK, NEW line \in Lines, Write(line), Readable'
    PROVE  File' = Append(File, line) /\ Readable
<1>1. log \in Seq(Lines) /\ tail' = NoLine /\ File' = log'
  BY DEF TypeOK, Write, File
<1>2. CASE tail # NoLine
  <2>1. log' = Append(log, Garbled)
    BY <1>2 DEF Write
  <2>2. Len(log) + 1 \in DOMAIN log' /\ log'[Len(log) + 1] = Garbled
    BY <2>1, LineTypes, LogGrows
  <2> QED BY <1>1, <2>2, LineTypes DEF Readable
<1>3. CASE tail = NoLine
  <2>1. File' = Append(File, line)
    BY <1>1, <1>3 DEF Write, File
  <2> QED BY <2>1, FileAppended
<1> QED BY <1>2, <1>3

\* A write that fails and leaves a file that can be read: it left nothing, or the
\* line without its newline.
LEMMA FileWriteFailed ==
    ASSUME TypeOK, NEW line \in Lines, WriteFails(line), Readable'
    PROVE  (File' = File \/ File' = Append(File, line)) /\ Readable
<1>1. log \in Seq(Lines) /\ log' = log
  BY DEF TypeOK, WriteFails
<1>2. CASE tail' = Garbled
  <2>1. Garbled # NoLine
    BY LineTypes
  <2>2. File' = Append(log, Garbled)
    BY <1>1, <1>2, <2>1 DEF File
  <2>3. Len(log) + 1 \in DOMAIN File' /\ File'[Len(log) + 1] = Garbled
    BY <1>1, <2>2, LineTypes, AppendProperties
  <2> QED BY <2>3, LineTypes DEF Readable
<1>3. CASE tail' = tail
  BY <1>1, <1>3, FileKept
<1>4. CASE tail = NoLine /\ tail' = line
  <2>1. line # NoLine
    BY LineTypes
  <2>2. File' = Append(File, line)
    BY <1>1, <1>4, <2>1 DEF File
  <2> QED BY <2>2, FileAppended
<1> QED BY <1>2, <1>3, <1>4 DEF WriteFails

\* LastNote as an operator of the set of notes.
LastOf(notes) == IF notes = {} THEN 0 ELSE CHOOSE j \in notes : \A m \in notes : m <= j

LEMMA LastNoteIs ==
    ASSUME NEW i
    PROVE  /\ LastNote(i) = LastOf({j \in 1 .. i : File[j].kind = "note"})
           /\ LastNote(i)' = LastOf({j \in 1 .. i : File'[j].kind = "note"})
<1>1. LastNote(i) = LastOf({j \in 1 .. i : File[j].kind = "note"})
  BY Zenon DEF LastNote, LastOf
<1>2. LastNote(i)' = LastOf({j \in 1 .. i : File'[j].kind = "note"})
  BY Zenon DEF LastNote, LastOf
<1> QED BY <1>1, <1>2

\* The last note before a line is not changed by later lines,
LEMMA LastNoteKept ==
    ASSUME TypeOK, NEW line \in Lines, File' = Append(File, line), NEW i \in Nat, i <= Len(File)
    PROVE  LastNote(i)' = LastNote(i)
<1>1. \A j \in 1 .. i : File'[j] = File[j]
  BY FileGrows
<1>2. {j \in 1 .. i : File'[j].kind = "note"} = {j \in 1 .. i : File[j].kind = "note"}
  BY <1>1
<1> QED BY <1>2, LastNoteIs, Zenon

\* nor, for the end of the transcript, by a line that is no note,
LEMMA LastNoteSkips ==
    ASSUME TypeOK, NEW line \in Lines, File' = Append(File, line), NEW n \in Nat, n = Len(File), line.kind # "note"
    PROVE  LastNote(n + 1)' = LastNote(n)
<1>1. File'[n + 1] = line /\ \A j \in 1 .. n : File'[j] = File[j]
  BY FileGrows
<1>2. {j \in 1 .. n + 1 : File'[j].kind = "note"} = {j \in 1 .. n : File[j].kind = "note"}
  <2>1. \A j \in 1 .. n + 1 : j = n + 1 \/ j \in 1 .. n
    OBVIOUS
  <2> QED BY <1>1, <2>1
<1> QED BY <1>2, LastNoteIs, Zenon

\* and a note is the last one itself.
LEMMA LastNoteHere ==
    ASSUME TypeOK, NEW line \in Lines, File' = Append(File, line), NEW n \in Nat, n = Len(File), line.kind = "note"
    PROVE  LastNote(n + 1)' = n + 1
<1> DEFINE notes == {j \in 1 .. n + 1 : File'[j].kind = "note"}
<1>1. n + 1 \in notes
  BY FileGrows
<1>2. \A j \in notes : j <= n + 1 /\ j \in Int
  OBVIOUS
<1>3. LastNote(n + 1)' = IF notes = {} THEN 0 ELSE CHOOSE j \in notes : \A m \in notes : m <= j
  BY Zenon DEF LastNote
<1>4. (CHOOSE j \in notes : \A m \in notes : m <= j) = n + 1
  <2> HIDE DEF notes
  <2>1. \A j \in notes : (\A m \in notes : m <= j) => j = n + 1
    BY <1>1, <1>2
  <2>2. \A m \in notes : m <= n + 1
    BY <1>2
  <2> QED BY <1>1, <2>1, <2>2
<1> QED BY <1>1, <1>3, <1>4

-----------------------------------------------------------------------------
\* What the place of a thread says about the lockfile in force, when the lab
\* reloads between runs.
AgreesOf(t) ==
    /\ loading => pc[t] = "idle"
    /\ pc[t] \in {"cache", "gate", "fetch", "await", "check"} => Pins(lockfile, key[t])
    /\ pc[t] = "log_verdict" /\ key[t] \in Keys => (Pins(lockfile, key[t]) <=> verdict[t] # "lockfile_miss")
    /\ pc[t] = "log_verdict" /\ key[t] \notin Keys => verdict[t] # "lockfile_miss"
AgreesInv == ReloadBetweenRuns => \A t \in Threads : AgreesOf(t)

\* The transcript can be read and no reload raised: what the lines say of the
\* lockfile in force is stated of this case.
Accounted == Readable /\ ~unnoted

\* The last note before a line is a line before it.
NotesInv == \A i \in 0 .. Len(File) : LastNote(i) \in 0 .. i

\* The last note names the lockfile in force, but while a reload is under way.
NotedInv ==
    ReloadBetweenRuns /\ NotedAtStart /\ ~loading =>
        LastNote(Len(File)) # 0 /\ File[LastNote(Len(File))].lockfile = lockfile

\* The misses logged under the lockfile in force.
MissesInv ==
    ReloadBetweenRuns /\ ~loading =>
        \A i \in DOMAIN File : i > LastNote(Len(File)) /\ File[i].kind = "verdict" /\ File[i].verdict = "lockfile_miss" =>
            ~Pins(lockfile, File[i].key)

\* Each verdict agrees with the lockfile that the last note before it names.
VerdictsAgree ==
    ReloadBetweenRuns /\ NotedAtStart =>
        \A i \in DOMAIN File : File[i].kind = "verdict" /\ File[i].key \in Keys =>
            /\ LastNote(i) # 0
            /\ (Pins(File[LastNote(i)].lockfile, File[i].key) <=> File[i].verdict # "lockfile_miss")

LinesInv == NotesInv /\ NotedInv /\ MissesInv /\ VerdictsAgree
NamesInv == AgreesInv /\ (Accounted => LinesInv)

\* A thread at work keeps reloads away, so that the lockfile it read is in force.
LEMMA ServesNoReload ==
    ASSUME ReloadBetweenRuns, AgreesInv, NEW t \in Threads, Sandbox(t) \/ Handle(t)
    PROVE  ~loading /\ UNCHANGED <<lockfile, loading, unnoted>>
<1>1. pc[t] # "idle" => ~loading
  BY DEF AgreesInv, AgreesOf
<1>2. UNCHANGED <<lockfile, loading, unnoted>>
  BY DEF Sandbox, Handle, lab, TakeLine, ReadNotJson, ReadBadRequest, ReadRequest, LogRequest,
         Lookup, CacheLookup, Gate, Fetch, UpstreamFails, UpstreamAnswers, Check, LogVerdict,
         Reply, Hangup, AppendFails
<1>3. pc[t] = "idle" => ~loading
  BY DEF Sandbox, Handle, TakeLine, MayServe, ReadNotJson, ReadBadRequest, ReadRequest, LogRequest,
         Lookup, CacheLookup, Gate, Fetch, UpstreamFails, UpstreamAnswers, Check, LogVerdict,
         Reply, Hangup, AppendFails
<1> QED BY <1>1, <1>2, <1>3

LEMMA OwnAgrees ==
    ASSUME ReloadBetweenRuns, TypeOK, LocalsInv, IdleInv, AgreesInv, NEW t \in Threads, Sandbox(t) \/ Handle(t)
    PROVE  AgreesOf(t)'
<1>1. ~loading' /\ lockfile' = lockfile /\ AgreesOf(t)
  BY ServesNoReload DEF AgreesInv
<1>2. CASE ReadNotJson(t) \/ ReadBadRequest(t)
  <2>1. key'[t] = NoKey
    BY <1>2 DEF ReadNotJson, ReadBadRequest, TakeLine, IdleInv
  <2>2. \/ pc'[t] = "reply"
        \/ pc'[t] = "log_verdict" /\ verdict'[t] = "grammar_violation"
    BY <1>2 DEF ReadNotJson, ReadBadRequest, Goto, Decide, Conclude, TypeOK
  <2> QED BY <1>1, <2>1, <2>2, SentinelAssumption DEF AgreesOf
<1>3. CASE (\E k \in Keys : ReadRequest(t, k)) \/ LogRequest(t)
  <2>1. pc'[t] \in {"log_request", "lookup"}
    BY <1>3 DEF ReadRequest, LogRequest, Goto, TypeOK
  <2> QED BY <1>1, <2>1 DEF AgreesOf
<1>4. CASE Lookup(t)
  <2>1. pc[t] = "lookup" /\ key' = key /\ key[t] \in Keys
    BY <1>4 DEF Lookup, LocalsInv, LocalsOf
  <2>2. \/ Pins(lockfile, key[t]) /\ pc' = [pc EXCEPT ![t] = "cache"]
        \/ /\ ~Pins(lockfile, key[t]) /\ pc' = [pc EXCEPT ![t] = "log_verdict"]
           /\ verdict' = [verdict EXCEPT ![t] = "lockfile_miss"]
    BY <1>4, Zenon DEF Lookup, Goto, Decide, Conclude
  <2>3. \/ Pins(lockfile, key[t]) /\ pc'[t] = "cache"
        \/ ~Pins(lockfile, key[t]) /\ pc'[t] = "log_verdict" /\ verdict'[t] = "lockfile_miss"
    BY <2>2 DEF TypeOK
  <2> QED BY <1>1, <2>1, <2>3 DEF AgreesOf
<1>5. CASE CacheLookup(t) \/ Gate(t) \/ Fetch(t) \/ UpstreamFails(t) \/ (\E b \in Blobs : UpstreamAnswers(t, b)) \/ Check(t)
  <2>1. pc[t] \in {"cache", "gate", "fetch", "await", "check"} /\ key' = key
    BY <1>5 DEF CacheLookup, Gate, Fetch, UpstreamFails, UpstreamAnswers, Check
  <2>2. \/ \E place \in {"gate", "fetch", "await", "check"} : pc' = [pc EXCEPT ![t] = place]
        \/ /\ pc' = [pc EXCEPT ![t] = "log_verdict"]
           /\ \E v \in Answers \ {"lockfile_miss"} : verdict' = [verdict EXCEPT ![t] = v]
    <3> DEFINE goal == \/ \E place \in {"gate", "fetch", "await", "check"} : pc' = [pc EXCEPT ![t] = place]
                       \/ /\ pc' = [pc EXCEPT ![t] = "log_verdict"]
                          /\ \E v \in Answers \ {"lockfile_miss"} : verdict' = [verdict EXCEPT ![t] = v]
    <3>1. {"served_from_cache", "quota_exceeded", "upstream_fail_closed", "served_from_upstream", "digest_mismatch"}
             \subseteq Answers \ {"lockfile_miss"}
      BY DEF Answers, Verdicts, Served, UpstreamVerdicts
    <3>2. ASSUME CacheLookup(t) PROVE goal
      BY <3>1, <3>2, Zenon DEF CacheLookup, Goto, Decide, Conclude
    <3>3. ASSUME Gate(t) PROVE goal
      BY <3>1, <3>3, Zenon DEF Gate, Refuse, Goto, Decide, Conclude
    <3>4. ASSUME Fetch(t) \/ (\E b \in Blobs : UpstreamAnswers(t, b)) PROVE goal
      BY <3>4, Zenon DEF Fetch, UpstreamAnswers, Goto
    <3>5. ASSUME UpstreamFails(t) PROVE goal
      BY <3>1, <3>5, Zenon DEF UpstreamFails, Goto, Decide, Conclude
    <3>6. ASSUME Check(t) PROVE goal
      BY <3>1, <3>6, Zenon DEF Check, Goto, Decide, Conclude
    <3> QED BY <1>5, <3>2, <3>3, <3>4, <3>5, <3>6
  <2>3. \/ pc'[t] \in {"gate", "fetch", "await", "check"}
        \/ pc'[t] = "log_verdict" /\ verdict'[t] # "lockfile_miss"
    BY <2>2 DEF TypeOK
  <2>4. Pins(lockfile, key[t]) /\ key[t] \in Keys
    BY <1>1, <2>1 DEF AgreesOf, LocalsInv, LocalsOf, HoldsPin
  <2> QED BY <1>1, <2>1, <2>3, <2>4 DEF AgreesOf
<1>6. CASE LogVerdict(t)
  BY <1>1, <1>6, LogVerdictCounts DEF AgreesOf
<1>7. CASE Reply(t) \/ Hangup(t) \/ AppendFails(t)
  BY <1>1, <1>7, FinishCounts DEF AgreesOf
<1> QED BY <1>2, <1>3, <1>4, <1>5, <1>6, <1>7 DEF Sandbox, Handle

LEMMA AgreesStep == TypeOK /\ LocalsInv /\ IdleInv /\ AgreesInv /\ [Next]_vars => AgreesInv'
<1> SUFFICES ASSUME TypeOK, LocalsInv, IdleInv, AgreesInv, [Next]_vars, ReloadBetweenRuns, NEW u \in Threads
             PROVE  AgreesOf(u)'
  BY DEF AgreesInv
<1>1. AgreesOf(u)
  BY DEF AgreesInv
<1>2. ASSUME NEW t \in Threads, t # u, Sandbox(t) \/ Handle(t) PROVE AgreesOf(u)'
  BY <1>1, <1>2, Frame, ServesNoReload DEF AgreesOf
<1>3. CASE Reload
  BY <1>3 DEF Reload, MayReload, locals, AgreesOf
<1>4. CASE NoteLoad \/ NoteFails
  BY <1>1, <1>4 DEF NoteLoad, NoteFails, locals, AgreesOf
<1>5. CASE UNCHANGED vars
  BY <1>1, <1>5 DEF vars, locals, lab, AgreesOf
<1> QED BY <1>2, <1>3, <1>4, <1>5, OwnAgrees DEF Next, Wait

\* A step that writes nothing.
LEMMA SilentStep ==
    ASSUME ReloadBetweenRuns, TypeOK, LinesInv,
           File' = File, loading' \/ UNCHANGED <<lockfile, loading>>
    PROVE  LinesInv'
<1>0. NotesInv /\ NotedInv /\ MissesInv /\ VerdictsAgree
  BY DEF LinesInv
<1>1. ASSUME NEW i PROVE LastNote(i)' = LastNote(i)
  BY LastNoteIs
<1>2. Len(File') = Len(File) /\ DOMAIN File' = DOMAIN File
  OBVIOUS
<1>3. LastNote(Len(File))' = LastNote(Len(File))
  <2>1. ASSUME NEW n, n = Len(File) PROVE LastNote(n)' = LastNote(n)
    BY <1>1
  <2> QED BY <1>2, <2>1 DEF LastNote
<1>4. NotesInv'
  BY <1>0, <1>1, <1>2 DEF NotesInv
<1>5. NotedInv' /\ MissesInv'
  BY <1>0, <1>2, <1>3 DEF NotedInv, MissesInv
<1>6. VerdictsAgree'
  BY <1>0, <1>1, <1>2 DEF VerdictsAgree
<1> QED BY <1>4, <1>5, <1>6 DEF LinesInv

\* A line of a thread, that agrees with the lockfile in force.
LEMMA ThreadLineStep ==
    ASSUME ReloadBetweenRuns, TypeOK, LinesInv,
           NEW line \in Lines, File' = Append(File, line), line.kind # "note", ~loading, UNCHANGED <<lockfile, loading>>,
           line.kind = "verdict" =>
              /\ line.key \in Keys => (Pins(lockfile, line.key) <=> line.verdict # "lockfile_miss")
              /\ line.key \notin Keys => line.verdict # "lockfile_miss",
           NEW n \in Nat, n = Len(File)
    PROVE  LinesInv'
<1>0. NotesInv /\ NotedInv /\ MissesInv /\ VerdictsAgree
  BY DEF LinesInv
<1>1. DOMAIN File = 1 .. n /\ DOMAIN File' = 1 .. n + 1 /\ Len(File') = n + 1
  BY FileGrows
<1>2. File'[n + 1] = line /\ \A i \in 1 .. n : File'[i] = File[i]
  BY FileGrows
<1>3. \A i \in 0 .. n : LastNote(i)' = LastNote(i)
  BY LastNoteKept
<1>4. LastNote(n + 1)' = LastNote(n)
  BY LastNoteSkips
<1>5. LastNote(Len(File))' = LastNote(n)
  <2>1. LastNote(Len(File))' = LastNote(n + 1)'
    BY <1>1 DEF LastNote
  <2> QED BY <1>4, <2>1
<1>6. (\A i \in 0 .. n : LastNote(i) \in 0 .. i) /\ LastNote(n) = LastNote(Len(File))
  BY <1>0 DEF NotesInv
<1>7. NotesInv'
  <2>1. \A i \in 0 .. n + 1 : i \in 0 .. n \/ i = n + 1
    OBVIOUS
  <2>2. \A i \in 0 .. n + 1 : LastNote(i)' \in 0 .. i
    BY <1>3, <1>4, <1>6, <2>1
  <2> QED BY <1>1, <2>2 DEF NotesInv
<1>8. NotedInv'
  <2> SUFFICES ASSUME NotedAtStart PROVE LastNote(Len(File))' # 0 /\ File'[LastNote(Len(File))'].lockfile = lockfile
    BY DEF NotedInv
  <2>1. LastNote(n) # 0 /\ File[LastNote(n)].lockfile = lockfile
    BY <1>0, <1>6 DEF NotedInv
  <2>2. LastNote(n) \in 1 .. n
    BY <1>6, <2>1
  <2> QED BY <1>2, <1>5, <2>1, <2>2
<1>9. MissesInv'
  <2> SUFFICES ASSUME NEW i \in 1 .. n + 1, i > LastNote(n), File'[i].kind = "verdict", File'[i].verdict = "lockfile_miss"
               PROVE  ~Pins(lockfile, File'[i].key)
    BY <1>1, <1>5 DEF MissesInv, Pins
  <2>1. CASE i \in 1 .. n
    BY <1>0, <1>1, <1>2, <1>6, <2>1 DEF MissesInv
  <2>2. CASE i = n + 1
    BY <1>2, <2>2
  <2> QED BY <2>1, <2>2
<1>10. VerdictsAgree'
  <2> SUFFICES ASSUME NotedAtStart, NEW i \in 1 .. n + 1, File'[i].kind = "verdict", File'[i].key \in Keys
               PROVE  /\ LastNote(i)' # 0
                      /\ (Pins(File'[LastNote(i)'].lockfile, File'[i].key) <=> File'[i].verdict # "lockfile_miss")
    BY <1>1 DEF VerdictsAgree, Pins
  <2>1. CASE i \in 1 .. n
    <3>1. LastNote(i)' = LastNote(i) /\ LastNote(i) \in 0 .. i /\ File'[i] = File[i]
      BY <1>2, <1>3, <1>6, <2>1
    <3>2. LastNote(i) # 0 /\ (Pins(File[LastNote(i)].lockfile, File[i].key) <=> File[i].verdict # "lockfile_miss")
      BY <1>0, <1>1, <2>1, <3>1 DEF VerdictsAgree
    <3>3. LastNote(i) \in 1 .. n
      BY <2>1, <3>1, <3>2
    <3> QED BY <1>2, <3>1, <3>2, <3>3
  <2>2. CASE i = n + 1
    <3>1. LastNote(n) # 0 /\ File[LastNote(n)].lockfile = lockfile
      BY <1>0, <1>6 DEF NotedInv
    <3>2. LastNote(n) \in 1 .. n
      BY <1>6, <3>1
    <3>3. File'[LastNote(i)'].lockfile = lockfile
      BY <1>2, <1>4, <2>2, <3>1, <3>2
    <3> QED BY <1>2, <1>4, <2>2, <3>1, <3>3
  <2>3. i \in 1 .. n \/ i = n + 1
    OBVIOUS
  <2> QED BY <2>1, <2>2, <2>3, Zenon
<1> QED BY <1>7, <1>8, <1>9, <1>10 DEF LinesInv

\* The note of a reload names the lockfile now in force.
LEMMA NoteStep ==
    ASSUME ReloadBetweenRuns, TypeOK, LinesInv, NEW n \in Nat, n = Len(File), NEW line \in Lines,
           line.kind = "note", line.lockfile = lockfile, File' = Append(File, line), UNCHANGED lockfile
    PROVE  LinesInv'
<1>0. NotesInv /\ NotedInv /\ MissesInv /\ VerdictsAgree
  BY DEF LinesInv
<1>2. DOMAIN File = 1 .. n /\ DOMAIN File' = 1 .. n + 1 /\ Len(File') = n + 1
  BY FileGrows
<1>3. File'[n + 1] = line /\ \A i \in 1 .. n : File'[i] = File[i]
  BY FileGrows
<1>4. \A i \in 0 .. n : LastNote(i)' = LastNote(i)
  BY LastNoteKept
<1>5. LastNote(n + 1)' = n + 1
  BY LastNoteHere
<1>6. LastNote(Len(File))' = n + 1
  <2>1. LastNote(Len(File))' = LastNote(n + 1)'
    BY <1>2 DEF LastNote
  <2> QED BY <1>5, <2>1
<1>7. \A i \in 0 .. n : LastNote(i) \in 0 .. i
  BY <1>0 DEF NotesInv
<1>8. NotesInv'
  <2>1. \A i \in 0 .. n + 1 : i \in 0 .. n \/ i = n + 1
    OBVIOUS
  <2>2. \A i \in 0 .. n + 1 : LastNote(i)' \in 0 .. i
    BY <1>4, <1>5, <1>7, <2>1
  <2> QED BY <1>2, <2>2 DEF NotesInv
<1>9. NotedInv'
  BY <1>3, <1>6 DEF NotedInv
<1>10. MissesInv'
  BY <1>2, <1>6 DEF MissesInv
<1>11. VerdictsAgree'
  <2> SUFFICES ASSUME NotedAtStart, NEW i \in 1 .. n + 1, File'[i].kind = "verdict", File'[i].key \in Keys
               PROVE  /\ LastNote(i)' # 0
                      /\ (Pins(File'[LastNote(i)'].lockfile, File'[i].key) <=> File'[i].verdict # "lockfile_miss")
    BY <1>2 DEF VerdictsAgree, Pins
  <2>1. i \in 1 .. n
    BY <1>3
  <2>2. LastNote(i)' = LastNote(i) /\ LastNote(i) \in 0 .. i /\ File'[i] = File[i]
    BY <1>3, <1>4, <1>7, <2>1
  <2>3. LastNote(i) # 0 /\ (Pins(File[LastNote(i)].lockfile, File[i].key) <=> File[i].verdict # "lockfile_miss")
    BY <1>0, <1>2, <2>1, <2>2 DEF VerdictsAgree
  <2>4. LastNote(i) \in 1 .. n
    BY <2>1, <2>2, <2>3
  <2> QED BY <1>3, <2>2, <2>3, <2>4
<1> QED BY <1>8, <1>9, <1>10, <1>11 DEF LinesInv

\* The lines of one thread agree with the lockfile in force.
LEMMA ThreadWritesStep ==
    ASSUME ReloadBetweenRuns, TypeOK, LocalsInv, AgreesInv, Accounted => LinesInv, Accounted',
           NEW t \in Threads, LogRequest(t) \/ LogVerdict(t) \/ AppendFails(t)
    PROVE  LinesInv'
<1>1. ~loading /\ UNCHANGED <<lockfile, loading, unnoted>>
  BY ServesNoReload DEF Handle
<1>2. Readable' /\ ~unnoted
  BY <1>1 DEF Accounted
<1>3. PICK n \in Nat : n = Len(File)
  BY FileType
<1>4. ASSUME NEW line \in Lines, line.kind # "note", Write(line) \/ WriteFails(line),
             line.kind = "verdict" =>
                /\ line.key \in Keys => (Pins(lockfile, line.key) <=> line.verdict # "lockfile_miss")
                /\ line.key \notin Keys => line.verdict # "lockfile_miss"
      PROVE  LinesInv'
  <2>1. (File' = File \/ File' = Append(File, line)) /\ Readable
    BY <1>2, <1>4, FileWritten, FileWriteFailed
  <2>2. LinesInv
    BY <1>2, <2>1 DEF Accounted
  <2>3. CASE File' = File
    BY <1>1, <2>2, <2>3, SilentStep
  <2>4. CASE File' = Append(File, line)
    BY <1>1, <1>3, <1>4, <2>2, <2>4, ThreadLineStep
  <2> QED BY <2>1, <2>3, <2>4
<1>5. CASE LogRequest(t) \/ (AppendFails(t) /\ pc[t] = "log_request")
  <2> DEFINE line == RequestLine(key[t])
  <2>1. pc[t] = "log_request" /\ (Write(line) \/ WriteFails(line))
    BY <1>5 DEF LogRequest, AppendFails
  <2>2. key[t] \in Keys
    BY <2>1 DEF LocalsInv, LocalsOf
  <2>3. line \in Lines /\ line.kind = "request"
    BY <2>2, LineTypes DEF RequestLine
  <2> HIDE DEF line
  <2> QED BY <1>4, <2>1, <2>3
<1>6. CASE LogVerdict(t) \/ (AppendFails(t) /\ pc[t] = "log_verdict")
  <2> DEFINE line == VerdictLine(verdict[t], key[t])
  <2>1. pc[t] = "log_verdict" /\ (Write(line) \/ WriteFails(line))
    BY <1>6 DEF LogVerdict, AppendFails
  <2>2. verdict[t] \in Verdicts
    BY <2>1 DEF LocalsInv, LocalsOf
  <2>3. line \in Lines
    BY <2>2, LineTypes DEF TypeOK
  <2>4. line.kind = "verdict" /\ line.key = key[t] /\ line.verdict = verdict[t]
    BY DEF VerdictLine
  <2>5. /\ key[t] \in Keys => (Pins(lockfile, key[t]) <=> verdict[t] # "lockfile_miss")
        /\ key[t] \notin Keys => verdict[t] # "lockfile_miss"
    BY <2>1 DEF AgreesInv, AgreesOf
  <2> HIDE DEF line
  <2> QED BY <1>4, <2>1, <2>3, <2>4, <2>5
<1> QED BY <1>5, <1>6 DEF AppendFails

LEMMA NamesStep == TypeOK /\ LocalsInv /\ IdleInv /\ NamesInv /\ [Next]_vars /\ ReloadBetweenRuns => NamesInv'
<1> SUFFICES ASSUME TypeOK, LocalsInv, IdleInv, NamesInv, [Next]_vars, ReloadBetweenRuns PROVE NamesInv'
  OBVIOUS
<1>1. AgreesInv /\ (Accounted => LinesInv) /\ AgreesInv'
  BY AgreesStep DEF NamesInv
<1> SUFFICES ASSUME Accounted' PROVE LinesInv'
  BY <1>1 DEF NamesInv
<1>2. Readable' /\ ~unnoted'
  BY DEF Accounted
<1>3. ASSUME UNCHANGED <<log, tail, unnoted>>, loading' \/ UNCHANGED <<lockfile, loading>> PROVE LinesInv'
  <2>1. File' = File /\ Accounted
    BY <1>2, <1>3, FileKept DEF Accounted
  <2> QED BY <1>1, <1>3, <2>1, SilentStep
<1>4. ASSUME NEW t \in Threads, Sandbox(t) \/ Handle(t), UNCHANGED <<log, tail>> PROVE LinesInv'
  BY <1>1, <1>3, <1>4, ServesNoReload
<1>5. ASSUME NEW t \in Threads, Quiet(t) PROVE LinesInv'
  BY <1>4, <1>5, QuietKeeps DEF Quiet, Sandbox, Handle
<1>6. ASSUME NEW t \in Threads, Fetch(t) \/ Reply(t) \/ Hangup(t) PROVE LinesInv'
  BY <1>4, <1>6 DEF Fetch, Reply, Hangup, Sandbox, Handle
<1>7. ASSUME NEW t \in Threads, LogRequest(t) \/ LogVerdict(t) \/ AppendFails(t) PROVE LinesInv'
  BY <1>1, <1>7, ThreadWritesStep
<1>8. ASSUME Reload PROVE LinesInv'
  BY <1>3, <1>8 DEF Reload
<1>9. ASSUME NoteLoad PROVE LinesInv'
  <2> DEFINE line == NoteLine(lockfile)
  <2>1. Write(line) /\ UNCHANGED <<lockfile, unnoted>>
    BY <1>9 DEF NoteLoad
  <2>2. line \in Lines /\ line.kind = "note" /\ line.lockfile = lockfile
    BY LineTypes DEF TypeOK, NoteLine
  <2>3. PICK n \in Nat : n = Len(File)
    BY FileType
  <2> HIDE DEF line
  <2>4. File' = Append(File, line) /\ LinesInv
    BY <1>1, <1>2, <2>1, <2>2, FileWritten DEF Accounted
  <2> QED BY <2>1, <2>2, <2>3, <2>4, NoteStep
<1>10. ASSUME NoteFails PROVE LinesInv'
  BY <1>2, <1>10 DEF NoteFails
<1>11. ASSUME UNCHANGED vars PROVE LinesInv'
  BY <1>3, <1>11 DEF vars, lab
<1> QED BY <1>5, <1>6, <1>7, <1>8, <1>9, <1>10, <1>11, StepCases

LEMMA InitNames == Init => NamesInv
<1> SUFFICES ASSUME Init PROVE NamesInv
  OBVIOUS
<1>1. AgreesInv /\ File = log
  BY DEF Init, AgreesInv, AgreesOf, File
<1>2. CASE NotedAtStart
  <2>1. File = <<NoteLine(InitialLockfile)>> /\ Len(File) = 1 /\ DOMAIN File = {1}
    BY <1>1, <1>2 DEF Init
  <2>2. File[1] = NoteLine(InitialLockfile) /\ File[1].kind = "note" /\ File[1].lockfile = InitialLockfile
    BY <2>1 DEF NoteLine
  <2>3. {j \in 1 .. 1 : File[j].kind = "note"} = {1} /\ {j \in 1 .. 0 : File[j].kind = "note"} = {}
    BY <2>2
  <2>4. LastOf({1}) = 1 /\ LastOf({}) = 0
    BY DEF LastOf
  <2>5. LastNote(1) = 1 /\ LastNote(0) = 0
    BY <2>3, <2>4, LastNoteIs
  <2>6. NotesInv /\ NotedInv /\ MissesInv
    BY <2>1, <2>2, <2>5 DEF Init, NotesInv, NotedInv, MissesInv
  <2>7. VerdictsAgree
    BY <2>1, <2>2 DEF VerdictsAgree
  <2> QED BY <1>1, <2>6, <2>7 DEF NamesInv, LinesInv
<1>3. CASE ~NotedAtStart
  <2>1. File = <<>> /\ Len(File) = 0 /\ DOMAIN File = {}
    BY <1>1, <1>3 DEF Init
  <2>2. {j \in 1 .. 0 : File[j].kind = "note"} = {} /\ LastOf({}) = 0
    BY DEF LastOf
  <2>3. LastNote(0) = 0
    BY <2>2, LastNoteIs
  <2>4. NotesInv /\ NotedInv /\ MissesInv
    BY <1>3, <2>1, <2>3 DEF NotesInv, NotedInv, MissesInv
  <2>5. VerdictsAgree
    BY <1>3 DEF VerdictsAgree
  <2> QED BY <1>1, <2>4, <2>5 DEF NamesInv, LinesInv
<1> QED BY <1>2, <1>3

LEMMA NamesInductive == PinsAgree /\ ReloadBetweenRuns => (Spec => []NamesInv)
<1> SUFFICES ASSUME PinsAgree, ReloadBetweenRuns PROVE Spec => []NamesInv
  OBVIOUS
<1>1. IInv /\ EvidenceInv /\ NamesInv /\ [Next]_vars => NamesInv'
  BY NamesStep DEF IInv, EvidenceInv
<1> QED BY Inductive, EvidenceInductive, InitNames, <1>1, PTL DEF Spec

\* With a note at start and reloads between runs, none of which raised, each
\* verdict of a transcript that can be read agrees with the lockfile that the last
\* note before it names, whatever writes of the threads failed: what verify_tenancy
\* and verify_workload take for granted when they read a transcript.  (A failed
\* write can swallow a note that was logged; then the file cannot be read.)
THEOREM VerdictsNameTheirLockfile == PinsAgree => (Spec => []EvidenceNamesItsLockfile)
<1> SUFFICES ASSUME PinsAgree PROVE Spec => []EvidenceNamesItsLockfile
  OBVIOUS
<1>1. CASE ReloadBetweenRuns
  <2>1. NamesInv => EvidenceNamesItsLockfile
    BY DEF NamesInv, LinesInv, Accounted, VerdictsAgree, EvidenceNamesItsLockfile
  <2> QED BY <1>1, <2>1, NamesInductive, PTL
<1>2. CASE ~ReloadBetweenRuns
  <2>1. EvidenceNamesItsLockfile
    BY <1>2 DEF EvidenceNamesItsLockfile
  <2> QED BY <2>1, PTL
<1> QED BY <1>1, <1>2

\* With reloads between runs, none of which raised, the misses that lockfile_amend
\* reads off a transcript are keys the lockfile in force does not pin, whatever
\* writes of the threads failed: it raises on a line that was garbled.
THEOREM MissesAreMissing == PinsAgree => (Spec => []MissesAreUnpinned)
<1> SUFFICES ASSUME PinsAgree PROVE Spec => []MissesAreUnpinned
  OBVIOUS
<1>1. ASSUME TypeOK, ReloadBetweenRuns => NamesInv PROVE MissesAreUnpinned
  <2> SUFFICES ASSUME ReloadBetweenRuns, ~loading, ~unnoted, Readable, NEW k \in misses_from_transcript
               PROVE  ~Pins(lockfile, k)
    BY DEF MissesAreUnpinned
  <2>1. PICK n \in Nat : n = Len(File)
    BY <1>1, FileType
  <2>2. LastNote(Len(File)) \in 0 .. Len(File) /\ MissesInv
    BY <1>1, <2>1 DEF NamesInv, Accounted, LinesInv, NotesInv
  <2>3. PICK i \in LastNote(Len(File)) + 1 .. Len(File) :
           File[i].kind = "verdict" /\ File[i].verdict = "lockfile_miss" /\ k = File[i].key
    BY DEF misses_from_transcript
  <2>4. DOMAIN File = 1 .. Len(File)
    BY <1>1, FileType
  <2> QED BY <2>1, <2>2, <2>3, <2>4 DEF MissesInv
<1>2. CASE ReloadBetweenRuns
  <2>1. IInv /\ NamesInv => MissesAreUnpinned
    BY <1>1 DEF IInv
  <2> QED BY <1>2, <2>1, Inductive, NamesInductive, PTL
<1>3. CASE ~ReloadBetweenRuns
  <2>1. MissesAreUnpinned
    BY <1>3 DEF MissesAreUnpinned
  <2> QED BY <2>1, PTL
<1> QED BY <1>2, <1>3
=============================================================================
