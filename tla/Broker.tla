-------------------------------- MODULE Broker --------------------------------
(***************************************************************************)
(* broker.py: class Broker and the connection threads of _serve_conn.  One *)
(* thread per connection runs handle() concurrently with the others; the   *)
(* lab may swap the lockfile with reload_lockfile().  The threads share    *)
(* the lockfile in force, the cache and the transcript; every step below   *)
(* is what one thread does between two accesses to shared state.           *)
(*                                                                         *)
(* The transcript is the sequence of its lines here, with what a write     *)
(* that fails leaves behind them (module Transcript models its chain); the *)
(* rate limiter inside _fetch_upstream and the quota behind upstream_gate  *)
(* are module UpstreamQuota.                                               *)
(***************************************************************************)
EXTENDS Integers, Sequences, FiniteSets

CONSTANTS
    Threads,            \* connections served at once
    Keys,               \* lock_key of the requests that parse_fetch accepts
    Blobs,              \* response bodies the upstream may return
    Lockfiles,          \* lockfiles the lab may load: [Keys -> digest or NoPin]
    InitialLockfile,    \* the lockfile given to Broker.__init__
    NoKey, NoPin, NoData, NoLockfile,
    Gated,              \* is upstream_gate set (TenantBroker)?
    NoCache,            \* Broker(nocache=True)
    NotedAtStart,       \* does the caller call note_lockfile() first?
    ReloadBetweenRuns,  \* is reload_lockfile() only called with no request under way?
    MaxRequests,        \* bound: lines read from the sandbox
    MaxReloads,         \* bound: reload_lockfile() calls
    MaxFaults           \* bound: transcript writes that fail

\* SHA-256 without collisions.
Sha256(b) == [sha256 |-> b]
Digests == {Sha256(b) : b \in Blobs}

ASSUME LockfileAssumption ==
    /\ Lockfiles \subseteq [Keys -> Digests \cup {NoPin}]
    /\ InitialLockfile \in Lockfiles
    /\ NoPin \notin Digests
ASSUME ThreadAssumption == IsFiniteSet(Threads)
ASSUME SentinelAssumption ==
    /\ NoKey \notin Keys
    /\ NoData \notin Blobs
    /\ NoLockfile \notin Lockfiles
ASSUME FlagAssumption ==
    /\ Gated \in BOOLEAN /\ NoCache \in BOOLEAN
    /\ NotedAtStart \in BOOLEAN /\ ReloadBetweenRuns \in BOOLEAN
ASSUME BoundAssumption == MaxRequests \in Nat /\ MaxReloads \in Nat /\ MaxFaults \in Nat

\* Pins are never changed, only added: what lockfile_amend guarantees of the
\* lockfiles it writes one after the other.
PinsAgree ==
    \A L, M \in Lockfiles : \A k \in Keys :
        L[k] # NoPin /\ M[k] # NoPin => L[k] = M[k]

VARIABLES
    pc, key, pin, data, verdict,    \* the locals of handle(), per thread
    lockfile,   \* Broker.entries
    loaded,     \* history: the lockfiles in force so far
    loading,    \* reload_lockfile() has swapped and not yet noted
    unnoted,    \* history: a reload_lockfile() raised after the swap
    cache,      \* Broker.cache
    log,        \* the lines of the transcript file that end with a newline
    tail,       \* what follows them: NoLine, or what a failed write left
    attempts,   \* history: upstream fetches per key
    answered,   \* history: responses per <<verdict, key>>
    released,   \* history: the bytes the sandbox received
    asked, reloads, faults

locals == <<pc, key, pin, data, verdict>>
lab == <<lockfile, loaded, loading, unnoted, reloads>>
transcript == <<log, tail>>
vars == <<locals, lab, cache, transcript, attempts, answered, released, asked, faults>>

-----------------------------------------------------------------------------
\* Verdicts; "served" is split by its served_from field.  "not_json" is only a
\* response, and "none" stands for a verdict not reached yet.
Served_WithMismatch == {"served_from_cache", "served_from_upstream", "digest_mismatch"}
Served == {"served_from_cache", "served_from_upstream"}
\* UPSTREAM_VERDICTS of multitenant.py and served_from = "upstream".
UpstreamVerdicts_WithoutFailures == {"digest_mismatch", "served_from_upstream"}
UpstreamVerdicts == {"upstream_fail_closed", "digest_mismatch", "served_from_upstream"}
Verdicts == Served \cup UpstreamVerdicts \cup
            {"grammar_violation", "lockfile_miss", "quota_exceeded"}
Answers == Verdicts \cup {"not_json"}

RequestLine(k) == [kind |-> "request", key |-> k, verdict |-> "none", lockfile |-> NoLockfile]
VerdictLine(v, k) == [kind |-> "verdict", key |-> k, verdict |-> v, lockfile |-> NoLockfile]
NoteLine_Stale(L) == [kind |-> "note", key |-> NoKey, verdict |-> "none", lockfile |-> InitialLockfile]
NoteLine(L) == [kind |-> "note", key |-> NoKey, verdict |-> "none", lockfile |-> L]

\* A line that json.loads rejects: part of an entry, or two run together.
Garbled == [kind |-> "garbled", key |-> NoKey, verdict |-> "none", lockfile |-> NoLockfile]
\* The file ends with a newline.
NoLine == [kind |-> "none", key |-> NoKey, verdict |-> "none", lockfile |-> NoLockfile]

Lines == [kind : {"request", "verdict", "note", "garbled"}, key : Keys \cup {NoKey},
          verdict : Verdicts \cup {"none"}, lockfile : Lockfiles \cup {NoLockfile}]

\* Indexes of the lines of a kind of verdict about a key.
LinesOf(V, k) == {i \in DOMAIN log : log[i].kind = "verdict" /\ log[i].verdict \in V /\ log[i].key = k}
RequestsOf(k) == {i \in DOMAIN log : log[i].kind = "request" /\ log[i].key = k}
GarbledLines == {i \in DOMAIN log : log[i].kind = "garbled"}

-----------------------------------------------------------------------------
Init ==
    /\ pc = [t \in Threads |-> "idle"]
    /\ key = [t \in Threads |-> NoKey]
    /\ pin = [t \in Threads |-> NoPin]
    /\ data = [t \in Threads |-> NoData]
    /\ verdict = [t \in Threads |-> "none"]
    /\ lockfile = InitialLockfile
    /\ loaded = {InitialLockfile}
    /\ loading = FALSE /\ unnoted = FALSE
    /\ cache = [k \in Keys |-> NoData]
    /\ log = IF NotedAtStart THEN <<NoteLine(InitialLockfile)>> ELSE <<>>
    /\ tail = NoLine
    /\ attempts = [k \in Keys |-> 0]
    /\ answered = [a \in Answers \X (Keys \cup {NoKey}) |-> 0]
    /\ released = {}
    /\ asked = 0 /\ reloads = 0 /\ faults = 0

Goto(t, place) == pc' = [pc EXCEPT ![t] = place]
Decide(t, v) == verdict' = [verdict EXCEPT ![t] = v]

\* Transcript.append: the line ends the file.  After an unfinished line it
\* continues that one, and neither can be read.
Write(line) ==
    /\ log' = Append(log, IF tail = NoLine THEN line ELSE Garbled)
    /\ tail' = NoLine

\* Transcript.append raises: open failed, or the write left nothing, part of the
\* line, or the line without its newline.
WriteFails(line) ==
    /\ faults < MaxFaults
    /\ faults' = faults + 1
    /\ tail' \in {tail, Garbled} \cup (IF tail = NoLine THEN {line} ELSE {})
    /\ UNCHANGED log

\* handle() reaches a verdict and has to log it before it returns.
Conclude_Unlogged(t, v) == Decide(t, v) /\ Goto(t, "reply")
Conclude(t, v) == Decide(t, v) /\ Goto(t, "log_verdict")

\* Between runs the lab serves nobody while it reloads.
MayServe == ReloadBetweenRuns => ~loading
MayReload == ReloadBetweenRuns => \A t \in Threads : pc[t] = "idle"

\* _serve_conn: a line arrives while the thread waits for one.
TakeLine(t) ==
    /\ pc[t] = "idle" /\ asked < MaxRequests /\ MayServe
    /\ asked' = asked + 1
    /\ UNCHANGED <<pin, data, lab, cache, transcript, attempts, answered, released, faults>>

\* json.loads raises: answered by _serve_conn, handle() is not called.
ReadNotJson(t) ==
    /\ TakeLine(t) /\ Decide(t, "not_json") /\ Goto(t, "reply")
    /\ UNCHANGED key

\* handle(): parse_fetch raises GrammarError.
ReadBadRequest(t) ==
    /\ TakeLine(t) /\ Conclude(t, "grammar_violation")
    /\ UNCHANGED key

\* handle(): parse_fetch accepts a request for k.
ReadRequest(t, k) ==
    /\ TakeLine(t) /\ Goto(t, "log_request")
    /\ key' = [key EXCEPT ![t] = k]
    /\ UNCHANGED verdict

LogRequest(t) ==
    /\ pc[t] = "log_request"
    /\ Write(RequestLine(key[t]))
    /\ Goto(t, "lookup")
    /\ UNCHANGED <<key, pin, data, verdict, lab, cache, attempts, answered, released, asked, faults>>

\* S4: entry = self.entries.get(key); if entry is None
Pins_Always(L, k) == TRUE
Pins(L, k) == L[k] # NoPin

Lookup(t) ==
    /\ pc[t] = "lookup"
    /\ pin' = [pin EXCEPT ![t] = lockfile[key[t]]]
    /\ IF Pins(lockfile, key[t])
       THEN Goto(t, "cache") /\ UNCHANGED verdict
       ELSE Conclude(t, "lockfile_miss")
    /\ UNCHANGED <<key, data, lab, cache, transcript, attempts, answered, released, asked, faults>>

\* data = None if self.nocache else self.cache.get(key)
CacheLookup(t) ==
    /\ pc[t] = "cache"
    /\ LET hit == IF NoCache THEN NoData ELSE cache[key[t]] IN
       /\ data' = [data EXCEPT ![t] = hit]
       /\ IF hit = NoData
          THEN Goto(t, "gate") /\ UNCHANGED verdict
          ELSE Conclude(t, "served_from_cache")
    /\ UNCHANGED <<key, pin, lab, cache, transcript, attempts, answered, released, asked, faults>>

\* upstream_gate(): the quota admits the fetch or refuses it.
Refuse_AndRetry(t) == Goto(t, "cache") /\ UNCHANGED verdict
Refuse(t) == Conclude(t, "quota_exceeded")

Gate(t) ==
    /\ pc[t] = "gate"
    /\ \/ Goto(t, "fetch") /\ UNCHANGED verdict
       \/ Gated /\ Refuse(t)
    /\ UNCHANGED <<key, pin, data, lab, cache, transcript, attempts, answered, released, asked, faults>>

\* _fetch_upstream: the request goes out, for the path of the entry.
Fetch(t) ==
    /\ pc[t] = "fetch"
    /\ attempts' = [attempts EXCEPT ![key[t]] = @ + 1]
    /\ Goto(t, "await")
    /\ UNCHANGED <<key, pin, data, verdict, lab, cache, transcript, answered, released, asked, faults>>

\* _fetch_upstream gives None: an error, a redirect, an oversized body, or ten
\* seconds without an answer.
UpstreamFails(t) ==
    /\ pc[t] = "await"
    /\ Conclude(t, "upstream_fail_closed")
    /\ UNCHANGED <<key, pin, data, lab, cache, transcript, attempts, answered, released, asked, faults>>

\* The upstream answers with any bytes it likes.
UpstreamAnswers(t, b) ==
    /\ pc[t] = "await"
    /\ data' = [data EXCEPT ![t] = b]
    /\ Goto(t, "check")
    /\ UNCHANGED <<key, pin, verdict, lab, cache, transcript, attempts, answered, released, asked, faults>>

\* S5: got != entry["sha256"]
Matches_Unchecked(t) == TRUE
Matches(t) == Sha256(data[t]) = pin[t]

\* S5: the digest decides; a match is cached.
Check(t) ==
    /\ pc[t] = "check"
    /\ IF Matches(t)
       THEN /\ Conclude(t, "served_from_upstream")
            /\ cache' = IF NoCache THEN cache ELSE [cache EXCEPT ![key[t]] = data[t]]
       ELSE Conclude(t, "digest_mismatch") /\ UNCHANGED cache
    /\ UNCHANGED <<key, pin, data, lab, transcript, attempts, answered, released, asked, faults>>

LogVerdict(t) ==
    /\ pc[t] = "log_verdict"
    /\ Write(VerdictLine(verdict[t], key[t]))
    /\ Goto(t, "reply")
    /\ UNCHANGED <<key, pin, data, verdict, lab, cache, attempts, answered, released, asked, faults>>

\* The thread is ready for the next line, or its connection is closed.
Finish(t) ==
    /\ Goto(t, "idle")
    /\ key' = [key EXCEPT ![t] = NoKey]
    /\ pin' = [pin EXCEPT ![t] = NoPin]
    /\ data' = [data EXCEPT ![t] = NoData]
    /\ Decide(t, "none")

\* handle() returns, _serve_conn writes the response: bytes only when served.
Reply(t) ==
    /\ pc[t] = "reply"
    /\ answered' = [answered EXCEPT ![<<verdict[t], key[t]>>] = @ + 1]
    /\ released' = IF verdict[t] \in Served
                   THEN released \cup {[key |-> key[t], data |-> data[t], sha256 |-> pin[t]]}
                   ELSE released
    /\ Finish(t)
    /\ UNCHANGED <<lab, cache, transcript, attempts, asked, faults>>

\* The client is gone: the write raises and the connection is closed.
Hangup(t) ==
    /\ pc[t] = "reply"
    /\ Finish(t)
    /\ UNCHANGED <<lab, cache, transcript, attempts, answered, released, asked, faults>>

\* transcript.append raises inside handle(): _serve_conn closes the connection
\* without a response.
OnAppendError_Ignored(t) ==
    /\ Goto(t, IF pc[t] = "log_request" THEN "lookup" ELSE "reply")
    /\ UNCHANGED <<key, pin, data, verdict>>
OnAppendError(t) == Finish(t)

AppendFails(t) ==
    /\ \/ pc[t] = "log_request" /\ WriteFails(RequestLine(key[t]))
       \/ pc[t] = "log_verdict" /\ WriteFails(VerdictLine(verdict[t], key[t]))
    /\ OnAppendError(t)
    /\ UNCHANGED <<lab, cache, attempts, answered, released, asked>>

\* reload_lockfile: the swap, under self._lock.  The cache is kept.
Reload ==
    /\ ~loading /\ reloads < MaxReloads /\ MayReload
    /\ \E L \in Lockfiles : lockfile' = L /\ loaded' = loaded \cup {L}
    /\ loading' = TRUE
    /\ reloads' = reloads + 1
    /\ UNCHANGED <<locals, unnoted, cache, transcript, attempts, answered, released, asked, faults>>

\* reload_lockfile: note_lockfile(), after the lock is released.
NoteLoad ==
    /\ loading
    /\ Write(NoteLine(lockfile))
    /\ loading' = FALSE
    /\ UNCHANGED <<locals, lockfile, loaded, unnoted, reloads, cache, attempts, answered, released, asked, faults>>

\* ... which may raise: reload_lockfile() ends with the lockfile swapped.
NoteFails ==
    /\ loading
    /\ WriteFails(NoteLine(lockfile))
    /\ loading' = FALSE /\ unnoted' = TRUE
    /\ UNCHANGED <<locals, lockfile, loaded, reloads, cache, attempts, answered, released, asked>>

\* Nothing is under way: the broker waits for the next line.
Wait == (\A t \in Threads : pc[t] = "idle") /\ ~loading /\ UNCHANGED vars

\* The steps of handle(), which no peer can delay for ever.
Handle(t) ==
    \/ LogRequest(t) \/ Lookup(t) \/ CacheLookup(t) \/ Gate(t) \/ Fetch(t)
    \/ UpstreamFails(t) \/ \E b \in Blobs : UpstreamAnswers(t, b)
    \/ Check(t) \/ LogVerdict(t) \/ AppendFails(t)

\* What the sandbox does: it sends a line, takes the response, or is gone.
Sandbox(t) ==
    \/ ReadNotJson(t) \/ ReadBadRequest(t) \/ \E k \in Keys : ReadRequest(t, k)
    \/ Reply(t) \/ Hangup(t)

Next ==
    \/ \E t \in Threads : Sandbox(t) \/ Handle(t)
    \/ Reload \/ NoteLoad \/ NoteFails \/ Wait

Spec == Init /\ [][Next]_vars
FairSpec == Spec /\ \A t \in Threads : WF_vars(Handle(t))

-----------------------------------------------------------------------------
Places == {"idle", "log_request", "lookup", "cache", "gate", "fetch", "await", "check",
           "log_verdict", "reply"}

Releases == [key : Keys, data : Blobs, sha256 : Digests]

TypeOK ==
    /\ pc \in [Threads -> Places]
    /\ key \in [Threads -> Keys \cup {NoKey}]
    /\ pin \in [Threads -> Digests \cup {NoPin}]
    /\ data \in [Threads -> Blobs \cup {NoData}]
    /\ verdict \in [Threads -> Answers \cup {"none"}]
    /\ lockfile \in Lockfiles
    /\ loaded \in SUBSET Lockfiles
    /\ loading \in BOOLEAN /\ unnoted \in BOOLEAN
    /\ cache \in [Keys -> Blobs \cup {NoData}]
    /\ log \in Seq(Lines) /\ tail \in Lines \cup {NoLine}
    /\ attempts \in [Keys -> Nat]
    /\ answered \in [Answers \X (Keys \cup {NoKey}) -> Nat]
    /\ released \in SUBSET Releases
    /\ asked \in Nat /\ reloads \in Nat /\ faults \in Nat

\* S5, over every interleaving of the threads, the upstream and reloads: the
\* bytes a response carries hash to the digest it states, and that digest is
\* the pin of the key it answers in a lockfile the lab loaded.  (handle()
\* serves a cached body without hashing it again, against an entry it may have
\* read from another lockfile than the one the body was fetched under.)
ServedBytesArePinned ==
    \A r \in released :
        /\ Sha256(r.data) = r.sha256
        /\ \E L \in loaded : L[r.key] = r.sha256

\* Once cached, the bytes of a key never change, whatever the upstream returns
\* to a thread that fetched the same key at the same time.
CacheIsStable ==
    [][\A k \in Keys : cache[k] # NoData => cache'[k] = cache[k]]_vars

\* A response of handle() never runs ahead of its evidence: there are at most
\* as many responses of a verdict for a key as the transcript has lines of it,
\* or lines that cannot be read.  (A line that another thread's failed write left
\* unfinished swallows the next verdict, whose append does not raise and whose
\* response goes out.)  Each failed write spoils one other line at most.
AnswersHaveEvidence ==
    LET garbled == Cardinality(GarbledLines)
    IN  /\ garbled <= faults
        /\ \A v \in Verdicts, k \in Keys \cup {NoKey} :
              answered[v, k] <= Cardinality(LinesOf({v}, k)) + garbled

\* Every request line has one verdict line or a thread that still works on it, up
\* to the lines lost: a request may lack its verdict because the write of it
\* failed or was garbled, a verdict its request only because that was garbled.
RequestsHaveOneVerdict ==
    \A k \in Keys :
        LET open == {t \in Threads : key[t] = k /\ pc[t] \notin {"log_request", "reply"}}
            decided == Cardinality(LinesOf(Verdicts, k)) + Cardinality(open)
        IN  /\ decided <= Cardinality(RequestsOf(k)) + Cardinality(GarbledLines)
            /\ Cardinality(RequestsOf(k)) <= decided + Cardinality(GarbledLines) + faults

\* "Every upstream attempt is a transcript verdict" (multitenant.py): the fetches
\* of a key are the verdicts that tell of a fetch and the fetches under way, up
\* to the lines lost, and no verdict tells of a fetch that was not made.
AttemptsHaveEvidence ==
    \A k \in Keys :
        LET open == {t \in Threads : /\ key[t] = k
                                     /\ \/ pc[t] \in {"await", "check"}
                                        \/ pc[t] = "log_verdict" /\ verdict[t] \in UpstreamVerdicts}
            told == Cardinality(LinesOf(UpstreamVerdicts, k)) + Cardinality(open)
        IN  /\ told <= attempts[k]
            /\ attempts[k] <= told + Cardinality(GarbledLines) + faults

\* The lines a reader of the file gets, an unfinished one included.
File == IF tail = NoLine THEN log ELSE Append(log, tail)

\* json.loads accepts every line; a reader that meets another one raises.
Readable == \A i \in DOMAIN File : File[i].kind # "garbled"

\* The index of the last lockfile_loaded note up to line i, 0 when there is none.
LastNote(i) ==
    LET notes == {j \in 1 .. i : File[j].kind = "note"}
    IN  IF notes = {} THEN 0 ELSE CHOOSE j \in notes : \A m \in notes : m <= j

\* misses_from_transcript: the keys missed since the last lockfile load.
misses_from_transcript_NoReset ==
    {File[i].key : i \in {j \in DOMAIN File : File[j].kind = "verdict" /\ File[j].verdict = "lockfile_miss"}}
misses_from_transcript ==
    {File[i].key : i \in {j \in LastNote(Len(File)) + 1 .. Len(File) :
                            File[j].kind = "verdict" /\ File[j].verdict = "lockfile_miss"}}

\* What lockfile_amend is fed: with reloads between runs, none of which raised, the
\* misses it reads are keys the lockfile in force does not pin.  A note that
\* was swallowed does not mislead it: it raises on the line that did.
MissesAreUnpinned ==
    ReloadBetweenRuns /\ ~loading /\ ~unnoted /\ Readable =>
        \A k \in misses_from_transcript : ~Pins(lockfile, k)

\* The premise of "every served entry is in the tenant's own lockfile" and of
\* the last load being the lockfile in force (verify_tenancy, verify_workload):
\* with a note at start and reloads between runs, none of which raised, each
\* verdict of a transcript that can be read agrees with the lockfile that the
\* last note before it names, whatever other writes failed.
EvidenceNamesItsLockfile ==
    ReloadBetweenRuns /\ NotedAtStart /\ ~unnoted /\ Readable =>
        \A i \in DOMAIN File : File[i].kind = "verdict" /\ File[i].key \in Keys =>
            /\ LastNote(i) # 0
            /\ (Pins(File[LastNote(i)].lockfile, File[i].key) <=> File[i].verdict # "lockfile_miss")

\* Every line handle() takes on gets its verdict, however the upstream behaves.
EveryRequestIsDecided ==
    \A t \in Threads : pc[t] \notin {"idle", "reply"} ~> pc[t] \in {"idle", "reply"}

\* The broker implements the abstract promise.
Promise == INSTANCE SoleEgress WITH
    pins <- {p \in Keys \X Digests : \E L \in loaded : L[p[1]] = p[2]},
    released <- {<<r.key, r.data>> : r \in released}
ImplementsPromise == Promise!Spec
=============================================================================
