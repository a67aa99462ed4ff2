----------------------------- MODULE UpstreamQuota -----------------------------
(***************************************************************************)
(* The two limits of one tenant's broker, over time: the sliding-window    *)
(* quota of TenantBroker._admit, and the limiter at the head of            *)
(* Broker._fetch_upstream that spaces fetches by MIN_UPSTREAM_INTERVAL.    *)
(* Time passes between any two steps of any thread; the only thing that    *)
(* waits for the clock is the sleep of the limiter.                        *)
(***************************************************************************)
EXTENDS Integers, Sequences, FiniteSets, FiniteSetsExt

CONSTANTS
    Threads,
    Quota, Window,  \* TenantBroker.quota, TenantBroker.window_s
    Interval,       \* MIN_UPSTREAM_INTERVAL
    NoThread,
    MaxTime,        \* bound: ticks of the clock
    MaxAsks         \* bound: fetches asked for

ASSUME LimitAssumption == Quota \in Nat /\ Window \in Nat \ {0} /\ Interval \in Nat
ASSUME ThreadAssumption == NoThread \notin Threads
ASSUME BoundAssumption == MaxTime \in Nat /\ MaxAsks \in Nat

VARIABLES
    now,        \* time.time()
    pc,
    seen,       \* the local "now" of _admit(), per thread
    attempts,   \* TenantBroker._attempts
    holder,     \* the thread that holds Broker._lock
    wake,       \* when the sleep of the limiter ends, per thread
    last,       \* Broker._last_upstream
    asks,
    admissions, \* history: [seen, at] of each admitted fetch
    slots,      \* history: the values of _last_upstream
    contacts,   \* history: [seen, at] of each request to the upstream
    verdicts    \* history: [seen, at] of each upstream verdict, "at" its ts

limiter == <<holder, wake, last, slots>>
history == <<contacts, verdicts>>
vars == <<now, pc, seen, attempts, limiter, asks, admissions, history>>

-----------------------------------------------------------------------------
Init ==
    /\ now = 0
    /\ pc = [t \in Threads |-> "idle"]
    /\ seen = [t \in Threads |-> 0]
    /\ attempts = <<>>
    /\ holder = NoThread
    /\ wake = [t \in Threads |-> 0]
    /\ last = -Interval
    /\ asks = 0
    /\ admissions = <<>> /\ slots = <<>> /\ contacts = <<>> /\ verdicts = <<>>

Goto(t, place) == pc' = [pc EXCEPT ![t] = place]
Stamp(t) == [seen |-> seen[t], at |-> now]

\* _admit: now = time.time(), before the quota lock is taken.
ReadClock(t) ==
    /\ pc[t] = "idle" /\ asks < MaxAsks
    /\ asks' = asks + 1
    /\ seen' = [seen EXCEPT ![t] = now]
    /\ Goto(t, "admit")
    /\ UNCHANGED <<now, attempts, limiter, admissions, history>>

\* now - self._attempts[0] >= self.window_s
Expired_Never(n, attempt) == FALSE
Expired_Early(n, attempt) == n + 1 - attempt >= Window
Expired(n, attempt) == n - attempt >= Window

\* The attempts left once the expired ones at the head are popped.
Live(n) ==
    LET kept == {i \in 1 .. Len(attempts) + 1 : i > Len(attempts) \/ ~Expired(n, attempts[i])}
    IN  SubSeq(attempts, Min(kept), Len(attempts))

\* len(self._attempts) >= self.quota
Full_OffByOne(q) == Len(q) > Quota
Full(q) == Len(q) >= Quota

\* _admit under the quota lock: admitted.
Admit(t) ==
    /\ pc[t] = "admit" /\ ~Full(Live(seen[t]))
    /\ attempts' = Append(Live(seen[t]), seen[t])
    /\ admissions' = Append(admissions, Stamp(t))
    /\ Goto(t, "limit")
    /\ UNCHANGED <<now, seen, limiter, asks, history>>

\* _admit under the quota lock: refused (quota_exceeded, nothing goes upstream).
Refuse(t) ==
    /\ pc[t] = "admit" /\ Full(Live(seen[t]))
    /\ attempts' = Live(seen[t])
    /\ Goto(t, "idle")
    /\ UNCHANGED <<now, seen, limiter, asks, admissions, history>>

\* "with self._lock", which the limiter holds while it sleeps.
LockIsFree_Ignored == TRUE
LockIsFree == holder = NoThread

\* _fetch_upstream: the lock is taken and the rest of the interval computed.
Sleep(t) ==
    /\ pc[t] = "limit" /\ LockIsFree
    /\ holder' = t
    /\ wake' = [wake EXCEPT ![t] = Max({now, last + Interval})]
    /\ Goto(t, "sleep")
    /\ UNCHANGED <<now, seen, attempts, last, slots, asks, admissions, history>>

\* _fetch_upstream: the sleep is over, _last_upstream is set, the lock released.
Pass(t) ==
    /\ pc[t] = "sleep" /\ now >= wake[t]
    /\ last' = now
    /\ slots' = Append(slots, now)
    /\ holder' = NoThread
    /\ Goto(t, "send")
    /\ UNCHANGED <<now, seen, attempts, wake, asks, admissions, history>>

\* _fetch_upstream: conn.request().
Contact(t) ==
    /\ pc[t] = "send"
    /\ contacts' = Append(contacts, Stamp(t))
    /\ Goto(t, "await")
    /\ UNCHANGED <<now, seen, attempts, limiter, asks, admissions, verdicts>>

\* handle() logs the verdict of the fetch, with the time of the write as its ts.
Verdict(t) ==
    /\ pc[t] = "await"
    /\ verdicts' = Append(verdicts, Stamp(t))
    /\ Goto(t, "idle")
    /\ UNCHANGED <<now, seen, attempts, limiter, asks, admissions, contacts>>

Tick ==
    /\ now < MaxTime
    /\ now' = now + 1
    /\ UNCHANGED <<pc, seen, attempts, limiter, asks, admissions, history>>

Thread(t) ==
    \/ ReadClock(t) \/ Admit(t) \/ Refuse(t) \/ Sleep(t) \/ Pass(t) \/ Contact(t) \/ Verdict(t)

Next == Tick \/ \E t \in Threads : Thread(t)

Spec == Init /\ [][Next]_vars

-----------------------------------------------------------------------------
Stamps == [seen : Nat, at : Nat]

TypeOK ==
    /\ now \in Nat /\ asks \in Nat
    /\ pc \in [Threads -> {"idle", "admit", "limit", "sleep", "send", "await"}]
    /\ seen \in [Threads -> Nat]
    /\ attempts \in Seq(Nat) /\ Len(attempts) <= Quota
    /\ holder \in Threads \cup {NoThread}
    /\ wake \in [Threads -> Nat]
    /\ last \in Nat \cup {-Interval}
    /\ admissions \in Seq(Stamps) /\ contacts \in Seq(Stamps) /\ verdicts \in Seq(Stamps)
    /\ slots \in Seq(Nat)

\* max_in_window of probes/tenancy.py: the most events of s inside one sliding
\* window of the width, over events in the order of their time.
max_in_window(s, width) ==
    LET inside(i) == {j \in 1 .. i : s[i].at - s[j].at < width}
    IN  Max({0} \cup {Cardinality(inside(i)) : i \in DOMAIN s})

\* The longest delay between the clock reading of an admission and the event.
Lag(s) == Max({0} \cup {s[i].at - s[i].seen : i \in DOMAIN s})

\* S9 per tenant, as far as it goes: no window that is shorter than window_s by
\* the delay between _admit's clock reading and the event holds more than
\* "quota" requests to the upstream, nor more than "quota" upstream verdicts.
\* The deque may hold readings out of order, and a thread may expire attempts
\* with a later reading than that of a thread that takes the lock after it.
QuotaOverTime ==
    /\ max_in_window(contacts, Window - Lag(contacts)) <= Quota
    /\ max_in_window(verdicts, Window - Lag(verdicts)) <= Quota

\* _admit is not stingier than its window either: when it refuses, the tenant
\* has had "quota" fetches admitted since a window before the request asked.
RefusalIsDeserved ==
    [][\A t \in Threads : Refuse(t) =>
          Cardinality({i \in DOMAIN admissions : seen[t] - admissions[i].at < Window}) >= Quota]_vars

\* S9: the slots in which fetches start are an interval apart, however many
\* threads wait for one and whenever they wake.
SlotsAreSpaced == \A i \in 1 .. Len(slots) - 1 : slots[i + 1] - slots[i] >= Interval

\* "The quota is checkable from the transcript alone" (multitenant.py), the
\* check being that of verify_tenancy: no window of verdict timestamps holds
\* more than "quota" upstream verdicts.
TranscriptWithinQuota == max_in_window(verdicts, Window) <= Quota
=============================================================================
