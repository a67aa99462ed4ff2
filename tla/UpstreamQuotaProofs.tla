-------------------------- MODULE UpstreamQuotaProofs --------------------------
(***************************************************************************)
(* Theorems about UpstreamQuota: its typing, with the bound on the deque of *)
(* the quota; the spacing of the limiter's slots; how many requests and    *)
(* verdicts a window holds, and that a refusal is deserved.  An admission  *)
(* outlives the deque only by a window (DequeInv); each event has an       *)
(* admission of its own (Linked); so the events of a window are no more    *)
(* than the deque's length, wherever the window begins (EveryWindow).      *)
(***************************************************************************)
EXTENDS UpstreamQuota, SequenceLemmas

\* The lock of the limiter is held by the thread that sleeps.
LockInv == \A t \in Threads : pc[t] = "sleep" <=> holder = t

\* The thread that sleeps wakes an interval after the last slot or later.
WakeInv == \A t \in Threads : pc[t] = "sleep" => wake[t] >= last + Interval

\* _last_upstream is the last slot.
SlotInv == slots # <<>> => slots[Len(slots)] = last

IInv == TypeOK /\ LockInv /\ WakeInv /\ SlotInv /\ SlotsAreSpaced

-----------------------------------------------------------------------------
\* The larger of two integers.
LEMMA MaxOfTwo ==
    ASSUME NEW a \in Int, NEW b \in Int
    PROVE  Max({a, b}) \in {a, b} /\ Max({a, b}) >= a /\ Max({a, b}) >= b
<1>1. \E x \in {a, b} : \A y \in {a, b} : x >= y
  <2>1. CASE a >= b
    BY <2>1
  <2>2. CASE ~(a >= b)
    BY <2>2
  <2> QED BY <2>1, <2>2
<1> QED BY <1>1 DEF Max

\* Expiry drops the attempts up to the first one that has not expired.
LEMMA LiveSuffix ==
    ASSUME NEW n \in Nat, attempts \in Seq(Nat)
    PROVE  \E m \in 1 .. Len(attempts) + 1 :
              /\ \A i \in 1 .. m - 1 : Expired(n, attempts[i])
              /\ m <= Len(attempts) => ~Expired(n, attempts[m])
              /\ Live(n) \in Seq(Nat) /\ Len(Live(n)) = Len(attempts) - m + 1
              /\ \A i \in 1 .. Len(Live(n)) : Live(n)[i] = attempts[m + i - 1]
<1> DEFINE kept == {i \in 1 .. Len(attempts) + 1 : i > Len(attempts) \/ ~Expired(n, attempts[i])}
<1>1. Len(attempts) \in Nat
  OBVIOUS
<1>2. kept \in SUBSET Nat /\ Len(attempts) + 1 \in kept
  BY <1>1
<1>3. \E m \in kept : \A i \in kept : m <= i
  <2> HIDE DEF kept
  <2> QED BY <1>2, LeastOne
<1>4. Min(kept) \in kept /\ \A i \in kept : Min(kept) <= i
  BY <1>3 DEF Min
<1> DEFINE first == Min(kept)
<1>5. Live(n) = SubSeq(attempts, first, Len(attempts))
  BY DEF Live
<1>6. /\ first \in 1 .. Len(attempts) + 1
      /\ first <= Len(attempts) => ~Expired(n, attempts[first])
  BY <1>1, <1>4
<1>7. \A i \in 1 .. first - 1 : Expired(n, attempts[i])
  <2> SUFFICES ASSUME NEW i \in 1 .. first - 1, ~Expired(n, attempts[i]) PROVE FALSE
    OBVIOUS
  <2>1. i \in 1 .. Len(attempts) + 1 /\ ~(first <= i)
    BY <1>1, <1>6
  <2>2. i \in kept
    BY <2>1
  <2> QED BY <1>4, <2>1, <2>2
<1> HIDE DEF first
<1>8. \A i \in first .. Len(attempts) : attempts[i] \in Nat
  BY <1>1, <1>6
<1>9. /\ Live(n) \in Seq(Nat)
      /\ Len(Live(n)) = IF first <= Len(attempts) THEN Len(attempts) - first + 1 ELSE 0
      /\ \A i \in 1 .. Len(attempts) - first + 1 : Live(n)[i] = attempts[first + i - 1]
  BY <1>1, <1>5, <1>6, <1>8, SubSeqProperties
<1>10. Len(Live(n)) = Len(attempts) - first + 1
  BY <1>1, <1>6, <1>9
<1> QED BY <1>6, <1>7, <1>9, <1>10

LEMMA LiveType ==
    ASSUME NEW n \in Nat, attempts \in Seq(Nat)
    PROVE  Live(n) \in Seq(Nat) /\ Len(Live(n)) <= Len(attempts)
<1>1. Len(attempts) \in Nat
  OBVIOUS
<1>2. PICK m \in 1 .. Len(attempts) + 1 :
         Live(n) \in Seq(Nat) /\ Len(Live(n)) = Len(attempts) - m + 1
  BY LiveSuffix
<1> QED BY <1>1, <1>2

LEMMA InitIInv == Init => IInv
<1> SUFFICES ASSUME Init PROVE IInv
  OBVIOUS
<1> USE LimitAssumption, ThreadAssumption DEF Init
<1>1. TypeOK
  BY DEF TypeOK
<1>2. LockInv /\ WakeInv /\ SlotInv /\ SlotsAreSpaced
  BY DEF LockInv, WakeInv, SlotInv, SlotsAreSpaced
<1> QED BY <1>1, <1>2 DEF IInv

LEMMA IInvStep == IInv /\ [Next]_vars => IInv'
<1> SUFFICES ASSUME IInv, [Next]_vars PROVE IInv'
  OBVIOUS
<1> USE LimitAssumption, ThreadAssumption DEF IInv, Goto, limiter, history
<1>1. ASSUME NEW t \in Threads, ReadClock(t) PROVE IInv'
  <2>1. TypeOK'
    BY <1>1 DEF ReadClock, TypeOK
  <2> QED BY <1>1, <2>1 DEF ReadClock, TypeOK, LockInv, WakeInv, SlotInv, SlotsAreSpaced
<1>2. ASSUME NEW t \in Threads, Admit(t) PROVE IInv'
  <2>1. Live(seen[t]) \in Seq(Nat) /\ seen[t] \in Nat /\ Len(Live(seen[t])) < Quota
    <3>1. seen[t] \in Nat /\ attempts \in Seq(Nat)
      BY DEF TypeOK
    <3>2. Live(seen[t]) \in Seq(Nat)
      BY <3>1, LiveType
    <3> QED BY <1>2, <3>1, <3>2 DEF Admit, Full
  <2>2. attempts' \in Seq(Nat) /\ Len(attempts') <= Quota
    BY <1>2, <2>1, AppendProperties DEF Admit
  <2>3. Stamp(t) \in Stamps
    BY <2>1 DEF Stamp, Stamps, TypeOK
  <2>4. admissions' \in Seq(Stamps)
    BY <1>2, <2>3, AppendProperties DEF Admit, TypeOK
  <2>5. TypeOK'
    BY <1>2, <2>2, <2>4 DEF Admit, TypeOK
  <2> QED BY <1>2, <2>5 DEF Admit, TypeOK, LockInv, WakeInv, SlotInv, SlotsAreSpaced
<1>3. ASSUME NEW t \in Threads, Refuse(t) PROVE IInv'
  <2>1. seen[t] \in Nat /\ attempts \in Seq(Nat)
    BY DEF TypeOK
  <2>2. Live(seen[t]) \in Seq(Nat) /\ Len(Live(seen[t])) <= Len(attempts)
    BY <2>1, LiveType
  <2>3. attempts' \in Seq(Nat) /\ Len(attempts') <= Quota
    BY <1>3, <2>2 DEF Refuse, TypeOK
  <2>4. TypeOK'
    BY <1>3, <2>3 DEF Refuse, TypeOK
  <2> QED BY <1>3, <2>4 DEF Refuse, TypeOK, LockInv, WakeInv, SlotInv, SlotsAreSpaced
<1>4. ASSUME NEW t \in Threads, Sleep(t) PROVE IInv'
  <2>1. now \in Int /\ last + Interval \in Nat
    BY DEF TypeOK
  <2>2. Max({now, last + Interval}) \in Nat /\ Max({now, last + Interval}) >= last + Interval
    <3>1. last + Interval \in Int /\ now \in Nat
      BY <2>1 DEF TypeOK
    <3> DEFINE b == last + Interval
    <3> HIDE DEF b
    <3>2. Max({now, b}) \in {now, b} /\ Max({now, b}) >= b
      BY <2>1, <3>1, MaxOfTwo DEF b
    <3> QED BY <2>1, <3>1, <3>2 DEF b
  <2>3. TypeOK'
    BY <1>4, <2>2 DEF Sleep, TypeOK
  <2>4. LockInv' /\ WakeInv'
    BY <1>4, <2>2 DEF Sleep, LockIsFree, TypeOK, LockInv, WakeInv
  <2> QED BY <1>4, <2>3, <2>4 DEF Sleep, SlotInv, SlotsAreSpaced
<1>5. ASSUME NEW t \in Threads, Pass(t) PROVE IInv'
  <2>1. now \in Nat /\ slots \in Seq(Nat) /\ now >= last + Interval
    BY <1>5 DEF Pass, TypeOK, WakeInv
  <2>2. slots' \in Seq(Nat) /\ slots' = Append(slots, now)
    BY <1>5, <2>1, AppendProperties DEF Pass
  <2>3. TypeOK'
    BY <1>5, <2>2 DEF Pass, TypeOK
  <2>4. LockInv' /\ WakeInv'
    BY <1>5 DEF Pass, TypeOK, LockInv, WakeInv
  <2>5. SlotInv'
    BY <1>5, <2>1 DEF Pass, SlotInv
  <2>6. SlotsAreSpaced'
    <3> SUFFICES ASSUME NEW i \in 1 .. Len(slots') - 1 PROVE slots'[i + 1] - slots'[i] >= Interval
      BY DEF SlotsAreSpaced
    <3>1. Len(slots') = Len(slots) + 1
      BY <2>1, <2>2
    <3>2. CASE i = Len(slots)
      BY <2>1, <2>2, <3>1, <3>2 DEF SlotInv, TypeOK
    <3>3. CASE i < Len(slots)
      BY <2>1, <2>2, <3>1, <3>3 DEF SlotsAreSpaced
    <3> QED BY <2>1, <3>1, <3>2, <3>3
  <2> QED BY <2>3, <2>4, <2>5, <2>6
<1>6. ASSUME NEW t \in Threads, Contact(t) \/ Verdict(t) PROVE IInv'
  <2>1. Stamp(t) \in Stamps
    BY DEF Stamp, Stamps, TypeOK
  <2>2. contacts' \in Seq(Stamps) /\ verdicts' \in Seq(Stamps)
    <3>1. Append(contacts, Stamp(t)) \in Seq(Stamps) /\ Append(verdicts, Stamp(t)) \in Seq(Stamps)
      BY <2>1, AppendProperties DEF TypeOK
    <3> QED BY <1>6, <3>1 DEF Contact, Verdict, TypeOK
  <2>3. TypeOK'
    BY <1>6, <2>2 DEF Contact, Verdict, TypeOK
  <2> QED BY <1>6, <2>3 DEF Contact, Verdict, TypeOK, LockInv, WakeInv, SlotInv, SlotsAreSpaced
<1>7. CASE Tick
  BY <1>7 DEF Tick, TypeOK, LockInv, WakeInv, SlotInv, SlotsAreSpaced
<1>8. CASE UNCHANGED vars
  BY <1>8 DEF vars, TypeOK, LockInv, WakeInv, SlotInv, SlotsAreSpaced
<1> QED BY <1>1, <1>2, <1>3, <1>4, <1>5, <1>6, <1>7, <1>8 DEF Next, Thread

LEMMA Inductive == Spec => []IInv
BY InitIInv, IInvStep, PTL DEF Spec

\* UpstreamQuota is well typed; in particular the deque of the quota never
\* holds more than "quota" attempts, whatever the readings of the clock.
THEOREM TypeCorrect == Spec => []TypeOK
<1>1. IInv => TypeOK
  BY DEF IInv
<1> QED BY Inductive, <1>1, PTL

\* S9 for any number of threads and any interval: the slots of the limiter are
\* an interval apart.
THEOREM Spaced == Spec => []SlotsAreSpaced
<1>1. IInv => SlotsAreSpaced
  BY DEF IInv
<1> QED BY Inductive, <1>1, PTL

-----------------------------------------------------------------------------
\* How many requests and verdicts a window holds, and that a refusal is deserved.

\* Readings are of the past, and admissions are made in the order of time.
TimeInv ==
    /\ \A t \in Threads : seen[t] <= now
    /\ \A i \in DOMAIN admissions : admissions[i].seen <= admissions[i].at /\ admissions[i].at <= now
    /\ \A i, j \in DOMAIN admissions : i <= j => admissions[i].at <= admissions[j].at

\* The deque holds the last admissions; those it dropped are a window old.
Dropped == Len(admissions) - Len(attempts)
DequeInv ==
    /\ Dropped \in Nat
    /\ \A i \in DOMAIN attempts : attempts[i] = admissions[Dropped + i].seen
    /\ \A i \in 1 .. Dropped : admissions[i].seen + Window <= now

\* The admissions that count at time x.
InWindow(x) == {i \in DOMAIN admissions : admissions[i].seen + Window > x /\ admissions[i].at <= x}
NowInv == Cardinality(InWindow(now)) <= Quota
WindowInv == \A x \in 0 .. now : Cardinality(InWindow(x)) <= Quota

\* Each event of E and each thread of S has an admission of A of its own, made
\* upon the same reading and, for an event, not after it.
LinkedBy(A, E, S, sn, f, g) ==
    /\ f \in [DOMAIN E -> DOMAIN A] /\ g \in [S -> DOMAIN A]
    /\ \A i, j \in DOMAIN E : f[i] = f[j] => i = j
    /\ \A t, u \in S : g[t] = g[u] => t = u
    /\ \A i \in DOMAIN E, t \in S : f[i] # g[t]
    /\ \A i \in DOMAIN E : A[f[i]].seen = E[i].seen /\ A[f[i]].at <= E[i].at
    /\ \A t \in S : A[g[t]].seen = sn[t]
Linked(A, E, S, sn) == \E f, g : LinkedBy(A, E, S, sn, f, g)

\* The threads between an admission and their request, or their verdict.
Sending == {t \in Threads : pc[t] \in {"limit", "sleep", "send"}}
Fetching == {t \in Threads : pc[t] \in {"limit", "sleep", "send", "await"}}
LinkInv == Linked(admissions, contacts, Sending, seen) /\ Linked(admissions, verdicts, Fetching, seen)

\* Events come in the order of their time, after their reading.
Ordered(E) ==
    /\ \A i \in DOMAIN E : E[i].seen <= E[i].at /\ E[i].at <= now
    /\ \A i, j \in DOMAIN E : i <= j => E[i].at <= E[j].at
EventInv == Ordered(contacts) /\ Ordered(verdicts)

QInv == TimeInv /\ DequeInv /\ WindowInv /\ LinkInv /\ EventInv

-----------------------------------------------------------------------------
\* A sequence and one more element.
LEMMA Grows ==
    ASSUME NEW s \in Seq(Stamps), NEW e \in Stamps
    PROVE  /\ Append(s, e) \in Seq(Stamps) /\ Len(s) \in Nat
           /\ DOMAIN s = 1 .. Len(s) /\ DOMAIN Append(s, e) = 1 .. Len(s) + 1
           /\ Len(Append(s, e)) = Len(s) + 1
           /\ Append(s, e)[Len(s) + 1] = e /\ \A i \in 1 .. Len(s) : Append(s, e)[i] = s[i]
<1>1. /\ Append(s, e) \in Seq(Stamps) /\ Len(Append(s, e)) = Len(s) + 1
      /\ Append(s, e)[Len(s) + 1] = e /\ \A i \in 1 .. Len(s) : Append(s, e)[i] = s[i]
  BY AppendProperties
<1> QED BY <1>1

\* The elements of a sequence of stamps.
LEMMA StampTypes ==
    ASSUME NEW s \in Seq(Stamps)
    PROVE  /\ Len(s) \in Nat /\ DOMAIN s = 1 .. Len(s)
           /\ \A i \in 1 .. Len(s) : s[i] \in Stamps /\ s[i].seen \in Nat /\ s[i].at \in Nat
<1>1. Len(s) \in Nat /\ DOMAIN s = 1 .. Len(s) /\ \A i \in 1 .. Len(s) : s[i] \in Stamps
  OBVIOUS
<1>2. \A e \in Stamps : e.seen \in Nat /\ e.at \in Nat
  BY DEF Stamps
<1> QED BY <1>1, <1>2

\* A thread that is admitted gets the new admission.
LEMMA LinkAdmission ==
    ASSUME NEW A \in Seq(Stamps), NEW E \in Seq(Stamps), NEW S, NEW sn, Linked(A, E, S, sn),
           NEW t, t \notin S, NEW a \in Stamps, a.seen = sn[t]
    PROVE  Linked(Append(A, a), E, S \cup {t}, sn)
<1>1. PICK f, g : LinkedBy(A, E, S, sn, f, g)
  BY DEF Linked
<1> DEFINE h == [u \in S \cup {t} |-> IF u = t THEN Len(A) + 1 ELSE g[u]]
<1>2. /\ DOMAIN A = 1 .. Len(A) /\ DOMAIN Append(A, a) = 1 .. Len(A) + 1 /\ Len(A) \in Nat
      /\ Append(A, a)[Len(A) + 1] = a /\ \A i \in 1 .. Len(A) : Append(A, a)[i] = A[i]
  BY Grows
<1>3. /\ f \in [DOMAIN E -> 1 .. Len(A)] /\ g \in [S -> 1 .. Len(A)]
      /\ \A i, j \in DOMAIN E : f[i] = f[j] => i = j
      /\ \A v, u \in S : g[v] = g[u] => v = u
      /\ \A i \in DOMAIN E, v \in S : f[i] # g[v]
      /\ \A i \in DOMAIN E : A[f[i]].seen = E[i].seen /\ A[f[i]].at <= E[i].at
      /\ \A v \in S : A[g[v]].seen = sn[v]
  BY <1>1, <1>2 DEF LinkedBy
<1>4. h[t] = Len(A) + 1 /\ \A u \in S : h[u] = g[u] /\ h[u] \in 1 .. Len(A)
  BY <1>3
<1>5. h \in [S \cup {t} -> DOMAIN Append(A, a)] /\ f \in [DOMAIN E -> DOMAIN Append(A, a)]
  BY <1>2, <1>3
<1> HIDE DEF h
<1>6. \A v, u \in S \cup {t} : h[v] = h[u] => v = u
  BY <1>2, <1>3, <1>4
<1>7. \A i \in DOMAIN E, v \in S \cup {t} : f[i] # h[v]
  BY <1>2, <1>3, <1>4
<1>8. \A i \in DOMAIN E : Append(A, a)[f[i]].seen = E[i].seen /\ Append(A, a)[f[i]].at <= E[i].at
  BY <1>2, <1>3
<1>9. \A v \in S \cup {t} : Append(A, a)[h[v]].seen = sn[v]
  BY <1>2, <1>3, <1>4
<1>10. LinkedBy(Append(A, a), E, S \cup {t}, sn, f, h)
  BY <1>3, <1>5, <1>6, <1>7, <1>8, <1>9 DEF LinkedBy
<1> QED BY <1>10 DEF Linked

\* A thread that acts hands its admission to the event.
LEMMA LinkEvent ==
    ASSUME NEW A \in Seq(Stamps), NEW E \in Seq(Stamps), NEW S, NEW sn, Linked(A, E, S, sn),
           NEW t \in S, NEW e \in Stamps, e.seen = sn[t], \A i \in DOMAIN A : A[i].at <= e.at
    PROVE  Linked(A, Append(E, e), S \ {t}, sn)
<1>1. PICK f, g : LinkedBy(A, E, S, sn, f, g)
  BY DEF Linked
<1> DEFINE h == [i \in 1 .. Len(E) + 1 |-> IF i = Len(E) + 1 THEN g[t] ELSE f[i]]
           r == [u \in S \ {t} |-> g[u]]
<1>2. /\ DOMAIN E = 1 .. Len(E) /\ DOMAIN Append(E, e) = 1 .. Len(E) + 1 /\ Len(E) \in Nat
      /\ Append(E, e)[Len(E) + 1] = e /\ \A i \in 1 .. Len(E) : Append(E, e)[i] = E[i]
  BY Grows
<1>3. /\ f \in [1 .. Len(E) -> DOMAIN A] /\ g \in [S -> DOMAIN A]
      /\ \A i, j \in 1 .. Len(E) : f[i] = f[j] => i = j
      /\ \A v, u \in S : g[v] = g[u] => v = u
      /\ \A i \in 1 .. Len(E), v \in S : f[i] # g[v]
      /\ \A i \in 1 .. Len(E) : A[f[i]].seen = E[i].seen /\ A[f[i]].at <= E[i].at
      /\ \A v \in S : A[g[v]].seen = sn[v]
  BY <1>1, <1>2 DEF LinkedBy
<1>4. /\ h[Len(E) + 1] = g[t] /\ \A i \in 1 .. Len(E) : h[i] = f[i]
      /\ \A u \in S \ {t} : r[u] = g[u]
  BY <1>2
<1>5. h \in [DOMAIN Append(E, e) -> DOMAIN A] /\ r \in [S \ {t} -> DOMAIN A]
  BY <1>2, <1>3
<1>6. \A i \in 1 .. Len(E) + 1 : i \in 1 .. Len(E) \/ i = Len(E) + 1
  BY <1>2
<1> HIDE DEF h, r
<1>7. \A i, j \in 1 .. Len(E) + 1 : h[i] = h[j] => i = j
  BY <1>3, <1>4, <1>6
<1>8. \A i \in 1 .. Len(E) + 1, v \in S \ {t} : h[i] # r[v]
  BY <1>3, <1>4, <1>6
<1>9. \A i \in 1 .. Len(E) + 1 : A[h[i]].seen = Append(E, e)[i].seen /\ A[h[i]].at <= Append(E, e)[i].at
  <2> SUFFICES ASSUME NEW i \in 1 .. Len(E) + 1
               PROVE  A[h[i]].seen = Append(E, e)[i].seen /\ A[h[i]].at <= Append(E, e)[i].at
    OBVIOUS
  <2>1. CASE i \in 1 .. Len(E)
    BY <1>2, <1>3, <1>4, <2>1
  <2>2. CASE i = Len(E) + 1
    <3>1. h[i] = g[t] /\ g[t] \in DOMAIN A /\ Append(E, e)[i] = e
      BY <1>2, <1>3, <1>4, <2>2
    <3>2. A[g[t]].seen = e.seen /\ A[g[t]].at <= e.at
      BY <1>3, <3>1
    <3> QED BY <3>1, <3>2
  <2> QED BY <1>6, <2>1, <2>2
<1>10. /\ \A v \in S \ {t} : A[r[v]].seen = sn[v]
       /\ \A v, u \in S \ {t} : r[v] = r[u] => v = u
  BY <1>3, <1>4
<1>11. LinkedBy(A, Append(E, e), S \ {t}, sn, h, r)
  BY <1>2, <1>5, <1>7, <1>8, <1>9, <1>10 DEF LinkedBy
<1> QED BY <1>11 DEF Linked

\* Readings of other threads do not matter.
LEMMA LinkReading ==
    ASSUME NEW A, NEW E, NEW S, NEW sn, NEW new, Linked(A, E, S, sn), \A t \in S : new[t] = sn[t]
    PROVE  Linked(A, E, S, new)
BY DEF Linked, LinkedBy

-----------------------------------------------------------------------------
LEMMA InitQInv == Init => QInv
<1> SUFFICES ASSUME Init PROVE QInv
  OBVIOUS
<1> USE LimitAssumption DEF Init
<1>1. TimeInv /\ DequeInv /\ EventInv
  BY DEF TimeInv, DequeInv, Dropped, EventInv, Ordered
<1>2. WindowInv
  <2>1. \A x \in 0 .. now : InWindow(x) = {}
    BY DEF InWindow
  <2> QED BY <2>1, FS_EmptySet DEF WindowInv
<1>3. Linked(<<>>, <<>>, {}, seen)
  <2>1. LinkedBy(<<>>, <<>>, {}, seen, <<>>, <<>>)
    BY DEF LinkedBy
  <2> QED BY <2>1, Zenon DEF Linked
<1>4. Sending = {} /\ Fetching = {}
  BY DEF Sending, Fetching
<1>5. LinkInv
  BY <1>3, <1>4 DEF LinkInv
<1> QED BY <1>1, <1>2, <1>5 DEF QInv

\* Readings stay in the past.
LEMMA TimeStep == TypeOK /\ TimeInv /\ [Next]_vars => TimeInv'
<1> SUFFICES ASSUME TypeOK, TimeInv, [Next]_vars PROVE TimeInv'
  OBVIOUS
<1> USE DEF Goto, limiter, history
<1>1. ASSUME NEW t \in Threads, Admit(t) PROVE TimeInv'
  <2>1. Stamp(t) \in Stamps /\ Stamp(t).seen = seen[t] /\ Stamp(t).at = now /\ now \in Nat
    BY DEF Stamp, Stamps, TypeOK
  <2>2. admissions' = Append(admissions, Stamp(t)) /\ UNCHANGED <<now, seen>>
    BY <1>1 DEF Admit
  <2>3. admissions \in Seq(Stamps)
    BY DEF TypeOK
  <2>4. /\ DOMAIN admissions = 1 .. Len(admissions) /\ DOMAIN admissions' = 1 .. Len(admissions) + 1
        /\ Len(admissions) \in Nat
        /\ admissions'[Len(admissions) + 1] = Stamp(t)
        /\ \A i \in 1 .. Len(admissions) : admissions'[i] = admissions[i]
    BY <2>1, <2>2, <2>3, Grows
  <2>5. \A i \in 1 .. Len(admissions) + 1 : i \in 1 .. Len(admissions) \/ i = Len(admissions) + 1
    BY <2>4
  <2>6. \A i \in DOMAIN admissions' : admissions'[i].seen <= admissions'[i].at /\ admissions'[i].at <= now
    BY <2>1, <2>4, <2>5 DEF TimeInv
  <2>7. \A i, j \in DOMAIN admissions' : i <= j => admissions'[i].at <= admissions'[j].at
    <3> SUFFICES ASSUME NEW i \in DOMAIN admissions', NEW j \in DOMAIN admissions', i <= j
                 PROVE  admissions'[i].at <= admissions'[j].at
      OBVIOUS
    <3>1. CASE j = Len(admissions) + 1
      BY <2>1, <2>4, <2>6, <3>1
    <3>2. CASE j \in 1 .. Len(admissions)
      <4>1. i \in 1 .. Len(admissions)
        BY <2>4, <3>2
      <4> QED BY <2>4, <3>2, <4>1 DEF TimeInv
    <3> QED BY <2>4, <2>5, <3>1, <3>2
  <2> QED BY <2>2, <2>6, <2>7 DEF TimeInv
<1>2. ASSUME NEW t \in Threads, ReadClock(t) PROVE TimeInv'
  <2>1. seen' = [seen EXCEPT ![t] = now] /\ UNCHANGED <<now, admissions>>
    BY <1>2 DEF ReadClock
  <2>2. \A u \in Threads : seen'[u] <= now
    BY <2>1 DEF TypeOK, TimeInv
  <2> QED BY <2>1, <2>2 DEF TimeInv
<1>3. CASE Tick
  <2>1. now' = now + 1 /\ UNCHANGED <<seen, admissions>>
    BY <1>3 DEF Tick
  <2>2. now \in Nat /\ \A i \in DOMAIN admissions : admissions[i] \in Stamps
    BY DEF TypeOK
  <2>3. \A t \in Threads : seen[t] \in Nat
    BY DEF TypeOK
  <2> QED BY <2>1, <2>2, <2>3 DEF TimeInv, Stamps
<1>4. ASSUME NEW t \in Threads, Refuse(t) \/ Sleep(t) \/ Pass(t) \/ Contact(t) \/ Verdict(t) PROVE TimeInv'
  <2>1. UNCHANGED <<now, seen, admissions>>
    BY <1>4 DEF Refuse, Sleep, Pass, Contact, Verdict
  <2> QED BY <2>1 DEF TimeInv
<1>5. CASE UNCHANGED vars
  BY <1>5 DEF vars, TimeInv
<1> QED BY <1>1, <1>2, <1>3, <1>4, <1>5 DEF Next, Thread

\* What expiry drops is a window old, and the rest are the last admissions.
LEMMA Kept ==
    ASSUME TypeOK, TimeInv, DequeInv, NEW t \in Threads
    PROVE  \E d \in Nat : /\ Live(seen[t]) \in Seq(Nat) /\ Len(admissions) \in Nat
                          /\ Len(Live(seen[t])) + d = Len(admissions)
                          /\ \A i \in 1 .. Len(Live(seen[t])) : Live(seen[t])[i] = admissions[d + i].seen
                          /\ \A i \in 1 .. d : admissions[i].seen + Window <= now
<1>1. /\ attempts \in Seq(Nat) /\ seen[t] \in Nat /\ now \in Nat /\ seen[t] <= now
      /\ Len(attempts) \in Nat /\ Len(admissions) \in Nat
      /\ DOMAIN attempts = 1 .. Len(attempts) /\ Window \in Nat
      /\ \A i \in 1 .. Len(admissions) : admissions[i].seen \in Nat
  <2>1. attempts \in Seq(Nat) /\ seen[t] \in Nat /\ now \in Nat /\ admissions \in Seq(Stamps)
    BY DEF TypeOK
  <2>2. Len(attempts) \in Nat /\ Len(admissions) \in Nat /\ DOMAIN attempts = 1 .. Len(attempts)
    BY <2>1
  <2>3. \A i \in 1 .. Len(admissions) : admissions[i].seen \in Nat
    BY <2>1, StampTypes
  <2>4. seen[t] <= now /\ Window \in Nat
    BY LimitAssumption DEF TimeInv
  <2> QED BY <2>1, <2>2, <2>3, <2>4
<1>2. PICK m \in 1 .. Len(attempts) + 1 :
         /\ \A i \in 1 .. m - 1 : Expired(seen[t], attempts[i])
         /\ Live(seen[t]) \in Seq(Nat) /\ Len(Live(seen[t])) = Len(attempts) - m + 1
         /\ \A i \in 1 .. Len(Live(seen[t])) : Live(seen[t])[i] = attempts[m + i - 1]
  BY <1>1, LiveSuffix, Zenon
<1>3. /\ Dropped \in Nat /\ Dropped = Len(admissions) - Len(attempts)
      /\ \A i \in 1 .. Len(attempts) : attempts[i] = admissions[Dropped + i].seen
      /\ \A i \in 1 .. Dropped : admissions[i].seen + Window <= now
  BY <1>1 DEF DequeInv, Dropped
<1> DEFINE n == Len(attempts)  l == Len(Live(seen[t]))  a == Len(admissions)  d == Dropped + m - 1
<1>4. d \in Nat /\ l + d = a
  <2> HIDE DEF l, n, a
  <2>1. l = n - m + 1 /\ m \in 1 .. n + 1
    BY <1>2 DEF l, n
  <2>2. Dropped = a - n /\ Dropped \in Nat
    BY <1>3 DEF n, a
  <2>3. n \in Nat /\ a \in Nat
    BY <1>1 DEF n, a
  <2> QED BY <2>1, <2>2, <2>3
<1>5. ASSUME NEW i \in 1 .. l PROVE Live(seen[t])[i] = admissions[d + i].seen
  <2>1. m + i - 1 \in 1 .. n /\ Dropped + (m + i - 1) = d + i
    <3>1. l = n - m + 1 /\ m \in 1 .. n + 1
      BY <1>2
    <3>2. n \in Nat /\ Dropped \in Nat
      BY <1>1, <1>3
    <3> HIDE DEF l, n
    <3> QED BY <3>1, <3>2
  <2> QED BY <1>2, <1>3, <2>1
<1>6. ASSUME NEW i \in 1 .. d PROVE admissions[i].seen + Window <= now
  <2>1. CASE i <= Dropped
    BY <1>3, <2>1
  <2>2. CASE i > Dropped
    <3>1. i - Dropped \in 1 .. m - 1 /\ i - Dropped \in 1 .. Len(attempts) /\ Dropped + (i - Dropped) = i
      BY <1>1, <1>3, <2>2
    <3>2. Expired(seen[t], attempts[i - Dropped]) /\ attempts[i - Dropped] = admissions[i].seen
      BY <1>2, <1>3, <3>1
    <3>3. admissions[i].seen \in Nat
      BY <1>1, <1>4
    <3> QED BY <1>1, <3>2, <3>3 DEF Expired
  <2> QED BY <1>3, <2>1, <2>2
<1> QED BY <1>1, <1>2, <1>4, <1>5, <1>6

\* The deque holds the last admissions after each step.
LEMMA DequeStep == TypeOK /\ TypeOK' /\ TimeInv /\ DequeInv /\ [Next]_vars => DequeInv'
<1> SUFFICES ASSUME TypeOK, TypeOK', TimeInv, DequeInv, [Next]_vars PROVE DequeInv'
  OBVIOUS
<1> USE DEF Goto, limiter, history
<1>1. ASSUME NEW t \in Threads, Admit(t) PROVE DequeInv'
  <2>1. /\ attempts' = Append(Live(seen[t]), seen[t]) /\ admissions' = Append(admissions, Stamp(t))
        /\ now' = now
    BY <1>1 DEF Admit
  <2>2. PICK d \in Nat : /\ Live(seen[t]) \in Seq(Nat) /\ Len(admissions) \in Nat
                         /\ Len(Live(seen[t])) + d = Len(admissions)
                         /\ \A i \in 1 .. Len(Live(seen[t])) : Live(seen[t])[i] = admissions[d + i].seen
                         /\ \A i \in 1 .. d : admissions[i].seen + Window <= now
    BY Kept
  <2>3. Stamp(t) \in Stamps /\ Stamp(t).seen = seen[t] /\ seen[t] \in Nat /\ admissions \in Seq(Stamps)
    BY DEF Stamp, Stamps, TypeOK
  <2> DEFINE l == Len(Live(seen[t]))  a == Len(admissions)
  <2>4. /\ Len(admissions') = a + 1 /\ admissions'[a + 1] = Stamp(t)
        /\ \A i \in 1 .. a : admissions'[i] = admissions[i]
    BY <2>1, <2>3, Grows
  <2>5. /\ attempts' \in Seq(Nat) /\ Len(attempts') = l + 1 /\ attempts'[l + 1] = seen[t]
        /\ \A i \in 1 .. l : attempts'[i] = Live(seen[t])[i]
    BY <2>1, <2>2, <2>3, AppendProperties
  <2>6. l \in Nat /\ a \in Nat /\ l + d = a /\ DOMAIN attempts' = 1 .. l + 1
    BY <2>2, <2>5
  <2>7. /\ \A i \in 1 .. l : attempts'[i] = admissions[d + i].seen
        /\ \A i \in 1 .. d : admissions[i].seen + Window <= now
    BY <2>2, <2>5
  <2> HIDE DEF l, a
  <2>8. Dropped' = d
    <3>1. Dropped' = (a + 1) - (l + 1)
      BY <2>4, <2>5 DEF Dropped
    <3> QED BY <2>6, <3>1
  <2>9. ASSUME NEW i \in 1 .. l + 1 PROVE attempts'[i] = admissions'[d + i].seen
    <3>1. CASE i = l + 1
      <4>1. d + i = a + 1
        BY <2>6, <3>1
      <4> QED BY <2>3, <2>4, <2>5, <3>1, <4>1
    <3>2. CASE i \in 1 .. l
      <4>1. d + i \in 1 .. a
        BY <2>6, <3>2
      <4> QED BY <2>4, <2>7, <3>2, <4>1
    <3> QED BY <2>6, <3>1, <3>2
  <2>10. ASSUME NEW i \in 1 .. d PROVE admissions'[i].seen + Window <= now'
    <3>1. i \in 1 .. a
      BY <2>6
    <3> QED BY <2>1, <2>4, <2>7, <3>1
  <2> QED BY <2>6, <2>8, <2>9, <2>10 DEF DequeInv
<1>2. ASSUME NEW t \in Threads, Refuse(t) PROVE DequeInv'
  <2>1. attempts' = Live(seen[t]) /\ admissions' = admissions /\ now' = now
    BY <1>2 DEF Refuse
  <2>2. PICK d \in Nat : /\ Live(seen[t]) \in Seq(Nat) /\ Len(admissions) \in Nat
                         /\ Len(Live(seen[t])) + d = Len(admissions)
                         /\ \A i \in 1 .. Len(Live(seen[t])) : Live(seen[t])[i] = admissions[d + i].seen
                         /\ \A i \in 1 .. d : admissions[i].seen + Window <= now
    BY Kept
  <2>3. Len(attempts') \in Nat /\ DOMAIN attempts' = 1 .. Len(attempts') /\ Len(attempts') + d = Len(admissions')
    BY <2>1, <2>2
  <2>4. Dropped' = d
    BY <2>1, <2>2, <2>3 DEF Dropped
  <2> QED BY <2>1, <2>2, <2>3, <2>4 DEF DequeInv
<1>3. CASE Tick
  <2>1. now' = now + 1 /\ UNCHANGED <<attempts, admissions>> /\ now \in Nat
    BY <1>3 DEF Tick, TypeOK
  <2>2. \A i \in 1 .. Dropped : admissions[i].seen + Window <= now + 1
    <3> SUFFICES ASSUME NEW i \in 1 .. Dropped PROVE admissions[i].seen + Window <= now + 1
      OBVIOUS
    <3>1. Dropped \in Nat /\ Dropped = Len(admissions) - Len(attempts) /\ admissions[i].seen + Window <= now
      BY DEF DequeInv, Dropped
    <3>2. admissions \in Seq(Stamps) /\ Len(attempts) \in Nat
      BY DEF TypeOK
    <3>3. i \in 1 .. Len(admissions)
      BY <3>1, <3>2, StampTypes
    <3>4. admissions[i].seen \in Nat
      BY <3>2, <3>3, StampTypes
    <3> QED BY <2>1, <3>1, <3>4, LimitAssumption
  <2> QED BY <2>1, <2>2 DEF DequeInv, Dropped
<1>4. ASSUME NEW t \in Threads, ReadClock(t) \/ Sleep(t) \/ Pass(t) \/ Contact(t) \/ Verdict(t) PROVE DequeInv'
  <2>1. UNCHANGED <<now, attempts, admissions>>
    BY <1>4 DEF ReadClock, Sleep, Pass, Contact, Verdict
  <2> QED BY <2>1 DEF DequeInv, Dropped
<1>5. CASE UNCHANGED vars
  BY <1>5 DEF vars, DequeInv, Dropped
<1> QED BY <1>1, <1>2, <1>3, <1>4, <1>5 DEF Next, Thread

\* The admissions that count now are among those the deque holds.
LEMMA WindowNow ==
    TypeOK /\ DequeInv => /\ \A x : IsFiniteSet(InWindow(x)) /\ Cardinality(InWindow(x)) \in Nat
                          /\ NowInv
<1> SUFFICES ASSUME TypeOK, DequeInv
             PROVE  (\A x : IsFiniteSet(InWindow(x)) /\ Cardinality(InWindow(x)) \in Nat) /\ NowInv
  OBVIOUS
<1>1. /\ admissions \in Seq(Stamps) /\ Len(attempts) \in Nat /\ Len(attempts) <= Quota /\ now \in Nat
  BY DEF TypeOK
<1>2. /\ Len(admissions) \in Nat /\ DOMAIN admissions = 1 .. Len(admissions)
      /\ \A i \in 1 .. Len(admissions) : admissions[i].seen \in Nat
  BY <1>1, StampTypes
<1>3. \A x : InWindow(x) \in SUBSET (1 .. Len(admissions))
  BY <1>2 DEF InWindow
<1>4. \A x : IsFiniteSet(InWindow(x)) /\ Cardinality(InWindow(x)) \in Nat
  <2> SUFFICES ASSUME NEW x PROVE IsFiniteSet(InWindow(x)) /\ Cardinality(InWindow(x)) \in Nat
    OBVIOUS
  <2>1. IsFiniteSet(1 .. Len(admissions))
    BY <1>2, FS_Interval
  <2>2. IsFiniteSet(InWindow(x))
    BY <1>3, <2>1, FS_Subset
  <2> QED BY <2>2, FS_CardinalityType
<1>5. /\ Dropped \in Nat /\ Dropped = Len(admissions) - Len(attempts)
      /\ \A i \in 1 .. Dropped : admissions[i].seen + Window <= now
  BY DEF DequeInv, Dropped
<1>6. InWindow(now) \in SUBSET (Dropped + 1 .. Len(admissions))
  <2> SUFFICES ASSUME NEW i \in InWindow(now) PROVE i \in Dropped + 1 .. Len(admissions)
    OBVIOUS
  <2>1. i \in 1 .. Len(admissions) /\ admissions[i].seen + Window > now
    BY <1>2 DEF InWindow
  <2>2. i \notin 1 .. Dropped
    BY <1>1, <1>2, <1>5, <2>1, LimitAssumption
  <2> QED BY <1>2, <1>5, <2>1, <2>2
<1> DEFINE last_ones == Dropped + 1 .. Len(admissions)
<1>7. IsFiniteSet(last_ones) /\ Cardinality(last_ones) = Len(attempts)
  <2>1. Dropped + 1 \in Int /\ Len(admissions) \in Int
    BY <1>2, <1>5
  <2>2. IsFiniteSet(last_ones)
        /\ Cardinality(last_ones) = IF Dropped + 1 > Len(admissions) THEN 0 ELSE Len(admissions) - (Dropped + 1) + 1
    BY <2>1, FS_Interval
  <2> QED BY <1>1, <1>2, <1>5, <2>2
<1>8. Cardinality(InWindow(now)) <= Len(attempts)
  <2> HIDE DEF last_ones
  <2>1. InWindow(now) \in SUBSET last_ones
    BY <1>6 DEF last_ones
  <2> QED BY <1>7, <2>1, FS_Subset
<1>9. Cardinality(InWindow(now)) <= Quota
  <2>1. Cardinality(InWindow(now)) \in Nat
    BY <1>4
  <2> QED BY <1>1, <1>8, <2>1, LimitAssumption
<1> QED BY <1>4, <1>9 DEF NowInv

LEMMA WindowNext == TypeOK' /\ DequeInv' => NowInv'
<1>1. TypeOK /\ DequeInv => NowInv
  BY WindowNow
<1> QED BY <1>1, PTL

\* No window of the past changes, and the one that ends now is full at most.
LEMMA WindowStep == TypeOK /\ TypeOK' /\ DequeInv' /\ WindowInv /\ [Next]_vars => WindowInv'
<1> SUFFICES ASSUME TypeOK, TypeOK', DequeInv', WindowInv, [Next]_vars, NEW x \in 0 .. now'
             PROVE  Cardinality(InWindow(x)') <= Quota
  BY DEF WindowInv, InWindow
<1> USE DEF Goto, limiter, history
<1>1. CASE x = now'
  <2>1. NowInv'
    BY WindowNext
  <2> QED BY <1>1, <2>1 DEF NowInv, InWindow
<1>2. CASE x # now'
  <2>1. now \in Nat /\ now' \in Nat /\ (now' = now \/ now' = now + 1)
    <3>1. now' = now \/ now' = now + 1
      BY DEF Next, Thread, Tick, ReadClock, Admit, Refuse, Sleep, Pass, Contact, Verdict, vars
    <3> QED BY <3>1 DEF TypeOK
  <2>2. x \in 0 .. now /\ (now' = now => x < now)
    BY <1>2, <2>1
  <2>3. InWindow(x)' = InWindow(x)
    <3>1. CASE admissions' = admissions
      BY <3>1 DEF InWindow
    <3>2. ASSUME NEW t \in Threads, Admit(t) PROVE InWindow(x)' = InWindow(x)
      <4>1. admissions' = Append(admissions, Stamp(t)) /\ now' = now
        BY <3>2 DEF Admit
      <4>2. Stamp(t) \in Stamps /\ Stamp(t).at = now /\ admissions \in Seq(Stamps)
        BY DEF Stamp, Stamps, TypeOK
      <4>3. /\ DOMAIN admissions = 1 .. Len(admissions) /\ DOMAIN admissions' = 1 .. Len(admissions) + 1
            /\ Len(admissions) \in Nat /\ admissions'[Len(admissions) + 1] = Stamp(t)
            /\ \A i \in 1 .. Len(admissions) : admissions'[i] = admissions[i]
        BY <4>1, <4>2, Grows
      <4>4. ~(admissions'[Len(admissions) + 1].at <= x)
        BY <2>1, <2>2, <4>1, <4>2, <4>3
      <4>5. \A i \in 1 .. Len(admissions) + 1 : i \in 1 .. Len(admissions) \/ i = Len(admissions) + 1
        BY <4>3
      <4>6. \A i \in 1 .. Len(admissions) : i \in 1 .. Len(admissions) + 1
        BY <4>3
      <4>7. \A i : i \in InWindow(x)' <=> i \in InWindow(x)
        BY <4>3, <4>4, <4>5, <4>6 DEF InWindow
      <4> QED BY <4>7, Zenon
    <3>3. admissions' = admissions \/ \E t \in Threads : Admit(t)
      BY DEF Next, Thread, Tick, ReadClock, Refuse, Sleep, Pass, Contact, Verdict, vars
    <3> QED BY <3>1, <3>2, <3>3
  <2> QED BY <2>2, <2>3 DEF WindowInv
<1> QED BY <1>1, <1>2

\* An event at the present time, in the order of time.
LEMMA OrderGrows ==
    ASSUME NEW E \in Seq(Stamps), NEW e \in Stamps, now \in Nat, Ordered(E), e.seen <= now, e.at = now
    PROVE  Ordered(Append(E, e))
<1>1. /\ DOMAIN E = 1 .. Len(E) /\ DOMAIN Append(E, e) = 1 .. Len(E) + 1 /\ Len(E) \in Nat
      /\ Append(E, e)[Len(E) + 1] = e /\ \A i \in 1 .. Len(E) : Append(E, e)[i] = E[i]
  BY Grows
<1>2. \A i \in 1 .. Len(E) + 1 : i \in 1 .. Len(E) \/ i = Len(E) + 1
  BY <1>1
<1>3. \A i \in 1 .. Len(E) + 1 : Append(E, e)[i].seen <= Append(E, e)[i].at /\ Append(E, e)[i].at <= now
  BY <1>1, <1>2 DEF Ordered
<1>4. ASSUME NEW i \in 1 .. Len(E) + 1, NEW j \in 1 .. Len(E) + 1, i <= j
      PROVE  Append(E, e)[i].at <= Append(E, e)[j].at
  <2>1. CASE j = Len(E) + 1
    BY <1>1, <1>3, <2>1
  <2>2. CASE j \in 1 .. Len(E)
    <3>1. i \in 1 .. Len(E)
      BY <1>1, <1>4, <2>2
    <3> QED BY <1>1, <1>4, <2>2, <3>1 DEF Ordered
  <2> QED BY <1>2, <2>1, <2>2
<1> QED BY <1>1, <1>3, <1>4 DEF Ordered

\* Events keep coming in order.
LEMMA EventStep == TypeOK /\ TimeInv /\ EventInv /\ [Next]_vars => EventInv'
<1> SUFFICES ASSUME TypeOK, TimeInv, EventInv, [Next]_vars PROVE EventInv'
  OBVIOUS
<1> USE DEF Goto, limiter, history
<1>1. ASSUME NEW t \in Threads, Contact(t) \/ Verdict(t) PROVE EventInv'
  <2>1. /\ Stamp(t) \in Stamps /\ Stamp(t).seen = seen[t] /\ Stamp(t).at = now /\ now \in Nat
        /\ contacts \in Seq(Stamps) /\ verdicts \in Seq(Stamps)
    BY DEF Stamp, Stamps, TypeOK
  <2>2. seen[t] <= now
    BY DEF TimeInv
  <2>3. Ordered(contacts) /\ Ordered(verdicts)
    BY DEF EventInv
  <2>4. Ordered(Append(contacts, Stamp(t))) /\ Ordered(Append(verdicts, Stamp(t)))
    BY <2>1, <2>2, <2>3, OrderGrows
  <2>5. now' = now /\ contacts' \in {contacts, Append(contacts, Stamp(t))}
        /\ verdicts' \in {verdicts, Append(verdicts, Stamp(t))}
    BY <1>1 DEF Contact, Verdict
  <2> QED BY <2>3, <2>4, <2>5 DEF EventInv, Ordered
<1>2. CASE Tick
  <2>1. now' = now + 1 /\ UNCHANGED <<contacts, verdicts>> /\ now \in Nat
    BY <1>2 DEF Tick, TypeOK
  <2>2. contacts \in Seq(Stamps) /\ verdicts \in Seq(Stamps)
    BY DEF TypeOK
  <2>3. ASSUME NEW E \in Seq(Stamps), Ordered(E), E' = E PROVE Ordered(E)'
    <3>1. \A i \in DOMAIN E : E[i].at \in Nat /\ E[i].at <= now /\ E[i].seen <= E[i].at
      BY <2>3, StampTypes DEF Ordered
    <3> QED BY <2>1, <2>3, <3>1 DEF Ordered
  <2> QED BY <2>1, <2>2, <2>3 DEF EventInv, Ordered
<1>3. ASSUME NEW t \in Threads, ReadClock(t) \/ Admit(t) \/ Refuse(t) \/ Sleep(t) \/ Pass(t) PROVE EventInv'
  <2>1. UNCHANGED <<now, contacts, verdicts>>
    BY <1>3 DEF ReadClock, Admit, Refuse, Sleep, Pass
  <2> QED BY <2>1 DEF EventInv, Ordered
<1>4. CASE UNCHANGED vars
  BY <1>4 DEF vars, EventInv, Ordered
<1> QED BY <1>1, <1>2, <1>3, <1>4 DEF Next, Thread

LEMMA LinkNext ==
    ASSUME Linked(admissions', contacts', Sending', seen'), Linked(admissions', verdicts', Fetching', seen')
    PROVE  LinkInv'
BY Zenon DEF LinkInv, Linked, LinkedBy

\* Admissions and events are linked one to one.
LEMMA LinkStep == TypeOK /\ TimeInv /\ LinkInv /\ [Next]_vars => LinkInv'
<1> SUFFICES ASSUME TypeOK, TimeInv, LinkInv, [Next]_vars PROVE LinkInv'
  OBVIOUS
<1> USE DEF Goto, limiter, history
<1>1. /\ Linked(admissions, contacts, Sending, seen) /\ Linked(admissions, verdicts, Fetching, seen)
      /\ admissions \in Seq(Stamps) /\ contacts \in Seq(Stamps) /\ verdicts \in Seq(Stamps)
  BY DEF LinkInv, TypeOK
<1>2. \A t \in Threads : Stamp(t) \in Stamps /\ Stamp(t).seen = seen[t] /\ Stamp(t).at = now
  BY DEF Stamp, Stamps, TypeOK
<1>3. \A i \in DOMAIN admissions : admissions[i].at <= now
  BY DEF TimeInv
<1>4. ASSUME NEW t \in Threads, Admit(t) PROVE LinkInv'
  <2>1. /\ admissions' = Append(admissions, Stamp(t)) /\ UNCHANGED <<contacts, verdicts, seen>>
        /\ pc[t] = "admit" /\ pc' = [pc EXCEPT ![t] = "limit"]
    BY <1>4 DEF Admit
  <2>2. t \notin Sending /\ t \notin Fetching
    BY <2>1 DEF Sending, Fetching
  <2>3. Sending' = Sending \cup {t} /\ Fetching' = Fetching \cup {t}
    BY <2>1 DEF Sending, Fetching, TypeOK
  <2>4. Linked(admissions', contacts, Sending \cup {t}, seen)
    BY <1>1, <1>2, <2>1, <2>2, LinkAdmission
  <2>5. Linked(admissions', verdicts, Fetching \cup {t}, seen)
    BY <1>1, <1>2, <2>1, <2>2, LinkAdmission
  <2> QED BY <2>1, <2>3, <2>4, <2>5, LinkNext
<1>5. ASSUME NEW t \in Threads, Contact(t) PROVE LinkInv'
  <2>1. /\ contacts' = Append(contacts, Stamp(t)) /\ UNCHANGED <<admissions, verdicts, seen>>
        /\ pc[t] = "send" /\ pc' = [pc EXCEPT ![t] = "await"]
    BY <1>5 DEF Contact
  <2>2. t \in Sending /\ Sending' = Sending \ {t} /\ Fetching' = Fetching
    BY <2>1 DEF Sending, Fetching, TypeOK
  <2>3. Linked(admissions, contacts', Sending \ {t}, seen)
    BY <1>1, <1>2, <1>3, <2>1, <2>2, LinkEvent
  <2> QED BY <1>1, <2>1, <2>2, <2>3, LinkNext
<1>6. ASSUME NEW t \in Threads, Verdict(t) PROVE LinkInv'
  <2>1. /\ verdicts' = Append(verdicts, Stamp(t)) /\ UNCHANGED <<admissions, contacts, seen>>
        /\ pc[t] = "await" /\ pc' = [pc EXCEPT ![t] = "idle"]
    BY <1>6 DEF Verdict
  <2>2. t \in Fetching /\ Fetching' = Fetching \ {t} /\ Sending' = Sending
    BY <2>1 DEF Sending, Fetching, TypeOK
  <2>3. Linked(admissions, verdicts', Fetching \ {t}, seen)
    BY <1>1, <1>2, <1>3, <2>1, <2>2, LinkEvent
  <2> QED BY <1>1, <2>1, <2>2, <2>3, LinkNext
<1>7. ASSUME NEW t \in Threads, ReadClock(t) PROVE LinkInv'
  <2>1. /\ UNCHANGED <<admissions, contacts, verdicts>> /\ seen' = [seen EXCEPT ![t] = now]
        /\ pc[t] = "idle" /\ pc' = [pc EXCEPT ![t] = "admit"]
    BY <1>7 DEF ReadClock
  <2>2. t \notin Sending /\ t \notin Fetching /\ Sending' = Sending /\ Fetching' = Fetching
    BY <2>1 DEF Sending, Fetching, TypeOK
  <2>3. \A u \in Sending \cup Fetching : seen'[u] = seen[u]
    BY <2>1, <2>2 DEF TypeOK, Sending, Fetching
  <2>4. Linked(admissions, contacts, Sending, seen') /\ Linked(admissions, verdicts, Fetching, seen')
    BY <1>1, <2>3, LinkReading
  <2> QED BY <2>1, <2>2, <2>4, LinkNext
<1>8. ASSUME NEW t \in Threads, Refuse(t) \/ Sleep(t) \/ Pass(t) PROVE LinkInv'
  <2>1. UNCHANGED <<admissions, contacts, verdicts, seen>>
    BY <1>8 DEF Refuse, Sleep, Pass
  <2>2. Sending' = Sending /\ Fetching' = Fetching
    BY <1>8 DEF Refuse, Sleep, Pass, Sending, Fetching, TypeOK
  <2> QED BY <1>1, <2>1, <2>2, LinkNext
<1>9. CASE Tick \/ UNCHANGED vars
  <2>1. UNCHANGED <<admissions, contacts, verdicts, seen, pc>>
    BY <1>9 DEF Tick, vars
  <2>2. Sending' = Sending /\ Fetching' = Fetching
    BY <2>1 DEF Sending, Fetching
  <2> QED BY <1>1, <2>1, <2>2, LinkNext
<1> QED BY <1>4, <1>5, <1>6, <1>7, <1>8, <1>9 DEF Next, Thread

LEMMA QInvInductive == Spec => [](TypeOK /\ QInv)
<1>1. TypeOK /\ TypeOK' /\ QInv /\ [Next]_vars => QInv'
  BY TimeStep, DequeStep, WindowStep, LinkStep, EventStep DEF QInv
<1> QED BY InitQInv, <1>1, TypeCorrect, PTL DEF Spec

-----------------------------------------------------------------------------
\* The events within a window shortened by the lag are admissions that count at
\* the time of the last of them.
LEMMA WindowIsKept ==
    ASSUME TypeOK, DequeInv, WindowInv, NEW E \in Seq(Stamps), Ordered(E), NEW S, Linked(admissions, E, S, seen),
           NEW lag \in Nat, \A i \in DOMAIN E : E[i].at - E[i].seen <= lag, NEW i \in DOMAIN E
    PROVE  /\ Cardinality({j \in 1 .. i : E[i].at - E[j].at < Window - lag}) \in Nat
           /\ Cardinality({j \in 1 .. i : E[i].at - E[j].at < Window - lag}) <= Quota
<1> DEFINE inside == {j \in 1 .. i : E[i].at - E[j].at < Window - lag}
           x == E[i].at
<1>1. PICK f, g : LinkedBy(admissions, E, S, seen, f, g)
  BY DEF Linked
<1>2. /\ DOMAIN E = 1 .. Len(E) /\ Len(E) \in Nat /\ i \in 1 .. Len(E) /\ i \in Nat
      /\ \A j \in 1 .. Len(E) : E[j].seen \in Nat /\ E[j].at \in Nat
  BY StampTypes
<1>3. x \in 0 .. now
  BY <1>2 DEF Ordered, TypeOK
<1>4. IsFiniteSet(InWindow(x)) /\ Cardinality(InWindow(x)) \in Nat /\ Cardinality(InWindow(x)) <= Quota
  BY <1>3, WindowNow DEF WindowInv
<1>5. inside \in SUBSET (1 .. Len(E)) /\ inside \in SUBSET (1 .. i)
  BY <1>2
<1>6. ASSUME NEW j \in inside PROVE f[j] \in InWindow(x)
  <2>1. /\ j \in 1 .. Len(E) /\ j <= i /\ x - E[j].at < Window - lag
        /\ E[j].seen \in Nat /\ E[j].at \in Nat /\ x \in Nat
    BY <1>2, <1>5
  <2>2. /\ f[j] \in DOMAIN admissions /\ admissions[f[j]].seen = E[j].seen
        /\ admissions[f[j]].at <= E[j].at
    BY <1>1, <1>2, <2>1 DEF LinkedBy
  <2>3. admissions[f[j]].at \in Nat
    <3>1. admissions \in Seq(Stamps)
      BY DEF TypeOK
    <3> QED BY <2>2, <3>1, StampTypes
  <2>4. E[j].at <= x /\ E[j].at - E[j].seen <= lag
    BY <1>2, <2>1 DEF Ordered
  <2>5. E[j].seen + Window > x
    BY <2>1, <2>4, LimitAssumption
  <2>6. admissions[f[j]].at <= x
    BY <2>1, <2>2, <2>3, <2>4
  <2> QED BY <2>2, <2>5, <2>6 DEF InWindow
<1> DEFINE h == [j \in inside |-> f[j]]
<1>7. \A j, k \in inside : f[j] = f[k] => j = k
  BY <1>1, <1>2, <1>5 DEF LinkedBy
<1> HIDE DEF inside, x
<1>8. h \in Injection(inside, InWindow(x))
  BY <1>6, <1>7 DEF Injection, IsInjective
<1>9. IsFiniteSet(inside) /\ Cardinality(inside) <= Cardinality(InWindow(x))
  <2> HIDE DEF h
  <2> QED BY <1>4, <1>8, FS_Injection
<1>10. Cardinality(inside) \in Nat
  BY <1>9, FS_CardinalityType
<1>11. Cardinality(inside) <= Quota
  BY <1>4, <1>9, <1>10, LimitAssumption
<1> QED BY <1>10, <1>11 DEF inside

\* No event lags more than Lag says.
LEMMA LagBounds ==
    ASSUME TypeOK, NEW E \in Seq(Stamps), Ordered(E)
    PROVE  Lag(E) \in Nat /\ \A i \in DOMAIN E : E[i].at - E[i].seen <= Lag(E)
<1> DEFINE lags == {0} \cup {E[i].at - E[i].seen : i \in DOMAIN E}
<1>1. ASSUME NEW i \in DOMAIN E PROVE E[i].at - E[i].seen \in Nat /\ E[i].at - E[i].seen <= now
  <2>1. E[i].at \in Nat /\ E[i].seen \in Nat
    BY StampTypes
  <2>2. E[i].seen <= E[i].at /\ E[i].at <= now /\ now \in Nat
    BY DEF Ordered, TypeOK
  <2> QED BY <2>1, <2>2
<1>2. now \in Nat
  BY DEF TypeOK
<1>3. lags \in SUBSET Nat /\ lags # {} /\ \A l \in lags : l <= now
  BY <1>1, <1>2
<1>4. Max(lags) \in lags /\ \A l \in lags : l <= Max(lags)
  <2> HIDE DEF lags
  <2> QED BY <1>2, <1>3, GreatestOne
<1>5. Lag(E) = Max(lags)
  BY DEF Lag
<1> QED BY <1>3, <1>4, <1>5

\* The check of the tenancy probe over any ordered events that are linked.
LEMMA WithinQuota ==
    ASSUME TypeOK, DequeInv, WindowInv, NEW E \in Seq(Stamps), Ordered(E), NEW S, Linked(admissions, E, S, seen)
    PROVE  max_in_window(E, Window - Lag(E)) <= Quota
<1> DEFINE width == Window - Lag(E)
           inside(i) == {j \in 1 .. i : E[i].at - E[j].at < width}
           counts == {0} \cup {Cardinality(inside(i)) : i \in DOMAIN E}
<1>1. \A i \in DOMAIN E : Cardinality(inside(i)) \in Nat /\ Cardinality(inside(i)) <= Quota
  BY LagBounds, WindowIsKept
<1>2. Quota \in Nat
  BY LimitAssumption
<1> HIDE DEF inside
<1>3. counts \in SUBSET Nat /\ counts # {} /\ \A c \in counts : c <= Quota
  BY <1>1, <1>2
<1>4. Max(counts) \in counts
  <2> HIDE DEF counts
  <2> QED BY <1>2, <1>3, GreatestOne
<1>5. max_in_window(E, width) = Max(counts)
  BY DEF max_in_window, inside
<1> QED BY <1>3, <1>4, <1>5

\* The quota over time, for every quota, window and number of threads: no window
\* shortened by the lag holds more requests to the upstream, nor more upstream
\* verdicts, than "quota": _admit against the clock.
THEOREM QuotaHolds == Spec => []QuotaOverTime
<1>1. TypeOK /\ QInv => QuotaOverTime
  <2> SUFFICES ASSUME TypeOK, QInv PROVE QuotaOverTime
    OBVIOUS
  <2>1. contacts \in Seq(Stamps) /\ verdicts \in Seq(Stamps)
    BY DEF TypeOK
  <2>2. /\ DequeInv /\ WindowInv /\ Ordered(contacts) /\ Ordered(verdicts)
        /\ Linked(admissions, contacts, Sending, seen) /\ Linked(admissions, verdicts, Fetching, seen)
    BY DEF QInv, EventInv, LinkInv
  <2> QED BY <2>1, <2>2, WithinQuota DEF QuotaOverTime
<1> QED BY QInvInductive, <1>1, PTL

\* The events of E in the window of that width which begins at x.
Within(E, x, width) == {k \in DOMAIN E : x <= E[k].at /\ E[k].at < x + width}

\* max_in_window looks only at windows that end at an event, but none holds more,
\* wherever it begins: the events of a window are among those that end with its
\* last one.
LEMMA EveryWindow ==
    ASSUME NEW E \in Seq(Stamps), NEW width \in Int, NEW x \in Int
    PROVE  /\ Cardinality(Within(E, x, width)) <= max_in_window(E, width)
           /\ Cardinality(Within(E, x, width)) \in Nat /\ max_in_window(E, width) \in Nat
<1> DEFINE inside(n) == {k \in 1 .. n : E[n].at - E[k].at < width}
           counts == {0} \cup {Cardinality(inside(n)) : n \in DOMAIN E}
           W == Within(E, x, width)
<1>1. /\ Len(E) \in Nat /\ DOMAIN E = 1 .. Len(E) /\ \A k \in 1 .. Len(E) : E[k].at \in Nat
      /\ IsFiniteSet(1 .. Len(E)) /\ Cardinality(1 .. Len(E)) = Len(E)
  <2>1. Len(E) \in Nat /\ DOMAIN E = 1 .. Len(E) /\ \A k \in 1 .. Len(E) : E[k].at \in Nat
    BY StampTypes
  <2>2. 1 \in Int /\ Len(E) \in Int
    BY <2>1
  <2>3. IsFiniteSet(1 .. Len(E)) /\ Cardinality(1 .. Len(E)) = IF 1 > Len(E) THEN 0 ELSE Len(E) - 1 + 1
    BY ONLY <2>2, FS_Interval
  <2> QED BY <2>1, <2>3
<1>2. \A n \in 1 .. Len(E) : /\ IsFiniteSet(inside(n)) /\ Cardinality(inside(n)) \in Nat
                            /\ Cardinality(inside(n)) <= Len(E)
  <2>1. ASSUME NEW n \in 1 .. Len(E)
        PROVE  IsFiniteSet(inside(n)) /\ Cardinality(inside(n)) <= Cardinality(1 .. Len(E))
    <3>1. inside(n) \subseteq 1 .. Len(E)
      BY <1>1
    <3> HIDE DEF inside
    <3>2. IsFiniteSet(1 .. Len(E))
      BY <1>1
    <3> QED BY ONLY <3>1, <3>2, FS_Subset
  <2> HIDE DEF inside
  <2> QED BY <1>1, <2>1, FS_CardinalityType
<1>3. counts \in SUBSET Nat /\ 0 \in counts /\ \A c \in counts : c <= Len(E)
  <2> HIDE DEF inside
  <2> QED BY <1>1, <1>2
<1>4. Max(counts) \in Nat /\ \A c \in counts : c <= Max(counts)
  <2> HIDE DEF counts
  <2> QED BY <1>1, <1>3, GreatestOne
<1>5. max_in_window(E, width) = Max(counts)
  BY DEF max_in_window
<1>6. CASE W = {}
  <2>1. Cardinality(W) = 0
    BY ONLY <1>6, FS_EmptySet
  <2> HIDE DEF counts
  <2> QED BY <1>4, <1>5, <2>1
<1>7. CASE W # {}
  <2>1. W \in SUBSET Nat /\ \A k \in W : k <= Len(E)
    BY <1>1 DEF Within
  <2>2. PICK n \in W : \A k \in W : k <= n
    <3> HIDE DEF W
    <3> QED BY <1>1, <1>7, <2>1, GreatestOne
  <2>3. n \in 1 .. Len(E) /\ E[n].at < x + width
    BY <1>1, <2>2 DEF Within
  <2>4. ASSUME NEW k \in W PROVE k \in inside(n)
    <3>1. k \in 1 .. Len(E) /\ x <= E[k].at /\ k <= n
      BY <1>1, <2>2 DEF Within
    <3>2. E[n].at - E[k].at < width
      BY <1>1, <2>3, <3>1
    <3> QED BY <2>3, <3>1, <3>2
  <2>5. Cardinality(W) <= Cardinality(inside(n)) /\ Cardinality(W) \in Nat
    <3> HIDE DEF W, inside
    <3>1. W \subseteq inside(n) /\ IsFiniteSet(inside(n))
      BY <1>2, <2>3, <2>4
    <3> QED BY ONLY <3>1, FS_Subset, FS_CardinalityType
  <2>6. Cardinality(inside(n)) \in counts
    BY <1>1, <2>3
  <2> HIDE DEF counts, inside
  <2> QED BY <1>2, <1>4, <1>5, <2>3, <2>5, <2>6
<1> QED BY <1>6, <1>7

\* So the quota bounds every stretch of time, not only those that end at a request
\* or a verdict: none shorter than the window by the lag holds more than "quota",
\* whenever it begins.
THEOREM QuotaOfEveryWindow ==
    Spec => [](\A x \in Int : /\ Cardinality(Within(contacts, x, Window - Lag(contacts))) <= Quota
                             /\ Cardinality(Within(verdicts, x, Window - Lag(verdicts))) <= Quota)
<1>1. TypeOK /\ QInv /\ QuotaOverTime =>
        \A x \in Int : /\ Cardinality(Within(contacts, x, Window - Lag(contacts))) <= Quota
                      /\ Cardinality(Within(verdicts, x, Window - Lag(verdicts))) <= Quota
  <2> SUFFICES ASSUME TypeOK, QInv, QuotaOverTime, NEW x \in Int,
                      NEW E \in {contacts, verdicts}
               PROVE  Cardinality(Within(E, x, Window - Lag(E))) <= Quota
    OBVIOUS
  <2>1. E \in Seq(Stamps) /\ Ordered(E)
    BY DEF TypeOK, QInv, EventInv
  <2>2. Lag(E) \in Nat /\ Window \in Nat
    BY <2>1, LagBounds, LimitAssumption
  <2> DEFINE width == Window - Lag(E)
  <2>3. width \in Int
    BY <2>2
  <2>4. max_in_window(E, width) <= Quota
    BY DEF QuotaOverTime
  <2> HIDE DEF width
  <2>5. /\ Cardinality(Within(E, x, width)) <= max_in_window(E, width)
        /\ Cardinality(Within(E, x, width)) \in Nat /\ max_in_window(E, width) \in Nat
    BY <2>1, <2>3, EveryWindow
  <2>6. Quota \in Nat /\ Cardinality(Within(E, x, width)) <= Quota
    BY <2>4, <2>5, LimitAssumption
  <2> QED BY <2>6 DEF width
<1> QED BY <1>1, QInvInductive, QuotaHolds, PTL

\* A refused request asked when the deque was full of admissions that had not
\* expired; they and all admissions after them were made within the window.
LEMMA RefusalStep ==
    ASSUME TypeOK, TimeInv, DequeInv, NEW t \in Threads, Refuse(t)
    PROVE  Cardinality({i \in DOMAIN admissions : seen[t] - admissions[i].at < Window}) >= Quota
<1> DEFINE recent == {i \in DOMAIN admissions : seen[t] - admissions[i].at < Window}
           n == Len(attempts)  a == Len(admissions)
<1>1. /\ attempts \in Seq(Nat) /\ seen[t] \in Nat /\ admissions \in Seq(Stamps) /\ n \in Nat
      /\ Quota \in Nat /\ Window \in Nat
  BY LimitAssumption DEF TypeOK
<1>2. /\ a \in Nat /\ DOMAIN admissions = 1 .. a
      /\ \A i \in 1 .. a : admissions[i].seen \in Nat /\ admissions[i].at \in Nat
  BY <1>1, StampTypes
<1>3. recent \in SUBSET (1 .. a)
  BY <1>2
<1>4. IsFiniteSet(recent) /\ Cardinality(recent) \in Nat
  <2> HIDE DEF recent
  <2>1. IsFiniteSet(1 .. a)
    BY <1>2, FS_Interval
  <2>2. IsFiniteSet(recent)
    BY <1>3, <2>1, FS_Subset
  <2> QED BY <2>2, FS_CardinalityType
<1>5. CASE Quota = 0
  BY <1>4, <1>5
<1>6. CASE Quota # 0
  <2>1. PICK m \in 1 .. n + 1 :
           /\ m <= n => ~Expired(seen[t], attempts[m])
           /\ Len(Live(seen[t])) = n - m + 1
    BY <1>1, LiveSuffix, Zenon
  <2>2. n - m + 1 >= Quota
    BY <1>6, <2>1 DEF Refuse, Full
  <2>3. m \in 1 .. n
    BY <1>1, <1>6, <2>1, <2>2
  <2>4. /\ Dropped \in Nat /\ Dropped = a - n /\ attempts[m] = admissions[Dropped + m].seen
    BY <1>1, <2>3 DEF DequeInv, Dropped
  <2> DEFINE first == Dropped + m
  <2>5. first \in 1 .. a
    BY <1>1, <1>2, <2>3, <2>4
  <2>6. seen[t] - admissions[first].seen < Window
    BY <1>1, <1>2, <2>1, <2>3, <2>4, <2>5 DEF Expired
  <2>7. first .. a \in SUBSET recent
    <3> SUFFICES ASSUME NEW i \in first .. a PROVE i \in recent
      OBVIOUS
    <3>1. i \in 1 .. a /\ first <= i
      BY <1>2, <2>5
    <3>2. admissions[first].seen <= admissions[first].at /\ admissions[first].at <= admissions[i].at
      BY <1>2, <2>5, <3>1 DEF TimeInv
    <3>3. seen[t] - admissions[i].at < Window
      BY <1>1, <1>2, <2>5, <2>6, <3>1, <3>2
    <3> QED BY <1>2, <3>1, <3>3
  <2>8. Cardinality(first .. a) = a - first + 1
    <3>1. first \in Int /\ a \in Int /\ ~(first > a)
      BY <1>2, <2>5
    <3> QED BY <3>1, FS_Interval
  <2>9. Cardinality(first .. a) <= Cardinality(recent)
    <3> HIDE DEF recent, first
    <3> QED BY <1>4, <2>7, FS_Subset
  <2> QED BY <1>1, <1>2, <1>4, <2>2, <2>3, <2>4, <2>8, <2>9
<1> QED BY <1>5, <1>6

\* A tenant is refused only when it had its quota of fetches admitted since a
\* window before it asked: _admit is not stingier than its window.
THEOREM RefusalsAreDeserved == Spec => RefusalIsDeserved
<1>1. TypeOK /\ QInv => [\A t \in Threads : Refuse(t) =>
          Cardinality({i \in DOMAIN admissions : seen[t] - admissions[i].at < Window}) >= Quota]_vars
  BY RefusalStep DEF QInv
<1> QED BY QInvInductive, <1>1, PTL DEF RefusalIsDeserved
=============================================================================
