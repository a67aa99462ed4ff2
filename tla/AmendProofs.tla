------------------------------ MODULE AmendProofs ------------------------------
(***************************************************************************)
(* Theorems about Amend: its typing, and that lockfiles amended by one     *)
(* process at a time are append-only while they can be read, which is what *)
(* Broker assumes of the lockfiles it is given (PinsAgree).  At the end,   *)
(* theorems about Grammar, the keys amend() is given, for strings of every *)
(* length.                                                                 *)
(***************************************************************************)
EXTENDS Amend, Grammar, SequenceLemmas

\* One run at a time, "lab-side, between runs".
OneProcess == \A p, q \in Procs : p = q

\* A run under way holds every pin that was ever saved.
RunInv == \A p \in Procs : pc[p] \in {"loop", "save"} => saved \subseteq PairsOf(entries[p])

\* Between the truncation and the write there is nothing to read.
SaveInv == \A p \in Procs : pc[p] = "save" => file = Broken

IInv == TypeOK /\ RunInv /\ SaveInv /\ PinsAreKept

-----------------------------------------------------------------------------
\* The empty lockfile is a lockfile.
LEMMA EmptyType == Empty \in Pins
BY DEF Empty, Pins

\* Pairs of keys and digests.
LEMMA PairsType == \A pins \in Pins : PairsOf(pins) \in SUBSET (Keys \X Digests)
BY DEF PairsOf

\* Pinning a key that has no pin takes no pin away.
LEMMA PinAdds ==
    ASSUME NEW pins \in Pins, NEW k \in Keys, NEW d \in Digests, pins[k] = NoPin
    PROVE  [pins EXCEPT ![k] = d] \in Pins /\ PairsOf(pins) \subseteq PairsOf([pins EXCEPT ![k] = d])
BY BlobAssumption DEF Pins, PairsOf

LEMMA InitIInv == Init => IInv
<1> SUFFICES ASSUME Init PROVE IInv
  OBVIOUS
<1> USE FileAssumption DEF Init
<1>1. TypeOK
  BY EmptyType, PairsType DEF TypeOK
<1>2. RunInv /\ SaveInv /\ PinsAreKept
  BY DEF RunInv, SaveInv, PinsAreKept
<1> QED BY <1>1, <1>2 DEF IInv

\* Taking a key from the queue: what changes and what does not.
LEMMA TakeStep ==
    ASSUME TypeOK, NEW p \in Procs, NEW k \in Keys, Take(p, k)
    PROVE  /\ pc[p] = "loop" /\ queue[p] # <<>> /\ seen' \in [Procs -> SUBSET Keys]
           /\ UNCHANGED <<file, args, saved, runs, kills>>
<1>1. pc[p] = "loop" /\ queue[p] # <<>> /\ UNCHANGED <<file, args, saved, runs, kills>>
  BY Zenon DEF Take
<1>2. seen' = [seen EXCEPT ![p] = @ \cup {k}]
  BY Zenon DEF Take
<1> QED BY <1>1, <1>2 DEF TypeOK

\* Trusting bytes keeps the typing and every pin of the run.
LEMMA TrustStep ==
    ASSUME TypeOK, NEW p \in Procs, NEW k \in Keys, NEW b \in Blobs, Trust(p, k, b)
    PROVE  /\ entries' \in [Procs -> Pins] /\ PairsOf(entries[p]) \subseteq PairsOf(entries'[p])
           /\ added' \in [Procs -> SUBSET Keys] /\ seen' \in [Procs -> SUBSET Keys]
<1> USE DEF TypeOK
<1>1. seen' \in [Procs -> SUBSET Keys]
  BY TakeStep DEF Trust, TakeToFetch
<1>2. CASE Pinned(p, k)
  BY <1>1, <1>2 DEF Trust, Pin
<1>3. CASE ~Pinned(p, k)
  <2>1. entries[p] \in Pins /\ entries[p][k] = NoPin /\ Sha256(b) \in Digests
    BY <1>3 DEF Pinned, Digests
  <2> DEFINE after == [entries[p] EXCEPT ![k] = Sha256(b)]
  <2>2. after \in Pins /\ PairsOf(entries[p]) \subseteq PairsOf(after)
    BY <2>1, PinAdds
  <2>3. entries' = [entries EXCEPT ![p] = after]
    BY <1>3 DEF Trust, Pin
  <2> HIDE DEF after
  <2>4. entries' \in [Procs -> Pins] /\ entries'[p] = after
    BY <2>2, <2>3
  <2>5. added' \in [Procs -> SUBSET Keys]
    BY <1>3 DEF Trust
  <2> QED BY <1>1, <2>2, <2>4, <2>5
<1> QED BY <1>2, <1>3

\* The keys still to be walked stay a sequence of keys.
LEMMA QueueType ==
    ASSUME TypeOK, NEW p \in Procs, queue[p] # <<>>
    PROVE  /\ Tail(queue[p]) \in Seq(Keys)
           /\ \A b \in Blobs : Tail(queue[p]) \o Requires[b] \in Seq(Keys)
<1>1. queue[p] \in Seq(Keys) /\ \A b \in Blobs : Requires[b] \in Seq(Keys)
  BY BlobAssumption DEF TypeOK
<1>2. Tail(queue[p]) \in Seq(Keys)
  BY <1>1, HeadTailProperties
<1>3. \A b \in Blobs : Tail(queue[p]) \o Requires[b] \in Seq(Keys)
  BY <1>1, <1>2, ConcatProperties
<1> QED BY <1>2, <1>3

LEMMA TypeStep == TypeOK /\ [Next]_vars => TypeOK'
<1> SUFFICES ASSUME TypeOK, [Next]_vars PROVE TypeOK'
  OBVIOUS
<1> USE DEF TypeOK, Goto, results, Rest
<1>1. ASSUME NEW p \in Procs, NEW a \in Arguments, Begin(p, a) PROVE TypeOK'
  <2>1. file \notin {Absent, Broken} => file \in Pins
    OBVIOUS
  <2>2. entries' \in [Procs -> Pins]
    BY <1>1, <2>1, EmptyType DEF Begin, load_or_init
  <2>3. queue' \in [Procs -> Seq(Keys)]
    BY <1>1, AskAssumption DEF Begin, Arguments
  <2> QED BY <1>1, <2>2, <2>3 DEF Begin
<1>2. ASSUME NEW p \in Procs, SkipSeen(p) PROVE TypeOK'
  BY <1>2, QueueType DEF SkipSeen
<1>3. ASSUME NEW p \in Procs, NEW k \in Keys, BadKey(p, k) \/ SkipPinned(p, k) \/ Unresolved(p, k) PROVE TypeOK'
  <2>1. Take(p, k) /\ Rest(p)
    BY <1>3, Zenon DEF BadKey, SkipPinned, Unresolved, TakeToFetch
  <2>2. queue[p] # <<>> /\ seen' \in [Procs -> SUBSET Keys] /\ UNCHANGED <<file, args, saved, runs, kills>>
    BY <2>1, TakeStep
  <2>3. queue' \in [Procs -> Seq(Keys)]
    BY <2>1, <2>2, QueueType
  <2>4. UNCHANGED <<entries, added, drift, refused>>
    BY <1>3 DEF BadKey, SkipPinned, Unresolved
  <2>5. pc' \in [Procs -> {"idle", "loop", "save", "done", "aborted"}] /\ unresolved' \in [Procs -> SUBSET Keys]
    <3>1. CASE BadKey(p, k)
      BY <3>1, Zenon DEF BadKey
    <3>2. CASE SkipPinned(p, k)
      BY <3>2, Zenon DEF SkipPinned
    <3>3. CASE Unresolved(p, k)
      <4>1. pc' = pc /\ unresolved' = [unresolved EXCEPT ![p] = @ \cup {k}]
        BY <3>3, Zenon DEF Unresolved
      <4> QED BY <4>1
    <3> QED BY <1>3, <3>1, <3>2, <3>3
  <2> QED BY <2>2, <2>3, <2>4, <2>5
<1>4. ASSUME NEW p \in Procs, NEW k \in Keys, NEW b \in Blobs, Drift(p, k, b) \/ Refuse(p, k, b) PROVE TypeOK'
  <2>1. Take(p, k) /\ Rest(p)
    BY <1>4, Zenon DEF Drift, Refuse, TakeToFetch
  <2>2. queue[p] # <<>> /\ seen' \in [Procs -> SUBSET Keys] /\ UNCHANGED <<file, args, saved, runs, kills>>
    BY <2>1, TakeStep
  <2>3. queue' \in [Procs -> Seq(Keys)]
    BY <2>1, <2>2, QueueType
  <2>4. UNCHANGED <<pc, entries, added, unresolved>>
    BY <1>4 DEF Drift, Refuse
  <2>5. drift' \in [Procs -> SUBSET Keys] /\ refused' \in [Procs -> SUBSET Keys]
    <3>1. CASE Drift(p, k, b)
      <4>1. refused' = refused /\ drift' = [drift EXCEPT ![p] = @ \cup {k}]
        BY <3>1, Zenon DEF Drift
      <4> QED BY <4>1
    <3>2. CASE Refuse(p, k, b)
      <4>1. drift' = drift /\ refused' = [refused EXCEPT ![p] = @ \cup {k}]
        BY <3>2, Zenon DEF Refuse
      <4> QED BY <4>1
    <3> QED BY <1>4, <3>1, <3>2
  <2> QED BY <2>2, <2>3, <2>4, <2>5
<1>5. ASSUME NEW p \in Procs, NEW k \in Keys, NEW b \in Blobs, Accept(p, k, b) \/ Unparsable(p, k, b) PROVE TypeOK'
  <2>1. Trust(p, k, b)
    BY <1>5 DEF Accept, Unparsable
  <2>2. entries' \in [Procs -> Pins] /\ added' \in [Procs -> SUBSET Keys] /\ seen' \in [Procs -> SUBSET Keys]
    BY <2>1, TrustStep
  <2>3. queue[p] # <<>> /\ UNCHANGED <<file, args, saved, runs, kills, drift, unresolved, refused>>
    BY <2>1, TakeStep DEF Trust, TakeToFetch
  <2>4. queue' \in [Procs -> Seq(Keys)]
    <3>1. Tail(queue[p]) \in Seq(Keys) /\ Tail(queue[p]) \o Requires[b] \in Seq(Keys)
      BY <2>3, QueueType
    <3>2. PICK rest \in Seq(Keys) : queue' = [queue EXCEPT ![p] = rest]
      BY <1>5, <3>1, Zenon DEF Accept, Unparsable
    <3> QED BY <3>2
  <2>5. pc' \in [Procs -> {"idle", "loop", "save", "done", "aborted"}]
    BY <1>5 DEF Accept, Unparsable
  <2> QED BY <2>2, <2>3, <2>4, <2>5
<1>6. ASSUME NEW p \in Procs, Finish(p) \/ Truncate(p) \/ Kill(p) PROVE TypeOK'
  <2>1. CASE Finish(p)
    BY <1>6, <2>1 DEF Finish
  <2>2. CASE Truncate(p)
    BY <1>6, <2>2 DEF Truncate
  <2>3. CASE Kill(p)
    BY <1>6, <2>3 DEF Kill
  <2> QED BY <1>6, <2>1, <2>2, <2>3
<1>7. ASSUME NEW p \in Procs, WriteOut(p) PROVE TypeOK'
  <2>1. saved' \in SUBSET (Keys \X Digests) /\ file' \in Pins \cup {Absent, Broken}
    BY <1>7, PairsType DEF WriteOut
  <2> QED BY <1>7, <2>1 DEF WriteOut
<1>8. CASE UNCHANGED vars
  BY <1>8 DEF vars
<1> QED BY <1>1, <1>2, <1>3, <1>4, <1>5, <1>6, <1>7, <1>8 DEF Next, Turn, Rested

\* One process at a time saves a lockfile with every pin it loaded.
LEMMA KeepStep ==
    ASSUME OneProcess, IInv, [Next]_vars
    PROVE  (RunInv /\ SaveInv /\ PinsAreKept)'
<1> USE FileAssumption DEF IInv, Goto, results
<1>1. ASSUME NEW p \in Procs, NEW a \in Arguments, Begin(p, a) PROVE (RunInv /\ SaveInv /\ PinsAreKept)'
  <2>1. pc'[p] = "loop" => saved \subseteq PairsOf(entries'[p])
    BY <1>1 DEF Begin, load_or_init, TypeOK, SaveInv, PinsAreKept
  <2> QED BY <1>1, <2>1 DEF OneProcess, Begin, TypeOK, RunInv, SaveInv, PinsAreKept
<1>2. ASSUME NEW p \in Procs, SkipSeen(p) PROVE (RunInv /\ SaveInv /\ PinsAreKept)'
  BY <1>2 DEF SkipSeen, RunInv, SaveInv, PinsAreKept
<1>3. ASSUME NEW p \in Procs, NEW k \in Keys, BadKey(p, k) \/ SkipPinned(p, k) \/ Unresolved(p, k)
      PROVE  (RunInv /\ SaveInv /\ PinsAreKept)'
  BY <1>3 DEF BadKey, SkipPinned, Unresolved, TakeToFetch, Take, TypeOK, RunInv, SaveInv, PinsAreKept
<1>4. ASSUME NEW p \in Procs, NEW k \in Keys, NEW b \in Blobs, Drift(p, k, b) \/ Refuse(p, k, b)
      PROVE  (RunInv /\ SaveInv /\ PinsAreKept)'
  BY <1>4 DEF Drift, Refuse, TakeToFetch, Take, RunInv, SaveInv, PinsAreKept
<1>5. ASSUME NEW p \in Procs, NEW k \in Keys, NEW b \in Blobs, Accept(p, k, b) \/ Unparsable(p, k, b)
      PROVE  (RunInv /\ SaveInv /\ PinsAreKept)'
  <2>1. Trust(p, k, b)
    BY <1>5 DEF Accept, Unparsable
  <2>2. PairsOf(entries[p]) \subseteq PairsOf(entries'[p])
    BY <2>1, TrustStep
  <2>3. pc[p] = "loop" /\ UNCHANGED <<file, saved>>
    BY <2>1, TakeStep DEF Trust, TakeToFetch
  <2>4. RunInv'
    <3> SUFFICES ASSUME NEW q \in Procs PROVE saved' \subseteq PairsOf(entries'[q])
      BY DEF RunInv, PairsOf
    <3>1. q = p
      BY DEF OneProcess
    <3> QED BY <2>2, <2>3, <3>1 DEF RunInv
  <2>5. file # Broken
    BY <2>3 DEF PinsAreKept
  <2>6. SaveInv'
    BY <1>5, <2>3, <2>5 DEF OneProcess, Accept, Unparsable, SaveInv, TypeOK
  <2> QED BY <2>3, <2>4, <2>5, <2>6 DEF PinsAreKept
<1>6. ASSUME NEW p \in Procs, Finish(p) \/ Truncate(p) \/ Kill(p) PROVE (RunInv /\ SaveInv /\ PinsAreKept)'
  <2>1. CASE Finish(p)
    BY <2>1 DEF Finish, TypeOK, RunInv, SaveInv, PinsAreKept
  <2>2. CASE Truncate(p)
    <3>1. pc'[p] = "save" /\ file' = Broken /\ \A q \in Procs : q = p
      BY <2>2 DEF Truncate, TypeOK, OneProcess
    <3>2. RunInv' /\ SaveInv'
      BY <2>2, <3>1 DEF Truncate, RunInv, SaveInv
    <3> QED BY <3>1, <3>2 DEF PinsAreKept
  <2>3. CASE Kill(p)
    BY <2>3 DEF Kill, TypeOK, RunInv, SaveInv, PinsAreKept
  <2> QED BY <1>6, <2>1, <2>2, <2>3
<1>7. ASSUME NEW p \in Procs, WriteOut(p) PROVE (RunInv /\ SaveInv /\ PinsAreKept)'
  <2>1. saved \subseteq PairsOf(entries[p]) /\ entries[p] \in Pins
    BY <1>7 DEF WriteOut, RunInv, TypeOK
  <2>2. RunInv'
    BY <1>7 DEF OneProcess, WriteOut, TypeOK, RunInv
  <2>3. file = Broken /\ \A q \in Procs : q = p
    BY <1>7 DEF WriteOut, SaveInv, OneProcess
  <2>4. file' = entries[p] /\ saved' = saved \cup PairsOf(entries[p]) /\ pc'[p] = "done"
    BY <1>7, <2>3 DEF WriteOut, TypeOK
  <2>5. SaveInv' /\ PinsAreKept'
    BY <2>1, <2>3, <2>4 DEF SaveInv, PinsAreKept
  <2> QED BY <2>2, <2>5
<1>8. CASE UNCHANGED vars
  BY <1>8 DEF vars, RunInv, SaveInv, PinsAreKept
<1> QED BY <1>1, <1>2, <1>3, <1>4, <1>5, <1>6, <1>7, <1>8 DEF Next, Turn, Rested

\* Amend is well typed, however many processes run at once.
THEOREM TypeCorrect == Spec => []TypeOK
<1>1. Init => TypeOK
  BY InitIInv DEF IInv
<1> QED BY <1>1, TypeStep, PTL DEF Spec

\* As long as one process runs at a time, lockfiles are append-only: whatever
\* the resolve source answers and wherever a run is killed, a lockfile that can
\* be read holds every pin that any lockfile before it held.  A run killed between
\* the truncation and the write loses them all; nothing else does, and every run
\* after it raises instead of taking the file for an empty lockfile.
THEOREM AppendOnly == OneProcess => (Spec => []PinsAreKept)
<1> SUFFICES ASSUME OneProcess PROVE Spec => []PinsAreKept
  OBVIOUS
<1>1. IInv /\ [Next]_vars => IInv'
  BY TypeStep, KeepStep DEF IInv
<1>2. IInv => PinsAreKept
  BY DEF IInv
<1> QED BY InitIInv, <1>1, <1>2, PTL DEF Spec

-----------------------------------------------------------------------------
\* The keys a run has considered or will.
Reached(p) == seen[p] \cup ToSet(queue[p])

\* A turn that takes a key from the queue and adds none: the key is now seen.
LEMMA TakenKey ==
    ASSUME TypeOK, NEW p \in Procs, NEW k \in Keys, Take(p, k)
    PROVE  /\ pc[p] = "loop" /\ queue[p] \in Seq(Keys) /\ Tail(queue[p]) \in Seq(Keys)
           /\ k \notin seen[p] /\ k \in ToSet(queue[p]) /\ ToSet(queue[p]) = {k} \cup ToSet(Tail(queue[p]))
           /\ seen'[p] = seen[p] \cup {k} /\ \A q \in Procs \ {p} : seen'[q] = seen[q]
           /\ UNCHANGED <<file, args, saved, runs, kills>>
<1>1. /\ pc[p] = "loop" /\ queue[p] # <<>> /\ k = Head(queue[p]) /\ k \notin seen[p]
      /\ UNCHANGED <<file, args, saved, runs, kills>>
  BY Zenon DEF Take, Seen
<1>2. seen' = [seen EXCEPT ![p] = @ \cup {k}]
  BY Zenon DEF Take
<1>3. seen'[p] = seen[p] \cup {k} /\ \A q \in Procs \ {p} : seen'[q] = seen[q]
  BY <1>2 DEF TypeOK
<1>4. queue[p] \in Seq(Keys)
  BY DEF TypeOK
<1>5. Tail(queue[p]) \in Seq(Keys) /\ ToSet(queue[p]) = {Head(queue[p])} \cup ToSet(Tail(queue[p]))
  BY <1>1, <1>4, QueueElements
<1> QED BY <1>1, <1>3, <1>4, <1>5

LEMMA RestOfQueue ==
    ASSUME TypeOK, NEW p \in Procs, Rest(p)
    PROVE  queue'[p] = Tail(queue[p]) /\ \A q \in Procs \ {p} : queue'[q] = queue[q]
BY DEF Rest, TypeOK

\* What is pinned when bytes are trusted: nothing but the key, which then has
\* the digest of the bytes.
LEMMA TrustedPins ==
    ASSUME TypeOK, NEW p \in Procs, NEW k \in Keys, NEW b \in Blobs, Trust(p, k, b)
    PROVE  /\ entries'[p][k] = Sha256(b)
           /\ \A w \in Keys \ {k} : entries'[p][w] = entries[p][w]
           /\ \A w \in Keys : entries[p][w] # NoPin => entries'[p][w] = entries[p][w]
           /\ \A q \in Procs \ {p} : entries'[q] = entries[q]
<1>1. CASE Pinned(p, k)
  BY <1>1 DEF Trust, Pin, Drifted, Pinned
<1>2. CASE ~Pinned(p, k)
  <2>1. entries' = [entries EXCEPT ![p][k] = Sha256(b)]
    BY <1>2 DEF Trust, Pin
  <2>2. entries \in [Procs -> Pins]
    BY DEF TypeOK
  <2> QED BY <1>2, <2>1, <2>2 DEF Pins, Pinned
<1> QED BY <1>1, <1>2

\* The queue after trusted bytes: their requirements are added, if at all, when
\* the run follows the key.
LEMMA AcceptedQueue ==
    ASSUME TypeOK, NEW p \in Procs, NEW k \in Keys, NEW b \in Blobs, Accept(p, k, b)
    PROVE  /\ \A q \in Procs \ {p} : queue'[q] = queue[q]
           /\ Followed(p, k) => ToSet(queue'[p]) = ToSet(Tail(queue[p])) \cup ToSet(Requires[b])
           /\ ~Followed(p, k) => queue'[p] = Tail(queue[p])
<1>1. Take(p, k)
  BY DEF Accept, Trust, TakeToFetch
<1>2. Tail(queue[p]) \in Seq(Keys) /\ Requires[b] \in Seq(Keys)
  BY <1>1, TakenKey, BlobAssumption
<1>3. CASE Followed(p, k)
  <2>1. queue' = [queue EXCEPT ![p] = Tail(@) \o Requires[b]]
    BY <1>3, Zenon DEF Accept
  <2>2. queue'[p] = Tail(queue[p]) \o Requires[b] /\ \A q \in Procs \ {p} : queue'[q] = queue[q]
    BY <2>1 DEF TypeOK
  <2>3. ToSet(Tail(queue[p]) \o Requires[b]) = ToSet(Tail(queue[p])) \cup ToSet(Requires[b])
    BY <1>2, ConcatElements
  <2>4. ToSet(queue'[p]) = ToSet(Tail(queue[p])) \cup ToSet(Requires[b])
    BY <2>2, <2>3, Zenon
  <2> QED BY <1>3, <2>2, <2>4
<1>4. CASE ~Followed(p, k)
  <2>1. queue' = [queue EXCEPT ![p] = Tail(@)]
    BY <1>4, Zenon DEF Accept
  <2> QED BY <1>4, <2>1 DEF TypeOK
<1> QED BY <1>3, <1>4

\* A run says nothing of the locals of another.
Locals(p) == <<pc[p], entries[p], queue[p], seen[p], drift[p], unresolved[p], refused[p], args[p]>>

LEMMA OthersKeepLocals ==
    ASSUME TypeOK, NEW p \in Procs, Turn(p) \/ Kill(p) \/ (\E a \in Arguments : Begin(p, a)), NEW q \in Procs \ {p}
    PROVE  Locals(q)' = Locals(q)
<1> USE DEF TypeOK, Locals, Goto, results
<1>1. ASSUME NEW a \in Arguments, Begin(p, a) PROVE Locals(q)' = Locals(q)
  BY <1>1 DEF Begin
<1>2. CASE SkipSeen(p)
  BY <1>2, RestOfQueue DEF SkipSeen
<1>3. ASSUME NEW k \in Keys, BadKey(p, k) PROVE Locals(q)' = Locals(q)
  <2>1. Take(p, k) /\ Rest(p) /\ pc' = [pc EXCEPT ![p] = "aborted"] /\ UNCHANGED <<entries, results>>
    BY <1>3, Zenon DEF BadKey, Goto
  <2> QED BY <2>1, TakenKey, RestOfQueue
<1>4. ASSUME NEW k \in Keys, SkipPinned(p, k) PROVE Locals(q)' = Locals(q)
  <2>1. Take(p, k) /\ Rest(p) /\ UNCHANGED <<pc, entries, results>>
    BY <1>4, Zenon DEF SkipPinned
  <2> QED BY <2>1, TakenKey, RestOfQueue
<1>5. ASSUME NEW k \in Keys, Unresolved(p, k) PROVE Locals(q)' = Locals(q)
  <2>1. /\ Take(p, k) /\ Rest(p) /\ unresolved' = [unresolved EXCEPT ![p] = @ \cup {k}]
        /\ UNCHANGED <<pc, entries, added, drift, refused>>
    BY <1>5, Zenon DEF Unresolved, TakeToFetch
  <2> QED BY <2>1, TakenKey, RestOfQueue
<1>6. ASSUME NEW k \in Keys, NEW b \in Blobs, Drift(p, k, b) PROVE Locals(q)' = Locals(q)
  <2>1. /\ Take(p, k) /\ Rest(p) /\ drift' = [drift EXCEPT ![p] = @ \cup {k}]
        /\ UNCHANGED <<pc, entries, added, unresolved, refused>>
    BY <1>6, Zenon DEF Drift, TakeToFetch
  <2> QED BY <2>1, TakenKey, RestOfQueue
<1>7. ASSUME NEW k \in Keys, NEW b \in Blobs, Refuse(p, k, b) PROVE Locals(q)' = Locals(q)
  <2>1. /\ Take(p, k) /\ Rest(p) /\ refused' = [refused EXCEPT ![p] = @ \cup {k}]
        /\ UNCHANGED <<pc, entries, added, drift, unresolved>>
    BY <1>7, Zenon DEF Refuse, TakeToFetch
  <2> QED BY <2>1, TakenKey, RestOfQueue
<1>8. ASSUME NEW k \in Keys, NEW b \in Blobs, Accept(p, k, b) PROVE Locals(q)' = Locals(q)
  <2>1. Trust(p, k, b) /\ Take(p, k) /\ UNCHANGED <<pc, drift, unresolved, refused>>
    BY <1>8, Zenon DEF Accept, Trust, TakeToFetch
  <2> QED BY <1>8, <2>1, TakenKey, TrustedPins, AcceptedQueue
<1>9. ASSUME NEW k \in Keys, NEW b \in Blobs, Unparsable(p, k, b) PROVE Locals(q)' = Locals(q)
  <2>1. /\ Trust(p, k, b) /\ Take(p, k) /\ Rest(p) /\ pc' = [pc EXCEPT ![p] = "aborted"]
        /\ UNCHANGED <<drift, unresolved, refused>>
    BY <1>9, Zenon DEF Unparsable, Trust, TakeToFetch, Goto
  <2> QED BY <2>1, TakenKey, TrustedPins, RestOfQueue
<1>10. CASE Finish(p)
  BY <1>10 DEF Finish
<1>11. CASE Truncate(p)
  BY <1>11 DEF Truncate
<1>12. CASE WriteOut(p)
  BY <1>12 DEF WriteOut
<1>13. CASE Kill(p)
  BY <1>13 DEF Kill
<1> QED
  BY <1>1, <1>2, <1>3, <1>4, <1>5, <1>6, <1>7, <1>8, <1>9, <1>10, <1>11, <1>12, <1>13 DEF Turn

\* What NothingSmuggled asks of a key that a run reached.
Explained(p, k) ==
    \/ k \in ToSet(args[p].keys)
    \/ \E b \in Blobs, w \in seen[p] \cap Wheels : entries[p][w] = Sha256(b) /\ k \in ToSet(Requires[b])

LEMMA SmuggledIsUnexplained == NothingSmuggled <=> \A p \in Procs : \A k \in Reached(p) : Explained(p, k)
BY DEF NothingSmuggled, Reached, Explained

\* A run forgets no key it has seen and takes back no pin while it goes on.
Continues(p) ==
    /\ args'[p] = args[p] /\ seen[p] \subseteq seen'[p]
    /\ \A w \in Keys : entries[p][w] # NoPin => entries'[p][w] = entries[p][w]

\* ... so that a key once explained stays explained.
LEMMA ExplainedStays ==
    ASSUME NEW p \in Procs, Continues(p), NEW k, Explained(p, k)
    PROVE  Explained(p, k)'
<1>1. CASE k \in ToSet(args[p].keys)
  BY <1>1 DEF Explained, Continues
<1>2. ASSUME NEW b \in Blobs, NEW w \in seen[p] \cap Wheels, entries[p][w] = Sha256(b), k \in ToSet(Requires[b])
      PROVE  Explained(p, k)'
  <2>1. Sha256(b) # NoPin /\ w \in Keys /\ w \in seen'[p] \cap Wheels
    BY <1>2, BlobAssumption, KeyAssumption DEF Digests, Continues
  <2>2. entries'[p][w] = Sha256(b)
    BY <1>2, <2>1 DEF Continues
  <2> QED BY <1>2, <2>1, <2>2 DEF Explained
<1> QED BY <1>1, <1>2 DEF Explained

\* A turn that reaches nothing new.
LEMMA NothingNew ==
    ASSUME NothingSmuggled, NEW p \in Procs, Continues(p), Reached(p)' \subseteq Reached(p)
    PROVE  \A k \in Reached(p)' : Explained(p, k)'
BY ExplainedStays, SmuggledIsUnexplained

\* What a turn may do to a run, as far as the keys it reaches are concerned.
LEMMA TurnReaches ==
    ASSUME TypeOK, NEW p \in Procs, Turn(p) \/ Kill(p)
    PROVE  /\ Continues(p)
           /\ \/ Reached(p)' \subseteq Reached(p)
              \/ \E k \in Keys, b \in Blobs : Accept(p, k, b) /\ Followed(p, k)
<1> USE DEF Continues, Reached, results
<1> DEFINE Goal == /\ Continues(p)
                   /\ \/ Reached(p)' \subseteq Reached(p)
                      \/ \E k \in Keys, b \in Blobs : Accept(p, k, b) /\ Followed(p, k)
<1>1. CASE SkipSeen(p)
  <2>1. Rest(p) /\ queue[p] # <<>> /\ UNCHANGED <<args, seen, entries>>
    BY <1>1 DEF SkipSeen
  <2>2. queue[p] \in Seq(Keys)
    BY DEF TypeOK
  <2>3. ToSet(queue'[p]) \subseteq ToSet(queue[p])
    BY <2>1, <2>2, RestOfQueue, QueueElements
  <2> QED BY <2>1, <2>3
<1>2. ASSUME NEW k \in Keys, Take(p, k), Rest(p), entries' = entries PROVE Goal
  <2>1. queue'[p] = Tail(queue[p])
    BY <1>2, RestOfQueue
  <2>2. /\ ToSet(queue[p]) = {k} \cup ToSet(Tail(queue[p]))
        /\ seen'[p] = seen[p] \cup {k} /\ args' = args
    BY <1>2, TakenKey
  <2> QED BY <1>2, <2>1, <2>2
<1>3. ASSUME NEW k \in Keys, BadKey(p, k) \/ SkipPinned(p, k) \/ Unresolved(p, k) PROVE Goal
  <2>1. Take(p, k) /\ Rest(p) /\ entries' = entries
    BY <1>3, Zenon DEF BadKey, SkipPinned, Unresolved, TakeToFetch
  <2> QED BY <2>1, <1>2
<1>4. ASSUME NEW k \in Keys, NEW b \in Blobs, Drift(p, k, b) \/ Refuse(p, k, b) PROVE Goal
  <2>1. Take(p, k) /\ Rest(p) /\ entries' = entries
    BY <1>4, Zenon DEF Drift, Refuse, TakeToFetch
  <2> QED BY <2>1, <1>2
<1>5. ASSUME NEW k \in Keys, NEW b \in Blobs, Accept(p, k, b) \/ Unparsable(p, k, b) PROVE Goal
  <2>1. Trust(p, k, b) /\ Take(p, k)
    BY <1>5, Zenon DEF Accept, Unparsable, Trust, TakeToFetch
  <2>2. /\ ToSet(queue[p]) = {k} \cup ToSet(Tail(queue[p]))
        /\ seen'[p] = seen[p] \cup {k} /\ args' = args
    BY <2>1, TakenKey
  <2>3. Continues(p)
    BY <2>1, <2>2, TrustedPins
  <2>4. CASE Accept(p, k, b) /\ Followed(p, k)
    BY <2>3, <2>4
  <2>5. CASE ~(Accept(p, k, b) /\ Followed(p, k))
    <3>1. queue'[p] = Tail(queue[p])
      BY <1>5, <2>5, AcceptedQueue, RestOfQueue DEF Unparsable
    <3> QED BY <2>2, <2>3, <3>1
  <2> QED BY <2>4, <2>5
<1>6. CASE Finish(p) \/ Truncate(p) \/ WriteOut(p) \/ Kill(p)
  <2>1. UNCHANGED <<args, seen, entries, queue>>
    BY <1>6 DEF Finish, Truncate, WriteOut, Kill
  <2> QED BY <2>1
<1> QED BY <1>1, <1>3, <1>4, <1>5, <1>6 DEF Turn

\* A run that begins reaches the keys it was asked for.
LEMMA BeginReaches ==
    ASSUME TypeOK, NEW p \in Procs, NEW a \in Arguments, Begin(p, a)
    PROVE  /\ args'[p] = a /\ queue'[p] = a.keys /\ seen'[p] = {}
           /\ drift'[p] = {} /\ refused'[p] = {} /\ unresolved'[p] = {}
           /\ pc'[p] \in {"loop", "aborted"}
BY DEF Begin, TypeOK, Goto

\* Every turn reaches only keys asked for and keys that pinned bytes require.
LEMMA SmuggleStep == TypeOK /\ NothingSmuggled /\ [Next]_vars => NothingSmuggled'
<1> SUFFICES ASSUME TypeOK, NothingSmuggled, [Next]_vars PROVE NothingSmuggled'
  OBVIOUS
<1>1. ASSUME NEW p \in Procs, Turn(p) \/ Kill(p) \/ (\E a \in Arguments : Begin(p, a)),
             \A k \in Reached(p)' : Explained(p, k)'
      PROVE  NothingSmuggled'
  <2>1. ASSUME NEW q \in Procs \ {p} PROVE \A k \in Reached(q)' : Explained(q, k)'
    <3>1. UNCHANGED <<queue[q], seen[q], entries[q], args[q]>>
      BY <1>1, OthersKeepLocals DEF Locals
    <3>2. \A k \in Reached(q) : Explained(q, k)
      BY SmuggledIsUnexplained
    <3> QED BY <3>1, <3>2 DEF Reached, Explained
  <2>2. \A q \in Procs : \A k \in Reached(q)' : Explained(q, k)'
    BY <1>1, <2>1
  <2> QED BY <2>2 DEF NothingSmuggled, Reached, Explained
<1>2. ASSUME NEW p \in Procs, NEW a \in Arguments, Begin(p, a) PROVE \A k \in Reached(p)' : Explained(p, k)'
  BY <1>2, BeginReaches DEF Reached, Explained
<1>3. ASSUME NEW p \in Procs, Turn(p) \/ Kill(p) PROVE \A k \in Reached(p)' : Explained(p, k)'
  <2>1. Continues(p)
    BY <1>3, TurnReaches
  <2>2. CASE Reached(p)' \subseteq Reached(p)
    BY <2>1, <2>2, NothingNew
  <2>3. ASSUME NEW k \in Keys, NEW b \in Blobs, Accept(p, k, b), Followed(p, k)
        PROVE  \A l \in Reached(p)' : Explained(p, l)'
    <3>1. Trust(p, k, b) /\ Take(p, k)
      BY <2>3, Zenon DEF Accept, Trust, TakeToFetch
    <3>2. /\ ToSet(queue[p]) = {k} \cup ToSet(Tail(queue[p]))
          /\ seen'[p] = seen[p] \cup {k}
          /\ ToSet(queue'[p]) = ToSet(Tail(queue[p])) \cup ToSet(Requires[b])
      BY <2>3, <3>1, TakenKey, AcceptedQueue
    <3>3. entries'[p][k] = Sha256(b) /\ k \in seen'[p] \cap Wheels
      BY <2>3, <3>1, <3>2, TrustedPins DEF Followed
    <3>4. ASSUME NEW l \in ToSet(Requires[b]) PROVE Explained(p, l)'
      BY <3>3 DEF Explained
    <3>5. ASSUME NEW l \in Reached(p) PROVE Explained(p, l)'
      BY <2>1, ExplainedStays, SmuggledIsUnexplained
    <3> QED BY <3>2, <3>4, <3>5 DEF Reached
  <2> QED BY <1>3, <2>2, <2>3, TurnReaches
<1>4. CASE UNCHANGED vars
  BY <1>4 DEF vars, NothingSmuggled
<1> QED BY <1>1, <1>2, <1>3, <1>4 DEF Next, Rested

\* "a tampered upstream cannot smuggle new deps in": however many processes run,
\* whatever the resolve source answers, a run considers only keys it was asked
\* for and keys required by bytes whose digest is pinned.
THEOREM OnlyExplainedKeys == Spec => []NothingSmuggled
<1>1. Init => NothingSmuggled
  <2> SUFFICES ASSUME Init PROVE NothingSmuggled
    OBVIOUS
  <2>1. \A p \in Procs : seen[p] = {} /\ queue[p] = <<>> /\ ToSet(<<>>) = {}
    BY DEF Init, ToSet
  <2> QED BY <2>1 DEF NothingSmuggled
<1> QED BY <1>1, SmuggleStep, TypeCorrect, PTL DEF Spec

-----------------------------------------------------------------------------
\* No failure so far, in a run that has not raised.
Clean(p) == pc[p] \in {"loop", "save", "done"} /\ drift[p] \cup refused[p] \cup unresolved[p] = {}

\* The requirements of what was reached are reached too.
Closed(p) ==
    args[p].closure =>
        \A w \in seen[p] \cap Wheels, b \in Blobs : entries[p][w] = Sha256(b) => ToSet(Requires[b]) \subseteq Reached(p)

\* While nothing failed, what was asked for is in the queue or behind it, what is
\* behind it is pinned, and what it requires has been queued.
Complete(p) ==
    Clean(p) =>
        /\ ToSet(args[p].keys) \subseteq Reached(p)
        /\ \A k \in seen[p] : Pinned(p, k)
        /\ Closed(p)
Emptied(p) == pc[p] \in {"save", "done"} => queue[p] = <<>>

ClosedInv == \A p \in Procs : Complete(p) /\ Emptied(p)

\* Digests tell bytes apart, and none is the missing pin.
LEMMA DigestsDiffer ==
    /\ \A b \in Blobs : Sha256(b) # NoPin
    /\ \A b, c \in Blobs : Sha256(b) = Sha256(c) => b = c
BY BlobAssumption DEF Sha256, Digests

\* The invariant is enough: a run is done when its queue is empty.
LEMMA ClosedInvSuffices == TypeOK /\ ClosedInv => ClosedOnSuccess
<1> SUFFICES ASSUME TypeOK, ClosedInv, NEW p \in Procs, pc[p] = "done", drift[p] \cup refused[p] \cup unresolved[p] = {}
             PROVE  /\ \A k \in ToSet(args[p].keys) : Pinned(p, k)
                    /\ args[p].closure =>
                          \A w \in seen[p] \cap Wheels, b \in Blobs :
                              entries[p][w] = Sha256(b) => \A k \in ToSet(Requires[b]) : k \in seen[p] /\ Pinned(p, k)
  BY DEF ClosedOnSuccess
<1>1. queue[p] = <<>> /\ ToSet(<<>>) = {}
  BY DEF ClosedInv, Emptied, ToSet
<1>2. Reached(p) = seen[p]
  BY <1>1 DEF Reached
<1>3. Complete(p) /\ Clean(p)
  BY DEF ClosedInv, Clean
<1>4. ToSet(args[p].keys) \subseteq seen[p] /\ (\A k \in seen[p] : Pinned(p, k)) /\ Closed(p)
  BY <1>2, <1>3 DEF Complete
<1> QED BY <1>2, <1>4 DEF Closed

\* A key that is already pinned, or need not be fetched, adds nothing to follow.
LEMMA SameClosure ==
    ASSUME TypeOK, ClosedInv, NEW p \in Procs, Clean(p), Reached(p) \subseteq Reached(p)', entries'[p] = entries[p],
           args'[p] = args[p], \A k \in seen'[p] \ seen[p] : Pinned(p, k) /\ ~args[p].closure
    PROVE  Complete(p)'
<1>1. ToSet(args[p].keys) \subseteq Reached(p) /\ (\A k \in seen[p] : Pinned(p, k)) /\ Closed(p)
  BY DEF ClosedInv, Complete
<1>2. \A k \in seen'[p] : entries'[p][k] # NoPin
  BY <1>1 DEF Pinned
<1>3. Closed(p)'
  BY <1>1 DEF Closed
<1> QED BY <1>1, <1>2, <1>3 DEF Complete, Pinned

\* Trusted bytes: pinned, and what they require is queued when it is followed.
LEMMA AcceptIsComplete ==
    ASSUME TypeOK, ClosedInv, NEW p \in Procs, Clean(p), NEW k \in Keys, NEW b \in Blobs, Accept(p, k, b)
    PROVE  Complete(p)'
<1>1. Trust(p, k, b) /\ Take(p, k)
  BY Zenon DEF Accept, Trust, TakeToFetch
<1>2. /\ ToSet(queue[p]) = {k} \cup ToSet(Tail(queue[p]))
      /\ k \notin seen[p] /\ seen'[p] = seen[p] \cup {k} /\ args' = args
  BY <1>1, TakenKey
<1>3. ToSet(Tail(queue[p])) \subseteq ToSet(queue'[p]) /\ (Followed(p, k) => ToSet(Requires[b]) \subseteq ToSet(queue'[p]))
  BY AcceptedQueue
<1>4. Reached(p) \subseteq Reached(p)'
  BY <1>2, <1>3 DEF Reached
<1>5. ToSet(args[p].keys) \subseteq Reached(p) /\ (\A l \in seen[p] : Pinned(p, l)) /\ Closed(p)
  BY DEF ClosedInv, Complete
<1>6. /\ entries'[p][k] = Sha256(b)
      /\ \A w \in Keys \ {k} : entries'[p][w] = entries[p][w]
  BY <1>1, TrustedPins
<1>7. seen[p] \subseteq Keys
  BY DEF TypeOK
<1>8. \A l \in seen'[p] : entries'[p][l] # NoPin
  BY <1>2, <1>5, <1>6, <1>7, DigestsDiffer DEF Pinned
<1>9. Closed(p)'
  <2> SUFFICES ASSUME args[p].closure, NEW w \in seen'[p] \cap Wheels, NEW c \in Blobs, entries'[p][w] = Sha256(c)
               PROVE  ToSet(Requires[c]) \subseteq Reached(p)'
    BY <1>2 DEF Closed
  <2>1. CASE w = k
    <3>1. c = b /\ Followed(p, k)
      BY <2>1, <1>6, DigestsDiffer DEF Followed
    <3> QED BY <3>1, <1>3 DEF Reached
  <2>2. CASE w # k
    <3>1. w \in seen[p] \cap Wheels /\ entries[p][w] = Sha256(c)
      BY <2>2, <1>2, <1>6, <1>7
    <3> QED BY <3>1, <1>4, <1>5 DEF Closed
  <2> QED BY <2>1, <2>2
<1> QED BY <1>2, <1>4, <1>5, <1>8, <1>9 DEF Complete, Pinned

\* One turn of a run.
LEMMA TurnIsComplete ==
    ASSUME TypeOK, ClosedInv, NEW p \in Procs, Turn(p) \/ Kill(p)
    PROVE  Complete(p)' /\ Emptied(p)'
<1> USE DEF Goto, results
<1> DEFINE Goal == Complete(p)' /\ Emptied(p)'
<1>1. CASE SkipSeen(p)
  <2>1. /\ pc[p] = "loop" /\ Rest(p) /\ queue[p] # <<>> /\ Head(queue[p]) \in seen[p]
        /\ UNCHANGED <<pc, args, seen, entries, drift, refused, unresolved>>
    BY <1>1 DEF SkipSeen, Seen
  <2>2. queue[p] \in Seq(Keys)
    BY DEF TypeOK
  <2>3. ToSet(queue[p]) = {Head(queue[p])} \cup ToSet(queue'[p])
    BY <2>1, <2>2, RestOfQueue, QueueElements
  <2>4. Reached(p) \subseteq Reached(p)' /\ (Clean(p)' => Clean(p))
    BY <2>1, <2>3 DEF Reached, Clean
  <2>5. Complete(p)'
    <3>1. CASE Clean(p)
      BY <2>1, <2>4, <3>1, SameClosure
    <3>2. CASE ~Clean(p)
      BY <2>4, <3>2 DEF Complete
    <3> QED BY <3>1, <3>2
  <2> QED BY <2>1, <2>5 DEF Emptied
<1>2. ASSUME NEW k \in Keys, BadKey(p, k) PROVE Goal
  <2>1. pc' = [pc EXCEPT ![p] = "aborted"]
    BY <1>2, Zenon DEF BadKey, Goto
  <2> QED BY <2>1 DEF TypeOK, Complete, Clean, Emptied
<1>3. ASSUME NEW k \in Keys, SkipPinned(p, k) PROVE Goal
  <2>1. /\ Take(p, k) /\ Rest(p) /\ Pinned(p, k) /\ ~args[p].closure
        /\ UNCHANGED <<pc, entries, drift, refused, unresolved>>
    BY <1>3, Zenon DEF SkipPinned, results
  <2>2. queue'[p] = Tail(queue[p])
    BY <2>1, RestOfQueue
  <2>3. /\ pc[p] = "loop" /\ ToSet(queue[p]) = {k} \cup ToSet(Tail(queue[p]))
        /\ seen'[p] = seen[p] \cup {k} /\ args' = args
    BY <2>1, TakenKey
  <2>4. Reached(p) \subseteq Reached(p)' /\ (Clean(p)' => Clean(p))
    BY <2>1, <2>2, <2>3 DEF Reached, Clean
  <2>5. Complete(p)'
    <3>1. CASE Clean(p)
      BY <2>1, <2>3, <2>4, <3>1, SameClosure
    <3>2. CASE ~Clean(p)
      BY <2>4, <3>2 DEF Complete
    <3> QED BY <3>1, <3>2
  <2> QED BY <2>1, <2>3, <2>5 DEF Emptied
<1>4. ASSUME NEW k \in Keys, Unresolved(p, k) PROVE Goal
  <2>1. Take(p, k) /\ unresolved' = [unresolved EXCEPT ![p] = @ \cup {k}] /\ pc' = pc
    BY <1>4, Zenon DEF Unresolved, TakeToFetch
  <2>2. k \in unresolved'[p] /\ pc'[p] = "loop"
    BY <2>1, TakenKey DEF TypeOK
  <2> QED BY <2>2 DEF Complete, Clean, Emptied
<1>5. ASSUME NEW k \in Keys, NEW b \in Blobs, Drift(p, k, b) PROVE Goal
  <2>1. Take(p, k) /\ drift' = [drift EXCEPT ![p] = @ \cup {k}] /\ pc' = pc
    BY <1>5, Zenon DEF Drift, TakeToFetch
  <2>2. k \in drift'[p] /\ pc'[p] = "loop"
    BY <2>1, TakenKey DEF TypeOK
  <2> QED BY <2>2 DEF Complete, Clean, Emptied
<1>6. ASSUME NEW k \in Keys, NEW b \in Blobs, Refuse(p, k, b) PROVE Goal
  <2>1. Take(p, k) /\ refused' = [refused EXCEPT ![p] = @ \cup {k}] /\ pc' = pc
    BY <1>6, Zenon DEF Refuse, TakeToFetch
  <2>2. k \in refused'[p] /\ pc'[p] = "loop"
    BY <2>1, TakenKey DEF TypeOK
  <2> QED BY <2>2 DEF Complete, Clean, Emptied
<1>7. ASSUME NEW k \in Keys, NEW b \in Blobs, Accept(p, k, b) PROVE Goal
  <2>1. Take(p, k) /\ UNCHANGED <<pc, drift, unresolved, refused>>
    BY <1>7, Zenon DEF Accept, Trust, TakeToFetch
  <2>2. pc'[p] = "loop" /\ (Clean(p)' => Clean(p))
    BY <2>1, TakenKey DEF Clean
  <2>3. Complete(p)'
    <3>1. CASE Clean(p)
      BY <1>7, <3>1, AcceptIsComplete
    <3>2. CASE ~Clean(p)
      BY <2>2, <3>2 DEF Complete
    <3> QED BY <3>1, <3>2
  <2> QED BY <2>2, <2>3 DEF Emptied
<1>8. ASSUME NEW k \in Keys, NEW b \in Blobs, Unparsable(p, k, b) PROVE Goal
  <2>1. pc' = [pc EXCEPT ![p] = "aborted"]
    BY <1>8, Zenon DEF Unparsable, Goto
  <2> QED BY <2>1 DEF TypeOK, Complete, Clean, Emptied
<1>9. CASE Finish(p) \/ Truncate(p) \/ WriteOut(p)
  <2>1. /\ UNCHANGED <<args, seen, entries, queue, drift, refused, unresolved>>
        /\ pc[p] \in {"loop", "save"} /\ (pc[p] = "loop" => queue[p] = <<>>)
    BY <1>9 DEF Finish, Truncate, WriteOut
  <2>2. Clean(p)' => Clean(p)
    BY <2>1 DEF Clean
  <2>3. queue'[p] = <<>>
    BY <2>1 DEF ClosedInv, Emptied
  <2>4. Complete(p)
    BY DEF ClosedInv
  <2> QED BY <2>1, <2>2, <2>3, <2>4 DEF Complete, Closed, Reached, Pinned, Emptied
<1>10. CASE Kill(p)
  <2>1. pc' = [pc EXCEPT ![p] = "aborted"]
    BY <1>10, Zenon DEF Kill, Goto
  <2> QED BY <2>1 DEF TypeOK, Complete, Clean, Emptied
<1> QED BY <1>1, <1>2, <1>3, <1>4, <1>5, <1>6, <1>7, <1>8, <1>9, <1>10 DEF Turn

LEMMA ClosedStep == TypeOK /\ ClosedInv /\ [Next]_vars => ClosedInv'
<1> SUFFICES ASSUME TypeOK, ClosedInv, [Next]_vars PROVE ClosedInv'
  OBVIOUS
<1>1. ASSUME NEW p \in Procs, Turn(p) \/ Kill(p) \/ (\E a \in Arguments : Begin(p, a)), Complete(p)' /\ Emptied(p)'
      PROVE  ClosedInv'
  <2>1. ASSUME NEW q \in Procs \ {p} PROVE Complete(q)' /\ Emptied(q)'
    <3>1. Locals(q)' = Locals(q)
      BY <1>1, OthersKeepLocals
    <3>2. UNCHANGED <<pc[q], queue[q], seen[q], entries[q], args[q], drift[q], refused[q], unresolved[q]>>
      BY <3>1 DEF Locals
    <3>3. Complete(q) /\ Emptied(q)
      BY DEF ClosedInv
    <3> QED BY <3>2, <3>3 DEF Complete, Closed, Clean, Reached, Pinned, Emptied
  <2> QED BY <1>1, <2>1 DEF ClosedInv
<1>2. ASSUME NEW p \in Procs, NEW a \in Arguments, Begin(p, a) PROVE Complete(p)' /\ Emptied(p)'
  BY <1>2, BeginReaches DEF Complete, Closed, Clean, Reached, Pinned, Emptied
<1>3. ASSUME NEW p \in Procs, Turn(p) \/ Kill(p) PROVE Complete(p)' /\ Emptied(p)'
  BY <1>3, TurnIsComplete
<1>4. CASE UNCHANGED vars
  BY <1>4 DEF vars, results, ClosedInv, Complete, Closed, Clean, Reached, Pinned, Emptied
<1> QED BY <1>1, <1>2, <1>3, <1>4 DEF Next, Rested

\* "one amendment fixes the lockfile in one pass": a run that ends with exit
\* status 0 has pinned every key it was asked for and, when it follows
\* requirements, every key that the pinned wheels it reached require.
THEOREM SuccessIsClosed == Spec => []ClosedOnSuccess
<1>1. Init => ClosedInv
  BY DEF Init, ClosedInv, Complete, Clean, Emptied
<1> QED BY <1>1, ClosedStep, TypeCorrect, ClosedInvSuffices, PTL DEF Spec

-----------------------------------------------------------------------------
\* The cuts of a string are finitely many positions, from 0 to one past the end.
LEMMA CutsFinite ==
    ASSUME NEW S, NEW s \in Seq(S), NEW c
    PROVE  /\ Cuts(s, c) \subseteq 0 .. Len(s) + 1 /\ 0 \in Cuts(s, c) /\ Len(s) + 1 \in Cuts(s, c)
           /\ IsFiniteSet(Cuts(s, c)) /\ Cardinality(Cuts(s, c)) \in Nat
           /\ \A i : /\ Before(s, c, i) \subseteq Cuts(s, c) /\ IsFiniteSet(Before(s, c, i))
                     /\ Cardinality(Before(s, c, i)) \in Nat
<1>1. Len(s) \in Nat /\ DOMAIN s = 1 .. Len(s)
  OBVIOUS
<1>2. Cuts(s, c) \subseteq 0 .. Len(s) + 1 /\ 0 \in Cuts(s, c) /\ Len(s) + 1 \in Cuts(s, c)
  BY <1>1 DEF Cuts
<1>3. IsFiniteSet(0 .. Len(s) + 1)
  <2>1. 0 \in Int /\ Len(s) + 1 \in Int
    BY <1>1
  <2> QED BY ONLY <2>1, FS_Interval
<1>4. IsFiniteSet(Cuts(s, c))
  BY <1>2, <1>3, FS_Subset
<1>5. \A i : Before(s, c, i) \subseteq Cuts(s, c)
  BY DEF Before
<1> QED BY <1>2, <1>4, <1>5, FS_Subset, FS_CardinalityType

\* A cut is known by the number of cuts before it.
LEMMA CutUnique ==
    ASSUME NEW S, NEW s \in Seq(S), NEW c, NEW i \in Cuts(s, c)
    PROVE  Cut(s, c, Cardinality(Before(s, c, i))) = i
<1> DEFINE n == Cardinality(Before(s, c, i))
           j == Cut(s, c, n)
<1>1. j \in Cuts(s, c) /\ Cardinality(Before(s, c, j)) = n
  BY DEF Cut
<1> HIDE DEF j
<1>2. i \in Nat /\ j \in Nat
  BY <1>1, CutsFinite
<1>3. ASSUME NEW a \in Cuts(s, c), NEW b \in Cuts(s, c), a < b, a \in Nat, b \in Nat
      PROVE  Cardinality(Before(s, c, a)) # Cardinality(Before(s, c, b))
  <2>1. Before(s, c, a) \subseteq Before(s, c, b) /\ a \in Before(s, c, b) /\ a \notin Before(s, c, a)
    <3>1. \A e \in Cuts(s, c) : e \in Nat
      BY CutsFinite
    <3> QED BY <1>3, <3>1 DEF Before
  <2>2. IsFiniteSet(Before(s, c, b))
    BY CutsFinite
  <2> QED BY <2>1, <2>2, FS_Subset
<1>4. j = i
  BY <1>1, <1>2, <1>3
<1> QED BY <1>4 DEF j

\* The length of a range of numbers that a growing function counts.
LEMMA CountGrowing ==
    ASSUME NEW m \in Nat, NEW f \in [0 .. m -> Nat], \A i, j \in 0 .. m : i < j => f[i] < f[j], NEW n \in 0 .. m
    PROVE  Cardinality({f[l] : l \in 0 .. n - 1}) = n
<1> DEFINE T == {f[l] : l \in 0 .. n - 1}
           g == [l \in 0 .. n - 1 |-> f[l]]
<1>1. g \in Injection(0 .. n - 1, T)
  <2>1. g \in [0 .. n - 1 -> T]
    OBVIOUS
  <2>2. ASSUME NEW a \in 0 .. n - 1, NEW b \in 0 .. n - 1, g[a] = g[b] PROVE a = b
    <3>1. f[a] = f[b] /\ a \in 0 .. m /\ b \in 0 .. m /\ f[a] \in Nat /\ f[b] \in Nat
      BY <2>2
    <3>2. ~(a < b) /\ ~(b < a)
      BY <3>1
    <3> QED BY <3>2
  <2> QED BY <2>1, <2>2 DEF Injection, IsInjective
<1>2. g \in Surjection(0 .. n - 1, T)
  BY DEF Surjection
<1>3. g \in Bijection(0 .. n - 1, T)
  BY <1>1, <1>2 DEF Bijection
<1>4. ExistsBijection(0 .. n - 1, T)
  BY <1>3 DEF ExistsBijection
<1>5. IsFiniteSet(0 .. n - 1) /\ Cardinality(0 .. n - 1) = n
  <2>1. 0 \in Int /\ n - 1 \in Int
    OBVIOUS
  <2>2. IsFiniteSet(0 .. n - 1) /\ Cardinality(0 .. n - 1) = IF 0 > n - 1 THEN 0 ELSE (n - 1) - 0 + 1
    BY ONLY <2>1, FS_Interval
  <2> QED BY <2>2
<1> HIDE DEF T
<1>6. Cardinality(T) = n
  BY <1>4, <1>5, FS_Bijection
<1> QED BY <1>6 DEF T

-----------------------------------------------------------------------------
\* The string s is the parts p with c in between: the positions f are its cuts.
Positions(s, c, p, f) ==
    /\ f \in [0 .. Len(p) -> Nat] /\ f[0] = 0 /\ f[Len(p)] = Len(s) + 1
    /\ \A i, j \in 0 .. Len(p) : i < j => f[i] < f[j]
    /\ Cuts(s, c) = {f[i] : i \in 0 .. Len(p)}
    /\ \A i \in 1 .. Len(p) : p[i] = SubSeq(s, f[i - 1] + 1, f[i] - 1)

Joint(s, c, p) == \E f : Positions(s, c, p, f)

\* Split finds the parts.
LEMMA SplitJoint ==
    ASSUME NEW S, NEW s \in Seq(S), NEW c, NEW p \in Seq(Seq(S)), Joint(s, c, p)
    PROVE  Split(s, c) = p
<1>1. PICK f : Positions(s, c, p, f)
  BY DEF Joint
<1>2. Len(p) \in Nat /\ DOMAIN p = 1 .. Len(p) /\ p = [i \in 1 .. Len(p) |-> p[i]]
  OBVIOUS
<1>3. /\ f \in [0 .. Len(p) -> Nat] /\ \A i, j \in 0 .. Len(p) : i < j => f[i] < f[j]
      /\ Cuts(s, c) = {f[i] : i \in 0 .. Len(p)}
      /\ \A i \in 1 .. Len(p) : p[i] = SubSeq(s, f[i - 1] + 1, f[i] - 1)
  BY <1>1 DEF Positions
<1>4. ASSUME NEW n \in 0 .. Len(p) PROVE Cut(s, c, n) = f[n]
  <2>1. Before(s, c, f[n]) = {f[l] : l \in 0 .. n - 1}
    <3>1. ASSUME NEW l \in 0 .. Len(p) PROVE f[l] < f[n] <=> l \in 0 .. n - 1
      <4>1. f[l] \in Nat /\ f[n] \in Nat /\ (l < n => f[l] < f[n]) /\ (n < l => f[n] < f[l])
        BY <1>3
      <4> QED BY <4>1
    <3>2. \A l \in 0 .. n - 1 : l \in 0 .. Len(p)
      BY <1>2
    <3> QED BY <1>3, <3>1, <3>2 DEF Before
  <2>2. Cardinality(Before(s, c, f[n])) = n
    BY ONLY <1>2, <1>3, <2>1, CountGrowing
  <2>3. f[n] \in Cuts(s, c)
    BY <1>3
  <2> QED BY <2>2, <2>3, CutUnique
<1>5. Cardinality(Cuts(s, c)) = Len(p) + 1
  <2>2. Cuts(s, c) = {f[l] : l \in 0 .. Len(p)} /\ Len(p) \in 0 .. Len(p) /\ f[Len(p)] \in Nat
    BY <1>2, <1>3
  <2>3. Cardinality({f[l] : l \in 0 .. Len(p) - 1}) = Len(p)
    BY ONLY <1>2, <1>3, <2>2, CountGrowing
  <2>4. f[Len(p)] \notin {f[l] : l \in 0 .. Len(p) - 1}
    <3>1. ASSUME NEW l \in 0 .. Len(p) - 1 PROVE f[l] # f[Len(p)]
      <4>1. l \in 0 .. Len(p) /\ l < Len(p) /\ Len(p) \in 0 .. Len(p)
        BY <1>2
      <4>2. f[l] < f[Len(p)] /\ f[l] \in Nat /\ f[Len(p)] \in Nat
        BY ONLY <1>3, <4>1
      <4> QED BY ONLY <4>2
    <3> QED BY ONLY <3>1
  <2>5. Cuts(s, c) = {f[l] : l \in 0 .. Len(p) - 1} \cup {f[Len(p)]}
    <3>1. \A l \in 0 .. Len(p) : l \in 0 .. Len(p) - 1 \/ l = Len(p)
      BY <1>2
    <3>2. \A l \in 0 .. Len(p) - 1 : l \in 0 .. Len(p)
      BY <1>2
    <3> QED BY <2>2, <3>1, <3>2
  <2> DEFINE T == {f[l] : l \in 0 .. Len(p) - 1}
  <2>6. IsFiniteSet(T)
    BY <2>5, CutsFinite, FS_Subset
  <2> HIDE DEF T
  <2>7. Cardinality(T) = Len(p) /\ f[Len(p)] \notin T /\ Cuts(s, c) = T \cup {f[Len(p)]}
    BY <2>3, <2>4, <2>5 DEF T
  <2> QED BY ONLY <2>6, <2>7, FS_AddElement
<1>6. Split(s, c) = [n \in 1 .. Len(p) |-> SubSeq(s, Cut(s, c, n - 1) + 1, Cut(s, c, n) - 1)]
  BY <1>2, <1>5 DEF Split
<1>7. \A n \in 1 .. Len(p) : SubSeq(s, Cut(s, c, n - 1) + 1, Cut(s, c, n) - 1) = p[n]
  <2>1. \A n \in 1 .. Len(p) : n \in 0 .. Len(p) /\ n - 1 \in 0 .. Len(p)
    BY <1>2
  <2> QED BY <1>3, <1>4, <2>1
<1> QED BY <1>2, <1>6, <1>7

\* A string without c is one part.
LEMMA JointOne ==
    ASSUME NEW S, NEW s \in Seq(S), NEW c, \A i \in DOMAIN s : s[i] # c
    PROVE  Joint(s, c, <<s>>)
<1> DEFINE p == <<s>>
           f == [i \in 0 .. 1 |-> IF i = 0 THEN 0 ELSE Len(s) + 1]
<1>1. Len(s) \in Nat /\ Len(p) = 1 /\ p[1] = s
  OBVIOUS
<1>2. f \in [0 .. 1 -> Nat] /\ f[0] = 0 /\ f[1] = Len(s) + 1
  BY <1>1
<1>3. \A i, j \in 0 .. 1 : i < j => f[i] < f[j]
  BY <1>1
<1>4. Cuts(s, c) = {f[i] : i \in 0 .. 1}
  <2>1. Cuts(s, c) = {0, Len(s) + 1}
    BY DEF Cuts
  <2>2. \A i \in 0 .. 1 : i = 0 \/ i = 1
    OBVIOUS
  <2>3. {f[i] : i \in 0 .. 1} = {f[0], f[1]}
    BY <2>2
  <2> QED BY <1>2, <2>1, <2>3
<1>5. \A i \in 1 .. 1 : p[i] = SubSeq(s, f[i - 1] + 1, f[i] - 1)
  <2>1. SubSeq(s, 1, Len(s)) = s
    BY SubSeqFull
  <2>2. f[0] + 1 = 1 /\ f[1] - 1 = Len(s)
    BY <1>1
  <2>3. \A i \in 1 .. 1 : i = 1 /\ i - 1 = 0
    OBVIOUS
  <2> HIDE DEF f, p
  <2> QED BY <1>1, <2>1, <2>2, <2>3
<1> HIDE DEF f, p
<1>6. Positions(s, c, p, f)
  BY <1>1, <1>2, <1>3, <1>4, <1>5 DEF Positions
<1>7. Joint(s, c, p)
  BY <1>6 DEF Joint
<1> QED BY <1>7 DEF p

\* The first positions of a longer string.
LEMMA SubSeqOfPrefix ==
    ASSUME NEW S, NEW s \in Seq(S), NEW t \in Seq(S), NEW m \in Nat, NEW n \in Nat, 1 <= m, n <= Len(s)
    PROVE  SubSeq(s \o t, m, n) = SubSeq(s, m, n) /\ SubSeq(s, m, n) \in Seq(S)
<1> DEFINE u == s \o t
<1>1. /\ u \in Seq(S) /\ Len(u) = Len(s) + Len(t) /\ Len(s) \in Nat /\ Len(t) \in Nat
      /\ \A i \in 1 .. Len(s) : u[i] = s[i]
  BY ConcatParts
<1> HIDE DEF u
<1>2. \A i \in m .. n : s[i] \in S /\ u[i] \in S /\ u[i] = s[i] /\ i \in 1 .. Len(s)
  BY <1>1
<1>3. m \in Int /\ n \in Int
  OBVIOUS
<1>4. /\ SubSeq(s, m, n) \in Seq(S) /\ Len(SubSeq(s, m, n)) = IF m <= n THEN n - m + 1 ELSE 0
      /\ \A i \in 1 .. n - m + 1 : SubSeq(s, m, n)[i] = s[m + i - 1]
  BY ONLY <1>2, <1>3, SubSeqProperties
<1>5. /\ SubSeq(u, m, n) \in Seq(S) /\ Len(SubSeq(u, m, n)) = IF m <= n THEN n - m + 1 ELSE 0
      /\ \A i \in 1 .. n - m + 1 : SubSeq(u, m, n)[i] = u[m + i - 1]
  BY ONLY <1>2, <1>3, SubSeqProperties
<1>6. \A i \in 1 .. Len(SubSeq(u, m, n)) : i \in 1 .. n - m + 1 /\ m + i - 1 \in m .. n
  BY <1>3, <1>5
<1>7. SubSeq(u, m, n) = SubSeq(s, m, n)
  BY ONLY <1>2, <1>4, <1>5, <1>6, SeqEqual
<1> QED BY <1>4, <1>7 DEF u

\* One part more.
LEMMA JointMore ==
    ASSUME NEW S, NEW s \in Seq(S), NEW c \in S, NEW p \in Seq(Seq(S)), Joint(s, c, p),
           NEW a \in Seq(S), \A i \in DOMAIN a : a[i] # c
    PROVE  s \o <<c>> \o a \in Seq(S) /\ Append(p, a) \in Seq(Seq(S)) /\ Joint(s \o <<c>> \o a, c, Append(p, a))
<1>1. PICK f : Positions(s, c, p, f)
  BY DEF Joint
<1> DEFINE n == Len(p)
           q == Append(p, a)
           t == <<c>> \o a
           u == s \o t
           last == Len(s) + Len(a) + 2
           g == [i \in 0 .. n + 1 |-> IF i <= n THEN f[i] ELSE last]
<1>2. n \in Nat /\ Len(s) \in Nat /\ Len(a) \in Nat /\ last \in Nat /\ DOMAIN a = 1 .. Len(a) /\ DOMAIN s = 1 .. Len(s)
  OBVIOUS
<1>3. /\ f \in [0 .. n -> Nat] /\ f[0] = 0 /\ f[n] = Len(s) + 1 /\ \A i, j \in 0 .. n : i < j => f[i] < f[j]
      /\ Cuts(s, c) = {f[i] : i \in 0 .. n}
      /\ \A i \in 1 .. n : p[i] = SubSeq(s, f[i - 1] + 1, f[i] - 1)
  BY <1>1 DEF Positions
<1>4. q \in Seq(Seq(S)) /\ Len(q) = n + 1 /\ q[n + 1] = a /\ \A i \in 1 .. n : q[i] = p[i]
  BY AppendProperties
<1>5. /\ t \in Seq(S) /\ Len(t) = 1 + Len(a) /\ t[1] = c /\ \A i \in 1 .. Len(a) : t[1 + i] = a[i]
  <2> DEFINE h == <<c>>
  <2>1. h \in Seq(S) /\ Len(h) = 1 /\ h[1] = c
    OBVIOUS
  <2> HIDE DEF h
  <2>2. /\ h \o a \in Seq(S) /\ Len(h \o a) = Len(h) + Len(a)
        /\ \A i \in 1 .. Len(h) : (h \o a)[i] = h[i]
        /\ \A i \in 1 .. Len(a) : (h \o a)[Len(h) + i] = a[i]
    <3>1. h \in Seq(S) /\ a \in Seq(S)
      BY <2>1
    <3> QED BY ONLY <3>1, ConcatParts
  <2>3. 1 \in 1 .. Len(h) /\ t = h \o a
    BY <2>1 DEF h
  <2> HIDE DEF t
  <2> QED BY ONLY <2>1, <2>2, <2>3
<1>6. s \o <<c>> \o a = u
  <2> DEFINE h == <<c>>
  <2>1. h \in Seq(S)
    OBVIOUS
  <2> HIDE DEF h
  <2>2. (s \o h) \o a = s \o (h \o a)
    BY ONLY <2>1, ConcatAssociative
  <2> QED BY <2>2 DEF h
<1> HIDE DEF t
<1>7. /\ u \in Seq(S) /\ Len(u) = Len(s) + Len(t) /\ \A i \in 1 .. Len(s) : u[i] = s[i]
      /\ \A i \in 1 .. Len(t) : u[Len(s) + i] = t[i]
  <2>1. t \in Seq(S)
    BY ONLY <1>5
  <2> QED BY <2>1, ConcatParts
<1>8. Len(u) + 1 = last /\ u[Len(s) + 1] = c /\ \A i \in 1 .. Len(a) : u[Len(s) + 1 + i] = a[i] /\ u[Len(s) + 1 + i] # c
  <2> HIDE DEF u
  <2>1. Len(u) + 1 = last /\ 1 \in 1 .. Len(t)
    BY ONLY <1>2, <1>5, <1>7
  <2>2. ASSUME NEW i \in 1 .. Len(a) PROVE u[Len(s) + 1 + i] = a[i] /\ a[i] # c
    <3>1. 1 + i \in 1 .. Len(t) /\ Len(s) + (1 + i) = Len(s) + 1 + i /\ i \in DOMAIN a
      BY <1>2, <1>5
    <3>2. u[Len(s) + (1 + i)] = t[1 + i]
      BY ONLY <1>7, <3>1
    <3> QED BY <1>5, <3>1, <3>2
  <2>3. u[Len(s) + 1] = c
    BY ONLY <1>5, <1>7, <2>1
  <2> QED BY <2>1, <2>2, <2>3
<1>9. g \in [0 .. n + 1 -> Nat] /\ g[0] = 0 /\ g[n + 1] = last /\ \A i \in 0 .. n : g[i] = f[i]
  BY <1>2, <1>3
<1> HIDE DEF g, u, q
<1>10. \A i, j \in 0 .. n + 1 : i < j => g[i] < g[j]
  <2>1. SUFFICES ASSUME NEW i \in 0 .. n + 1, NEW j \in 0 .. n + 1, i < j PROVE g[i] < g[j]
    OBVIOUS
  <2>2. CASE j <= n
    <3>1. i \in 0 .. n /\ j \in 0 .. n
      BY <1>2, <2>1, <2>2
    <3> QED BY <1>3, <1>9, <2>1, <3>1
  <2>3. CASE j = n + 1
    <3>1. i \in 0 .. n /\ n \in 0 .. n
      BY <1>2, <2>1, <2>3
    <3>2. f[i] <= f[n]
      <4>1. f[i] \in Nat /\ f[n] \in Nat
        BY ONLY <1>3, <3>1
      <4>2. i < n => f[i] < f[n]
        BY ONLY <1>3, <3>1
      <4>3. i < n \/ i = n
        BY ONLY <1>2, <3>1
      <4> QED BY ONLY <4>1, <4>2, <4>3
    <3>3. g[j] = last /\ g[i] = f[i] /\ f[i] \in Nat
      BY <1>3, <1>9, <2>3, <3>1
    <3> QED BY <1>2, <1>3, <3>2, <3>3
  <2> QED BY <1>2, <2>1, <2>2, <2>3
<1>11. Cuts(u, c) = {g[i] : i \in 0 .. n + 1}
  <2>1. DOMAIN u = 1 .. last - 1 /\ Len(u) + 1 = last
    <3>1. u \in Seq(S)
      BY ONLY <1>7
    <3>2. DOMAIN u = 1 .. Len(u)
      BY ONLY <3>1, LenProperties
    <3>3. Len(u) \in Nat
      BY ONLY <3>1, LenProperties
    <3>4. Len(u) + 1 = last /\ last \in Nat
      BY ONLY <1>2, <1>8
    <3>5. Len(u) = last - 1
      BY ONLY <3>3, <3>4
    <3> QED BY ONLY <3>2, <3>4, <3>5
  <2>2. \A i \in 1 .. last - 1 : \/ i \in 1 .. Len(s) \/ i = Len(s) + 1 \/ i - (Len(s) + 1) \in 1 .. Len(a)
    BY <1>2
  <2>3. \A i \in 1 .. last - 1 : u[i] = c <=> (i = Len(s) + 1 \/ (i \in 1 .. Len(s) /\ s[i] = c))
    <3>1. SUFFICES ASSUME NEW i \in 1 .. last - 1 PROVE u[i] = c <=> (i = Len(s) + 1 \/ (i \in 1 .. Len(s) /\ s[i] = c))
      OBVIOUS
    <3>2. CASE i \in 1 .. Len(s)
      BY <1>2, <1>7, <3>2
    <3>3. CASE i = Len(s) + 1
      BY <1>8, <3>3
    <3>4. CASE i - (Len(s) + 1) \in 1 .. Len(a)
      <4>1. Len(s) + 1 + (i - (Len(s) + 1)) = i /\ i # Len(s) + 1 /\ i \notin 1 .. Len(s)
        BY <1>2, <3>4
      <4>2. u[i] # c
        BY ONLY <1>8, <3>4, <4>1
      <4> QED BY ONLY <4>1, <4>2
    <3> QED BY <2>2, <3>2, <3>3, <3>4
  <2>4. Cuts(u, c) = Cuts(s, c) \cup {last}
    <3>1. \A i \in 1 .. Len(s) : i \in 1 .. last - 1
      BY <1>2
    <3>2. Len(s) + 1 \in 1 .. last - 1
      BY <1>2
    <3>3. {i \in 1 .. last - 1 : u[i] = c} = {Len(s) + 1} \cup {i \in 1 .. Len(s) : s[i] = c}
      BY ONLY <2>3, <3>1, <3>2
    <3>4. Cuts(u, c) = {0, last} \cup {i \in 1 .. last - 1 : u[i] = c}
      BY <2>1 DEF Cuts
    <3>5. Cuts(s, c) = {0, Len(s) + 1} \cup {i \in 1 .. Len(s) : s[i] = c}
      BY <1>2 DEF Cuts
    <3> QED BY ONLY <3>3, <3>4, <3>5
  <2>5. \A i \in 0 .. n + 1 : i \in 0 .. n \/ i = n + 1
    BY <1>2
  <2>6. \A i \in 0 .. n : i \in 0 .. n + 1
    BY <1>2
  <2>7. n + 1 \in 0 .. n + 1
    BY <1>2
  <2>8. {g[i] : i \in 0 .. n + 1} = {f[i] : i \in 0 .. n} \cup {last}
    BY ONLY <1>9, <2>5, <2>6, <2>7
  <2> QED BY ONLY <1>3, <2>4, <2>8
<1>12. ASSUME NEW i \in 1 .. n + 1 PROVE q[i] = SubSeq(u, g[i - 1] + 1, g[i] - 1)
  <2>1. CASE i \in 1 .. n
    <3>1. i \in 0 .. n /\ i - 1 \in 0 .. n /\ i - 1 < i /\ n \in 0 .. n
      BY <1>2, <2>1
    <3>2. f[i - 1] \in Nat /\ f[i] \in Nat /\ f[n] \in Nat /\ f[i - 1] < f[i]
      BY ONLY <1>3, <3>1
    <3>3. i < n => f[i] < f[n]
      BY ONLY <1>3, <3>1
    <3>4. i < n \/ i = n
      BY ONLY <1>2, <2>1
    <3>5. f[i] <= f[n] /\ f[n] = Len(s) + 1
      <4>1. CASE i < n
        BY ONLY <1>3, <3>2, <3>3, <4>1
      <4>2. CASE i = n
        BY ONLY <1>3, <3>2, <4>2
      <4> QED BY ONLY <3>4, <4>1, <4>2
    <3> DEFINE lo == f[i - 1] + 1
               hi == f[i] - 1
    <3>6. lo \in Nat /\ hi \in Nat /\ 1 <= lo /\ hi <= Len(s)
      BY ONLY <1>2, <3>2, <3>5
    <3> HIDE DEF lo, hi
    <3>7. SubSeq(u, lo, hi) = SubSeq(s, lo, hi)
      <4>1. t \in Seq(S)
        BY ONLY <1>5
      <4> QED BY <4>1, <3>6, SubSeqOfPrefix DEF u
    <3>8. SubSeq(u, f[i - 1] + 1, f[i] - 1) = SubSeq(s, f[i - 1] + 1, f[i] - 1)
      BY <3>7 DEF lo, hi
    <3>9. g[i] = f[i] /\ g[i - 1] = f[i - 1] /\ q[i] = p[i] /\ p[i] = SubSeq(s, f[i - 1] + 1, f[i] - 1)
      BY ONLY <1>3, <1>4, <1>9, <2>1, <3>1
    <3> QED BY ONLY <3>8, <3>9
  <2>2. CASE i = n + 1
    <3>1. g[i] = last /\ g[i - 1] = Len(s) + 1 /\ q[i] = a
      <4>1. i - 1 = n /\ n \in 0 .. n
        BY <1>2, <2>2
      <4> QED BY ONLY <1>3, <1>4, <1>9, <2>2, <4>1
    <3> DEFINE v == SubSeq(u, Len(s) + 1 + 1, last - 1)
    <3>2. Len(s) + 1 + 1 \in Int /\ last - 1 \in Int /\ (last - 1) - (Len(s) + 1 + 1) + 1 = Len(a)
      BY <1>2
    <3>3. \A j \in Len(s) + 1 + 1 .. last - 1 : u[j] \in S
      BY <1>2, <1>7, <1>8
    <3>4. /\ v \in Seq(S) /\ Len(v) = IF Len(s) + 1 + 1 <= last - 1 THEN Len(a) ELSE 0
          /\ \A j \in 1 .. Len(a) : v[j] = u[Len(s) + 1 + 1 + j - 1]
      BY ONLY <3>2, <3>3, SubSeqProperties
    <3> HIDE DEF v
    <3>5. Len(v) = Len(a)
      BY <1>2, <3>4
    <3>6. \A j \in 1 .. Len(a) : v[j] = a[j]
      <4>1. \A j \in 1 .. Len(a) : Len(s) + 1 + 1 + j - 1 = Len(s) + 1 + j
        BY <1>2
      <4> QED BY ONLY <1>8, <3>4, <4>1
    <3>7. v = a
      BY ONLY <3>4, <3>5, <3>6, SeqEqual
    <3> QED BY <3>1, <3>7 DEF v
  <2>3. i \in 1 .. n \/ i = n + 1
    BY <1>2
  <2> QED BY <2>1, <2>2, <2>3
<1>13. Positions(u, c, q, g)
  BY ONLY <1>4, <1>8, <1>9, <1>10, <1>11, <1>12 DEF Positions
<1>14. Joint(u, c, q)
  BY <1>13 DEF Joint
<1> QED BY ONLY <1>4, <1>6, <1>7, <1>14 DEF q

-----------------------------------------------------------------------------
\* Each rank below the number of cuts is that of a cut.
LEMMA RanksReached ==
    ASSUME NEW S, NEW s \in Seq(S), NEW c, NEW n \in Nat, n < Cardinality(Cuts(s, c))
    PROVE  Cut(s, c, n) \in Cuts(s, c) /\ Cardinality(Before(s, c, Cut(s, c, n))) = n
<1> DEFINE C == Cuts(s, c)
           N == Cardinality(C)
           rank == [i \in C |-> Cardinality(Before(s, c, i))]
<1>1. IsFiniteSet(C) /\ N \in Nat /\ \A i \in C : i \in Nat
  BY CutsFinite
<1>2. ASSUME NEW i \in C PROVE rank[i] \in 0 .. N - 1
  <2>1. Before(s, c, i) \subseteq C /\ i \notin Before(s, c, i)
    BY <1>1 DEF Before
  <2>2. Cardinality(Before(s, c, i)) <= N /\ Cardinality(Before(s, c, i)) \in Nat /\ Cardinality(Before(s, c, i)) # N
    BY <1>1, <2>1, CutsFinite, FS_Subset
  <2> QED BY <1>1, <2>2
<1>3. ASSUME NEW i \in C, NEW j \in C, rank[i] = rank[j] PROVE i = j
  BY <1>3, CutUnique
<1>4. \E i \in C : rank[i] = n
  <2>1. SUFFICES ASSUME \A i \in C : rank[i] # n PROVE FALSE
    OBVIOUS
  <2> DEFINE T == 0 .. N - 1
             R == T \ {n}
  <2>2. IsFiniteSet(T) /\ Cardinality(T) = N
    <3>1. 0 \in Int /\ N - 1 \in Int /\ N > 0
      BY <1>1
    <3>2. IsFiniteSet(0 .. N - 1) /\ Cardinality(0 .. N - 1) = IF 0 > N - 1 THEN 0 ELSE (N - 1) - 0 + 1
      BY ONLY <3>1, FS_Interval
    <3> QED BY <1>1, <3>1, <3>2
  <2>3. n \in T
    BY <1>1
  <2> HIDE DEF T
  <2>4. IsFiniteSet(R) /\ Cardinality(R) = N - 1
    BY <2>2, <2>3, FS_RemoveElement
  <2>5. \A i \in C : rank[i] \in R
    BY <1>2, <2>1 DEF T
  <2> HIDE DEF R, C
  <2>6. rank \in [C -> R]
    BY <2>5
  <2>7. Cardinality(R) < Cardinality(C)
    BY <1>1, <2>4
  <2> HIDE DEF rank
  <2>8. \E i, j \in C : i # j /\ rank[i] = rank[j]
    BY <1>1, <2>4, <2>6, <2>7, FS_PigeonHole
  <2> QED BY <1>3, <2>8
<1> QED BY <1>4 DEF Cut

\* A prefix, cut at a position.
LEMMA PrefixAt ==
    ASSUME NEW S, NEW s \in Seq(S), NEW i \in Nat, NEW j \in Nat, 1 <= i, i < j, j <= Len(s) + 1
    PROVE  /\ SubSeq(s, 1, i - 1) \in Seq(S) /\ SubSeq(s, i + 1, j - 1) \in Seq(S)
           /\ SubSeq(s, 1, j - 1) = SubSeq(s, 1, i - 1) \o <<s[i]>> \o SubSeq(s, i + 1, j - 1)
<1>0. Len(s) \in Nat
  OBVIOUS
<1>1. 1 \in 1 .. Len(s) + 1 /\ i - 1 \in 1 - 1 .. Len(s) /\ j - 1 \in i - 1 .. Len(s)
      /\ i \in 1 .. Len(s) /\ j - 1 \in i .. Len(s) /\ i - 1 + 1 = i
  BY <1>0
<1>2. SubSeq(s, 1, i - 1) \o SubSeq(s, i - 1 + 1, j - 1) = SubSeq(s, 1, j - 1)
  BY <1>1, ConcatAdjacentSubSeq
<1>3. SubSeq(s, i, j - 1) = <<s[i]>> \o SubSeq(s, i + 1, j - 1)
  BY <1>1, SubSeqRecursiveFirst
<1>4. /\ \A k \in 1 .. i - 1 : s[k] \in S
      /\ \A k \in i + 1 .. j - 1 : s[k] \in S
      /\ s[i] \in S
  BY <1>0, <1>1
<1>5. i - 1 \in Int /\ i + 1 \in Int /\ j - 1 \in Int /\ 1 \in Int
  OBVIOUS
<1> DEFINE x == SubSeq(s, 1, i - 1)
           y == <<s[i]>>
           z == SubSeq(s, i + 1, j - 1)
<1>6. x \in Seq(S)
  BY ONLY <1>4, <1>5, SubSeqProperties
<1>7. z \in Seq(S)
  BY ONLY <1>4, <1>5, SubSeqProperties
<1>8. y \in Seq(S)
  BY <1>4
<1>9. x \o (y \o z) = SubSeq(s, 1, j - 1)
  BY <1>1, <1>2, <1>3
<1> HIDE DEF x, y, z
<1>10. (x \o y) \o z = x \o (y \o z)
  BY ONLY <1>6, <1>7, <1>8, ConcatAssociative
<1> QED BY <1>6, <1>7, <1>9, <1>10 DEF x, y, z

\* A string that splits in four is the four with c in between.
LEMMA Rejoined ==
    ASSUME NEW S, NEW s \in Seq(S), NEW c \in S, Len(Split(s, c)) = 4
    PROVE  s = Split(s, c)[1] \o <<c>> \o Split(s, c)[2] \o <<c>> \o Split(s, c)[3] \o <<c>> \o Split(s, c)[4]
<1> DEFINE p == Split(s, c)
           N == Cardinality(Cuts(s, c))
           k(n) == Cut(s, c, n)
<1>1. N = 5
  <2>1. N \in Nat /\ p = [n \in 1 .. N - 1 |-> SubSeq(s, k(n - 1) + 1, k(n) - 1)]
    BY CutsFinite DEF Split
  <2>2. N # 0
    BY CutsFinite, FS_EmptySet
  <2>3. N - 1 \in Nat
    BY <2>1, <2>2
  <2>4. Len(p) = N - 1
    <3> HIDE DEF N, k
    <3> QED BY <2>1, <2>3
  <2>5. Len(p) = 4
    OBVIOUS
  <2>6. N \in Nat /\ 4 = N - 1
    BY ONLY <2>1, <2>4, <2>5, Zenon
  <2> HIDE DEF N, p
  <2> QED BY <2>6
<1>2. \A n \in 0 .. 4 : k(n) \in Cuts(s, c) /\ Cardinality(Before(s, c, k(n))) = n
  <2>1. \A n \in 0 .. 4 : n \in Nat /\ n < N
    BY <1>1
  <2> QED BY <2>1, RanksReached
<1> HIDE DEF k, N
<1>3. \A n \in 0 .. 4 : k(n) \in Nat /\ k(n) <= Len(s) + 1 /\ k(n) \in Cuts(s, c)
  BY <1>2, CutsFinite
<1>4. ASSUME NEW m \in 0 .. 4, NEW n \in 0 .. 4, m < n PROVE k(m) < k(n)
  <2>1. SUFFICES ASSUME k(n) <= k(m) PROVE FALSE
    BY <1>3
  <2>2. Before(s, c, k(n)) \subseteq Before(s, c, k(m))
    <3>1. \A e \in Cuts(s, c) : e \in Nat
      BY CutsFinite
    <3> QED BY <1>3, <2>1, <3>1 DEF Before
  <2>3. Cardinality(Before(s, c, k(n))) <= Cardinality(Before(s, c, k(m)))
    BY <2>2, CutsFinite, FS_Subset
  <2> QED BY <1>2, <1>4, <2>3
<1>5. k(0) = 0
  <2>1. Before(s, c, 0) = {} /\ 0 \in Cuts(s, c)
    BY CutsFinite DEF Before
  <2>2. Cut(s, c, Cardinality(Before(s, c, 0))) = 0
    BY <2>1, CutUnique
  <2> QED BY <2>1, <2>2, FS_EmptySet DEF k
<1>6. k(4) = Len(s) + 1
  <2> DEFINE e == Len(s) + 1
  <2>1. e \in Cuts(s, c) /\ Before(s, c, e) = Cuts(s, c) \ {e}
    BY CutsFinite DEF Before
  <2>2. Cardinality(Before(s, c, e)) = 4
    <3>1. IsFiniteSet(Cuts(s, c)) /\ Cardinality(Cuts(s, c)) = 5
      BY <1>1, CutsFinite DEF N
    <3> HIDE DEF e
    <3>2. Cardinality(Cuts(s, c) \ {e}) = 5 - 1
      BY ONLY <2>1, <3>1, FS_RemoveElement
    <3> QED BY ONLY <2>1, <3>2
  <2>3. Cut(s, c, Cardinality(Before(s, c, e))) = e
    BY <2>1, CutUnique
  <2> QED BY <2>2, <2>3 DEF k
<1>7. k(1) \in Nat /\ k(2) \in Nat /\ k(3) \in Nat /\ Len(s) \in Nat
      /\ 1 <= k(1) /\ k(1) < k(2) /\ k(2) < k(3) /\ k(3) < Len(s) + 1
  <2>1. k(0) < k(1) /\ k(1) < k(2) /\ k(2) < k(3) /\ k(3) < k(4)
    BY <1>4
  <2> QED BY <1>3, <1>5, <1>6, <2>1
<1>8. s[k(1)] = c /\ s[k(2)] = c /\ s[k(3)] = c
  <2>1. ASSUME NEW n \in 1 .. 3 PROVE s[k(n)] = c
    <3>1. k(n) \in Cuts(s, c)
      BY <1>2
    <3>2. k(n) # 0 /\ k(n) # Len(s) + 1
      <4>1. n = 1 \/ n = 2 \/ n = 3
        OBVIOUS
      <4> QED BY <1>7, <4>1
    <3> QED BY <3>1, <3>2 DEF Cuts
  <2> QED BY <2>1
<1>9. /\ p[1] = SubSeq(s, 1, k(1) - 1) /\ p[2] = SubSeq(s, k(1) + 1, k(2) - 1)
      /\ p[3] = SubSeq(s, k(2) + 1, k(3) - 1) /\ p[4] = SubSeq(s, k(3) + 1, Len(s) + 1 - 1)
  <2>1. p = [n \in 1 .. 4 |-> SubSeq(s, k(n - 1) + 1, k(n) - 1)]
    BY <1>1 DEF Split, N, k
  <2>2. /\ p[1] = SubSeq(s, k(0) + 1, k(1) - 1) /\ p[2] = SubSeq(s, k(1) + 1, k(2) - 1)
        /\ p[3] = SubSeq(s, k(2) + 1, k(3) - 1) /\ p[4] = SubSeq(s, k(3) + 1, k(4) - 1)
    <3> HIDE DEF p
    <3>1. \A n \in 1 .. 4 : p[n] = SubSeq(s, k(n - 1) + 1, k(n) - 1)
      BY <2>1
    <3>2. 1 - 1 = 0 /\ 2 - 1 = 1 /\ 3 - 1 = 2 /\ 4 - 1 = 3
      OBVIOUS
    <3>3. 1 \in 1 .. 4 /\ 2 \in 1 .. 4 /\ 3 \in 1 .. 4 /\ 4 \in 1 .. 4
      OBVIOUS
    <3> QED BY <3>1, <3>2, <3>3, Zenon
  <2>3. k(0) + 1 = 1
    BY <1>5
  <2> HIDE DEF p
  <2>4. k(4) - 1 = Len(s) + 1 - 1
    BY ONLY <1>6
  <2> QED BY ONLY <2>2, <2>3, <2>4, Zenon
<1> HIDE DEF p
<1> DEFINE a == k(1)
           b == k(2)
           d == k(3)
           e == Len(s) + 1
<1>0. /\ a \in Nat /\ b \in Nat /\ d \in Nat /\ e \in Nat /\ 1 <= a /\ a < b /\ b < d /\ d < e
      /\ a <= Len(s) + 1 /\ b <= Len(s) + 1 /\ d <= Len(s) + 1 /\ e <= Len(s) + 1 /\ 1 <= b /\ 1 <= d
      /\ s[a] = c /\ s[b] = c /\ s[d] = c
  BY <1>7, <1>8
<1> HIDE DEF a, b, d, e
<1>10. /\ SubSeq(s, 1, a - 1) \in Seq(S) /\ SubSeq(s, a + 1, b - 1) \in Seq(S)
       /\ SubSeq(s, 1, b - 1) = SubSeq(s, 1, a - 1) \o <<s[a]>> \o SubSeq(s, a + 1, b - 1)
  BY <1>0, PrefixAt
<1>11. /\ SubSeq(s, b + 1, d - 1) \in Seq(S)
       /\ SubSeq(s, 1, d - 1) = SubSeq(s, 1, b - 1) \o <<s[b]>> \o SubSeq(s, b + 1, d - 1)
  BY <1>0, PrefixAt
<1>12. /\ SubSeq(s, d + 1, e - 1) \in Seq(S)
       /\ SubSeq(s, 1, e - 1) = SubSeq(s, 1, d - 1) \o <<s[d]>> \o SubSeq(s, d + 1, e - 1)
  BY <1>0, PrefixAt
<1>15. /\ p[1] = SubSeq(s, 1, a - 1) /\ p[2] = SubSeq(s, a + 1, b - 1)
       /\ p[3] = SubSeq(s, b + 1, d - 1) /\ p[4] = SubSeq(s, d + 1, e - 1) /\ e - 1 = Len(s) + 1 - 1
  BY <1>9 DEF a, b, d, e
<1>13. SubSeq(s, 1, Len(s) + 1 - 1) = s
  <2>1. Len(s) + 1 - 1 = Len(s)
    BY <1>7
  <2> QED BY <2>1, SubSeqFull
<1>14. s = p[1] \o <<c>> \o p[2] \o <<c>> \o p[3] \o <<c>> \o p[4]
  BY ONLY <1>0, <1>10, <1>11, <1>12, <1>13, <1>15, Zenon
<1> QED BY <1>14 DEF p

-----------------------------------------------------------------------------
\* Tuples, element by element.
LEMMA FourAppended ==
    ASSUME NEW x, NEW y, NEW z , NEW u
    PROVE  Append(Append(Append(<<x>>, y), z), u) = <<x, y, z, u>>
<1> DEFINE T == {x, y, z, u}
           s == Append(Append(Append(<<x>>, y), z), u)
           q == <<x, y, z, u>>
<1>1. q \in Seq(T) /\ Len(q) = 4 /\ s \in Seq(T) /\ Len(s) = 4
  OBVIOUS
<1>2. s[1] = x /\ s[2] = y /\ s[3] = z /\ s[4] = u
  OBVIOUS
<1>3. q[1] = x /\ q[2] = y /\ q[3] = z /\ q[4] = u
  OBVIOUS
<1> HIDE DEF s, q
<1>4. \A i \in 1 .. Len(s) : s[i] = q[i]
  BY <1>1, <1>2, <1>3
<1>5. s = q
  BY ONLY <1>1, <1>4, SeqEqual
<1> QED BY <1>5 DEF s, q

LEMMA SixAppended ==
    ASSUME NEW x, NEW y, NEW z , NEW u, NEW v, NEW w
    PROVE  Append(Append(Append(Append(Append(<<x>>, y), z), u), v), w) = <<x, y, z, u, v, w>>
<1> DEFINE T == {x, y, z, u, v, w}
           s == Append(Append(Append(Append(Append(<<x>>, y), z), u), v), w)
           q == <<x, y, z, u, v, w>>
<1>1. q \in Seq(T) /\ Len(q) = 6 /\ s \in Seq(T) /\ Len(s) = 6
  OBVIOUS
<1>2. s[1] = x /\ s[2] = y /\ s[3] = z /\ s[4] = u /\ s[5] = v /\ s[6] = w
  OBVIOUS
<1>3. q[1] = x /\ q[2] = y /\ q[3] = z /\ q[4] = u /\ q[5] = v /\ q[6] = w
  OBVIOUS
<1> HIDE DEF s, q
<1>4. \A i \in 1 .. Len(s) : s[i] = q[i]
  BY <1>1, <1>2, <1>3
<1>5. s = q
  BY ONLY <1>1, <1>4, SeqEqual
<1> QED BY <1>5 DEF s, q

LEMMA PairJoined ==
    ASSUME NEW x, NEW y
    PROVE  <<x>> \o <<y>> = <<x, y>>
<1> DEFINE T == {x, y}
           s == <<x>> \o <<y>>
           q == <<x, y>>
<1>1. q \in Seq(T) /\ Len(q) = 2 /\ s \in Seq(T) /\ Len(s) = 2
  OBVIOUS
<1>2. s[1] = x /\ s[2] = y /\ q[1] = x /\ q[2] = y
  OBVIOUS
<1> HIDE DEF s, q
<1>3. \A i \in 1 .. Len(s) : s[i] = q[i]
  BY <1>1, <1>2
<1>4. s = q
  BY ONLY <1>1, <1>3, SeqEqual
<1> QED BY <1>4 DEF s, q

LEMMA TripleJoined ==
    ASSUME NEW x, NEW y, NEW z
    PROVE  <<x, y>> \o <<z>> = <<x, y, z>>
<1> DEFINE T == {x, y, z}
           s == <<x, y>> \o <<z>>
           q == <<x, y, z>>
<1>1. q \in Seq(T) /\ Len(q) = 3 /\ s \in Seq(T) /\ Len(s) = 3
  OBVIOUS
<1>2. s[1] = x /\ s[2] = y /\ s[3] = z /\ q[1] = x /\ q[2] = y /\ q[3] = z
  OBVIOUS
<1> HIDE DEF s, q
<1>3. \A i \in 1 .. Len(s) : s[i] = q[i]
  BY <1>1, <1>2
<1>4. s = q
  BY ONLY <1>1, <1>3, SeqEqual
<1> QED BY <1>4 DEF s, q

\* A string made of four parts without c, and c in between, splits in the four.
LEMMA SplitFour ==
    ASSUME NEW S, NEW c \in S, NEW a \in Seq(S), NEW b \in Seq(S), NEW d \in Seq(S), NEW e \in Seq(S),
           \A i \in DOMAIN a : a[i] # c, \A i \in DOMAIN b : b[i] # c,
           \A i \in DOMAIN d : d[i] # c, \A i \in DOMAIN e : e[i] # c
    PROVE  /\ a \o <<c>> \o b \o <<c>> \o d \o <<c>> \o e \in Seq(S)
           /\ Split(a \o <<c>> \o b \o <<c>> \o d \o <<c>> \o e, c) = <<a, b, d, e>>
<1> DEFINE k2 == a \o <<c>> \o b
           k3 == k2 \o <<c>> \o d
           k4 == k3 \o <<c>> \o e
           p1 == <<a>>
           p2 == Append(p1, b)
           p3 == Append(p2, d)
           p4 == Append(p3, e)
<1>1. p1 \in Seq(Seq(S)) /\ Joint(a, c, p1)
  BY JointOne
<1>5. p4 = <<a, b, d, e>>
  BY FourAppended
<1> HIDE DEF p1
<1>2. k2 \in Seq(S) /\ p2 \in Seq(Seq(S)) /\ Joint(k2, c, p2)
  BY <1>1, JointMore
<1> HIDE DEF p2, k2
<1>3. k3 \in Seq(S) /\ p3 \in Seq(Seq(S)) /\ Joint(k3, c, p3)
  BY <1>2, JointMore
<1> HIDE DEF p3, k3
<1>4. k4 \in Seq(S) /\ p4 \in Seq(Seq(S)) /\ Joint(k4, c, p4)
  BY <1>3, JointMore
<1> HIDE DEF p4, k4
<1>6. Split(k4, c) = p4
  BY <1>4, SplitJoint
<1>7. k4 \in Seq(S) /\ Split(k4, c) = <<a, b, d, e>>
  BY <1>4, <1>5, <1>6
<1> QED BY <1>7 DEF k4, k3, k2

\* A path of the mock upstream splits in its segments, the first one empty.
LEMMA SplitPath ==
    ASSUME NEW S, "/" \in S, "pkg" \in S,
           NEW a \in Seq(S), NEW b \in Seq(S), NEW d \in Seq(S), NEW e \in Seq(S),
           \A i \in DOMAIN a : a[i] # "/", \A i \in DOMAIN b : b[i] # "/",
           \A i \in DOMAIN d : d[i] # "/", \A i \in DOMAIN e : e[i] # "/"
    PROVE  Split(<<"/", "pkg", "/">> \o a \o <<"/">> \o b \o <<"/">> \o d \o <<"/">> \o e, "/")
               = <<<<>>, <<"pkg">>, a, b, d, e>>
<1> DEFINE c == "/"
           z == <<>>
           w == <<"pkg">>
           h == z \o <<c>> \o w
           k1 == h \o <<c>> \o a
           k2 == k1 \o <<c>> \o b
           k3 == k2 \o <<c>> \o d
           k4 == k3 \o <<c>> \o e
           q0 == <<z>>
           q1 == Append(q0, w)
           q2 == Append(q1, a)
           q3 == Append(q2, b)
           q4 == Append(q3, d)
           q5 == Append(q4, e)
<1>1. z \in Seq(S) /\ w \in Seq(S) /\ (\A i \in DOMAIN w : w[i] # c) /\ (\A i \in DOMAIN z : z[i] # c)
  OBVIOUS
<1>2. /\ c \in S
      /\ \A i \in DOMAIN a : a[i] # c
      /\ \A i \in DOMAIN b : b[i] # c
      /\ \A i \in DOMAIN d : d[i] # c
      /\ \A i \in DOMAIN e : e[i] # c
  OBVIOUS
<1>3. q5 = <<z, w, a, b, d, e>>
  BY SixAppended
<1>4. k1 = <<"/", "pkg", "/">> \o a
  <2>1. z \o <<c>> = <<c>>
    OBVIOUS
  <2>2. <<c>> \o w = <<c, "pkg">>
    BY PairJoined
  <2>3. <<c, "pkg">> \o <<c>> = <<"/", "pkg", "/">>
    BY TripleJoined
  <2>4. k1 = z \o <<c>> \o w \o <<c>> \o a
    OBVIOUS
  <2> HIDE DEF z, w, k1
  <2> QED BY ONLY <2>1, <2>2, <2>3, <2>4, Zenon
<1> HIDE DEF c, z, w
<1>5. q0 \in Seq(Seq(S)) /\ Joint(z, c, q0)
  BY <1>1, JointOne
<1> HIDE DEF q0
<1>6. h \in Seq(S) /\ q1 \in Seq(Seq(S)) /\ Joint(h, c, q1)
  BY <1>1, <1>2, <1>5, JointMore
<1> HIDE DEF q1, h
<1>7. k1 \in Seq(S) /\ q2 \in Seq(Seq(S)) /\ Joint(k1, c, q2)
  BY <1>2, <1>6, JointMore
<1> HIDE DEF q2, k1
<1>8. k2 \in Seq(S) /\ q3 \in Seq(Seq(S)) /\ Joint(k2, c, q3)
  BY <1>2, <1>7, JointMore
<1> HIDE DEF q3, k2
<1>9. k3 \in Seq(S) /\ q4 \in Seq(Seq(S)) /\ Joint(k3, c, q4)
  BY <1>2, <1>8, JointMore
<1> HIDE DEF q4, k3
<1>10. k4 \in Seq(S) /\ q5 \in Seq(Seq(S)) /\ Joint(k4, c, q5)
  BY <1>2, <1>9, JointMore
<1> HIDE DEF q5, k4
<1>11. Split(k4, c) = q5
  BY <1>10, SplitJoint
<1>12. k4 = <<"/", "pkg", "/">> \o a \o <<"/">> \o b \o <<"/">> \o d \o <<"/">> \o e
  BY <1>4 DEF k4, k3, k2, c
<1> QED BY <1>3, <1>11, <1>12 DEF c, z, w

LEMMA SixJoined ==
    ASSUME NEW x, NEW y, NEW z , NEW u, NEW v, NEW w
    PROVE  <<x, y>> \o <<z, u, v, w>> = <<x, y, z, u, v, w>>
<1> DEFINE T == {x, y, z, u, v, w}
           s == <<x, y>> \o <<z, u, v, w>>
           q == <<x, y, z, u, v, w>>
<1>1. q \in Seq(T) /\ Len(q) = 6 /\ s \in Seq(T) /\ Len(s) = 6
  OBVIOUS
<1>2. s[1] = x /\ s[2] = y /\ s[3] = z /\ s[4] = u /\ s[5] = v /\ s[6] = w
  OBVIOUS
<1>3. q[1] = x /\ q[2] = y /\ q[3] = z /\ q[4] = u /\ q[5] = v /\ q[6] = w
  OBVIOUS
<1> HIDE DEF s, q
<1>4. \A i \in 1 .. Len(s) : s[i] = q[i]
  BY <1>1, <1>2, <1>3
<1>5. s = q
  BY ONLY <1>1, <1>4, SeqEqual
<1> QED BY <1>5 DEF s, q

-----------------------------------------------------------------------------
\* What parse_fetch demands of the four fields.
InGrammar(eco, name, ver, art) ==
    /\ NotAString \notin {eco, name, ver, art} /\ eco \in Ecosystems /\ art \in Artifacts
    /\ Matches(name, NameChars, MaxName) /\ Matches(ver, VersionChars, MaxVersion)

LEMMA ParseAccepts ==
    ASSUME NEW r, r.object \in BOOLEAN, r.extra \in BOOLEAN
    PROVE  /\ parse_fetch(r).status = "accepted" =>
                  /\ InGrammar(r.ecosystem, r.name, r.version, r.artifact)
                  /\ parse_fetch(r) = Accepted(r.ecosystem, r.name, r.version, r.artifact)
           /\ parse_fetch(r).status # "unread"
<1> DEFINE inner == IF NotAString \in {r.ecosystem, r.name, r.version, r.artifact} THEN Error("not_a_string")
                    ELSE IF r.ecosystem \notin Ecosystems THEN Error("unknown_ecosystem")
                    ELSE IF r.artifact \notin Artifacts THEN Error("unknown_artifact")
                    ELSE IF ~Matches(r.name, NameChars, MaxName) THEN Error("bad_name")
                    ELSE IF ~Matches(r.version, VersionChars, MaxVersion) THEN Error("bad_version")
                    ELSE Accepted(r.ecosystem, r.name, r.version, r.artifact)
<1>1. parse_fetch(r) \in {Error("not_an_object"), Error("unexpected_keys"), Error("bad_verb"), inner}
  <2> HIDE DEF inner
  <2>1. CASE ~r.object
    BY <2>1 DEF parse_fetch
  <2>2. CASE r.object /\ r.extra
    BY <2>2 DEF parse_fetch
  <2>3. CASE r.object /\ ~r.extra /\ r.verb # "fetch"
    BY <2>3 DEF parse_fetch
  <2>4. CASE r.object /\ ~r.extra /\ r.verb = "fetch"
    BY <2>4 DEF parse_fetch, inner
  <2> QED BY <2>1, <2>2, <2>3, <2>4
<1>3. \/ inner \in {Error(w) : w \in {"not_a_string", "unknown_ecosystem", "unknown_artifact", "bad_name", "bad_version"}}
      \/ /\ inner = Accepted(r.ecosystem, r.name, r.version, r.artifact)
         /\ InGrammar(r.ecosystem, r.name, r.version, r.artifact)
  BY DEF InGrammar
<1> HIDE DEF inner
<1>4. Accepted(r.ecosystem, r.name, r.version, r.artifact).status = "accepted"
  BY DEF Accepted
<1> DEFINE refusals == {"not_an_object", "unexpected_keys", "bad_verb", "not_a_string", "unknown_ecosystem",
                        "unknown_artifact", "bad_name", "bad_version"}
<1>5. \/ \E w \in refusals : parse_fetch(r) = Error(w)
      \/ /\ parse_fetch(r) = Accepted(r.ecosystem, r.name, r.version, r.artifact)
         /\ InGrammar(r.ecosystem, r.name, r.version, r.artifact)
  BY <1>1, <1>3
<1>6. \A w \in refusals : Error(w).status \notin {"accepted", "unread"}
  BY DEF Error
<1> HIDE DEF refusals
<1> QED BY <1>4, <1>5, <1>6

\* What it answers to a request made of four fields.
LEMMA ParseAgain ==
    ASSUME NEW p
    PROVE  parse_fetch(FetchOf(p)) =
               IF NotAString \in {p[1], p[2], p[3], p[4]} THEN Error("not_a_string")
               ELSE IF p[1] \notin Ecosystems THEN Error("unknown_ecosystem")
               ELSE IF p[4] \notin Artifacts THEN Error("unknown_artifact")
               ELSE IF ~Matches(p[2], NameChars, MaxName) THEN Error("bad_name")
               ELSE IF ~Matches(p[3], VersionChars, MaxVersion) THEN Error("bad_version")
               ELSE Accepted(p[1], p[2], p[3], p[4])
<1> DEFINE r == FetchOf(p)
<1>1. /\ r.object = TRUE /\ r.extra = FALSE /\ r.verb = "fetch"
      /\ r.ecosystem = p[1] /\ r.name = p[2] /\ r.version = p[3] /\ r.artifact = p[4]
  BY DEF FetchOf
<1> HIDE DEF r
<1>2. parse_fetch(r) =
            IF NotAString \in {r.ecosystem, r.name, r.version, r.artifact} THEN Error("not_a_string")
            ELSE IF r.ecosystem \notin Ecosystems THEN Error("unknown_ecosystem")
            ELSE IF r.artifact \notin Artifacts THEN Error("unknown_artifact")
            ELSE IF ~Matches(r.name, NameChars, MaxName) THEN Error("bad_name")
            ELSE IF ~Matches(r.version, VersionChars, MaxVersion) THEN Error("bad_version")
            ELSE Accepted(r.ecosystem, r.name, r.version, r.artifact)
  BY <1>1 DEF parse_fetch
<1>3. parse_fetch(FetchOf(p)) = parse_fetch(r)
  BY DEF r
<1> QED BY <1>1, <1>2, <1>3

\* A string that matches a pattern holds its characters, and a newline at most.
LEMMA MatchedChars ==
    ASSUME NEW s \in Seq(Symbols), NEW C, NEW m, Matches(s, C, m)
    PROVE  \A i \in DOMAIN s : s[i] \in C \/ s[i] = "\n"
<1>1. Len(s) \in Nat /\ DOMAIN s = 1 .. Len(s)
  OBVIOUS
<1>2. \A i \in DOMAIN Chomp(s) : Chomp(s)[i] \in C
  BY DEF Matches, Word
<1>3. CASE s # <<>> /\ Last(s) = "\n"
  <2>1. Chomp(s) = Front(s) /\ s[Len(s)] = "\n" /\ Len(s) > 0
    <3>1. Len(s) > 0
      BY <1>1, <1>3
    <3> QED BY <1>3, <3>1 DEF Chomp, Last
  <2>2. DOMAIN Front(s) = 1 .. Len(s) - 1 /\ \A i \in 1 .. Len(s) - 1 : Front(s)[i] = s[i]
    BY <1>1, <2>1 DEF Front
  <2> QED BY <1>1, <1>2, <2>1, <2>2
<1>4. CASE ~(s # <<>> /\ Last(s) = "\n")
  BY <1>2, <1>4 DEF Chomp
<1> QED BY <1>3, <1>4

\* The fields of the grammar are strings without a separator.
LEMMA FieldsArePlain ==
    ASSUME NEW eco, NEW name \in Seq(Symbols), NEW ver \in Seq(Symbols), NEW art, InGrammar(eco, name, ver, art),
           NEW c \in {":", "/"}
    PROVE  /\ eco \in Seq(Symbols) /\ art \in Seq(Symbols)
           /\ \A i \in DOMAIN eco : eco[i] # c
           /\ \A i \in DOMAIN name : name[i] # c
           /\ \A i \in DOMAIN ver : ver[i] # c
           /\ \A i \in DOMAIN art : art[i] # c
<1>1. "pypi" \in Symbols /\ "npm" \in Symbols /\ "wheel" \in Symbols /\ "sdist" \in Symbols
  BY Zenon DEF Symbols, Alnum
<1>2. eco \in Ecosystems /\ art \in Artifacts
  BY DEF InGrammar
<1>3. eco \in Seq(Symbols) /\ \A i \in DOMAIN eco : eco[i] # c
  <2>1. eco = <<"pypi">> \/ eco = <<"npm">>
    BY <1>2 DEF Ecosystems
  <2>2. <<"pypi">> \in Seq(Symbols) /\ <<"npm">> \in Seq(Symbols)
    BY <1>1
  <2>3. \A i \in DOMAIN <<"pypi">> : <<"pypi">>[i] # c
    OBVIOUS
  <2>4. \A i \in DOMAIN <<"npm">> : <<"npm">>[i] # c
    OBVIOUS
  <2> QED BY <2>1, <2>2, <2>3, <2>4
<1>4. art \in Seq(Symbols) /\ \A i \in DOMAIN art : art[i] # c
  <2>1. art = <<"wheel">> \/ art = <<"sdist">>
    BY <1>2 DEF Artifacts
  <2>2. <<"wheel">> \in Seq(Symbols) /\ <<"sdist">> \in Seq(Symbols)
    BY <1>1
  <2>3. \A i \in DOMAIN <<"wheel">> : <<"wheel">>[i] # c
    OBVIOUS
  <2>4. \A i \in DOMAIN <<"sdist">> : <<"sdist">>[i] # c
    OBVIOUS
  <2> QED BY <2>1, <2>2, <2>3, <2>4
<1>5. \A i \in DOMAIN name : name[i] \in NameChars \/ name[i] = "\n"
  BY MatchedChars DEF InGrammar
<1>6. \A i \in DOMAIN ver : ver[i] \in VersionChars \/ ver[i] = "\n"
  BY MatchedChars DEF InGrammar
<1>7. c \notin NameChars /\ c \notin VersionChars /\ c # "\n"
  BY DEF NameChars, VersionChars, Alnum
<1> QED BY <1>3, <1>4, <1>5, <1>6, <1>7

\* The key and the path of what is in the grammar split in its fields.
LEMMA KeySplits ==
    ASSUME NEW eco, NEW name \in Seq(Symbols), NEW ver \in Seq(Symbols), NEW art, InGrammar(eco, name, ver, art)
    PROVE  /\ split_key(lock_key(<<eco, name, ver, art>>)) = Accepted(eco, name, ver, art)
           /\ Split(upstream_path(<<eco, name, ver, art>>), "/") = <<<<>>, <<"pkg">>>> \o <<eco, name, ver, art>>
<1> DEFINE f == <<eco, name, ver, art>>
<1>1. f[1] = eco /\ f[2] = name /\ f[3] = ver /\ f[4] = art /\ Len(f) = 4
  OBVIOUS
<1>2. ":" \in {":", "/"} /\ "/" \in {":", "/"} /\ ":" \in Symbols /\ "/" \in Symbols /\ "pkg" \in Symbols \cup {"pkg"}
  BY Zenon DEF Symbols
<1>3. Split(lock_key(f), ":") = f
  <2>1. Split(eco \o <<":">> \o name \o <<":">> \o ver \o <<":">> \o art, ":") = <<eco, name, ver, art>>
    <3>1. /\ eco \in Seq(Symbols) /\ name \in Seq(Symbols) /\ ver \in Seq(Symbols) /\ art \in Seq(Symbols)
          /\ \A i \in DOMAIN eco : eco[i] # ":"
          /\ \A i \in DOMAIN name : name[i] # ":"
          /\ \A i \in DOMAIN ver : ver[i] # ":"
          /\ \A i \in DOMAIN art : art[i] # ":"
      BY <1>2, FieldsArePlain
    <3>2. ":" \in Symbols
      BY <1>2
    <3> QED BY ONLY <3>1, <3>2, SplitFour
  <2> QED BY <2>1 DEF lock_key
<1>4. parse_fetch(FetchOf(f)) = Accepted(eco, name, ver, art)
  <2> HIDE DEF f
  <2> QED BY <1>1, ParseAgain DEF InGrammar
<1>5. split_key(lock_key(f)) = Accepted(eco, name, ver, art)
  <2> HIDE DEF f
  <2> QED BY <1>1, <1>3, <1>4 DEF split_key
<1>6. Split(upstream_path(f), "/") = <<<<>>, <<"pkg">>, eco, name, ver, art>>
  <2> DEFINE S == Symbols \cup {"pkg"}
  <2>1. \A s \in Seq(Symbols) : s \in Seq(S)
    OBVIOUS
  <2>2. "/" \in S /\ "pkg" \in S
    BY <1>2
  <2> HIDE DEF S
  <2>3. Split(<<"/", "pkg", "/">> \o eco \o <<"/">> \o name \o <<"/">> \o ver \o <<"/">> \o art, "/")
            = <<<<>>, <<"pkg">>, eco, name, ver, art>>
    <3>1. /\ eco \in Seq(Symbols) /\ name \in Seq(Symbols) /\ ver \in Seq(Symbols) /\ art \in Seq(Symbols)
          /\ \A i \in DOMAIN eco : eco[i] # "/"
          /\ \A i \in DOMAIN name : name[i] # "/"
          /\ \A i \in DOMAIN ver : ver[i] # "/"
          /\ \A i \in DOMAIN art : art[i] # "/"
      BY <1>2, FieldsArePlain
    <3>2. eco \in Seq(S) /\ name \in Seq(S) /\ ver \in Seq(S) /\ art \in Seq(S)
      BY ONLY <2>1, <3>1
    <3> QED BY ONLY <2>2, <3>1, <3>2, SplitPath, SMTT(30)
  <2> QED BY <2>3 DEF upstream_path
<1>7. <<<<>>, <<"pkg">>>> \o f = <<<<>>, <<"pkg">>, eco, name, ver, art>>
  BY SixJoined
<1> QED BY <1>5, <1>6, <1>7

\* A lock key that is accepted is that of its fields, which are in the grammar.
LEMMA KeyRejoins ==
    ASSUME NEW k \in Seq(Symbols), split_key(k).status = "accepted"
    PROVE  /\ lock_key(split_key(k).fields) = k
           /\ parse_fetch(FetchOf(split_key(k).fields)) = split_key(k)
<1> DEFINE p == Split(k, ":")
           f == <<p[1], p[2], p[3], p[4]>>
<1>1. Len(p) = 4 /\ split_key(k) = parse_fetch(FetchOf(p))
  <2>1. \A w : Error(w).status = w
    BY DEF Error
  <2>2. split_key(k) = IF Len(p) # 4 THEN Error("bad_lock_key") ELSE parse_fetch(FetchOf(p))
    BY DEF split_key
  <2> HIDE DEF p
  <2> QED BY <2>1, <2>2
<1>2. k = p[1] \o <<":">> \o p[2] \o <<":">> \o p[3] \o <<":">> \o p[4]
  <2>1. ":" \in Symbols
    BY Zenon DEF Symbols
  <2>2. Len(Split(k, ":")) = 4
    BY <1>1
  <2> QED BY <2>1, <2>2, Rejoined
<1> HIDE DEF p
<1>3. f[1] = p[1] /\ f[2] = p[2] /\ f[3] = p[3] /\ f[4] = p[4]
  OBVIOUS
<1>4. lock_key(f) = k
  BY <1>2 DEF lock_key
<1>5. split_key(k) = Accepted(p[1], p[2], p[3], p[4])
  <2>1. parse_fetch(FetchOf(p)).status = "accepted"
    BY <1>1
  <2>2. FetchOf(p).object \in BOOLEAN /\ FetchOf(p).extra \in BOOLEAN
    BY DEF FetchOf
  <2>3. /\ FetchOf(p).ecosystem = p[1] /\ FetchOf(p).name = p[2]
        /\ FetchOf(p).version = p[3] /\ FetchOf(p).artifact = p[4]
    BY DEF FetchOf
  <2> QED BY <1>1, <2>1, <2>2, <2>3, ParseAccepts
<1>6. split_key(k).fields = f
  BY <1>5 DEF Accepted
<1>7. FetchOf(f) = FetchOf(p)
  BY <1>3 DEF FetchOf
<1> QED BY <1>1, <1>4, <1>6, <1>7

\* A requirement is a string without the space around it.
LEMMA StripString ==
    ASSUME NEW s \in Seq(Symbols)
    PROVE  Strip(s) \in Seq(Symbols)
<1> DEFINE solid == {i \in DOMAIN s : ~IsSpace(s[i])}
<1>1. Len(s) \in Nat /\ DOMAIN s = 1 .. Len(s) /\ solid \in SUBSET Nat /\ \A i \in solid : i <= Len(s) /\ i \in DOMAIN s
  OBVIOUS
<1>2. CASE solid = {}
  BY <1>2 DEF Strip
<1>3. CASE solid # {}
  <2> DEFINE lo == CHOOSE i \in solid : \A j \in solid : i <= j
             hi == CHOOSE i \in solid : \A j \in solid : j <= i
  <2> HIDE DEF solid
  <2>1. lo \in solid
    BY <1>1, <1>3, LeastOne
  <2>2. hi \in solid
    BY <1>1, <1>3, GreatestOne
  <2>3. Strip(s) = SubSeq(s, lo, hi)
    BY <1>3 DEF Strip, solid
  <2> HIDE DEF lo, hi
  <2>4. lo \in 1 .. Len(s) /\ hi \in 1 .. Len(s) /\ lo \in Int /\ hi \in Int
    BY <1>1, <2>1, <2>2
  <2>5. \A i \in lo .. hi : s[i] \in Symbols
    BY <1>1, <2>4
  <2>6. SubSeq(s, lo, hi) \in Seq(Symbols)
    BY ONLY <2>4, <2>5, SubSeqProperties
  <2> QED BY <2>3, <2>6
<1> QED BY <1>2, <1>3

\* A word of the grammar holds no newline, so that only its length is in question.
LEMMA WordMatches ==
    ASSUME NEW s \in Seq(Symbols), NEW C \in {NameChars, VersionChars}, NEW m, Word(s, C)
    PROVE  Matches(s, C, m) <=> Len(s) <= m
<1>1. "\n" \notin C
  BY DEF NameChars, VersionChars, Alnum
<1>2. Len(s) \in Nat /\ DOMAIN s = 1 .. Len(s) /\ s # <<>> /\ Len(s) > 0
  BY DEF Word
<1>3. s[Len(s)] \in C
  BY <1>2 DEF Word
<1>4. Chomp(s) = s
  BY <1>1, <1>3 DEF Chomp, Last
<1> QED BY <1>4 DEF Matches

\* What parse_req makes of a requirement.
LEMMA RequirementParts ==
    ASSUME NEW spec \in Seq(Symbols), parse_req(spec).status = "accepted"
    PROVE  \E name, ver \in Seq(Symbols) :
               /\ parse_req(spec) = Accepted(<<"pypi">>, name, ver, <<"wheel">>)
               /\ Word(name, NameChars) /\ Word(ver, VersionChars)
               /\ Strip(spec) = name \o <<"=", "=">> \o ver
<1> DEFINE s == Strip(spec)
           eqs == {i \in 1 .. Len(s) - 1 : /\ s[i] = "=" /\ s[i + 1] = "="
                                           /\ Word(SubSeq(s, 1, i - 1), NameChars)
                                           /\ Word(SubSeq(s, i + 2, Len(s)), ReqVersionChars)}
           i == CHOOSE j \in eqs : TRUE
           name == SubSeq(s, 1, i - 1)
           ver == SubSeq(s, i + 2, Len(s))
<1>1. parse_req(spec) = IF eqs = {} THEN Error("not_exact") ELSE Accepted(<<"pypi">>, name, ver, <<"wheel">>)
  BY DEF parse_req
<1>2. s \in Seq(Symbols)
  BY StripString
<1>3. \A w : Error(w).status = w
  BY DEF Error
<1> HIDE DEF s
<1>4. eqs # {}
  <2> HIDE DEF eqs, name, ver
  <2> QED BY <1>1, <1>3
<1>5. i \in eqs
  <2> HIDE DEF eqs
  <2> QED BY <1>4
<1> HIDE DEF i
<1>6. /\ i \in 1 .. Len(s) - 1 /\ s[i] = "=" /\ s[i + 1] = "="
      /\ Word(name, NameChars) /\ Word(ver, VersionChars)
  BY <1>5 DEF ReqVersionChars
<1>7. Len(s) \in Nat /\ i \in Nat /\ i + 1 \in Nat /\ Len(s) + 1 \in Nat /\ 1 <= i /\ 1 <= i + 1
      /\ i < i + 1 /\ i + 1 < Len(s) + 1 /\ i + 1 <= Len(s) + 1 /\ Len(s) + 1 <= Len(s) + 1
      /\ Len(s) + 1 - 1 = Len(s) /\ i + 1 + 1 = i + 2 /\ i + 1 - 1 = i
  BY <1>2, <1>6
<1> DEFINE a == i + 1
           e == Len(s) + 1
           x == SubSeq(s, i + 1, a - 1)
<1>8. a \in Nat /\ e \in Nat /\ i < a /\ a < e /\ 1 <= a /\ a <= Len(s) + 1 /\ e <= Len(s) + 1
  BY <1>7
<1> HIDE DEF a, e
<1>9. /\ SubSeq(s, 1, i - 1) \in Seq(Symbols) /\ x \in Seq(Symbols)
      /\ SubSeq(s, 1, a - 1) = SubSeq(s, 1, i - 1) \o <<s[i]>> \o x
  <2>1. s \in Seq(Symbols) /\ i \in Nat /\ a \in Nat /\ 1 <= i /\ i < a /\ a <= Len(s) + 1
    BY ONLY <1>2, <1>7, <1>8
  <2> QED BY ONLY <2>1, PrefixAt, ZenonT(30)
<1>10. /\ SubSeq(s, a + 1, e - 1) \in Seq(Symbols)
       /\ SubSeq(s, 1, e - 1) = SubSeq(s, 1, a - 1) \o <<s[a]>> \o SubSeq(s, a + 1, e - 1)
  <2>1. s \in Seq(Symbols) /\ a \in Nat /\ e \in Nat /\ 1 <= a /\ a < e /\ e <= Len(s) + 1
    BY ONLY <1>2, <1>8
  <2> QED BY ONLY <2>1, PrefixAt, ZenonT(30)
<1>11. x = <<>>
  <2>1. a - 1 = i /\ i + 1 > i
    BY <1>7 DEF a
  <2>2. SubSeq(s, i + 1, i) = <<>>
    BY <1>2, <1>7, SubSeqEmpty
  <2> QED BY <2>1, <2>2
<1>12. e - 1 = Len(s) /\ SubSeq(s, 1, Len(s)) = s
  BY <1>2, <1>7, SubSeqFull DEF e
<1>13. ver = SubSeq(s, a + 1, e - 1) /\ s[a] = "="
  BY <1>6, <1>7 DEF a, e
<1> HIDE DEF x, name, ver
<1>14. name \in Seq(Symbols) /\ ver \in Seq(Symbols) /\ s = name \o <<"=">> \o x \o <<"=">> \o ver
  BY ONLY <1>6, <1>9, <1>10, <1>12, <1>13, Zenon DEF name
<1>15. s = name \o <<"=", "=">> \o ver
  <2> DEFINE q == <<"=">>
  <2>1. q \in Seq(Symbols)
    <3>1. "=" \in Symbols
      BY Zenon DEF Symbols
    <3> QED BY <3>1
  <2>2. q \o q = <<"=", "=">>
    BY PairJoined
  <2> HIDE DEF q
  <2>3. name \o q \in Seq(Symbols) /\ (name \o q) \o <<>> = name \o q
    BY <1>14, <2>1
  <2>4. (name \o q) \o q = name \o (q \o q)
    <3>1. name \in Seq(Symbols)
      BY <1>14
    <3> QED BY ONLY <2>1, <3>1, ConcatAssociative
  <2>5. s = (((name \o q) \o <<>>) \o q) \o ver
    BY ONLY <1>11, <1>14, Zenon DEF q
  <2> QED BY ONLY <2>2, <2>3, <2>4, <2>5, Zenon
<1>16. parse_req(spec) = Accepted(<<"pypi">>, name, ver, <<"wheel">>)
  <2> HIDE DEF eqs
  <2> QED BY <1>1, <1>4
<1>17. Strip(spec) = name \o <<"=", "=">> \o ver
  BY <1>15 DEF s
<1> QED BY <1>6, <1>14, <1>16, <1>17

\* The key made of a requirement is refused for a length only.
LEMMA RequirementKey ==
    ASSUME NEW name \in Seq(Symbols), NEW ver \in Seq(Symbols), Word(name, NameChars), Word(ver, VersionChars)
    PROVE  split_key(lock_key(<<<<"pypi">>, name, ver, <<"wheel">>>>)) =
               IF Len(name) <= MaxName /\ Len(ver) <= MaxVersion
               THEN Accepted(<<"pypi">>, name, ver, <<"wheel">>)
               ELSE Error(IF Len(name) > MaxName THEN "bad_name" ELSE "bad_version")
<1> DEFINE eco == <<"pypi">>
           art == <<"wheel">>
           f == <<eco, name, ver, art>>
<1>1. f[1] = eco /\ f[2] = name /\ f[3] = ver /\ f[4] = art /\ Len(f) = 4
  OBVIOUS
<1>2. Split(lock_key(f), ":") = f
  <2>1. ":" \in Symbols /\ eco \in Seq(Symbols) /\ art \in Seq(Symbols)
    <3>1. ":" \in Symbols /\ "pypi" \in Symbols /\ "wheel" \in Symbols
      BY Zenon DEF Symbols, Alnum
    <3> QED BY <3>1
  <2>2. \A i \in DOMAIN eco : eco[i] # ":"
    OBVIOUS
  <2>3. \A i \in DOMAIN art : art[i] # ":"
    OBVIOUS
  <2>4. /\ \A i \in DOMAIN name : name[i] # ":"
        /\ \A i \in DOMAIN ver : ver[i] # ":"
    <3>1. ":" \notin NameChars /\ ":" \notin VersionChars
      BY DEF NameChars, VersionChars, Alnum
    <3> QED BY <3>1 DEF Word
  <2> HIDE DEF eco, art
  <2>5. Split(eco \o <<":">> \o name \o <<":">> \o ver \o <<":">> \o art, ":") = <<eco, name, ver, art>>
    BY <2>1, <2>2, <2>3, <2>4, SplitFour
  <2> QED BY <2>5, <1>1 DEF lock_key
<1>3. NotAString \notin {eco, name, ver, art} /\ eco \in Ecosystems /\ art \in Artifacts
  <2>1. eco \in Seq(Symbols) /\ art \in Seq(Symbols)
    <3>1. "pypi" \in Symbols /\ "wheel" \in Symbols
      BY Zenon DEF Symbols, Alnum
    <3> QED BY <3>1
  <2>2. NotAString \notin Seq(Symbols)
    BY InputAssumption
  <2>3. eco \in Ecosystems /\ art \in Artifacts
    BY DEF Ecosystems, Artifacts
  <2> HIDE DEF eco, art
  <2> QED BY <2>1, <2>2, <2>3
<1>4. Matches(name, NameChars, MaxName) <=> Len(name) <= MaxName
  BY WordMatches
<1>5. Matches(ver, VersionChars, MaxVersion) <=> Len(ver) <= MaxVersion
  BY WordMatches
<1>6. split_key(lock_key(f)) = parse_fetch(FetchOf(f))
  <2> HIDE DEF f
  <2> QED BY <1>1, <1>2 DEF split_key
<1>7. Len(name) \in Nat /\ MaxName \in Nat
  BY LengthAssumption
<1> HIDE DEF f, eco, art
<1>8. split_key(lock_key(f)) =
          IF ~(Len(name) <= MaxName) THEN Error("bad_name")
          ELSE IF ~(Len(ver) <= MaxVersion) THEN Error("bad_version")
          ELSE Accepted(eco, name, ver, art)
  BY <1>1, <1>3, <1>4, <1>5, <1>6, ParseAgain
<1>9. split_key(lock_key(f)) =
          IF Len(name) <= MaxName /\ Len(ver) <= MaxVersion THEN Accepted(eco, name, ver, art)
          ELSE Error(IF Len(name) > MaxName THEN "bad_name" ELSE "bad_version")
  BY <1>7, <1>8
<1> QED BY <1>9 DEF f, eco, art

-----------------------------------------------------------------------------
\* The inductive invariant: what was read is what a reader makes of the input.
ReadOnce ==
    /\ input \in [kind : {"request"}, value : Requests]
              \cup [kind : {"key"}, value : LockKeys]
              \cup [kind : {"spec"}, value : Specs]
    /\ \/ result = Unread
       \/ input.kind = "request" /\ result = parse_fetch(input.value)
       \/ input.kind = "key" /\ result = split_key(input.value)
       \/ input.kind = "spec" /\ result = parse_req(input.value)

LEMMA ReadOnceHolds == GrammarSpec => []ReadOnce
<1>1. GrammarInit => ReadOnce
  BY DEF GrammarInit, ReadOnce
<1>2. ReadOnce /\ [GrammarNext]_grammarVars => ReadOnce'
  <2> SUFFICES ASSUME ReadOnce, [GrammarNext]_grammarVars PROVE ReadOnce'
    OBVIOUS
  <2>1. CASE ReadRequest
    BY <2>1 DEF ReadOnce, ReadRequest
  <2>2. CASE ReadKey
    BY <2>2 DEF ReadOnce, ReadKey
  <2>3. CASE ReadSpec
    BY <2>3 DEF ReadOnce, ReadSpec
  <2>4. CASE UNCHANGED grammarVars
    BY <2>4 DEF ReadOnce, grammarVars
  <2> QED BY <2>1, <2>2, <2>3, <2>4 DEF GrammarNext, Done
<1> QED BY <1>1, <1>2, PTL DEF GrammarSpec

LEMMA ReadImpliesKeys == ReadOnce => KeysNameRequests
<1> SUFFICES ASSUME ReadOnce PROVE KeysNameRequests
  OBVIOUS
<1>1. ASSUME input.kind = "request", IsAccepted
      PROVE  /\ split_key(lock_key(result.fields)) = result
             /\ Split(upstream_path(result.fields), "/") = <<<<>>, <<"pkg">>>> \o result.fields
  <2> DEFINE r == input.value
  <2>1. r \in Requests /\ result = parse_fetch(r) /\ parse_fetch(r).status = "accepted"
    BY <1>1 DEF ReadOnce, IsAccepted, Unread
  <2>2. /\ r.object \in BOOLEAN /\ r.extra \in BOOLEAN
        /\ r.ecosystem \in Seq(Symbols) \cup {NotAString} /\ r.name \in Seq(Symbols) \cup {NotAString}
        /\ r.version \in Seq(Symbols) \cup {NotAString} /\ r.artifact \in Seq(Symbols) \cup {NotAString}
    BY <2>1, InputAssumption
  <2> HIDE DEF r
  <2>3. /\ InGrammar(r.ecosystem, r.name, r.version, r.artifact)
        /\ result = Accepted(r.ecosystem, r.name, r.version, r.artifact)
    BY <2>1, <2>2, ParseAccepts
  <2>4. r.name \in Seq(Symbols) /\ r.version \in Seq(Symbols)
    BY <2>2, <2>3 DEF InGrammar
  <2>5. result.fields = <<r.ecosystem, r.name, r.version, r.artifact>>
    BY <2>3 DEF Accepted
  <2> DEFINE f == <<r.ecosystem, r.name, r.version, r.artifact>>
  <2>6. /\ split_key(lock_key(f)) = Accepted(r.ecosystem, r.name, r.version, r.artifact)
        /\ Split(upstream_path(f), "/") = <<<<>>, <<"pkg">>>> \o f
    BY ONLY <2>3, <2>4, KeySplits
  <2>7. result.fields = f
    BY <2>5
  <2> HIDE DEF f
  <2> QED BY <2>3, <2>6, <2>7
<1>2. ASSUME input.kind = "key", IsAccepted
      PROVE  /\ lock_key(result.fields) = input.value
             /\ parse_fetch(FetchOf(result.fields)) = result
  <2>1. input.value \in Seq(Symbols) /\ result = split_key(input.value) /\ split_key(input.value).status = "accepted"
    BY <1>2, InputAssumption DEF ReadOnce, IsAccepted, Unread
  <2> QED BY <2>1, KeyRejoins
<1> QED BY <1>1, <1>2 DEF KeysNameRequests

LEMMA ReadImpliesFetchable == ReadOnce => RequirementsAreFetchable
<1> SUFFICES ASSUME ReadOnce, input.kind = "spec", IsAccepted
             PROVE  LET f == result.fields IN
                    /\ split_key(lock_key(f)) = IF Len(f[2]) <= MaxName /\ Len(f[3]) <= MaxVersion THEN result
                                                ELSE Error(IF Len(f[2]) > MaxName THEN "bad_name" ELSE "bad_version")
                    /\ Strip(input.value) = f[2] \o <<"=", "=">> \o f[3]
  BY DEF RequirementsAreFetchable
<1>1. input.value \in Seq(Symbols) /\ result = parse_req(input.value) /\ parse_req(input.value).status = "accepted"
  BY InputAssumption DEF ReadOnce, IsAccepted, Unread
<1>2. PICK name, ver \in Seq(Symbols) :
          /\ result = Accepted(<<"pypi">>, name, ver, <<"wheel">>)
          /\ Word(name, NameChars) /\ Word(ver, VersionChars)
          /\ Strip(input.value) = name \o <<"=", "=">> \o ver
  BY <1>1, RequirementParts
<1>3. result.fields = <<<<"pypi">>, name, ver, <<"wheel">>>> /\ result.fields[2] = name /\ result.fields[3] = ver
  BY <1>2 DEF Accepted
<1>4. split_key(lock_key(result.fields)) =
          IF Len(name) <= MaxName /\ Len(ver) <= MaxVersion THEN result
          ELSE Error(IF Len(name) > MaxName THEN "bad_name" ELSE "bad_version")
  BY <1>2, <1>3, RequirementKey
<1> QED BY <1>2, <1>3, <1>4

\* For strings of every length: the key of a request the broker accepts is read
\* back as that request, a key amend() accepts is that of its fields.
THEOREM KeysAreNames == GrammarSpec => []KeysNameRequests
BY ReadOnceHolds, ReadImpliesKeys, PTL

\* For requirements of every length: split_key refuses the key made of one for the
\* length of its name or its version only.
THEOREM RequirementsReach == GrammarSpec => []RequirementsAreFetchable
BY ReadOnceHolds, ReadImpliesFetchable, PTL
=============================================================================
