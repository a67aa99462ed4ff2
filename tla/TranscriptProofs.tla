--------------------------- MODULE TranscriptProofs ---------------------------
(***************************************************************************)
(* Theorems about Transcript.  An honest run leaves a transcript that      *)
(* verifies up to the published root, and a transcript that verifies up to *)
(* the root of a process holds exactly the entries of that process.        *)
(***************************************************************************)
EXTENDS Transcript, TLAPS, SequenceTheorems, WellFoundedInduction

\* A thread inside append holds the lock of its process, which runs.
LockInv ==
    \A w \in Writers : pc[w] # "idle" => up[Home[w]] /\ lock[Home[w]] = w

\* A held lock is held by a thread of the process that is inside append.
HolderInv ==
    \A p \in Procs : lock[p] # NoWriter => Home[lock[p]] = p /\ pc[lock[p]] # "idle"

\* An entry under way is an entry.
PendingType == \A w \in Writers : pc[w] \in {"install", "write"} => pending[w] \in Entries

\* Until it is installed, the entry under way links to the root of its process.
PendingInv ==
    \A w \in Writers : pc[w] = "install" =>
        /\ pending[w].prev_root = root[Home[w]]
        /\ pending[w].root = compute_root(root[Home[w]], Body(pending[w]))

\* The memory of a process is a chain that ends in its root.
MemoryInv ==
    \A p \in Procs : entries[p] \in Seq(Entries) /\ Intact(entries[p]) /\ FinalRoot(entries[p]) = root[p]

\* Before the first start the file is empty.
FreshInv == starts = 0 => file = <<>> /\ unfinished = FALSE /\ faults = 0 /\ (\A p \in Procs : ~up[p])

\* A first run without faults: the file is the memory of the only process that
\* runs, short of the entry that is being written.
HonestInv ==
    starts = 1 /\ faults = 0 =>
        /\ unfinished = FALSE
        /\ Intact(file)
        /\ \A p, q \in Procs : up[p] /\ up[q] => p = q
        /\ \A w \in Writers : pc[w] = "write" => entries[Home[w]] = Append(file, pending[w])
        /\ \A p \in Procs :
              up[p] /\ (\A w \in Writers : Home[w] = p => pc[w] # "write") => file = entries[p]

IInv == TypeOK /\ PendingType /\ LockInv /\ HolderInv /\ PendingInv /\ MemoryInv /\ FreshInv /\ HonestInv

-----------------------------------------------------------------------------
(***************************************************************************)
(* The chain as data                                                       *)
(***************************************************************************)
\* A line that parses is not a garbled one.
LEMMA EntryParses == \A e \in Entries : e # Garbled
BY DEF Entries, Garbled

\* Appending an entry that links to the last root keeps a log intact and makes
\* its root the last one.
LEMMA AppendKeepsIntact ==
    ASSUME NEW log \in Seq(Entries), Intact(log), NEW e \in Entries,
           e.prev_root = FinalRoot(log), e.root = compute_root(e.prev_root, Body(e))
    PROVE  /\ Append(log, e) \in Seq(Entries)
           /\ Intact(Append(log, e))
           /\ FinalRoot(Append(log, e)) = e.root
<1> DEFINE new == Append(log, e)
<1>1. new \in Seq(Entries) /\ Len(new) = Len(log) + 1
  BY AppendProperties
<1>2. /\ \A i \in 1 .. Len(log) : new[i] = log[i]
      /\ new[Len(log) + 1] = e
  BY AppendProperties
<1>3. ASSUME NEW i \in DOMAIN new PROVE LineLinks(new, i)
  <2>1. i \in 1 .. Len(log) + 1
    BY <1>1, <1>3
  <2>2. CASE i = Len(log) + 1
    <3>1. new[i] = e /\ IsEntry(new[i])
      BY <1>2, <2>2, EntryParses DEF IsEntry
    <3>2. PrevRoot(new, i) = FinalRoot(log)
      <4>1. CASE log = <<>>
        BY <4>1, <2>2 DEF PrevRoot, FinalRoot
      <4>2. CASE log # <<>>
        <5>1. Len(log) # 0 /\ Len(log) \in Nat
          BY <4>2, EmptySeq, LenProperties
        <5>2. i # 1 /\ i - 1 = Len(log) /\ Len(log) \in 1 .. Len(log)
          BY <5>1, <2>2
        <5>3. new[i - 1] = log[Len(log)]
          BY <5>2, <1>2
        <5> QED BY <5>2, <5>3, <4>2 DEF PrevRoot, FinalRoot
      <4> QED BY <4>1, <4>2
    <3> QED BY <3>1, <3>2 DEF LineLinks
  <2>3. CASE i \in 1 .. Len(log)
    <3>1. new[i] = log[i]
      BY <1>2, <2>3
    <3>2. LineLinks(log, i)
      BY <2>3, LenProperties DEF Intact
    <3>3. PrevRoot(new, i) = PrevRoot(log, i)
      <4>1. CASE i = 1
        BY <4>1 DEF PrevRoot
      <4>2. CASE i # 1
        <5>1. i - 1 \in 1 .. Len(log)
          BY <4>2, <2>3, LenProperties
        <5> QED BY <5>1, <4>2, <1>2 DEF PrevRoot
      <4> QED BY <4>1, <4>2
    <3> QED BY <3>1, <3>2, <3>3 DEF LineLinks
  <2> QED BY <2>1, <2>2, <2>3, LenProperties
<1>4. new # <<>> /\ FinalRoot(new) = e.root
  BY <1>1, <1>2, LenProperties, EmptySeq DEF FinalRoot
<1> QED BY <1>1, <1>3, <1>4 DEF Intact

\* A front of an intact log is intact.
LEMMA FrontIsIntact ==
    ASSUME NEW log \in Seq(Entries \cup {Garbled}), NEW e \in Entries \cup {Garbled},
           Intact(Append(log, e))
    PROVE  Intact(log)
<1> DEFINE new == Append(log, e)
<1>1. /\ Len(new) = Len(log) + 1
      /\ \A i \in 1 .. Len(log) : new[i] = log[i]
      /\ DOMAIN new = 1 .. Len(log) + 1
  BY AppendProperties, LenProperties
<1>2. ASSUME NEW i \in DOMAIN log PROVE LineLinks(log, i)
  <2>1. i \in 1 .. Len(log) /\ i \in DOMAIN new
    BY <1>1, <1>2, LenProperties
  <2>2. LineLinks(new, i) /\ new[i] = log[i]
    BY <2>1, <1>1 DEF Intact
  <2>3. PrevRoot(new, i) = PrevRoot(log, i)
    <3>1. CASE i = 1
      BY <3>1 DEF PrevRoot
    <3>2. CASE i # 1
      <4>1. i - 1 \in 1 .. Len(log)
        BY <3>2, <2>1, LenProperties
      <4> QED BY <4>1, <3>2, <1>1 DEF PrevRoot
    <3> QED BY <3>1, <3>2
  <2> QED BY <2>2, <2>3 DEF LineLinks
<1> QED BY <1>2 DEF Intact

\* An entry is its four fields.
LEMMA EntriesEqual ==
    \A e, f \in Entries :
        e.seq = f.seq /\ e.payload = f.payload /\ e.prev_root = f.prev_root /\ e.root = f.root
            => e = f
BY DEF Entries

\* The hash has no collisions.
LEMMA RootInjective ==
    \A s, t \in Roots, e, f \in Bodies :
        compute_root(s, e) = compute_root(t, f) => s = t /\ e = f
BY AppendInjective DEF compute_root, Roots

\* Every set of naturals that is not empty has a least member.
LEMMA LeastMember ==
    ASSUME NEW S \in SUBSET Nat, S # {}
    PROVE  \E x \in S : \A y \in S : ~(y < x)
<1>1. PICK x \in S : \A y \in S : ~(<<y, x>> \in OpToRel(<, Nat))
  BY WFMin, NatLessThanWellFounded
<1>2. \A y \in S : <<y, x>> \in Nat \X Nat /\ <<y, x>>[1] = y /\ <<y, x>>[2] = x
  OBVIOUS
<1> QED BY <1>1, <1>2 DEF OpToRel

\* In an intact log line i covers exactly i entries.
LEMMA RootLength ==
    ASSUME NEW log \in Seq(Entries \cup {Garbled}), Intact(log)
    PROVE  \A i \in 1 .. Len(log) : log[i] \in Entries /\ Len(log[i].root) = i
<1> DEFINE Bad == {i \in 1 .. Len(log) : Len(log[i].root) # i}
<1>1. Len(log) \in Nat /\ DOMAIN log = 1 .. Len(log)
  BY LenProperties
<1>2. ASSUME NEW i \in 1 .. Len(log) PROVE log[i] \in Entries /\ LineLinks(log, i)
  <2>1. LineLinks(log, i)
    BY <1>1, <1>2 DEF Intact
  <2>2. log[i] \in Entries \cup {Garbled}
    BY <1>2, ElementOfSeq
  <2> QED BY <2>1, <2>2 DEF LineLinks, IsEntry
<1>3. ASSUME NEW i \in 1 .. Len(log)
      PROVE  /\ log[i].prev_root \in Seq(Bodies)
             /\ Body(log[i]) \in Bodies
             /\ Len(log[i].root) = Len(log[i].prev_root) + 1
  <2>1. log[i].prev_root \in Seq(Bodies) /\ Body(log[i]) \in Bodies
    BY <1>2, <1>3 DEF Entries, Roots, Body, Bodies
  <2>2. log[i].root = Append(log[i].prev_root, Body(log[i]))
    BY <1>2, <1>3 DEF LineLinks, compute_root
  <2> QED BY <2>1, <2>2, AppendProperties
<1>4. Bad = {}
  <2> SUFFICES ASSUME Bad # {} PROVE FALSE
    OBVIOUS
  <2>1. Bad \in SUBSET Nat
    BY <1>1
  <2>2. PICK x \in Bad : \A y \in Bad : ~(y < x)
    BY <2>1, LeastMember
  <2>3. CASE x = 1
    <3>1. log[x].prev_root = <<>>
      BY <1>2, <2>3, <1>1 DEF LineLinks, PrevRoot, GENESIS
    <3>2. Len(log[x].root) = Len(<<>>) + 1
      BY <3>1, <1>3
    <3> QED BY <3>2, <2>3
  <2>4. CASE x # 1
    <3>1. x - 1 \in 1 .. Len(log) /\ x - 1 < x
      BY <2>4, <1>1
    <3>2. Len(log[x - 1].root) = x - 1
      BY <2>2, <3>1
    <3>3. log[x].prev_root = log[x - 1].root
      BY <1>2, <2>4 DEF LineLinks, PrevRoot
    <3>4. Len(log[x].root) = (x - 1) + 1
      BY <3>2, <3>3, <1>3
    <3> QED BY <3>4, <1>1
  <2> QED BY <2>3, <2>4
<1> QED BY <1>2, <1>4

\* The final root of an intact log counts its lines.
LEMMA FinalRootLength ==
    ASSUME NEW log \in Seq(Entries \cup {Garbled}), Intact(log)
    PROVE  Len(FinalRoot(log)) = Len(log)
<1>1. CASE log = <<>>
  BY <1>1 DEF FinalRoot, GENESIS
<1>2. CASE log # <<>>
  <2>1. Len(log) \in 1 .. Len(log)
    BY <1>2, EmptySeq
  <2> QED BY <2>1, <1>2, RootLength DEF FinalRoot
<1> QED BY <1>1, <1>2

\* Two intact logs with the same final root are the same log: the root commits
\* to every line and to their order.
LEMMA RootCommits ==
    ASSUME NEW a \in Seq(Entries \cup {Garbled}), Intact(a),
           NEW b \in Seq(Entries \cup {Garbled}), Intact(b),
           FinalRoot(a) = FinalRoot(b)
    PROVE  a = b
<1> DEFINE n == Len(a)
<1>1. n \in Nat /\ Len(b) = n
  BY FinalRootLength, LenProperties
<1>2. ASSUME NEW i \in 1 .. n
      PROVE  /\ a[i] \in Entries /\ LineLinks(a, i)
             /\ b[i] \in Entries /\ LineLinks(b, i)
  <2>1. i \in DOMAIN a /\ i \in DOMAIN b
    BY <1>1, <1>2, LenProperties
  <2> QED BY <2>1, <1>1, <1>2, RootLength DEF Intact
<1>3. ASSUME NEW i \in 1 .. n, a[i].root = b[i].root
      PROVE  a[i] = b[i]
  <2>1. compute_root(a[i].prev_root, Body(a[i])) = compute_root(b[i].prev_root, Body(b[i]))
    BY <1>2, <1>3 DEF LineLinks
  <2>2. /\ a[i].prev_root \in Roots /\ Body(a[i]) \in Bodies
        /\ b[i].prev_root \in Roots /\ Body(b[i]) \in Bodies
    BY <1>2 DEF Entries, Body, Bodies
  <2>3. a[i].prev_root = b[i].prev_root /\ Body(a[i]) = Body(b[i])
    BY <2>1, <2>2, RootInjective
  <2>4. a[i].seq = b[i].seq /\ a[i].payload = b[i].payload
    BY <2>3 DEF Body
  <2> QED BY <1>2, <1>3, <2>3, <2>4, EntriesEqual
<1> DEFINE Bad == {k \in 0 .. n - 1 : a[n - k].root # b[n - k].root}
<1>4. Bad = {}
  <2> SUFFICES ASSUME Bad # {} PROVE FALSE
    OBVIOUS
  <2>1. Bad \in SUBSET Nat
    BY <1>1
  <2>2. PICK k \in Bad : \A y \in Bad : ~(y < k)
    BY <2>1, LeastMember
  <2>3. k # 0
    <3> SUFFICES ASSUME k = 0 PROVE FALSE
      OBVIOUS
    <3>1. n # 0 /\ a # <<>> /\ b # <<>>
      BY <1>1, <2>2, EmptySeq
    <3> QED BY <3>1, <2>2, <1>1 DEF FinalRoot
  <2>4. k - 1 \in 0 .. n - 1 /\ k - 1 < k /\ n - (k - 1) \in 1 .. n /\ n - k \in 1 .. n
    BY <2>3, <1>1
  <2>5. a[n - (k - 1)].root = b[n - (k - 1)].root
    BY <2>2, <2>4
  <2>6. a[n - (k - 1)] = b[n - (k - 1)]
    BY <2>4, <2>5, <1>3
  <2>7. /\ a[n - (k - 1)].prev_root = a[n - k].root
        /\ b[n - (k - 1)].prev_root = b[n - k].root
    <3>1. n - (k - 1) # 1 /\ (n - (k - 1)) - 1 = n - k
      BY <2>4, <1>1
    <3> QED BY <3>1, <2>4, <1>2 DEF LineLinks, PrevRoot
  <2> QED BY <2>2, <2>6, <2>7
<1>5. ASSUME NEW i \in 1 .. n PROVE a[i] = b[i]
  <2>1. n - i \in 0 .. n - 1 /\ n - (n - i) = i
    BY <1>1
  <2>2. a[i].root = b[i].root
    BY <2>1, <1>4
  <2> QED BY <2>2, <1>3
<1> QED BY <1>1, <1>5, SeqEqual

-----------------------------------------------------------------------------
(***************************************************************************)
(* Types and the lock                                                      *)
(***************************************************************************)
\* A new entry is an entry whose root hashes its own fields.
LEMMA NewEntryType ==
    ASSUME TypeOK, NEW p \in Procs, NEW payload \in Payloads
    PROVE  /\ NewEntry(p, payload) \in Entries
           /\ NewEntry(p, payload).prev_root = root[p]
           /\ NewEntry(p, payload).root =
                 compute_root(root[p], Body(NewEntry(p, payload)))
<1>1. Len(entries[p]) \in Nat
  BY LenProperties DEF TypeOK
<1> DEFINE body == [seq |-> Len(entries[p]), payload |-> payload]
<1>2. body \in Bodies /\ root[p] \in Seq(Bodies)
  BY <1>1 DEF TypeOK, Roots, Bodies
<1>3. compute_root(root[p], body) \in Roots
  BY <1>2, AppendProperties DEF compute_root, Roots
<1>4. NewEntry(p, payload) = [seq |-> Len(entries[p]), payload |-> payload,
                              prev_root |-> root[p], root |-> compute_root(root[p], body)]
  BY DEF NewEntry
<1>5. Body(NewEntry(p, payload)) = body
  BY <1>4 DEF Body
<1> HIDE DEF body
<1> QED BY <1>1, <1>3, <1>4, <1>5 DEF Entries, TypeOK

\* Appending to the file, after a finished or an unfinished line, gives lines.
LEMMA WithLineType ==
    ASSUME NEW log \in Seq(Entries \cup {Garbled}), NEW open \in BOOLEAN,
           NEW line \in Entries \cup {Garbled}
    PROVE  WithLine(log, open, line) \in Seq(Entries \cup {Garbled})
<1>1. CASE open
  <2>1. [log EXCEPT ![Len(log)] = Garbled] \in Seq(Entries \cup {Garbled})
    <3>1. CASE log = <<>>
      <4>1. [log EXCEPT ![Len(log)] = Garbled] = log
        BY <3>1
      <4> QED BY <4>1
    <3>2. CASE log # <<>>
      <4>1. Len(log) \in 1 .. Len(log)
        BY <3>2, EmptySeq
      <4> QED BY <4>1, ExceptSeq
    <3> QED BY <3>1, <3>2
  <2> QED BY <1>1, <2>1 DEF WithLine
<1>2. CASE ~open
  BY <1>2, AppendProperties DEF WithLine
<1> QED BY <1>1, <1>2

\* A cut write keeps the file a sequence of lines.
LEMMA CutShortType ==
    ASSUME TypeOK, NEW line \in Entries \cup {Garbled}, CutShort(line)
    PROVE  file' \in Seq(Entries \cup {Garbled}) /\ unfinished' \in BOOLEAN
<1>1. CASE UNCHANGED <<file, unfinished>>
  BY <1>1 DEF TypeOK
<1>2. CASE \E got \in {Garbled, line} :
             file' = WithLine(file, unfinished, got) /\ unfinished' = TRUE
  BY <1>2, WithLineType DEF TypeOK
<1> QED BY <1>1, <1>2 DEF CutShort

LEMMA TypeStep == TypeOK /\ PendingType /\ [Next]_vars => TypeOK' /\ PendingType'
<1> SUFFICES ASSUME TypeOK, PendingType, [Next]_vars PROVE TypeOK' /\ PendingType'
  OBVIOUS
<1> USE HomeAssumption, BoundsAssumption DEF TypeOK, PendingType
<1>1. ASSUME NEW p \in Procs, Start(p) PROVE TypeOK' /\ PendingType'
  <2>1. <<>> \in Seq(Entries) /\ GENESIS \in Roots /\ <<>> \in Seq(Entries \cup {Garbled})
    BY EmptySeq DEF GENESIS, Roots
  <2>2. file' \in Seq(Entries \cup {Garbled}) /\ unfinished' \in BOOLEAN
    BY <1>1, <2>1 DEF Start
  <2> QED BY <1>1, <2>1, <2>2 DEF Start
<1>2. ASSUME NEW p \in Procs, Stop(p) PROVE TypeOK' /\ PendingType'
  BY <1>2 DEF Stop
<1>3. ASSUME NEW p \in Procs, Kill(p) PROVE TypeOK' /\ PendingType'
  <2>1. file' \in Seq(Entries \cup {Garbled}) /\ unfinished' \in BOOLEAN
    BY <1>3, CutShortType DEF Kill
  <2>2. /\ pc' \in [Writers -> {"idle", "compute", "install", "write"}]
        /\ pending' \in [Writers -> Entries \cup {Garbled}]
        /\ up' \in [Procs -> BOOLEAN]
        /\ lock' \in [Procs -> Writers \cup {NoWriter}]
        /\ faults' \in Nat
    BY <1>3 DEF Kill
  <2> QED BY <1>3, <2>1, <2>2 DEF Kill
<1>4. ASSUME NEW w \in Writers, Acquire(w) PROVE TypeOK' /\ PendingType'
  BY <1>4 DEF Acquire
<1>5. ASSUME NEW w \in Writers, Compute(w) PROVE TypeOK' /\ PendingType'
  <2>1. PICK payload \in Payloads : pending' = [pending EXCEPT ![w] = NewEntry(Home[w], payload)]
    BY <1>5 DEF Compute
  <2>2. NewEntry(Home[w], payload) \in Entries
    BY NewEntryType
  <2> QED BY <1>5, <2>1, <2>2 DEF Compute
<1>6. ASSUME NEW w \in Writers, Install(w) PROVE TypeOK' /\ PendingType'
  <2>0. pending[w] \in Entries
    BY <1>6 DEF Install
  <2>1. Append(entries[Home[w]], pending[w]) \in Seq(Entries)
    BY <2>0, AppendProperties
  <2>2. pending[w].root \in Roots
    BY <2>0 DEF Entries
  <2> QED BY <1>6, <2>1, <2>2 DEF Install
<1>7. ASSUME NEW w \in Writers, Write(w) PROVE TypeOK' /\ PendingType'
  <2>1. file' \in Seq(Entries \cup {Garbled})
    BY <1>7, WithLineType DEF Write
  <2> QED BY <1>7, <2>1 DEF Write, Release
<1>8. ASSUME NEW w \in Writers, WriteFails(w) PROVE TypeOK' /\ PendingType'
  <2>1. file' \in Seq(Entries \cup {Garbled}) /\ unfinished' \in BOOLEAN
    BY <1>8, CutShortType DEF WriteFails
  <2> QED BY <1>8, <2>1 DEF WriteFails, Release
<1>9. ASSUME UNCHANGED vars PROVE TypeOK' /\ PendingType'
  BY <1>9 DEF vars
<1> QED BY <1>1, <1>2, <1>3, <1>4, <1>5, <1>6, <1>7, <1>8, <1>9 DEF Next, Rest

\* Only the holder of a process's lock is inside append.
LEMMA LockStep ==
    TypeOK /\ LockInv /\ HolderInv /\ [Next]_vars => LockInv' /\ HolderInv'
<1> SUFFICES ASSUME TypeOK, LockInv, HolderInv, [Next]_vars PROVE LockInv' /\ HolderInv'
  OBVIOUS
<1> USE HomeAssumption, NoWriterAssumption DEF TypeOK, LockInv, HolderInv
<1>1. ASSUME NEW p \in Procs, Start(p) PROVE LockInv' /\ HolderInv'
  BY <1>1 DEF Start
<1>2. ASSUME NEW p \in Procs, Stop(p) PROVE LockInv' /\ HolderInv'
  BY <1>2 DEF Stop
<1>3. ASSUME NEW p \in Procs, Kill(p) PROVE LockInv' /\ HolderInv'
  BY <1>3 DEF Kill
<1>4. ASSUME NEW w \in Writers, Acquire(w) PROVE LockInv' /\ HolderInv'
  BY <1>4 DEF Acquire, LockIsFree
<1>5. ASSUME NEW w \in Writers, Compute(w) PROVE LockInv' /\ HolderInv'
  BY <1>5 DEF Compute
<1>6. ASSUME NEW w \in Writers, Install(w) PROVE LockInv' /\ HolderInv'
  BY <1>6 DEF Install
<1>7. ASSUME NEW w \in Writers, Write(w) \/ WriteFails(w) PROVE LockInv' /\ HolderInv'
  <2>1. pc[w] = "write" /\ Release(w) /\ UNCHANGED up
    BY <1>7 DEF Write, WriteFails
  <2>2. ASSUME NEW v \in Writers, v # w, pc[v] # "idle" PROVE Home[v] # Home[w]
    BY <2>1, <2>2
  <2> QED BY <2>1, <2>2 DEF Release
<1>8. ASSUME UNCHANGED vars PROVE LockInv' /\ HolderInv'
  BY <1>8 DEF vars
<1> QED BY <1>1, <1>2, <1>3, <1>4, <1>5, <1>6, <1>7, <1>8 DEF Next, Rest

-----------------------------------------------------------------------------
(***************************************************************************)
(* The memory of every process is an intact chain that ends in its root,   *)
(* whatever fails.                                                         *)
(***************************************************************************)
LEMMA MemoryStep ==
    TypeOK /\ PendingType /\ LockInv /\ PendingInv /\ MemoryInv /\ [Next]_vars
        => PendingInv' /\ MemoryInv'
<1> SUFFICES ASSUME TypeOK, PendingType, LockInv, PendingInv, MemoryInv, [Next]_vars
             PROVE  PendingInv' /\ MemoryInv'
  OBVIOUS
<1> USE HomeAssumption
<1>1. ASSUME NEW p \in Procs, Start(p) PROVE PendingInv' /\ MemoryInv'
  <2>1. <<>> \in Seq(Entries) /\ Intact(<<>>) /\ FinalRoot(<<>>) = GENESIS
    BY EmptySeq DEF Intact, FinalRoot
  <2>2. \A w \in Writers : Home[w] = p => pc[w] = "idle"
    BY <1>1 DEF Start, LockInv, TypeOK
  <2>3. MemoryInv'
    BY <1>1, <2>1 DEF Start, MemoryInv, TypeOK
  <2> QED BY <1>1, <2>2, <2>3 DEF Start, PendingInv, TypeOK
<1>2. ASSUME NEW w \in Writers, Compute(w) PROVE PendingInv' /\ MemoryInv'
  <2>1. PICK payload \in Payloads : pending' = [pending EXCEPT ![w] = NewEntry(Home[w], payload)]
    BY <1>2 DEF Compute
  <2>2. PendingInv'
    BY <1>2, <2>1, NewEntryType DEF Compute, PendingInv, TypeOK
  <2>3. MemoryInv'
    BY <1>2 DEF Compute, MemoryInv
  <2> QED BY <2>2, <2>3
<1>3. ASSUME NEW w \in Writers, Install(w) PROVE PendingInv' /\ MemoryInv'
  <2> DEFINE p == Home[w]
  <2>1. /\ pending[w] \in Entries
        /\ pending[w].prev_root = FinalRoot(entries[p])
        /\ pending[w].root = compute_root(pending[w].prev_root, Body(pending[w]))
    BY <1>3 DEF Install, PendingType, PendingInv, MemoryInv
  <2>2. /\ Append(entries[p], pending[w]) \in Seq(Entries)
        /\ Intact(Append(entries[p], pending[w]))
        /\ FinalRoot(Append(entries[p], pending[w])) = pending[w].root
    BY <2>1, AppendKeepsIntact DEF MemoryInv
  <2>3. \A q \in Procs :
          /\ entries'[q] = IF q = p THEN Append(entries[p], pending[w]) ELSE entries[q]
          /\ root'[q] = IF q = p THEN pending[w].root ELSE root[q]
    BY <1>3 DEF Install, TypeOK
  <2>4. MemoryInv'
    BY <2>2, <2>3 DEF MemoryInv
  <2>5. ASSUME NEW v \in Writers, pc'[v] = "install" PROVE Home[v] # p /\ pc[v] = "install"
    <3>1. v # w /\ pc[v] = "install"
      BY <1>3, <2>5 DEF Install, TypeOK
    <3> QED BY <1>3, <3>1 DEF Install, LockInv
  <2>6. PendingInv'
    BY <1>3, <2>3, <2>5 DEF Install, PendingInv
  <2> QED BY <2>4, <2>6
<1>4. ASSUME NEW w \in Writers, Acquire(w) \/ Write(w) \/ WriteFails(w)
      PROVE  PendingInv' /\ MemoryInv'
  <2>1. UNCHANGED <<entries, root>>
    BY <1>4 DEF Acquire, Write, WriteFails
  <2>2. \A v \in Writers : pc'[v] = "install" => pc[v] = "install" /\ pending'[v] = pending[v]
    BY <1>4 DEF Acquire, Write, WriteFails, Release, TypeOK
  <2> QED BY <2>1, <2>2 DEF PendingInv, MemoryInv
<1>5. ASSUME NEW p \in Procs, Stop(p) \/ Kill(p) PROVE PendingInv' /\ MemoryInv'
  <2>1. UNCHANGED <<entries, root>>
    BY <1>5 DEF Stop, Kill
  <2>2. \A v \in Writers : pc'[v] = "install" => pc[v] = "install" /\ pending'[v] = pending[v]
    BY <1>5 DEF Stop, Kill, TypeOK
  <2> QED BY <2>1, <2>2 DEF PendingInv, MemoryInv
<1>6. ASSUME UNCHANGED vars PROVE PendingInv' /\ MemoryInv'
  BY <1>6 DEF vars, PendingInv, MemoryInv
<1> QED BY <1>1, <1>2, <1>3, <1>4, <1>5, <1>6 DEF Next, Rest

-----------------------------------------------------------------------------
(***************************************************************************)
(* Runs without faults                                                     *)
(***************************************************************************)
\* Before the first start there is nothing to do but rest or start.
LEMMA FreshStep == IInv /\ [Next]_vars => FreshInv'
<1> SUFFICES ASSUME IInv, [Next]_vars, starts' = 0
             PROVE  file' = <<>> /\ unfinished' = FALSE /\ faults' = 0 /\ (\A p \in Procs : ~up'[p])
  BY DEF FreshInv
<1> USE HomeAssumption DEF IInv
<1>1. starts = 0 /\ \A p \in Procs : ~Start(p)
  BY DEF Next, Rest, vars, Start, Stop, Kill, Acquire, Compute, Install, Write, WriteFails, TypeOK
<1>2. (\A p \in Procs : ~up[p]) /\ (\A w \in Writers : pc[w] = "idle")
  BY <1>1 DEF FreshInv, LockInv, TypeOK
<1>3. \A w \in Writers : ~(Acquire(w) \/ Compute(w) \/ Install(w) \/ Write(w) \/ WriteFails(w))
  BY <1>2 DEF Acquire, Compute, Install, Write, WriteFails
<1>4. \A p \in Procs : ~(Stop(p) \/ Kill(p))
  BY <1>2 DEF Stop, Kill
<1>5. UNCHANGED vars
  BY <1>1, <1>3, <1>4 DEF Next, Rest
<1> QED BY <1>1, <1>5 DEF FreshInv, vars

\* In an honest run the file is the memory of the process, short of the entry
\* that is being written.
LEMMA HonestStep == IInv /\ [Next]_vars => HonestInv'
<1> SUFFICES ASSUME IInv, [Next]_vars, starts' = 1, faults' = 0 PROVE HonestInv'
  BY DEF HonestInv
<1> USE HomeAssumption DEF IInv
<1>1. ASSUME NEW p \in Procs, Start(p) PROVE HonestInv'
  <2>1. starts = 0
    BY <1>1 DEF Start, TypeOK
  <2>2. file = <<>> /\ unfinished = FALSE /\ \A q \in Procs : ~up[q]
    BY <2>1 DEF FreshInv
  <2>3. file' = <<>> /\ unfinished' = FALSE /\ entries'[p] = <<>>
    BY <1>1, <2>2 DEF Start, TypeOK
  <2>4. \A q \in Procs : up'[q] => q = p
    BY <1>1, <2>2 DEF Start, TypeOK
  <2>5. \A w \in Writers : pc'[w] = "idle"
    BY <1>1, <2>2 DEF Start, LockInv
  <2> QED BY <2>3, <2>4, <2>5 DEF HonestInv, Intact
<1> SUFFICES ASSUME starts = 1, faults = 0, UNCHANGED <<starts, faults>> PROVE HonestInv'
  BY <1>1 DEF Next, Rest, vars, Stop, Kill, Acquire, Compute, Install, Write, WriteFails, TypeOK
<1>2. ASSUME NEW w \in Writers, Acquire(w) \/ Compute(w) PROVE HonestInv'
  <2>1. UNCHANGED <<file, unfinished, entries, up>>
    BY <1>2 DEF Acquire, Compute
  <2>2. \A v \in Writers : (pc'[v] = "write" <=> pc[v] = "write")
    BY <1>2 DEF Acquire, Compute, TypeOK
  <2>3. \A v \in Writers : pc[v] = "write" => pending'[v] = pending[v]
    BY <1>2 DEF Acquire, Compute, TypeOK
  <2> QED BY <2>1, <2>2, <2>3 DEF HonestInv, Intact, LineLinks, PrevRoot
<1>3. ASSUME NEW w \in Writers, Install(w) PROVE HonestInv'
  <2> DEFINE p == Home[w]
  <2>1. up[p] /\ \A v \in Writers : pc[v] # "idle" => v = w
    BY <1>3 DEF Install, LockInv, HonestInv, TypeOK
  <2>2. file = entries[p] /\ Intact(file) /\ unfinished = FALSE
    BY <1>3, <2>1 DEF Install, HonestInv
  <2>3. entries'[p] = Append(file, pending[w]) /\ UNCHANGED <<file, unfinished, pending, up>>
    BY <1>3, <2>2 DEF Install, TypeOK
  <2>4. \A v \in Writers : (pc'[v] = "write" <=> v = w)
    BY <1>3, <2>1 DEF Install, TypeOK
  <2> QED BY <2>1, <2>2, <2>3, <2>4 DEF HonestInv, Intact, LineLinks, PrevRoot
<1>4. ASSUME NEW w \in Writers, Write(w) PROVE HonestInv'
  <2> DEFINE p == Home[w]
  <2>1. up[p] /\ \A v \in Writers : pc[v] # "idle" => v = w
    BY <1>4 DEF Write, LockInv, HonestInv, TypeOK
  <2>2. entries[p] = Append(file, pending[w]) /\ unfinished = FALSE
    BY <1>4 DEF Write, HonestInv
  <2>3. file' = entries[p] /\ unfinished' = FALSE /\ UNCHANGED <<entries, up>>
    BY <1>4, <2>2 DEF Write, WithLine
  <2>4. Intact(file')
    BY <2>3 DEF MemoryInv
  <2>5. \A v \in Writers : pc'[v] = "idle"
    BY <1>4, <2>1 DEF Write, Release, TypeOK
  <2> QED BY <2>1, <2>3, <2>4, <2>5 DEF HonestInv, Intact, LineLinks, PrevRoot
<1>5. ASSUME NEW p \in Procs, Stop(p) PROVE HonestInv'
  <2>1. UNCHANGED <<file, unfinished, entries, pc, pending>>
    BY <1>5 DEF Stop
  <2>2. \A q \in Procs : up'[q] => up[q]
    BY <1>5 DEF Stop, TypeOK
  <2> QED BY <2>1, <2>2 DEF HonestInv, Intact, LineLinks, PrevRoot
<1>6. ASSUME UNCHANGED vars PROVE HonestInv'
  BY <1>6 DEF vars, HonestInv, Intact, LineLinks, PrevRoot
<1>7. \A p \in Procs : ~Kill(p)
  BY DEF Kill
<1>8. \A w \in Writers : ~WriteFails(w)
  BY DEF WriteFails
<1> QED BY <1>1, <1>2, <1>3, <1>4, <1>5, <1>6, <1>7, <1>8 DEF Next, Rest

-----------------------------------------------------------------------------
\* The strengthened invariant is inductive.
LEMMA IInvInit == Init => IInv
<1> SUFFICES ASSUME Init PROVE IInv
  OBVIOUS
<1> USE DEF Init
<1>1. <<>> \in Seq(Entries) /\ GENESIS \in Roots /\ <<>> \in Seq(Entries \cup {Garbled})
  BY EmptySeq DEF GENESIS, Roots
<1>2. TypeOK
  BY <1>1 DEF TypeOK
<1>3. PendingType /\ LockInv /\ HolderInv /\ PendingInv
  BY HomeAssumption DEF PendingType, LockInv, HolderInv, PendingInv
<1>4. MemoryInv
  <2>1. Intact(<<>>) /\ FinalRoot(<<>>) = GENESIS
    BY DEF Intact, FinalRoot
  <2> QED BY <1>1, <2>1 DEF MemoryInv
<1>5. FreshInv /\ HonestInv
  BY DEF FreshInv, HonestInv
<1> QED BY <1>2, <1>3, <1>4, <1>5 DEF IInv

LEMMA IInvStep == IInv /\ [Next]_vars => IInv'
<1> SUFFICES ASSUME IInv, [Next]_vars PROVE IInv'
  OBVIOUS
<1>1. TypeOK' /\ PendingType'
  BY TypeStep DEF IInv
<1>2. LockInv' /\ HolderInv'
  BY LockStep DEF IInv
<1>3. PendingInv' /\ MemoryInv'
  BY MemoryStep DEF IInv
<1> QED BY <1>1, <1>2, <1>3, FreshStep, HonestStep DEF IInv

LEMMA IInvAlways == Spec => []IInv
BY IInvInit, IInvStep, PTL DEF Spec

\* The state of the transcript is well typed in every behaviour.
THEOREM TypeCorrect == Spec => []TypeOK
<1>1. IInv => TypeOK
  BY DEF IInv
<1> QED BY <1>1, IInvAlways, PTL

\* However many threads append, a first run without faults leaves a file that
\* verifies, and between appends its last root is the root of the process.
THEOREM HonestRun == Spec => []HonestRunVerifies
<1>1. IInv => HonestRunVerifies
  <2> SUFFICES ASSUME IInv, starts = 1, faults = 0, NEW p \in Procs, up[p], lock[p] = NoWriter
               PROVE  FinalRoot(file) = root[p]
    BY DEF IInv, HonestInv, HonestRunVerifies
  <2>1. \A w \in Writers : Home[w] = p => pc[w] = "idle"
    BY NoWriterAssumption DEF IInv, LockInv
  <2>2. file = entries[p]
    BY <2>1 DEF IInv, HonestInv
  <2> QED BY <2>2 DEF IInv, MemoryInv
<1> QED BY <1>1, IInvAlways, PTL

\* Whatever failed, restarted or overlapped: a file that verifies up to the
\* root of a process holds exactly the entries of that process.
THEOREM Soundness == Spec => []VerifiedMeansComplete
<1>1. IInv => VerifiedMeansComplete
  <2> SUFFICES ASSUME IInv, NEW p \in Procs, Intact(file), FinalRoot(file) = root[p]
               PROVE  file = entries[p]
    BY DEF VerifiedMeansComplete
  <2>1. entries[p] \in Seq(Entries) /\ Intact(entries[p]) /\ FinalRoot(entries[p]) = root[p]
    BY DEF IInv, MemoryInv
  <2>2. entries[p] \in Seq(Entries \cup {Garbled}) /\ file \in Seq(Entries \cup {Garbled})
    BY <2>1 DEF IInv, TypeOK
  <2> QED BY <2>1, <2>2, RootCommits
<1> QED BY <1>1, IInvAlways, PTL

\* Appending to a damaged log leaves it damaged.
LEMMA WithLineKeepsDamage ==
    ASSUME NEW log \in Seq(Entries \cup {Garbled}), ~Intact(log), NEW open \in BOOLEAN,
           NEW line \in Entries \cup {Garbled}
    PROVE  ~Intact(WithLine(log, open, line))
<1>1. log # <<>> /\ Len(log) \in 1 .. Len(log)
  BY EmptySeq DEF Intact
<1>2. CASE open
  <2> DEFINE new == [log EXCEPT ![Len(log)] = Garbled]
  <2>1. Len(log) \in DOMAIN new /\ new[Len(log)] = Garbled
    BY <1>1, LenProperties
  <2>2. ~LineLinks(new, Len(log))
    BY <2>1 DEF LineLinks, IsEntry
  <2> QED BY <2>1, <2>2, <1>2 DEF WithLine, Intact
<1>3. CASE ~open
  BY <1>3, FrontIsIntact DEF WithLine
<1> QED BY <1>2, <1>3

\* A transcript that stopped verifying never verifies again, unless a start
\* deletes it.
THEOREM DamageStays == Spec => DamageIsPermanent
<1>1. ASSUME IInv, [Next]_vars, ~Intact(file), file' # <<>> PROVE ~Intact(file)'
  <2> USE DEF IInv
  <2>1. SUFFICES \/ file' = file
                 \/ \E line \in Entries \cup {Garbled} : file' = WithLine(file, unfinished, line)
    <3>1. \A line \in Entries \cup {Garbled} : ~Intact(WithLine(file, unfinished, line))
      BY <1>1, WithLineKeepsDamage DEF TypeOK
    <3>2. ~Intact(file')
      BY <2>1, <3>1, <1>1
    <3> QED BY <3>2 DEF Intact, LineLinks, PrevRoot
  <2>2. ASSUME NEW w \in Writers, Write(w) \/ WriteFails(w)
        PROVE  \/ file' = file
               \/ \E line \in Entries \cup {Garbled} : file' = WithLine(file, unfinished, line)
    BY <1>1, <2>2 DEF Write, WriteFails, CutShort, TypeOK
  <2>3. ASSUME NEW p \in Procs, Start(p) \/ Stop(p) \/ Kill(p)
        PROVE  \/ file' = file
               \/ \E line \in Entries \cup {Garbled} : file' = WithLine(file, unfinished, line)
    BY <1>1, <2>3 DEF Start, Stop, Kill, CutShort, TypeOK
  <2>4. ASSUME NEW w \in Writers, Acquire(w) \/ Compute(w) \/ Install(w)
        PROVE  file' = file
    BY <2>4 DEF Acquire, Compute, Install
  <2> QED BY <1>1, <2>2, <2>3, <2>4 DEF Next, Rest, vars
<1>2. IInv /\ [Next]_vars => [~Intact(file) /\ file' # <<>> => ~Intact(file)']_vars
  BY <1>1
<1> QED BY <1>2, IInvAlways, PTL DEF Spec, DamageIsPermanent
=============================================================================
