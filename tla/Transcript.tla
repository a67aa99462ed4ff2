------------------------------ MODULE Transcript ------------------------------
(***************************************************************************)
(* The hash-chained transcript of sole_egress_common.py: class Transcript, *)
(* its per-process lock, its in-memory entries and root, and the file the  *)
(* processes append to.  Several threads of a process append through one   *)
(* Transcript object; several processes may have the same file open.       *)
(*                                                                         *)
(* SHA-256 is modelled as a collision-free function: the root of an entry  *)
(* is the sequence of the entry bodies it covers, so equal roots mean equal*)
(* histories and GENESIS is the root that covers nothing.                  *)
(***************************************************************************)
EXTENDS Integers, Sequences

CONSTANTS
    Procs,          \* operating-system processes that run a broker
    Writers,        \* threads that call Transcript.append
    Home,           \* Home[w]: the process of thread w
    Payloads,       \* the (kind, ts, payload) of an entry, as far as they differ
    NoWriter,       \* the value of a free lock
    RemoveOnStart,  \* does the caller delete the old file before it starts?
    MaxEntries,     \* bound: entries a process keeps in memory
    MaxStarts,      \* bound: process starts over the whole behaviour
    MaxFaults       \* bound: failed writes and processes killed

ASSUME HomeAssumption == Home \in [Writers -> Procs]
ASSUME NoWriterAssumption == NoWriter \notin Writers
ASSUME BoundsAssumption == /\ MaxEntries \in Nat
                           /\ MaxStarts \in Nat
                           /\ MaxFaults \in Nat
                           /\ RemoveOnStart \in BOOLEAN

VARIABLES
    up,         \* up[p]: process p runs
    entries,    \* entries[p]: Transcript.entries of process p
    root,       \* root[p]: Transcript.root of process p
    lock,       \* lock[p]: the thread that holds Transcript._lock of process p
    pc,         \* pc[w]: where thread w is inside append
    pending,    \* pending[w]: the entry thread w is appending
    file,       \* the lines of the transcript file
    unfinished, \* the last line of the file lacks its newline
    starts, faults

vars == <<up, entries, root, lock, pc, pending, file, unfinished, starts, faults>>

-----------------------------------------------------------------------------
GENESIS == <<>>

\* What compute_root hashes beside prev_root.
Body(e) == [seq |-> e.seq, payload |-> e.payload]

\* TranscriptEntry.compute_root: H(prev_root || H(body)), without collisions.
compute_root(prev, body) == Append(prev, body)

Bodies == [seq : Nat, payload : Payloads]
Roots == Seq(Bodies)
Entries == [seq : Nat, payload : Payloads, prev_root : Roots, root : Roots]

\* A line that json.loads rejects: part of an entry, or two run together.
Garbled == [garbled |-> TRUE]
IsEntry(line) == line # Garbled

\* The root a line has to link to.
PrevRoot(log, i) == IF i = 1 THEN GENESIS ELSE log[i - 1].root

\* The two comparisons verify_file makes for line i.
LineLinks_NoPrevCheck(log, i) ==
    /\ IsEntry(log[i])
    /\ log[i].root = compute_root(log[i].prev_root, Body(log[i]))

LineLinks(log, i) ==
    /\ IsEntry(log[i])
    /\ log[i].prev_root = PrevRoot(log, i)
    /\ log[i].root = compute_root(log[i].prev_root, Body(log[i]))

\* Transcript.verify_file: every line parses and links to the one before.
\* A line that does not parse raises out of verify_file: not verified.
Intact(log) == \A i \in DOMAIN log : LineLinks(log, i)

FinalRoot(log) == IF log = <<>> THEN GENESIS ELSE log[Len(log)].root

-----------------------------------------------------------------------------
\* The effect on the file of appending one line: after an unfinished line the
\* new text continues that line.
WithLine_Truncate(log, open, line) == <<line>>
WithLine(log, open, line) ==
    IF open THEN [log EXCEPT ![Len(log)] = Garbled] ELSE Append(log, line)

Init ==
    /\ up = [p \in Procs |-> FALSE]
    /\ entries = [p \in Procs |-> <<>>]
    /\ root = [p \in Procs |-> GENESIS]
    /\ lock = [p \in Procs |-> NoWriter]
    /\ pc = [w \in Writers |-> "idle"]
    /\ pending = [w \in Writers |-> Garbled]
    /\ file = <<>>
    /\ unfinished = FALSE
    /\ starts = 0
    /\ faults = 0

\* A process starts: Transcript(path) begins at GENESIS whatever the file
\* holds; the caller may have deleted the file (MultiTenantBroker,
\* orchestrate_local) or not (broker.main).
Start(p) ==
    /\ ~up[p]
    /\ starts < MaxStarts
    /\ starts' = starts + 1
    /\ up' = [up EXCEPT ![p] = TRUE]
    /\ entries' = [entries EXCEPT ![p] = <<>>]
    /\ root' = [root EXCEPT ![p] = GENESIS]
    /\ IF RemoveOnStart
       THEN file' = <<>> /\ unfinished' = FALSE
       ELSE UNCHANGED <<file, unfinished>>
    /\ UNCHANGED <<lock, pc, pending, faults>>

\* append: with self._lock
LockIsFree_Ignored(w) == TRUE
LockIsFree(w) == lock[Home[w]] = NoWriter

Acquire(w) ==
    /\ up[Home[w]]
    /\ pc[w] = "idle"
    /\ LockIsFree(w)
    /\ Len(entries[Home[w]]) < MaxEntries
    /\ lock' = [lock EXCEPT ![Home[w]] = w]
    /\ pc' = [pc EXCEPT ![w] = "compute"]
    /\ UNCHANGED <<up, entries, root, pending, file, unfinished, starts, faults>>

\* _append: build the entry from len(self.entries) and self.root.
NewEntry_OffByOne(p, payload) ==
    LET body == [seq |-> Len(entries[p]) - 1, payload |-> payload]
    IN  [seq |-> body.seq, payload |-> payload, prev_root |-> root[p],
         root |-> compute_root(root[p], body)]
NewEntry(p, payload) ==
    LET body == [seq |-> Len(entries[p]), payload |-> payload]
    IN  [seq |-> body.seq, payload |-> payload, prev_root |-> root[p],
         root |-> compute_root(root[p], body)]

Compute(w) ==
    /\ pc[w] = "compute"
    /\ \E payload \in Payloads :
          pending' = [pending EXCEPT ![w] = NewEntry(Home[w], payload)]
    /\ pc' = [pc EXCEPT ![w] = "install"]
    /\ UNCHANGED <<up, entries, root, lock, file, unfinished, starts, faults>>

\* _append: self.entries.append(e); self.root = e.root -- before the file.
Install(w) ==
    /\ pc[w] = "install"
    /\ entries' = [entries EXCEPT ![Home[w]] = Append(@, pending[w])]
    /\ root' = [root EXCEPT ![Home[w]] = pending[w].root]
    /\ pc' = [pc EXCEPT ![w] = "write"]
    /\ UNCHANGED <<up, lock, pending, file, unfinished, starts, faults>>

Release(w) ==
    /\ lock' = [lock EXCEPT ![Home[w]] = NoWriter]
    /\ pc' = [pc EXCEPT ![w] = "idle"]
    /\ pending' = [pending EXCEPT ![w] = Garbled]

\* _append: open(path, "a"), write the line, close; the lock is released.
Write(w) ==
    /\ pc[w] = "write"
    /\ file' = WithLine(file, unfinished, pending[w])
    /\ unfinished' = FALSE
    /\ Release(w)
    /\ UNCHANGED <<up, entries, root, starts, faults>>

\* What an interrupted write leaves in the file: nothing, part of the line, or
\* the line without its newline.
CutShort(line) ==
    \/ UNCHANGED <<file, unfinished>>
    \/ \E got \in {Garbled, line} :
          /\ file' = WithLine(file, unfinished, got)
          /\ unfinished' = TRUE

\* _append: open or write raises (a full disk).  The exception leaves append
\* with the lock released and the entry still in memory.
WriteFails(w) ==
    /\ pc[w] = "write"
    /\ faults < MaxFaults
    /\ faults' = faults + 1
    /\ CutShort(pending[w])
    /\ Release(w)
    /\ UNCHANGED <<up, entries, root, starts>>

\* The process ends between two appends.
Stop(p) ==
    /\ up[p]
    /\ \A w \in Writers : Home[w] = p => pc[w] = "idle"
    /\ up' = [up EXCEPT ![p] = FALSE]
    /\ UNCHANGED <<entries, root, lock, pc, pending, file, unfinished, starts, faults>>

\* The process is killed; a thread that was writing may leave a cut line.
Kill(p) ==
    /\ up[p]
    /\ faults < MaxFaults
    /\ faults' = faults + 1
    /\ up' = [up EXCEPT ![p] = FALSE]
    /\ lock' = [lock EXCEPT ![p] = NoWriter]
    /\ pc' = [w \in Writers |-> IF Home[w] = p THEN "idle" ELSE pc[w]]
    /\ pending' = [w \in Writers |-> IF Home[w] = p THEN Garbled ELSE pending[w]]
    /\ \/ UNCHANGED <<file, unfinished>>
       \/ \E w \in Writers : /\ Home[w] = p /\ pc[w] = "write"
                             /\ CutShort(pending[w])
    /\ UNCHANGED <<entries, root, starts>>

\* No append is under way.  Keeps TLC's deadlock check on: a thread inside
\* append must always have a step.
Rest == (\A w \in Writers : pc[w] = "idle") /\ UNCHANGED vars

Next ==
    \/ Rest
    \/ \E p \in Procs : Start(p) \/ Stop(p) \/ Kill(p)
    \/ \E w \in Writers : \/ Acquire(w) \/ Compute(w) \/ Install(w)
                          \/ Write(w) \/ WriteFails(w)

Spec == Init /\ [][Next]_vars

-----------------------------------------------------------------------------
TypeOK ==
    /\ up \in [Procs -> BOOLEAN]
    /\ entries \in [Procs -> Seq(Entries)]
    /\ root \in [Procs -> Roots]
    /\ lock \in [Procs -> Writers \cup {NoWriter}]
    /\ pc \in [Writers -> {"idle", "compute", "install", "write"}]
    /\ pending \in [Writers -> Entries \cup {Garbled}]
    /\ file \in Seq(Entries \cup {Garbled})
    /\ unfinished \in BOOLEAN
    /\ starts \in Nat
    /\ faults \in Nat

\* One process, started once on no old file, no failed write: the file always
\* verifies, and whenever no append is under way its last root is the root the
\* conformance report publishes (orchestrate_local: shared.transcript.root).
HonestRunVerifies ==
    starts = 1 /\ faults = 0 =>
        /\ Intact(file)
        /\ \A p \in Procs : up[p] /\ lock[p] = NoWriter => FinalRoot(file) = root[p]

\* What checks 1 and 2 of sole-verify verify establish.  Whatever happened --
\* failed writes, killed and restarted processes, two runs at once on one file
\* -- a file that verifies up to the root a running process would publish
\* holds exactly the entries of that process: none lost, added or reordered.
VerifiedMeansComplete ==
    \A p \in Procs :
        up[p] /\ Intact(file) /\ FinalRoot(file) = root[p] => file = entries[p]

\* A transcript that stopped verifying never verifies again, unless a start
\* deletes it: no later append can hide a lost, torn or foreign line
\* (verify_file: any break returns ok=False, and the file is opened to append).
DamageIsPermanent ==
    [][ ~Intact(file) /\ file' # <<>> => ~Intact(file)' ]_vars

\* What the class promises ("Append-only, hash-chained") and S10 asks of the
\* log a broker leaves behind: the file it appends to verifies.
FileVerifies == Intact(file)
=============================================================================
