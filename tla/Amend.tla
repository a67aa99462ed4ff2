--------------------------------- MODULE Amend ---------------------------------
(***************************************************************************)
(* tools/lockfile_amend.py: the lab's tool that adds pins to a lockfile.   *)
(* amend() loads the lockfile, walks the wanted keys breadth first, asks   *)
(* the resolve source for each, pins what is new, follows the requirements *)
(* of the wheels it trusts, and writes the lockfile back.  One action is   *)
(* one turn of its loop.  The resolve source may answer with any bytes at  *)
(* any time, and a run may be killed anywhere.                             *)
(***************************************************************************)
EXTENDS Integers, Sequences, SequencesExt

CONSTANTS
    Procs,      \* lockfile_amend processes
    Keys,       \* lock keys
    BadKeys,    \* keys outside the request grammar: split_key raises
    Wheels,     \* keys of pypi wheels: the ones whose requirements are followed
    Blobs,      \* bytes the resolve source may return
    Malformed,  \* bytes whose wheel metadata requires_of cannot parse
    Requires,   \* [Blobs -> the keys requires_of finds, as a sequence]
    Asks,       \* the key lists a run may be started with
    Expect,     \* the --expect file: [Keys -> digest or NoPin]
    InitialFile,\* the lockfile on disk at first: pins, or Absent
    NoPin, Absent, Broken,
    MaxRuns,    \* bound: runs started
    MaxKills    \* bound: runs killed

Sha256(b) == [sha256 |-> b]
Digests == {Sha256(b) : b \in Blobs}
Pins == [Keys -> Digests \cup {NoPin}]
Empty == [k \in Keys |-> NoPin]

ASSUME KeyAssumption == BadKeys \subseteq Keys /\ Wheels \subseteq Keys
ASSUME BlobAssumption ==
    /\ Malformed \subseteq Blobs
    /\ Requires \in [Blobs -> Seq(Keys)]
    /\ Expect \in Pins /\ NoPin \notin Digests
ASSUME FileAssumption ==
    /\ InitialFile \in Pins \cup {Absent}
    /\ Absent \notin Pins /\ Broken \notin Pins /\ Absent # Broken
ASSUME AskAssumption == Asks \subseteq Seq(Keys)
ASSUME BoundAssumption == MaxRuns \in Nat /\ MaxKills \in Nat

VARIABLES
    file,       \* the lockfile on disk: pins, Absent, or Broken (not JSON)
    pc,         \* per process
    entries,    \* lf["entries"], per process
    queue, seen, added, drift, unresolved, refused, \* locals of amend()
    args,       \* the arguments of amend()
    saved,      \* history: the <<key, digest>> pairs a lockfile written to disk held
    runs, kills

results == <<added, drift, unresolved, refused>>
vars == <<file, pc, entries, queue, seen, results, args, saved, runs, kills>>

-----------------------------------------------------------------------------
NoArgs == [keys |-> <<>>, closure |-> FALSE, expect |-> FALSE, dry_run |-> FALSE]
PairsOf(pins) == {p \in Keys \X Digests : pins[p[1]] = p[2]}

Init ==
    /\ file = InitialFile
    /\ pc = [p \in Procs |-> "idle"]
    /\ entries = [p \in Procs |-> Empty]
    /\ queue = [p \in Procs |-> <<>>]
    /\ seen = [p \in Procs |-> {}]
    /\ added = [p \in Procs |-> {}] /\ drift = [p \in Procs |-> {}]
    /\ unresolved = [p \in Procs |-> {}] /\ refused = [p \in Procs |-> {}]
    /\ args = [p \in Procs |-> NoArgs]
    /\ saved = IF InitialFile = Absent THEN {} ELSE PairsOf(InitialFile)
    /\ runs = 0 /\ kills = 0

Goto(p, place) == pc' = [pc EXCEPT ![p] = place]

\* "if os.path.exists(path)": an absent lockfile is an empty one.
load_or_init_Unchecked == file
load_or_init == IF file \in {Absent, Broken} THEN Empty ELSE file

\* The locals of amend().  A lockfile that is not JSON raises.
Begin(p, a) ==
    /\ pc[p] \in {"idle", "done", "aborted"} /\ runs < MaxRuns
    /\ runs' = runs + 1
    /\ args' = [args EXCEPT ![p] = a]
    /\ entries' = [entries EXCEPT ![p] = load_or_init]
    /\ queue' = [queue EXCEPT ![p] = a.keys]
    /\ seen' = [seen EXCEPT ![p] = {}]
    /\ added' = [added EXCEPT ![p] = {}] /\ drift' = [drift EXCEPT ![p] = {}]
    /\ unresolved' = [unresolved EXCEPT ![p] = {}] /\ refused' = [refused EXCEPT ![p] = {}]
    /\ Goto(p, IF file = Broken THEN "aborted" ELSE "loop")
    /\ UNCHANGED <<file, saved, kills>>

\* "if k in seen"
Seen_Ignored(p, k) == FALSE
Seen(p, k) == k \in seen[p]

\* pinned = entries.get(k)
Pinned_InThisRun(p, k) == k \in added[p]
Pinned(p, k) == entries[p][k] # NoPin

\* queue.pop(0), for a key that is not to be skipped.
Take(p, k) ==
    /\ pc[p] = "loop" /\ queue[p] # <<>> /\ k = Head(queue[p])
    /\ ~Seen(p, k)
    /\ seen' = [seen EXCEPT ![p] = @ \cup {k}]
    /\ UNCHANGED <<file, args, saved, runs, kills>>

\* The key is fetched: it is in the grammar, and unpinned or to be followed.
TakeToFetch(p, k) ==
    /\ Take(p, k)
    /\ k \notin BadKeys /\ (Pinned(p, k) => args[p].closure)

Rest(p) == queue' = [queue EXCEPT ![p] = Tail(@)]

SkipSeen(p) ==
    /\ pc[p] = "loop" /\ queue[p] # <<>> /\ Seen(p, Head(queue[p]))
    /\ Rest(p)
    /\ UNCHANGED <<file, pc, entries, seen, results, args, saved, runs, kills>>

\* split_key raises GrammarError: the run ends and nothing is written.
BadKey(p, k) ==
    /\ Take(p, k) /\ k \in BadKeys
    /\ Goto(p, "aborted") /\ Rest(p)
    /\ UNCHANGED <<entries, results>>

\* "already pinned; nothing to do"
SkipPinned(p, k) ==
    /\ Take(p, k) /\ k \notin BadKeys /\ Pinned(p, k) /\ ~args[p].closure
    /\ Rest(p)
    /\ UNCHANGED <<pc, entries, results>>

\* fetch_upstream gives None.
Unresolved(p, k) ==
    /\ TakeToFetch(p, k)
    /\ unresolved' = [unresolved EXCEPT ![p] = @ \cup {k}]
    /\ Rest(p)
    /\ UNCHANGED <<pc, entries, added, drift, refused>>

\* digest != pinned["sha256"]: "never re-pin, never follow"
Drifted_Never(p, k, b) == FALSE
Drifted(p, k, b) == Pinned(p, k) /\ entries[p][k] # Sha256(b)

Drift(p, k, b) ==
    /\ TakeToFetch(p, k) /\ Drifted(p, k, b)
    /\ drift' = [drift EXCEPT ![p] = @ \cup {k}]
    /\ Rest(p)
    /\ UNCHANGED <<pc, entries, added, unresolved, refused>>

\* expect.get(k) != digest
Unexpected(p, k, b) == ~Pinned(p, k) /\ args[p].expect /\ Expect[k] # Sha256(b)

Refuse(p, k, b) ==
    /\ TakeToFetch(p, k) /\ Unexpected(p, k, b)
    /\ refused' = [refused EXCEPT ![p] = @ \cup {k}]
    /\ Rest(p)
    /\ UNCHANGED <<pc, entries, added, drift, unresolved>>

\* The bytes are trusted: the key is pinned unless it was.
Pin(p, k, b) ==
    entries' = IF Pinned(p, k) THEN entries ELSE [entries EXCEPT ![p][k] = Sha256(b)]

Trust(p, k, b) ==
    /\ TakeToFetch(p, k) /\ ~Drifted(p, k, b) /\ ~Unexpected(p, k, b)
    /\ Pin(p, k, b)
    /\ added' = IF Pinned(p, k) THEN added ELSE [added EXCEPT ![p] = @ \cup {k}]
    /\ UNCHANGED <<drift, unresolved, refused>>

\* "if closure and eco == 'pypi' and art == 'wheel'"
Followed_Never(p, k) == FALSE
Followed(p, k) == args[p].closure /\ k \in Wheels

\* ... and its requirements are queued, when they are to be followed,
Accept(p, k, b) ==
    /\ Trust(p, k, b) /\ (Followed(p, k) => b \notin Malformed)
    /\ queue' = [queue EXCEPT ![p] = IF Followed(p, k) THEN Tail(@) \o Requires[b] ELSE Tail(@)]
    /\ UNCHANGED pc

\* ... or requires_of raises: the run ends and nothing is written.
Unparsable(p, k, b) ==
    /\ Trust(p, k, b) /\ Followed(p, k) /\ b \in Malformed
    /\ Goto(p, "aborted") /\ Rest(p)

\* The loop is over.
Finish(p) ==
    /\ pc[p] = "loop" /\ queue[p] = <<>> /\ args[p].dry_run
    /\ Goto(p, "done")
    /\ UNCHANGED <<file, entries, queue, seen, results, args, saved, runs, kills>>

\* open(path, "w"): the lockfile on disk is empty until it is written.
Truncate(p) ==
    /\ pc[p] = "loop" /\ queue[p] = <<>> /\ ~args[p].dry_run
    /\ file' = Broken
    /\ Goto(p, "save")
    /\ UNCHANGED <<entries, queue, seen, results, args, saved, runs, kills>>

\* json.dump.  A process that writes the same file at the same time may leave a
\* mixture of both.
WriteOut(p) ==
    /\ pc[p] = "save"
    /\ \/ file' = entries[p] /\ saved' = saved \cup PairsOf(entries[p])
       \/ (file # Broken \/ \E q \in Procs \ {p} : pc[q] = "save") /\ file' = Broken /\ UNCHANGED saved
    /\ Goto(p, "done")
    /\ UNCHANGED <<entries, queue, seen, results, args, runs, kills>>

Kill(p) ==
    /\ pc[p] \in {"loop", "save"} /\ kills < MaxKills
    /\ kills' = kills + 1
    /\ Goto(p, "aborted")
    /\ UNCHANGED <<file, entries, queue, seen, results, args, saved, runs>>

Turn(p) ==
    \/ SkipSeen(p)
    \/ \E k \in Keys : BadKey(p, k) \/ SkipPinned(p, k) \/ Unresolved(p, k)
    \/ \E k \in Keys, b \in Blobs :
          Drift(p, k, b) \/ Refuse(p, k, b) \/ Accept(p, k, b) \/ Unparsable(p, k, b)
    \/ Finish(p) \/ Truncate(p) \/ WriteOut(p)

Arguments == [keys : Asks, closure : BOOLEAN, expect : BOOLEAN, dry_run : BOOLEAN]

Rested == (\A p \in Procs : pc[p] \in {"idle", "done", "aborted"}) /\ UNCHANGED vars

Next ==
    \/ \E p \in Procs : Turn(p) \/ Kill(p) \/ \E a \in Arguments : Begin(p, a)
    \/ Rested

Spec == Init /\ [][Next]_vars
FairSpec == Spec /\ \A p \in Procs : WF_vars(Turn(p))

-----------------------------------------------------------------------------
TypeOK ==
    /\ file \in Pins \cup {Absent, Broken}
    /\ pc \in [Procs -> {"idle", "loop", "save", "done", "aborted"}]
    /\ entries \in [Procs -> Pins]
    /\ queue \in [Procs -> Seq(Keys)]
    /\ seen \in [Procs -> SUBSET Keys]
    /\ added \in [Procs -> SUBSET Keys] /\ drift \in [Procs -> SUBSET Keys]
    /\ unresolved \in [Procs -> SUBSET Keys] /\ refused \in [Procs -> SUBSET Keys]
    /\ args \in [Procs -> Arguments \cup {NoArgs}]
    /\ saved \in SUBSET (Keys \X Digests)
    /\ runs \in Nat /\ kills \in Nat

\* "Append-only for pins: an already-pinned key is never re-pinned", over any
\* number of runs one after the other.  A lockfile that can be read holds every
\* pin that any lockfile before it held.  Every pin is lost when a run is killed
\* between the truncation of the file and its write, and in no other way: the file
\* cannot be read only while a run is there or after one was killed there, and
\* no later run takes it for an empty lockfile and pins anew.
PinsAreKept ==
    /\ file \in Pins => saved \subseteq PairsOf(file)
    /\ file = Absent => saved = {}
    /\ file = Broken => \A p \in Procs : pc[p] = "save" \/ (pc[p] = "aborted" /\ kills > 0)

\* "a tampered upstream cannot smuggle new deps in": a run only ever considers
\* keys it was asked for and keys that bytes with a pinned digest require.
NothingSmuggled ==
    \A p \in Procs : \A k \in seen[p] \cup ToSet(queue[p]) :
        \/ k \in ToSet(args[p].keys)
        \/ \E b \in Blobs, w \in seen[p] \cap Wheels :
              entries[p][w] = Sha256(b) /\ k \in ToSet(Requires[b])

\* Exit status 0 (no drift, refusal or unresolved key) means what the lab takes it
\* for: every key asked for is pinned and, "one amendment fixes the lockfile in
\* one pass", a closure run leaves every key that the bytes of a pinned wheel it
\* reached require pinned as well.
ClosedOnSuccess ==
    \A p \in Procs :
        pc[p] = "done" /\ drift[p] \cup refused[p] \cup unresolved[p] = {} =>
            /\ \A k \in ToSet(args[p].keys) : Pinned(p, k)
            /\ args[p].closure =>
                  \A w \in seen[p] \cap Wheels, b \in Blobs :
                      entries[p][w] = Sha256(b) => \A k \in ToSet(Requires[b]) : k \in seen[p] /\ Pinned(p, k)

\* amend() ends on every upstream, although requirements may be cyclic.
EveryRunEnds == \A p \in Procs : pc[p] \in {"loop", "save"} ~> pc[p] \in {"done", "aborted"}
=============================================================================
