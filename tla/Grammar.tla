-------------------------------- MODULE Grammar --------------------------------
(***************************************************************************)
(* The closed request grammar (S3) and the three ways a package is named:  *)
(* a request of the sandbox (parse_fetch, lock_key), a lock key read from  *)
(* a lockfile, a transcript or the command line (split_key), and a         *)
(* requirement of a wheel or a manifest (parse_req).  The broker looks up  *)
(* what the lab's tool has pinned only if the three agree.                 *)
(*                                                                         *)
(* A string is a sequence of symbols: one per character class the regular  *)
(* expressions tell apart, and one per word of the two enumerations (the   *)
(* words are made of letters, so that a name may contain them).            *)
(***************************************************************************)
EXTENDS Integers, Sequences, FiniteSets, SequencesExt

CONSTANTS
    MaxName, MaxVersion,    \* 100 and 64: the longest name, the longest version
    Requests,   \* the objects parse_fetch is given
    LockKeys,   \* the strings split_key is given
    Specs,      \* the strings parse_req is given
    NotAString  \* a field that is missing, or of another type

\* Symbols: words, other letters and digits, and single characters.
Ecosystems == {<<"pypi">>, <<"npm">>}
Artifacts == {<<"wheel">>, <<"sdist">>}
Alnum == {"a", "pypi", "npm", "wheel", "sdist"}
Symbols == Alnum \cup {".", "+", ":", "/", "=", " ", "\n"}

ASSUME LengthAssumption == MaxName \in Nat \ {0} /\ MaxVersion \in Nat \ {0}
ASSUME InputAssumption ==
    /\ NotAString \notin Seq(Symbols)
    /\ LockKeys \subseteq Seq(Symbols) /\ Specs \subseteq Seq(Symbols)
    /\ \A r \in Requests : /\ r.object \in BOOLEAN /\ r.extra \in BOOLEAN
                          /\ {r.ecosystem, r.name, r.version, r.artifact} \subseteq Seq(Symbols) \cup {NotAString}

VARIABLES
    input,      \* [kind, value]: what is read
    result      \* [status, fields]: what the reader made of it

grammarVars == <<input, result>>

-----------------------------------------------------------------------------
\* The character classes of _NAME_RE and _VER_RE.
NameChars_WithColon == Alnum \cup {".", ":"}
NameChars == Alnum \cup {"."}
VersionChars == Alnum \cup {".", "+"}

\* ^[first][rest]*$ on strings up to a length: "$" also matches before a newline
\* that ends the string.
Word(s, rest) == s # <<>> /\ s[1] \in Alnum /\ \A i \in DOMAIN s : s[i] \in rest
Chomp(s) == IF s # <<>> /\ Last(s) = "\n" THEN Front(s) ELSE s
Matches(s, rest, max) == Word(Chomp(s), rest) /\ Len(Chomp(s)) <= max

Error(why) == [status |-> why, fields |-> <<>>]
Accepted(eco, name, ver, art) == [status |-> "accepted", fields |-> <<eco, name, ver, art>>]

\* parse_fetch: the checks, in their order.
parse_fetch(r) ==
    CASE ~r.object -> Error("not_an_object")
      [] r.object /\ r.extra -> Error("unexpected_keys")
      [] r.object /\ ~r.extra /\ r.verb # "fetch" -> Error("bad_verb")
      [] r.object /\ ~r.extra /\ r.verb = "fetch" ->
            IF NotAString \in {r.ecosystem, r.name, r.version, r.artifact} THEN Error("not_a_string")
            ELSE IF r.ecosystem \notin Ecosystems THEN Error("unknown_ecosystem")
            ELSE IF r.artifact \notin Artifacts THEN Error("unknown_artifact")
            ELSE IF ~Matches(r.name, NameChars, MaxName) THEN Error("bad_name")
            ELSE IF ~Matches(r.version, VersionChars, MaxVersion) THEN Error("bad_version")
            ELSE Accepted(r.ecosystem, r.name, r.version, r.artifact)

\* f"{eco}:{name}:{ver}:{art}", and the path the lockfile holds for it.
lock_key(f) == f[1] \o <<":">> \o f[2] \o <<":">> \o f[3] \o <<":">> \o f[4]
upstream_path(f) == <<"/", "pkg", "/">> \o f[1] \o <<"/">> \o f[2] \o <<"/">> \o f[3] \o <<"/">> \o f[4]

\* s.split(c): what is between two cuts, a cut being known by the cuts before it.
Cuts(s, c) == {0, Len(s) + 1} \cup {i \in DOMAIN s : s[i] = c}
Before(s, c, i) == {j \in Cuts(s, c) : j < i}
Cut(s, c, n) == CHOOSE i \in Cuts(s, c) : Cardinality(Before(s, c, i)) = n
Split(s, c) ==
    [n \in 1 .. Cardinality(Cuts(s, c)) - 1 |-> SubSeq(s, Cut(s, c, n - 1) + 1, Cut(s, c, n) - 1)]

FetchOf(p) == [object |-> TRUE, extra |-> FALSE, verb |-> "fetch",
               ecosystem |-> p[1], name |-> p[2], version |-> p[3], artifact |-> p[4]]

\* split_key: four parts, then the grammar of the broker.
split_key_Loose(k) ==
    LET p == Split(k, ":")
    IN  IF Len(p) < 4 THEN Error("bad_lock_key") ELSE parse_fetch(FetchOf(p))
split_key(k) ==
    LET p == Split(k, ":")
    IN  IF Len(p) # 4 THEN Error("bad_lock_key") ELSE parse_fetch(FetchOf(p))

\* spec.strip()
IsSpace(c) == c \in {" ", "\n"}
Strip(s) ==
    LET solid == {i \in DOMAIN s : ~IsSpace(s[i])}
    IN  IF solid = {} THEN <<>>
        ELSE SubSeq(s, CHOOSE i \in solid : \A j \in solid : i <= j, CHOOSE i \in solid : \A j \in solid : j <= i)

\* parse_req: name==version, of any length; the key amend() and resolve() make
\* of it is that of a wheel on PyPI.
ReqVersionChars_Any == VersionChars \cup {"=", "/"}
ReqVersionChars == VersionChars

parse_req(spec) ==
    LET s == Strip(spec)
        eqs == {i \in 1 .. Len(s) - 1 : /\ s[i] = "=" /\ s[i + 1] = "="
                                        /\ Word(SubSeq(s, 1, i - 1), NameChars)
                                        /\ Word(SubSeq(s, i + 2, Len(s)), ReqVersionChars)}
    IN  IF eqs = {} THEN Error("not_exact")
        ELSE LET i == CHOOSE j \in eqs : TRUE
             IN  Accepted(<<"pypi">>, SubSeq(s, 1, i - 1), SubSeq(s, i + 2, Len(s)), <<"wheel">>)

-----------------------------------------------------------------------------
Unread == [status |-> "unread", fields |-> <<>>]

GrammarInit ==
    /\ input \in [kind : {"request"}, value : Requests]
              \cup [kind : {"key"}, value : LockKeys]
              \cup [kind : {"spec"}, value : Specs]
    /\ result = Unread

\* Broker.handle, fetch_raw of a probe.
ReadRequest ==
    /\ input.kind = "request" /\ result = Unread
    /\ result' = parse_fetch(input.value)
    /\ UNCHANGED input

\* amend: split_key of the next key.
ReadKey ==
    /\ input.kind = "key" /\ result = Unread
    /\ result' = split_key(input.value)
    /\ UNCHANGED input

\* manifest_keys, requires_of, run_task: a requirement.
ReadSpec ==
    /\ input.kind = "spec" /\ result = Unread
    /\ result' = parse_req(input.value)
    /\ UNCHANGED input

Done == result # Unread /\ UNCHANGED grammarVars

GrammarNext == ReadRequest \/ ReadKey \/ ReadSpec \/ Done

GrammarSpec == GrammarInit /\ [][GrammarNext]_grammarVars

-----------------------------------------------------------------------------
IsAccepted == result.status = "accepted"

\* lock_key and split_key are inverse to one another on what they accept, and the
\* path of an entry has one segment per field: two requests never share a key,
\* what amend() pins under a key is what the broker looks up for the request with
\* that key, and a key "that could not be fetched cannot be pinned".
KeysNameRequests ==
    /\ input.kind = "request" /\ IsAccepted =>
          /\ split_key(lock_key(result.fields)) = result
          /\ Split(upstream_path(result.fields), "/") = <<<<>>, <<"pkg">>>> \o result.fields
    /\ input.kind = "key" /\ IsAccepted =>
          /\ lock_key(result.fields) = input.value
          /\ parse_fetch(FetchOf(result.fields)) = result

\* A requirement parse_req accepts names a package the broker can be asked for,
\* but for its length, and one name and version only: the walks of amend() and
\* of resolve() never meet a key that was made of a requirement and is not in
\* the grammar for another reason.
RequirementsAreFetchable ==
    input.kind = "spec" /\ IsAccepted =>
        LET f == result.fields IN
        /\ split_key(lock_key(f)) = IF Len(f[2]) <= MaxName /\ Len(f[3]) <= MaxVersion THEN result
                                    ELSE Error(IF Len(f[2]) > MaxName THEN "bad_name" ELSE "bad_version")
        /\ Strip(input.value) = f[2] \o <<"=", "=">> \o f[3]

\* sole_egress_common.py: "Field values are constrained to a conservative charset",
\* "malformed value is a GrammarError".
AcceptedIsInCharset ==
    input.kind = "request" /\ IsAccepted =>
        \A n \in {2, 3} : \A i \in DOMAIN result.fields[n] : result.fields[n][i] \in VersionChars
=============================================================================
