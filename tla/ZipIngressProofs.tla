-------------------------- MODULE ZipIngressProofs --------------------------
(***************************************************************************)
(* What materialised members hold, for any container in which no member is *)
(* called like another's temporary file, any number of callers, chunks,    *)
(* calls and faults, and whether or not the file system ignores case.      *)
(* That members are kept apart rests on how the inspection marks           *)
(* spellings; that published files are whole rests on who emptied a file   *)
(* last; that leftovers have a reason rests on every temporary file having *)
(* a caller that still writes it, or one that left it.                     *)
(***************************************************************************)
EXTENDS ZipIngress, SequenceTheorems, WellFoundedInduction, TLAPS

-----------------------------------------------------------------------------
(* Inspection *)

MemberStates ==
    {"UNSAFE_PATH", "PORTABILITY_UNVERIFIED", "LINK_REFUSED", "SPECIAL_FILE_REFUSED", "DIRECTORY",
     "DUPLICATE_PATH_REFUSED", "CASE_COLLISION_REFUSED", "EXPLICIT_CREDENTIAL_REQUIRED",
     "UNSUPPORTED_METHOD", "BUDGET_REFUSED", "SAFE_TO_MATERIALIZE"}

\* The identities the inspection compares.
Identities(a) == [i \in DOMAIN a |-> Identity(a[i])]

\* A set of numbers that is not empty has a least one.
LEMMA LeastIndex ==
    ASSUME NEW S \in SUBSET Nat, S # {}
    PROVE  \E i \in S : \A j \in S : i <= j
<1>1. PICK x \in S : TRUE
  OBVIOUS
<1>2. IsWellFoundedOn(OpToRel(<, Nat), Nat)
  BY NatLessThanWellFounded
<1>3. \E i \in S : \A j \in S : ~(<<j, i>> \in OpToRel(<, Nat))
  BY <1>1, <1>2, WFMin
<1>4. ASSUME NEW i \in S, \A j \in S : ~(<<j, i>> \in OpToRel(<, Nat)) PROVE \A j \in S : i <= j
  <2> TAKE j \in S
  <2>1. ~(j < i)
    BY <1>4 DEF OpToRel
  <2> QED BY <2>1
<1> QED BY <1>3, <1>4

\* A member gets one of the states, and keeps its place.
LEMMA InspectedMembers ==
    ASSUME NEW a \in Archives, NEW m \in DOMAIN inspect_zip_container(a).members
    PROVE  /\ m \in DOMAIN a /\ m \in Nat \ {0}
           /\ inspect_zip_container(a).members[m] =
                [path |-> Identities(a)[m].path,
                 state |-> finalize_member_state(Identities(a), m, a[m])]
           /\ inspect_zip_container(a).members[m].state \in MemberStates
<1>1. a \in Seq(Member)
  BY ZipAssumption
<1> DEFINE found == [i \in DOMAIN a |-> [path |-> Identities(a)[i].path,
                        state |-> finalize_member_state(Identities(a), i, a[i])]]
<1>2. inspect_zip_container(a).members \in {<< >>, found}
  BY DEF inspect_zip_container, Identities
<1>3. inspect_zip_container(a).members = found
  <2>1. DOMAIN << >> = {}
    OBVIOUS
  <2> QED BY <1>2, <2>1
<1>4. m \in DOMAIN a /\ m \in Nat \ {0}
  <2>1. m \in DOMAIN a
    BY <1>3
  <2>2. DOMAIN a = 1 .. Len(a) /\ Len(a) \in Nat
    BY <1>1
  <2> QED BY <2>1, <2>2
<1>5. \A ids, i, x : finalize_member_state(ids, i, x) \in MemberStates
  BY DEF finalize_member_state, MemberStates
<1> QED BY <1>3, <1>4, <1>5

\* A member that may be written has a safe path and neither mark.
LEMMA SafeMember ==
    ASSUME NEW a \in Archives, NEW m \in DOMAIN inspect_zip_container(a).members,
           inspect_zip_container(a).members[m].state = "SAFE_TO_MATERIALIZE"
    PROVE  /\ Identities(a)[m].safe
           /\ ~duplicate_path(Identities(a), m) /\ ~case_collision(Identities(a), m)
<1>1. inspect_zip_container(a).members[m] =
        [path |-> Identities(a)[m].path, state |-> finalize_member_state(Identities(a), m, a[m])]
  BY InspectedMembers
<1>2. finalize_member_state(Identities(a), m, a[m]) = "SAFE_TO_MATERIALIZE"
  BY <1>1
<1> QED BY <1>2 DEF finalize_member_state

\* No two members that may be written have one path, whatever the case.
LEMMA SpellingsApart ==
    ASSUME NEW a \in Archives,
           NEW i \in DOMAIN inspect_zip_container(a).members, NEW j \in DOMAIN inspect_zip_container(a).members,
           i # j,
           inspect_zip_container(a).members[i].state = "SAFE_TO_MATERIALIZE",
           inspect_zip_container(a).members[j].state = "SAFE_TO_MATERIALIZE"
    PROVE  ~SameFold(inspect_zip_container(a).members[i].path, inspect_zip_container(a).members[j].path)
<1> DEFINE ids == Identities(a)
           same == {k \in DOMAIN ids : ids[k].safe /\ lower_ascii(ids[k].path) = lower_ascii(ids[i].path)}
<1>0. /\ inspect_zip_container(a).members[i].path = ids[i].path
      /\ inspect_zip_container(a).members[j].path = ids[j].path
  <2>1. \A k \in {i, j} : inspect_zip_container(a).members[k] =
          [path |-> ids[k].path, state |-> finalize_member_state(ids, k, a[k])]
    BY InspectedMembers
  <2> QED BY <2>1
<1>1. SUFFICES ASSUME lower_ascii(ids[i].path) = lower_ascii(ids[j].path) PROVE FALSE
  BY <1>0 DEF SameFold
<1>2. i \in DOMAIN ids /\ j \in DOMAIN ids /\ ids[i].safe /\ ids[j].safe
  BY InspectedMembers, SafeMember DEF Identities
<1>3. DOMAIN ids \subseteq Nat
  <2>1. a \in Seq(Member)
    BY ZipAssumption
  <2> QED BY <2>1 DEF Identities
<1> HIDE DEF ids
<1>4. i \in same /\ j \in same
  BY <1>1, <1>2
<1>5. PICK k \in same : \A l \in same : k <= l
  BY <1>3, <1>4, LeastIndex
<1>6. \A l \in same : Alike(ids, l) = same
  BY DEF Alike, SameFold
<1>7. Earliest(ids, k)
  BY <1>5, <1>6 DEF Earliest
<1>8. \A l \in same : ids[l].path # ids[k].path => case_collision(ids, l) /\ case_collision(ids, k)
  <2> SUFFICES ASSUME NEW l \in same, ids[l].path # ids[k].path
               PROVE  case_collision(ids, l) /\ case_collision(ids, k)
    OBVIOUS
  <2>1. k \in Alike(ids, l) /\ l \in Alike(ids, k)
    BY <1>5, <1>6
  <2> QED BY <1>7, <2>1 DEF case_collision
<1>9. \A l, n \in same : l # n /\ ids[l].path = ids[n].path => duplicate_path(ids, l)
  BY <1>6 DEF duplicate_path
<1>10. /\ ~duplicate_path(ids, i) /\ ~case_collision(ids, i)
       /\ ~duplicate_path(ids, j) /\ ~case_collision(ids, j)
  BY SafeMember DEF ids
<1> QED BY <1>4, <1>5, <1>8, <1>9, <1>10

-----------------------------------------------------------------------------
(* Names *)

\* A path that may be written is the member's name with its separators turned.
LEMMA WritablePath ==
    ASSUME NEW a \in Archives, NEW m \in DOMAIN inspect_zip_container(a).members,
           inspect_zip_container(a).members[m].state = "SAFE_TO_MATERIALIZE"
    PROVE  /\ m \in DOMAIN a /\ a[m].name \in Seq(Tokens)
           /\ inspect_zip_container(a).members[m].path = Slashed(a[m].name)
<1>1. /\ m \in DOMAIN a
      /\ inspect_zip_container(a).members[m] =
           [path |-> Identities(a)[m].path, state |-> finalize_member_state(Identities(a), m, a[m])]
  BY InspectedMembers
<1>2. a[m] \in Member
  <2>1. a \in Seq(Member) /\ m \in 1 .. Len(a)
    BY <1>1, ZipAssumption
  <2> QED BY <2>1
<1>3. a[m].kind # "dir"
  <2>1. finalize_member_state(Identities(a), m, a[m]) = "SAFE_TO_MATERIALIZE"
    BY <1>1
  <2> QED BY <2>1 DEF finalize_member_state
<1>4. Identities(a)[m].path = Slashed(a[m].name)
  BY <1>1, <1>3 DEF Identities, Identity, Normalized
<1> QED BY <1>1, <1>2, <1>4 DEF Member

\* A path and its key have the same separators and suffixes in the same places.
LEMMA KeyOfPath ==
    ASSUME NEW s \in Seq(Tokens)
    PROVE  /\ Key(s) \in Seq(Tokens) /\ Len(Key(s)) = Len(s)
           /\ \A i \in 1 .. Len(s) : Key(s)[i] = ".part" => s[i] = ".part"
<1>1. Len(s) \in Nat /\ DOMAIN s = 1 .. Len(s) /\ \A i \in 1 .. Len(s) : s[i] \in Tokens
  OBVIOUS
<1>2. CASE folds
  <2>1. Key(s) = [i \in 1 .. Len(s) |-> IF s[i] = "A" THEN "a" ELSE s[i]]
    BY <1>1, <1>2 DEF Key, lower_ascii
  <2>2. Key(s) \in [1 .. Len(s) -> Tokens]
    BY <1>1, <2>1 DEF Tokens
  <2> QED BY <1>1, <2>1, <2>2
<1>3. CASE ~folds
  BY <1>3 DEF Key
<1> QED BY <1>2, <1>3

LEMMA SlashedName ==
    ASSUME NEW s \in Seq(Tokens)
    PROVE  /\ Slashed(s) \in Seq(Tokens) /\ Len(Slashed(s)) = Len(s)
           /\ \A i \in 1 .. Len(s) : /\ Slashed(s)[i] = ".part" => s[i] = ".part"
                                     /\ Slashed(s)[i] = "/" => s[i] \in {"/", "\\"}
<1>1. Len(s) \in Nat /\ DOMAIN s = 1 .. Len(s) /\ \A i \in 1 .. Len(s) : s[i] \in Tokens
  OBVIOUS
<1>2. Slashed(s) = [i \in 1 .. Len(s) |-> IF s[i] = "\\" THEN "/" ELSE s[i]]
  BY <1>1 DEF Slashed
<1>3. Slashed(s) \in [1 .. Len(s) -> Tokens]
  BY <1>1, <1>2 DEF Tokens
<1> QED BY <1>1, <1>2, <1>3

\* What a temporary name looks like.
LEMMA Suffixed ==
    ASSUME NEW s \in Seq(Tokens), NEW m \in Nat
    PROVE  /\ Len(Temporary(s, m)) = Len(s) + 1 + m
           /\ Temporary(s, m)[Len(s) + 1] = ".part"
           /\ \A i \in 1 .. m : Temporary(s, m)[Len(s) + 1 + i] = "|"
<1> DEFINE u == <<".part">>
           v == [i \in 1 .. m |-> "|"]
           t == s \o u
<1>1. /\ u \in Seq(Tokens) /\ Len(u) = 1 /\ u[1] = ".part"
      /\ v \in Seq(Tokens) /\ Len(v) = m /\ \A i \in 1 .. m : v[i] = "|"
  <2>1. v \in [1 .. m -> Tokens]
    BY DEF Tokens
  <2> QED BY <2>1 DEF Tokens
<1>2. Temporary(s, m) = t \o v
  BY DEF Temporary
<1>3. Len(s) \in Nat
  OBVIOUS
<1> HIDE DEF u, v
<1>4. t \in Seq(Tokens) /\ Len(t) = Len(s) + 1 /\ t[Len(s) + 1] = ".part"
  <2>1. /\ t \in Seq(Tokens) /\ Len(t) = Len(s) + Len(u)
        /\ \A i \in 1 .. Len(s) + Len(u) : t[i] = IF i <= Len(s) THEN s[i] ELSE u[i - Len(s)]
    BY <1>1, ConcatProperties
  <2> HIDE DEF t
  <2> QED BY <1>1, <1>3, <2>1
<1> HIDE DEF t
<1>5. /\ Len(t \o v) = Len(t) + Len(v)
      /\ \A i \in 1 .. Len(t) + Len(v) : (t \o v)[i] = IF i <= Len(t) THEN t[i] ELSE v[i - Len(t)]
  BY <1>1, <1>4, ConcatProperties
<1>6. (t \o v)[Len(s) + 1] = ".part"
  BY <1>1, <1>3, <1>4, <1>5
<1>7. ASSUME NEW i \in 1 .. m PROVE (t \o v)[Len(s) + 1 + i] = "|"
  BY <1>1, <1>3, <1>4, <1>5
<1> QED BY <1>1, <1>2, <1>4, <1>5, <1>6, <1>7

\* The names the members are written under, final and temporary, differ.
LEMMA NamesDiffer ==
    ASSUME archive \in Archives, info = inspect_zip_container(archive),
           NEW m \in Writable, NEW n \in Writable
    PROVE  /\ m \in Nat \ {0} /\ m \in DOMAIN archive
           /\ m # n => part(m) # part(n) /\ dest(m) # dest(n)
           /\ \A p \in Parents(n) : p # part(m)
<1> DEFINE path(k) == info.members[k].path
<1>1. ASSUME NEW k \in Writable
      PROVE  /\ k \in DOMAIN info.members /\ k \in Nat \ {0} /\ k \in DOMAIN archive
             /\ archive[k].name \in Seq(Tokens)
             /\ path(k) = Slashed(archive[k].name)
  <2>1. k \in DOMAIN info.members /\ info.members[k].state = "SAFE_TO_MATERIALIZE"
    BY DEF Writable
  <2> QED BY <2>1, InspectedMembers, WritablePath
<1>2. ASSUME NEW k \in Writable
      PROVE  /\ path(k) \in Seq(Tokens) /\ Key(path(k)) \in Seq(Tokens)
             /\ Len(Key(path(k))) = Len(path(k)) /\ Len(path(k)) \in Nat
  <2>1. path(k) \in Seq(Tokens)
    BY <1>1, SlashedName
  <2> HIDE DEF path
  <2> QED BY <2>1, KeyOfPath
<1>3. ASSUME NEW k \in Writable
      PROVE  /\ Len(part(k)) = Len(path(k)) + 1 + k
             /\ part(k)[Len(path(k)) + 1] = ".part"
             /\ \A i \in 1 .. k : part(k)[Len(path(k)) + 1 + i] = "|"
  <2>1. part(k) = Temporary(Key(path(k)), k)
    BY DEF part
  <2> HIDE DEF path
  <2>2. /\ Key(path(k)) \in Seq(Tokens) /\ k \in Nat /\ Len(Key(path(k))) = Len(path(k))
    BY <1>1, <1>2
  <2>3. /\ Len(part(k)) = Len(Key(path(k))) + 1 + k
        /\ part(k)[Len(Key(path(k))) + 1] = ".part"
        /\ \A i \in 1 .. k : part(k)[Len(Key(path(k))) + 1 + i] = "|"
    <3> DEFINE t == Key(path(k))
    <3>1. t \in Seq(Tokens) /\ k \in Nat /\ part(k) = Temporary(t, k)
      BY <2>1, <2>2
    <3> HIDE DEF t
    <3>2. /\ Len(Temporary(t, k)) = Len(t) + 1 + k
          /\ Temporary(t, k)[Len(t) + 1] = ".part"
          /\ \A i \in 1 .. k : Temporary(t, k)[Len(t) + 1 + i] = "|"
      BY <3>1, Suffixed
    <3> QED BY <3>1, <3>2 DEF t
  <2> QED BY <2>2, <2>3
<1>0. m \in Nat \ {0} /\ n \in Nat \ {0} /\ Len(path(m)) \in Nat /\ Len(path(n)) \in Nat
  BY <1>1, <1>2
<1>4. m # n => part(m) # part(n)
  <2> SUFFICES ASSUME m # n, part(m) = part(n) PROVE FALSE
    OBVIOUS
  <2>1. Len(path(m)) + 1 + m = Len(path(n)) + 1 + n
    BY <1>3
  <2>2. CASE m < n
    <3>1. n - m \in 1 .. n /\ Len(path(n)) + 1 + (n - m) = Len(path(m)) + 1
      <4> HIDE DEF path
      <4> QED BY <1>0, <2>1, <2>2
    <3>2. part(n)[Len(path(m)) + 1] = "|"
      BY <1>3, <3>1
    <3> QED BY <1>3, <3>2
  <2>3. CASE n < m
    <3>1. m - n \in 1 .. m /\ Len(path(m)) + 1 + (m - n) = Len(path(n)) + 1
      <4> HIDE DEF path
      <4> QED BY <1>0, <2>1, <2>3
    <3>2. part(m)[Len(path(n)) + 1] = "|"
      BY <1>3, <3>1
    <3> QED BY <1>3, <3>2
  <2> QED BY <1>1, <2>2, <2>3
<1>5. m # n => dest(m) # dest(n)
  <2> SUFFICES ASSUME m # n PROVE dest(m) # dest(n)
    OBVIOUS
  <2>1. ~SameFold(path(m), path(n))
    BY SpellingsApart DEF Writable
  <2> QED BY <2>1 DEF SameFold, Key, dest
<1>6. ASSUME NEW p \in Parents(n), p = part(m) PROVE FALSE
  <2>1. PICK i \in DOMAIN path(n) : path(n)[i] = "/" /\ p = Key(SubSeq(path(n), 1, i - 1))
    BY DEF Parents
  <2> DEFINE q == SubSeq(path(n), 1, i - 1)
             j == Len(path(m)) + 1
  <2>2. i \in 1 .. Len(path(n)) /\ i - 1 \in 0 .. Len(path(n))
    BY <1>2, <2>1
  <2>3. q \in Seq(Tokens) /\ Len(q) = i - 1 /\ \A k \in 1 .. (i - 1) : q[k] = path(n)[k]
    BY <1>2, <2>2
  <2>4. Len(part(m)) = i - 1 /\ j \in 1 .. (i - 1) /\ Key(q)[j] = ".part"
    <3>1. Len(Key(q)) = i - 1
      BY <2>3, KeyOfPath
    <3>2. p = Key(q)
      BY <2>1
    <3>3. /\ Len(part(m)) = Len(path(m)) + 1 + m /\ part(m)[j] = ".part"
          /\ Len(path(m)) \in Nat /\ m \in Nat \ {0}
      BY <1>0, <1>3
    <3>4. part(m) = Key(q)
      BY <1>6, <3>2
    <3> HIDE DEF q
    <3> QED BY <3>1, <3>3, <3>4
  <2>5. q[j] = ".part"
    <3> HIDE DEF q, j
    <3> QED BY <2>3, <2>4, KeyOfPath
  <2>6. path(n)[j] = ".part" /\ j \in 1 .. Len(path(n)) /\ j < i
    BY <2>2, <2>3, <2>4, <2>5
  <2> HIDE DEF q, j
  <2>7. archive[n].name[j] = ".part" /\ archive[n].name[i] \in {"/", "\\"}
        /\ i \in DOMAIN archive[n].name /\ j \in DOMAIN archive[n].name
    BY <1>1, <2>1, <2>2, <2>6, SlashedName
  <2> QED BY <1>1, <2>6, <2>7, ZipAssumption
<1> QED BY <1>1, <1>4, <1>5, <1>6

-----------------------------------------------------------------------------
(* The inductive invariant *)

\* The temporary names.
Temps == {part(m) : m \in Writable}

Answers == MemberStates \cup {None, "OUTPUT_PATH_REFUSED", "DECOMPRESSION_OR_CRC_FAILED", "MATERIALIZED_VERIFIED"}

Calls == [pc : {"idle", "open", "write", "hash", "dead"}, member : Nat, file : Nat,
          done : 0 .. Chunks, state : Answers, hash : SUBSET (1 .. Chunks)]

TypeOK ==
    /\ archive \in Archives /\ info = inspect_zip_container(archive)
    /\ content \in Seq([member : Nat, chunks : SUBSET (1 .. Chunks)])
    /\ fs \in [DOMAIN fs -> 0 .. Len(content)]
    /\ call \in [Callers -> Calls]
    /\ calls \in Nat /\ faults \in Nat /\ crashed \in BOOLEAN /\ overlapped \in BOOLEAN
    /\ folds \in BOOLEAN /\ stranded \subseteq Writable

\* What the paths under the root stand for.
PathInv ==
    /\ \A p \in DOMAIN fs : fs[p] = Directory => p \notin Temps
    /\ \A p \in Files : LET m == content[fs[p]].member IN m \in Writable /\ p \in {dest(m), part(m)}
    /\ \A p, q \in Files : fs[p] = fs[q] => p = q

\* What a caller holds.
CallInv ==
    /\ \A c \in Callers : Busy(c) => call[c].member \in Writable
    /\ \A c \in Callers : call[c].pc = "open" => call[c].done = 0
    /\ \A c \in Callers : call[c].pc = "write" =>
          call[c].file \in DOMAIN content /\ content[call[c].file].member = call[c].member
    /\ \A c \in Callers : call[c].pc = "hash" =>
          dest(call[c].member) \in DOMAIN fs /\ fs[dest(call[c].member)] # Directory

\* A temporary file has somebody who writes its member, or was left behind.
OwnedInv ==
    \A m \in Writable : Exists(part(m)) =>
        m \in stranded \/ \E c \in Callers : call[c].pc = "write" /\ call[c].member = m

\* What calls that never overlapped left behind stays, and nobody works on it.
StrandedInv ==
    ~overlapped =>
        /\ \A m \in stranded : Exists(part(m)) /\ dest(m) \notin Files
        /\ \A c \in Callers : Busy(c) => call[c].member \notin stranded
        /\ \A c \in Callers : call[c].pc \in {"open", "write"} => dest(call[c].member) \notin Files

\* Whoever emptied a file last still writes it, or has written all of it.
LastOpenerInv ==
    ~crashed /\ faults = 0 => \A f \in DOMAIN content :
        \/ content[f].chunks = 1 .. Chunks
        \/ \E c \in Callers : call[c].pc = "write" /\ call[c].file = f
                              /\ 1 .. call[c].done \subseteq content[f].chunks

\* Calls that never overlapped.
AloneInv ==
    ~overlapped =>
        /\ \A c, d \in Callers : Busy(c) /\ Busy(d) => c = d
        /\ \A c \in Callers : call[c].pc = "open" => ~Exists(part(call[c].member))
        /\ \A c \in Callers : call[c].pc = "write" =>
              /\ Exists(part(call[c].member)) /\ fs[part(call[c].member)] = call[c].file
              /\ content[call[c].file].chunks = 1 .. call[c].done
        /\ \A p \in Files : p \notin Temps => content[fs[p]].chunks = 1 .. Chunks
        /\ \A c \in Callers : call[c].state = "MATERIALIZED_VERIFIED" => call[c].hash = 1 .. Chunks

ZipInv == NoPartNames /\ TypeOK /\ PathInv /\ CallInv /\ OwnedInv /\ StrandedInv
            /\ LastOpenerInv /\ AloneInv

LEMMA InitZip == Init /\ NoPartNames => ZipInv
<1> SUFFICES ASSUME Init, NoPartNames PROVE ZipInv
  OBVIOUS
<1>1. /\ call = [c \in Callers |-> Idle] /\ fs = << >> /\ content = << >> /\ DOMAIN fs = {}
      /\ stranded = {}
  BY DEF Init
<1>2. Idle \in Calls
  BY ZipAssumption DEF Idle, Calls, Answers
<1>3. TypeOK
  <2>1. fs \in [DOMAIN fs -> 0 .. Len(content)]
    BY <1>1
  <2>2. content \in Seq([member : Nat, chunks : SUBSET (1 .. Chunks)])
    BY <1>1
  <2>3. call \in [Callers -> Calls]
    BY <1>1, <1>2
  <2> QED BY <1>1, <2>1, <2>2, <2>3 DEF Init, TypeOK
<1>4. \A c \in Callers : call[c].pc = "idle" /\ call[c].state = None
  BY <1>1 DEF Idle
<1>5. PathInv /\ CallInv /\ OwnedInv /\ StrandedInv /\ LastOpenerInv /\ AloneInv
  BY <1>1, <1>4 DEF PathInv, CallInv, OwnedInv, StrandedInv, LastOpenerInv, AloneInv, Files, Busy,
                    Exists, None
<1> QED BY <1>3, <1>5 DEF ZipInv

\* The names are those of the container, which stays.
LEMMA NamesStay ==
    ASSUME UNCHANGED <<info, folds>>
    PROVE  Writable' = Writable /\ Temps' = Temps /\ (NoPartNames <=> NoPartNames')
  BY DEF Writable, Temps, NoPartNames, dest, part, Key

\* Names and temporary names are apart, whichever members they are of.
LEMMA NamesApart ==
    ASSUME ZipInv, NEW m \in Writable
    PROVE  /\ m \in Nat \ {0} /\ m \in DOMAIN archive /\ m \in DOMAIN info.members
           /\ dest(m) \notin Temps /\ part(m) \in Temps /\ \A p \in Parents(m) : p \notin Temps
           /\ \A n \in Writable : n # m => part(n) # part(m) /\ dest(n) # dest(m)
           /\ \A n \in Writable : part(n) # dest(m)
<1>1. archive \in Archives /\ info = inspect_zip_container(archive)
  BY DEF ZipInv, TypeOK
<1>2. \A n \in Writable : /\ m \in Nat \ {0} /\ m \in DOMAIN archive
                          /\ n # m => part(n) # part(m) /\ dest(n) # dest(m)
                          /\ \A p \in Parents(m) : p # part(n)
  BY <1>1, NamesDiffer
<1>3. \A n \in Writable : part(n) # dest(m)
  BY DEF ZipInv, NoPartNames
<1> QED BY <1>2, <1>3 DEF Temps, Writable

\* What Start makes under the root are directories.
LEMMA StartPaths ==
    ASSUME ZipInv, NEW c \in Callers, Start(c)
    PROVE  /\ DOMAIN fs \subseteq DOMAIN fs' /\ \A p \in DOMAIN fs : fs'[p] = fs[p]
           /\ \A p \in DOMAIN fs' \ DOMAIN fs : fs'[p] = Directory /\ p \notin Temps
           /\ fs' \in [DOMAIN fs' -> 0 .. Len(content)]
<1>1. PICK m \in DOMAIN info.members, depth \in 0 .. MaxDepth, left \in {0, MaxTotalBytes} :
          fs' = IF MakesParents(m, depth, left) THEN Overlay(fs, [p \in Parents(m) |-> Directory]) ELSE fs
  BY DEF Start
<1> DEFINE made == MakesParents(m, depth, left)
<1>0. made => m \in Writable /\ \A p \in Parents(m) : Exists(p) => fs[p] = Directory
  BY DEF MakesParents, Writable
<1> HIDE DEF made
<1>2. made => \A p \in Parents(m) : p \notin Temps
  BY <1>0, NamesApart
<1>3. Len(content) \in Nat /\ fs \in [DOMAIN fs -> 0 .. Len(content)]
  BY DEF ZipInv, TypeOK
<1>4. CASE ~made
  BY <1>1, <1>3, <1>4 DEF made
<1>5. CASE made
  <2> DEFINE new == [p \in Parents(m) |-> Directory]
  <2>1. DOMAIN new = Parents(m) /\ \A p \in Parents(m) : new[p] = Directory
    OBVIOUS
  <2> HIDE DEF new
  <2>2. fs' = [x \in DOMAIN fs \cup DOMAIN new |-> IF x \in DOMAIN new THEN new[x] ELSE fs[x]]
    BY <1>1, <1>5 DEF Overlay, new, made
  <2>3. DOMAIN fs' = DOMAIN fs \cup Parents(m)
    BY <2>1, <2>2
  <2>4. \A p \in DOMAIN fs' : fs'[p] = IF p \in Parents(m) THEN Directory ELSE fs[p]
    BY <2>1, <2>2
  <2>5. \A p \in DOMAIN fs' : fs'[p] \in 0 .. Len(content)
    BY <1>3, <2>3, <2>4 DEF Directory
  <2>6. \A p \in DOMAIN fs : fs'[p] = fs[p]
    BY <1>0, <1>5, <2>3, <2>4 DEF Exists
  <2>7. fs' \in [DOMAIN fs' -> 0 .. Len(content)]
    BY <2>2, <2>5
  <2> QED BY <1>2, <1>5, <2>3, <2>4, <2>6, <2>7
<1> QED BY <1>1, <1>4, <1>5

\* What Start does to the call.
LEMMA StartCall ==
    ASSUME ZipInv, NEW c \in Callers, Start(c)
    PROVE  /\ call[c].pc = "idle"
           /\ \E m \in DOMAIN info.members, state \in Answers \ {"MATERIALIZED_VERIFIED"} :
                 /\ call' = [call EXCEPT ![c] = [Idle EXCEPT !.pc = IF state = None THEN "open" ELSE "idle",
                                                            !.member = m, !.state = state]]
                 /\ state = None => m \in Writable /\ ~Exists(part(m)) /\ ~Exists(dest(m))
<1>1. PICK m \in DOMAIN info.members, depth \in 0 .. MaxDepth, left \in {0, MaxTotalBytes} :
          call' = [call EXCEPT ![c] =
                [Idle EXCEPT !.pc = IF Refused(m, depth, left) = None THEN "open" ELSE "idle",
                             !.member = m, !.state = Refused(m, depth, left)]]
  BY DEF Start
<1>2. info.members[m].state \in MemberStates
  BY InspectedMembers DEF ZipInv, TypeOK
<1>3. Refused(m, depth, left) \in Answers \ {"MATERIALIZED_VERIFIED"}
  BY <1>2 DEF Refused, Answers, MemberStates, None
<1>4. Refused(m, depth, left) = None => m \in Writable /\ ~Exists(part(m)) /\ ~Exists(dest(m))
  BY <1>2 DEF Refused, MemberStates, None, Writable
<1>5. call[c].pc = "idle"
  BY DEF Start
<1> QED BY <1>1, <1>3, <1>4, <1>5

-----------------------------------------------------------------------------
(* Every step keeps the invariant *)

\* A call that begins.
LEMMA Begun ==
    ASSUME NEW w, NEW m, NEW s
    PROVE  [Idle EXCEPT !.pc = w, !.member = m, !.state = s] =
           [pc |-> w, member |-> m, file |-> 0, done |-> 0, state |-> s, hash |-> {}]
<1>1. [Idle EXCEPT !.pc = w] = [pc |-> w, member |-> 0, file |-> 0, done |-> 0, state |-> None, hash |-> {}]
  BY DEF Idle
<1>2. [[pc |-> w, member |-> 0, file |-> 0, done |-> 0, state |-> None, hash |-> {}] EXCEPT !.member = m] =
      [pc |-> w, member |-> m, file |-> 0, done |-> 0, state |-> None, hash |-> {}]
  OBVIOUS
<1>3. [[pc |-> w, member |-> m, file |-> 0, done |-> 0, state |-> None, hash |-> {}] EXCEPT !.state = s] =
      [pc |-> w, member |-> m, file |-> 0, done |-> 0, state |-> s, hash |-> {}]
  OBVIOUS
<1> QED BY <1>1, <1>2, <1>3, Zenon

LEMMA StartKeeps ==
    ASSUME ZipInv, NEW c \in Callers, Start(c)
    PROVE  ZipInv'
<1>1. /\ UNCHANGED <<archive, info, folds, content, stranded, faults, crashed>> /\ calls' = calls + 1
      /\ overlapped' = (overlapped \/ \E d \in Callers \ {c} : Busy(d))
  BY DEF Start
<1>2. /\ DOMAIN fs \subseteq DOMAIN fs' /\ \A p \in DOMAIN fs : fs'[p] = fs[p]
      /\ \A p \in DOMAIN fs' \ DOMAIN fs : fs'[p] = Directory /\ p \notin Temps
      /\ fs' \in [DOMAIN fs' -> 0 .. Len(content)]
  BY StartPaths
<1>3. call[c].pc = "idle"
  BY StartCall
<1>4. PICK m \in DOMAIN info.members, state \in Answers \ {"MATERIALIZED_VERIFIED"} :
          /\ call' = [call EXCEPT ![c] = [Idle EXCEPT !.pc = IF state = None THEN "open" ELSE "idle",
                                                     !.member = m, !.state = state]]
          /\ state = None => m \in Writable /\ ~Exists(part(m)) /\ ~Exists(dest(m))
  BY StartCall
<1> DEFINE mine == [Idle EXCEPT !.pc = IF state = None THEN "open" ELSE "idle", !.member = m, !.state = state]
<1>5. call \in [Callers -> Calls]
  BY DEF ZipInv, TypeOK
<1>6. /\ mine.pc = (IF state = None THEN "open" ELSE "idle") /\ mine.member = m /\ mine.state = state
      /\ mine \in Calls /\ mine.done = 0
  <2>1. mine = [pc |-> IF state = None THEN "open" ELSE "idle", member |-> m, file |-> 0, done |-> 0,
                state |-> state, hash |-> {}]
    BY Begun
  <2>2. m \in Nat /\ 0 \in 0 .. Chunks /\ state \in Answers
    <3>1. archive \in Archives /\ m \in DOMAIN inspect_zip_container(archive).members
      BY DEF ZipInv, TypeOK
    <3>2. m \in Nat
      BY <3>1, InspectedMembers
    <3> QED BY <3>2, ZipAssumption
  <2>3. (IF state = None THEN "open" ELSE "idle") \in {"open", "idle"}
    OBVIOUS
  <2> HIDE DEF mine
  <2> QED BY <2>1, <2>2, <2>3 DEF Calls
<1>7. call' \in [Callers -> Calls] /\ call'[c] = mine /\ \A d \in Callers \ {c} : call'[d] = call[d]
  BY <1>4, <1>5, <1>6
<1> HIDE DEF mine
<1>0. Writable' = Writable /\ Temps' = Temps /\ NoPartNames'
  BY <1>1, NamesStay DEF ZipInv
<1>8. Files' = Files /\ \A p \in Files : fs'[p] = fs[p]
  BY <1>2 DEF Files
<1>9. TypeOK'
  BY <1>0, <1>1, <1>2, <1>7 DEF ZipInv, TypeOK
<1>10. PathInv'
  <2>1. \A p \in DOMAIN fs' : fs'[p] = Directory => p \notin Temps
    BY <1>2 DEF ZipInv, PathInv
  <2>2. \A p \in Files' : content'[fs'[p]] = content[fs[p]]
    BY <1>1, <1>8
  <2>3. \A p \in Files : LET n == content[fs[p]].member IN n \in Writable /\ p \in {dest(n), part(n)}
    BY DEF ZipInv, PathInv
  <2>4. \A p \in Files' : (LET n == content[fs[p]].member IN n \in Writable /\ p \in {dest(n), part(n)})'
    BY <1>0, <1>1, <1>8, <2>2, <2>3 DEF dest, part, Key
  <2> QED BY <1>0, <1>8, <2>1, <2>4 DEF ZipInv, PathInv
<1>11. CallInv'
  <2>1. \A d \in Callers \ {c} : call[d].pc = "hash" =>
            dest(call[d].member) \in DOMAIN fs' /\ fs'[dest(call[d].member)] # Directory
    BY <1>2 DEF ZipInv, CallInv
  <2>2. \A d \in Callers : Busy(d)' => call'[d].member \in Writable
    BY <1>4, <1>6, <1>7 DEF ZipInv, CallInv, Busy
  <2>3. \A d \in Callers : call'[d].pc = "open" => call'[d].done = 0
    BY <1>6, <1>7 DEF ZipInv, CallInv
  <2>4. \A d \in Callers : call'[d].pc = "write" =>
            call'[d].file \in DOMAIN content /\ content[call'[d].file].member = call'[d].member
    BY <1>6, <1>7 DEF ZipInv, CallInv
  <2>5. \A d \in Callers : call'[d].pc = "hash" =>
            dest(call'[d].member) \in DOMAIN fs' /\ fs'[dest(call'[d].member)] # Directory
    BY <1>6, <1>7, <2>1
  <2> QED BY <1>0, <1>1, <2>2, <2>3, <2>4, <2>5 DEF CallInv, dest, Key
<1>12. OwnedInv'
  <2> SUFFICES ASSUME NEW n \in Writable, part(n) \in DOMAIN fs'
               PROVE  n \in stranded \/ \E d \in Callers : call'[d].pc = "write" /\ call'[d].member = n
    BY <1>0, <1>1 DEF OwnedInv, Exists, part, Key
  <2>1. part(n) \in DOMAIN fs
    BY <1>2, NamesApart
  <2>2. n \in stranded \/ \E d \in Callers : call[d].pc = "write" /\ call[d].member = n
    BY <2>1 DEF ZipInv, OwnedInv, Exists
  <2> QED BY <1>3, <1>7, <2>2
<1>13. LastOpenerInv'
  BY <1>1, <1>3, <1>7 DEF ZipInv, LastOpenerInv
<1>14. AloneInv'
  <2> SUFFICES ASSUME ~overlapped' PROVE AloneInv'
    BY DEF AloneInv
  <2>1. ~overlapped /\ \A d \in Callers \ {c} : call[d].pc \in {"idle", "dead"}
    BY <1>1 DEF Busy
  <2>2. \A d \in Callers \ {c} : call'[d].pc \in {"idle", "dead"}
    BY <1>7, <2>1
  <2>3. call'[c].pc \in {"idle", "open"}
    BY <1>6, <1>7
  <2>4. \A d, e \in Callers : Busy(d)' /\ Busy(e)' => d = e
    BY <2>2 DEF Busy
  <2>5. \A d \in Callers : call'[d].pc = "open" => ~Exists(part(call[d].member))'
    <3>1. SUFFICES ASSUME call'[c].pc = "open" PROVE ~Exists(part(call[c].member))'
      BY <2>2
    <3>2. state = None /\ call'[c].member = m
      BY <1>6, <1>7, <3>1
    <3>3. part(m) \notin DOMAIN fs /\ part(m) \in Temps
      BY <1>4, <3>2, NamesApart DEF Exists
    <3>4. part(m) \notin DOMAIN fs'
      BY <1>2, <3>3
    <3> QED BY <1>1, <3>2, <3>4 DEF Exists, part, Key
  <2>6. \A p \in Files' : p \notin Temps => content'[fs'[p]].chunks = 1 .. Chunks
    BY <1>0, <1>1, <1>8, <2>1 DEF ZipInv, AloneInv
  <2>7. \A d \in Callers : call'[d].state = "MATERIALIZED_VERIFIED" => call'[d].hash = 1 .. Chunks
    BY <1>4, <1>6, <1>7, <2>1 DEF ZipInv, AloneInv
  <2> QED BY <1>0, <2>2, <2>3, <2>4, <2>5, <2>6, <2>7 DEF AloneInv
<1>15. StrandedInv'
  <2> SUFFICES ASSUME ~overlapped' PROVE StrandedInv'
    BY DEF StrandedInv
  <2>1. ~overlapped /\ \A d \in Callers \ {c} : call[d].pc \in {"idle", "dead"}
    BY <1>1 DEF Busy
  <2>2. \A d \in Callers \ {c} : call'[d].pc \in {"idle", "dead"}
    BY <1>7, <2>1
  <2>3. \A n \in stranded : part(n) \in DOMAIN fs' /\ dest(n) \notin Files'
    BY <1>2, <1>8, <2>1 DEF ZipInv, StrandedInv, Exists
  <2>4. ASSUME call'[c].pc \in {"open", "write", "hash"}
        PROVE  call'[c].member \notin stranded /\ dest(call'[c].member) \notin Files'
    <3>1. state = None /\ call'[c].member = m
      BY <1>6, <1>7, <2>4
    <3>2. ~Exists(part(m)) /\ ~Exists(dest(m))
      BY <1>4, <3>1
    <3>3. m \notin stranded
      BY <2>1, <3>2 DEF ZipInv, StrandedInv
    <3> QED BY <1>8, <3>1, <3>2, <3>3 DEF Exists, Files
  <2>5. call'[c].pc \in {"idle", "open"}
    BY <1>6, <1>7
  <2> QED BY <1>1, <2>2, <2>3, <2>4, <2>5 DEF StrandedInv, Busy, Exists, dest, part, Key
<1> QED BY <1>0, <1>9, <1>10, <1>11, <1>12, <1>13, <1>14, <1>15 DEF ZipInv

\* What is in a file.
LEMMA InFile ==
    ASSUME ZipInv, NEW f \in DOMAIN content
    PROVE  f \in 1 .. Len(content) /\ content[f].member \in Nat /\ content[f].chunks \subseteq 1 .. Chunks
<1> DEFINE R == [member : Nat, chunks : SUBSET (1 .. Chunks)]
<1>1. content \in Seq(R)
  BY DEF ZipInv, TypeOK
<1>2. f \in 1 .. Len(content) /\ content[f] \in R
  <2> HIDE DEF R
  <2> QED BY <1>1
<1> QED BY <1>2

\* A call that returns.
LEMMA Returned ==
    ASSUME ZipInv, NEW c \in Callers, NEW s \in Answers, Returns(c, s)
    PROVE  /\ call' \in [Callers -> Calls] /\ \A d \in Callers \ {c} : call'[d] = call[d]
           /\ call'[c].pc = "idle" /\ call'[c].state = s /\ call'[c].member = call[c].member
<1> DEFINE mine == [pc |-> "idle", member |-> call[c].member, file |-> 0, done |-> 0, state |-> s, hash |-> {}]
<1>1. [[pc |-> "idle", member |-> 0, file |-> 0, done |-> 0, state |-> None, hash |-> {}]
          EXCEPT !.member = call[c].member] =
      [pc |-> "idle", member |-> call[c].member, file |-> 0, done |-> 0, state |-> None, hash |-> {}]
  OBVIOUS
<1>2. [[pc |-> "idle", member |-> call[c].member, file |-> 0, done |-> 0, state |-> None, hash |-> {}]
          EXCEPT !.state = s] = mine
  OBVIOUS
<1>3. call' = [call EXCEPT ![c] = mine]
  BY <1>1, <1>2, Zenon DEF Returns, Idle
<1>4. mine \in Calls
  <2>1. call[c].member \in Nat /\ 0 \in 0 .. Chunks
    BY ZipAssumption DEF ZipInv, TypeOK, Calls
  <2> QED BY <2>1 DEF Calls
<1>5. call \in [Callers -> Calls]
  BY DEF ZipInv, TypeOK
<1>6. mine.pc = "idle" /\ mine.state = s /\ mine.member = call[c].member
  OBVIOUS
<1> HIDE DEF mine
<1> QED BY <1>3, <1>4, <1>5, <1>6

\* A file that goes.
LEMMA GonePaths ==
    ASSUME ZipInv, NEW p, fs' = Gone(p)
    PROVE  /\ DOMAIN fs' = DOMAIN fs \ {p} /\ \A q \in DOMAIN fs' : fs'[q] = fs[q]
           /\ fs' \in [DOMAIN fs' -> 0 .. Len(content)]
<1>1. fs \in [DOMAIN fs -> 0 .. Len(content)]
  BY DEF ZipInv, TypeOK
<1>2. CASE p \in DOMAIN fs
  BY <1>1, <1>2 DEF Gone, Exists, Without
<1>3. CASE p \notin DOMAIN fs
  BY <1>1, <1>3 DEF Gone, Exists
<1> QED BY <1>2, <1>3

\* A call that ends without a file: before it opened the temporary file, taking
\* it away, or leaving it behind; without a fault only when all chunks were
\* written.
LEMMA EndKeeps ==
    ASSUME ZipInv, NEW c \in Callers, NEW s \in Answers \ {"MATERIALIZED_VERIFIED"}, Returns(c, s),
           \/ call[c].pc = "open" /\ fs' = fs /\ stranded' = stranded
           \/ call[c].pc = "write" /\ (Removed(call[c].member) \/ NotRemoved(call[c].member)),
           \/ faults' = faults + 1
           \/ faults' = faults /\ call[c].pc = "write" /\ call[c].done = Chunks,
           UNCHANGED <<archive, info, folds, content, calls, crashed, overlapped>>
    PROVE  ZipInv'
<1> DEFINE m == call[c].member
<1>1. /\ call' \in [Callers -> Calls] /\ \A d \in Callers \ {c} : call'[d] = call[d]
      /\ call'[c].pc = "idle" /\ call'[c].state = s
  BY Returned
<1>2. fs \in [DOMAIN fs -> 0 .. Len(content)]
  BY DEF ZipInv, TypeOK
<1>0. Writable' = Writable /\ Temps' = Temps /\ NoPartNames'
  BY NamesStay DEF ZipInv
<1>3. /\ fs' \in [DOMAIN fs' -> 0 .. Len(content)]
      /\ DOMAIN fs' \subseteq DOMAIN fs /\ \A p \in DOMAIN fs' : fs'[p] = fs[p]
      /\ DOMAIN fs \subseteq DOMAIN fs' \cup {part(m)}
      /\ \/ fs' = fs /\ stranded' = stranded /\ call[c].pc = "open"
         \/ part(m) \notin DOMAIN fs' /\ stranded' = stranded /\ call[c].pc = "write"
         \/ /\ fs' = fs /\ stranded' = stranded \cup {m} /\ call[c].pc = "write"
            /\ part(m) \in DOMAIN fs
  <2>1. CASE call[c].pc = "open" /\ fs' = fs /\ stranded' = stranded
    BY <1>2, <2>1
  <2>2. CASE call[c].pc = "write" /\ Removed(m)
    <3>1. fs' = Gone(part(m)) /\ stranded' = stranded
      BY <2>2 DEF Removed
    <3> QED BY <2>2, <3>1, GonePaths
  <2>3. CASE call[c].pc = "write" /\ NotRemoved(m)
    BY <1>2, <2>3 DEF NotRemoved, Exists
  <2> QED BY <2>1, <2>2, <2>3
<1>4. Files' \subseteq Files /\ \A p \in Files' : fs'[p] = fs[p]
  BY <1>3 DEF Files
<1>5. m \in Writable /\ part(m) \in Temps
  <2>1. m \in Writable
    BY DEF ZipInv, CallInv, Busy
  <2> QED BY <2>1, NamesApart
<1>6. TypeOK'
  BY <1>0, <1>1, <1>3, <1>5 DEF ZipInv, TypeOK
<1>7. PathInv'
  <2>1. \A p \in DOMAIN fs' : fs'[p] = Directory => p \notin Temps
    BY <1>3 DEF ZipInv, PathInv
  <2>2. \A p \in Files' : content'[fs'[p]] = content[fs[p]]
    BY <1>4
  <2>3. \A p \in Files : LET n == content[fs[p]].member IN n \in Writable /\ p \in {dest(n), part(n)}
    BY DEF ZipInv, PathInv
  <2>4. \A p \in Files' : (LET n == content[fs[p]].member IN n \in Writable /\ p \in {dest(n), part(n)})'
    BY <1>0, <1>4, <2>2, <2>3 DEF dest, part, Key
  <2> QED BY <1>0, <1>4, <2>1, <2>4 DEF ZipInv, PathInv
<1>8. CallInv'
  <2>1. \A d \in Callers \ {c} : call[d].pc = "hash" =>
            dest(call[d].member) \in DOMAIN fs' /\ fs'[dest(call[d].member)] # Directory
    <3> SUFFICES ASSUME NEW d \in Callers \ {c}, call[d].pc = "hash"
                 PROVE  dest(call[d].member) \in DOMAIN fs' /\ fs'[dest(call[d].member)] # Directory
      OBVIOUS
    <3>1. call[d].member \in Writable
      BY DEF ZipInv, CallInv, Busy
    <3>2. dest(call[d].member) # part(m)
      BY <1>5, <3>1, NamesApart
    <3> QED BY <1>3, <3>2 DEF ZipInv, CallInv, Exists
  <2> QED BY <1>0, <1>1, <2>1 DEF ZipInv, CallInv, Busy, dest, part, Key, Exists
<1>9. OwnedInv'
  <2> SUFFICES ASSUME NEW n \in Writable, part(n) \in DOMAIN fs'
               PROVE  n \in stranded' \/ \E d \in Callers : call'[d].pc = "write" /\ call'[d].member = n
    BY <1>0 DEF OwnedInv, Exists, part, Key
  <2>1. n \in stranded \/ \E d \in Callers : call[d].pc = "write" /\ call[d].member = n
    BY <1>3 DEF ZipInv, OwnedInv, Exists
  <2>2. CASE n = m
    <3>1. CASE call[c].pc = "write"
      BY <1>3, <2>2, <3>1
    <3>2. CASE call[c].pc = "open"
      BY <1>1, <1>3, <2>1, <3>2
    <3> QED BY <3>1, <3>2
  <2>3. CASE n # m
    BY <1>1, <1>3, <2>1, <2>3
  <2> QED BY <2>2, <2>3
<1>10. LastOpenerInv'
  <2> SUFFICES ASSUME ~crashed', faults' = 0, NEW f \in DOMAIN content
               PROVE  \/ content[f].chunks = 1 .. Chunks
                      \/ \E d \in Callers : call'[d].pc = "write" /\ call'[d].file = f
                                            /\ 1 .. call'[d].done \subseteq content[f].chunks
    BY DEF LastOpenerInv
  <2>1. faults = 0 /\ call[c].done = Chunks
    BY DEF ZipInv, TypeOK
  <2>2. content[f].chunks \subseteq 1 .. Chunks
    BY InFile
  <2>3. \/ content[f].chunks = 1 .. Chunks
        \/ \E d \in Callers : call[d].pc = "write" /\ call[d].file = f
                              /\ 1 .. call[d].done \subseteq content[f].chunks
    BY <2>1 DEF ZipInv, LastOpenerInv
  <2>4. ASSUME NEW d \in Callers, call[d].pc = "write", call[d].file = f,
               1 .. call[d].done \subseteq content[f].chunks
        PROVE  d = c => content[f].chunks = 1 .. Chunks
    BY <2>1, <2>2, <2>4
  <2> QED BY <1>1, <2>3, <2>4
<1>11. AloneInv'
  <2> SUFFICES ASSUME ~overlapped' PROVE AloneInv'
    BY DEF AloneInv
  <2>1. Busy(c) /\ \A d, e \in Callers : Busy(d) /\ Busy(e) => d = e
    BY DEF ZipInv, AloneInv, Busy
  <2>2. \A d \in Callers : call'[d].pc \in {"idle", "dead"}
    BY <1>1, <2>1 DEF Busy
  <2>3. \A p \in Files' : p \notin Temps => content'[fs'[p]].chunks = 1 .. Chunks
    BY <1>0, <1>4 DEF ZipInv, AloneInv
  <2>4. \A d \in Callers : call'[d].state = "MATERIALIZED_VERIFIED" => call'[d].hash = 1 .. Chunks
    BY <1>1 DEF ZipInv, AloneInv
  <2> QED BY <1>0, <2>2, <2>3, <2>4 DEF AloneInv, Busy
<1>12. StrandedInv'
  <2> SUFFICES ASSUME ~overlapped' PROVE StrandedInv'
    BY DEF StrandedInv
  <2>1. \A d \in Callers : call'[d].pc \in {"idle", "dead"}
    BY <1>1 DEF ZipInv, AloneInv, Busy
  <2>2. /\ m \notin stranded /\ stranded \subseteq Writable
        /\ dest(m) \notin Files
    BY DEF ZipInv, StrandedInv, TypeOK, Busy
  <2>3. ASSUME NEW n \in stranded' PROVE part(n) \in DOMAIN fs' /\ dest(n) \notin Files'
    <3>1. CASE n = m
      BY <1>3, <1>4, <2>2, <2>3, <3>1
    <3>2. CASE n # m
      <4>1. n \in stranded /\ n \in Writable
        BY <1>3, <2>2, <2>3, <3>2
      <4>2. part(n) \in DOMAIN fs /\ dest(n) \notin Files
        BY <4>1 DEF ZipInv, StrandedInv, Exists
      <4>3. part(n) # part(m)
        BY <1>5, <3>2, <4>1, NamesApart
      <4> QED BY <1>3, <1>4, <4>2, <4>3
    <3> QED BY <3>1, <3>2
  <2> QED BY <2>1, <2>3 DEF StrandedInv, Busy, Exists, dest, part, Key
<1> QED BY <1>0, <1>6, <1>7, <1>8, <1>9, <1>10, <1>11, <1>12 DEF ZipInv

LEMMA OpenKeeps ==
    ASSUME ZipInv, NEW c \in Callers, Open(c)
    PROVE  ZipInv'
<1> DEFINE m == call[c].member
           file == IF Exists(part(m)) THEN fs[part(m)] ELSE Len(content) + 1
           empty == [member |-> m, chunks |-> {}]
           R == [member : Nat, chunks : SUBSET (1 .. Chunks)]
<1>1. /\ call[c].pc = "open" /\ UNCHANGED <<archive, info, folds, stranded, calls, faults, crashed, overlapped>>
      /\ fs' = Overlay(fs, [p \in {part(m)} |-> file])
      /\ content' = IF file <= Len(content) THEN [content EXCEPT ![file] = empty] ELSE Append(content, empty)
      /\ call' = [call EXCEPT ![c].pc = "write", ![c].file = file]
  BY DEF Open
<1>2. m \in Writable /\ m \in Nat \ {0} /\ part(m) \in Temps
  <2>1. m \in Writable
    BY <1>1 DEF ZipInv, CallInv, Busy
  <2> QED BY <2>1, NamesApart
<1>0. Writable' = Writable /\ Temps' = Temps /\ NoPartNames'
  BY <1>1, NamesStay DEF ZipInv
<1>3. /\ content \in Seq(R) /\ Len(content) \in Nat
      /\ fs \in [DOMAIN fs -> 0 .. Len(content)] /\ call \in [Callers -> Calls]
  <2>1. content \in Seq(R)
    BY DEF ZipInv, TypeOK
  <2> HIDE DEF R
  <2>2. Len(content) \in Nat
    BY <2>1
  <2> QED BY <2>1, <2>2 DEF ZipInv, TypeOK
<1>4. Exists(part(m)) => file \in 1 .. Len(content) /\ part(m) \in Files
  <2>1. Exists(part(m)) => fs[part(m)] # Directory /\ fs[part(m)] \in 0 .. Len(content)
    BY <1>2, <1>3 DEF ZipInv, PathInv, Exists
  <2> QED BY <2>1 DEF Directory, Files, Exists
<1>5. file \in 1 .. Len(content) + 1 /\ (file <= Len(content) <=> Exists(part(m)))
  BY <1>3, <1>4
<1>6. empty \in R /\ empty.member = m /\ empty.chunks = {}
  BY <1>2
<1> HIDE DEF file, empty, R
<1>7. /\ content' \in Seq(R) /\ Len(content') \in Nat /\ Len(content) <= Len(content')
      /\ DOMAIN content' = DOMAIN content \cup {file} /\ file \in 1 .. Len(content')
      /\ content'[file] = empty /\ \A g \in DOMAIN content \ {file} : content'[g] = content[g]
  <2>1. DOMAIN content = 1 .. Len(content)
    BY <1>3
  <2>2. CASE file <= Len(content)
    <3>1. content' = [content EXCEPT ![file] = empty]
      BY <1>1, <2>2
    <3> QED BY <1>3, <1>5, <1>6, <2>1, <2>2, <3>1
  <2>3. CASE ~(file <= Len(content))
    <3>1. content' = Append(content, empty) /\ file = Len(content) + 1
      BY <1>1, <1>3, <1>5, <2>3
    <3> QED BY <1>3, <1>6, <2>1, <3>1
  <2> QED BY <2>2, <2>3
<1>8. /\ DOMAIN fs' = DOMAIN fs \cup {part(m)}
      /\ \A p \in DOMAIN fs' : fs'[p] = IF p = part(m) THEN file ELSE fs[p]
      /\ fs' \in [DOMAIN fs' -> 0 .. Len(content')]
  <2> DEFINE new == [p \in {part(m)} |-> file]
  <2>1. DOMAIN new = {part(m)} /\ new[part(m)] = file
    OBVIOUS
  <2> HIDE DEF new
  <2>2. fs' = [x \in DOMAIN fs \cup DOMAIN new |-> IF x \in DOMAIN new THEN new[x] ELSE fs[x]]
    BY <1>1 DEF Overlay, new
  <2>3. DOMAIN fs' = DOMAIN fs \cup {part(m)} /\ \A p \in DOMAIN fs' : fs'[p] = IF p = part(m) THEN file ELSE fs[p]
    BY <2>1, <2>2
  <2>4. \A p \in DOMAIN fs' : fs'[p] \in 0 .. Len(content')
    BY <1>3, <1>7, <2>3
  <2> QED BY <2>2, <2>3, <2>4
<1>9. /\ call' \in [Callers -> Calls] /\ \A d \in Callers \ {c} : call'[d] = call[d]
      /\ call'[c].pc = "write" /\ call'[c].member = m /\ call'[c].file = file
      /\ call'[c].state = call[c].state /\ call'[c].hash = call[c].hash /\ call'[c].done = call[c].done
  <2>1. call[c] \in Calls /\ file \in Nat
    BY <1>3, <1>5
  <2>2. [call[c] EXCEPT !.pc = "write", !.file = file] \in Calls
    BY <2>1 DEF Calls
  <2>3. call' = [call EXCEPT ![c] = [call[c] EXCEPT !.pc = "write", !.file = file]]
    BY <1>1
  <2> QED BY <1>3, <2>1, <2>2, <2>3 DEF Calls
<1>10. call[c].done = 0 /\ call'[c].done = 0
  BY <1>1, <1>9 DEF ZipInv, CallInv
<1>11. /\ part(m) \in Files' /\ \A p \in Files' : p = part(m) \/ p \in Files
       /\ \A p \in Files' \ {part(m)} : fs'[p] = fs[p] /\ fs'[p] # file
       /\ fs'[part(m)] = file
  <2>1. part(m) \in Files' /\ fs'[part(m)] = file
    BY <1>5, <1>8 DEF Files, Directory
  <2>2. ASSUME NEW p \in Files', p # part(m) PROVE p \in Files /\ fs'[p] = fs[p] /\ fs'[p] # file
    <3>1. p \in Files /\ fs'[p] = fs[p]
      BY <1>8, <2>2 DEF Files
    <3>2. CASE Exists(part(m))
      <4>1. file = fs[part(m)] /\ part(m) \in Files
        BY <1>4, <3>2 DEF file
      <4> QED BY <2>2, <3>1, <4>1 DEF ZipInv, PathInv
    <3>3. CASE ~Exists(part(m))
      <4>1. file = Len(content) + 1
        BY <3>3 DEF file
      <4>2. fs[p] \in 0 .. Len(content)
        BY <1>3, <3>1 DEF Files
      <4> QED BY <1>3, <3>1, <4>1, <4>2
    <3> QED BY <3>1, <3>2, <3>3
  <2> QED BY <2>1, <2>2
<1>12. TypeOK'
  BY <1>0, <1>1, <1>7, <1>8, <1>9 DEF ZipInv, TypeOK, R
<1>13. \A p \in Files : fs[p] \in DOMAIN content
  <2>1. DOMAIN content = 1 .. Len(content)
    BY <1>3
  <2> QED BY <1>3, <2>1 DEF Files, Directory
<1>14. PathInv'
  <2>1. \A p \in DOMAIN fs' : fs'[p] = Directory => p \notin Temps
    BY <1>5, <1>8 DEF ZipInv, PathInv, Directory
  <2>2. content'[fs'[part(m)]].member = m
    BY <1>6, <1>7, <1>11
  <2>3. \A p \in Files' \ {part(m)} : content'[fs'[p]] = content[fs[p]]
    BY <1>7, <1>11, <1>13
  <2>4. \A p \in Files : LET n == content[fs[p]].member IN n \in Writable /\ p \in {dest(n), part(n)}
    BY DEF ZipInv, PathInv
  <2>5. ASSUME NEW p \in Files' PROVE (LET n == content[fs[p]].member IN n \in Writable /\ p \in {dest(n), part(n)})'
    <3>1. PICK n : n = content'[fs'[p]].member
      OBVIOUS
    <3>2. ASSUME p = part(m) PROVE n \in Writable /\ p \in {dest(n), part(n)}
      BY <1>2, <2>2, <3>1, <3>2
    <3>3. ASSUME p # part(m) PROVE n \in Writable /\ p \in {dest(n), part(n)}
      <4>1. p \in Files /\ n = content[fs[p]].member
        BY <1>11, <2>3, <2>5, <3>1, <3>3
      <4> QED BY <2>4, <4>1
    <3>4. n \in Writable /\ p \in {dest(n), part(n)}
      BY <3>2, <3>3
    <3>5. n \in Writable' /\ p \in {dest(n)', part(n)'}
      BY <1>0, <1>1, <3>4 DEF dest, part, Key
    <3> QED BY <3>1, <3>5 DEF dest, part, Key
  <2>6. \A p, q \in Files' : fs'[p] = fs'[q] => p = q
    BY <1>11 DEF ZipInv, PathInv
  <2> QED BY <1>0, <2>1, <2>5, <2>6 DEF PathInv
<1>15. CallInv'
  <2>1. \A d \in Callers \ {c} : call[d].pc = "hash" =>
            dest(call[d].member) \in DOMAIN fs' /\ fs'[dest(call[d].member)] # Directory
    <3> SUFFICES ASSUME NEW d \in Callers \ {c}, call[d].pc = "hash"
                 PROVE  dest(call[d].member) \in DOMAIN fs' /\ fs'[dest(call[d].member)] # Directory
      OBVIOUS
    <3>1. call[d].member \in Writable
      BY DEF ZipInv, CallInv, Busy
    <3>2. dest(call[d].member) # part(m)
      BY <1>2, <3>1, NamesApart
    <3> QED BY <1>8, <3>2 DEF ZipInv, CallInv, Exists
  <2>2. ASSUME NEW d \in Callers, call'[d].pc = "write"
        PROVE  call'[d].file \in DOMAIN content' /\ content'[call'[d].file].member = call'[d].member
    <3>1. CASE d = c
      BY <1>6, <1>7, <1>9, <3>1
    <3>2. CASE d # c /\ call[d].file # file
      BY <1>7, <1>9, <2>2, <3>2 DEF ZipInv, CallInv
    <3>3. CASE d # c /\ call[d].file = file
      <4>1. file \in DOMAIN content /\ content[file].member = call[d].member
        BY <1>9, <2>2, <3>3 DEF ZipInv, CallInv
      <4>2. Exists(part(m))
        <5>1. DOMAIN content = 1 .. Len(content)
          BY <1>3
        <5> QED BY <1>3, <1>5, <4>1, <5>1
      <4>3. part(m) \in Files /\ file = fs[part(m)]
        BY <1>4, <4>2 DEF file
      <4>4. content[file].member \in Writable /\ part(m) \in {dest(content[file].member), part(content[file].member)}
        BY <4>3 DEF ZipInv, PathInv
      <4>5. content[file].member = m
        BY <1>2, <4>4, NamesApart
      <4> QED BY <1>6, <1>7, <1>9, <3>3, <4>1, <4>5
    <3> QED BY <3>1, <3>2, <3>3
  <2>3. \A d \in Callers : Busy(d)' => call'[d].member \in Writable
    BY <1>2, <1>9 DEF ZipInv, CallInv, Busy
  <2>4. \A d \in Callers : call'[d].pc = "hash" =>
           dest(call'[d].member) \in DOMAIN fs' /\ fs'[dest(call'[d].member)] # Directory
    BY <1>9, <2>1
  <2>5. \A d \in Callers : call'[d].pc = "open" => call'[d].done = 0
    BY <1>9 DEF ZipInv, CallInv
  <2> QED BY <1>0, <1>1, <2>2, <2>3, <2>4, <2>5 DEF CallInv, dest, Key, Exists
<1>16. OwnedInv'
  <2> SUFFICES ASSUME NEW n \in Writable, part(n) \in DOMAIN fs'
               PROVE  n \in stranded \/ \E d \in Callers : call'[d].pc = "write" /\ call'[d].member = n
    BY <1>0, <1>1 DEF OwnedInv, Exists, part, Key
  <2>1. CASE n = m
    BY <1>9, <2>1
  <2>2. CASE n # m
    <3>1. part(n) \in DOMAIN fs
      BY <1>2, <1>8, <2>2, NamesApart
    <3>2. n \in stranded \/ \E d \in Callers : call[d].pc = "write" /\ call[d].member = n
      BY <3>1 DEF ZipInv, OwnedInv, Exists
    <3> QED BY <1>1, <1>9, <3>2
  <2> QED BY <2>1, <2>2
<1>17. LastOpenerInv'
  <2> SUFFICES ASSUME ~crashed', faults' = 0, NEW f \in DOMAIN content'
               PROVE  \/ content'[f].chunks = 1 .. Chunks
                      \/ \E d \in Callers : call'[d].pc = "write" /\ call'[d].file = f
                                            /\ 1 .. call'[d].done \subseteq content'[f].chunks
    BY DEF LastOpenerInv
  <2>1. CASE f = file
    <3>1. 1 .. call'[c].done \subseteq content'[file].chunks
      BY <1>10
    <3> QED BY <1>9, <2>1, <3>1
  <2>2. CASE f # file
    <3>1. f \in DOMAIN content /\ content'[f] = content[f]
      BY <1>7, <2>2
    <3>2. \/ content[f].chunks = 1 .. Chunks
          \/ \E d \in Callers : call[d].pc = "write" /\ call[d].file = f
                                /\ 1 .. call[d].done \subseteq content[f].chunks
      BY <1>1, <3>1 DEF ZipInv, LastOpenerInv
    <3>3. \A d \in Callers : call[d].pc = "write" => call'[d] = call[d]
      BY <1>1, <1>9
    <3> QED BY <3>1, <3>2, <3>3
  <2> QED BY <2>1, <2>2
<1>18. AloneInv'
  <2> SUFFICES ASSUME ~overlapped' PROVE AloneInv'
    BY DEF AloneInv
  <2>1. \A d \in Callers \ {c} : call'[d].pc \in {"idle", "dead"}
    BY <1>1, <1>9 DEF ZipInv, AloneInv, Busy
  <2>2. call'[c].pc = "write" /\ (part(call[c].member) = part(m))'
    BY <1>9
  <2>3. content'[file].chunks = 1 .. call'[c].done
    BY <1>6, <1>7, <1>10
  <2>4. (Exists(part(call[c].member)))' /\ (fs[part(call[c].member)])' = file
    BY <1>1, <1>8, <1>9 DEF Exists, part, Key
  <2>5. \A d, e \in Callers : Busy(d)' /\ Busy(e)' => d = e
    BY <2>1 DEF Busy
  <2>6. ASSUME NEW p \in Files', p \notin Temps PROVE content'[fs'[p]].chunks = 1 .. Chunks
    <3>1. p # part(m)
      BY <1>2, <2>6
    <3>2. p \in Files /\ content'[fs'[p]] = content[fs[p]]
      BY <1>7, <1>11, <1>13, <3>1
    <3> QED BY <1>0, <1>1, <2>6, <3>2 DEF ZipInv, AloneInv
  <2>7. \A d \in Callers : call'[d].state = "MATERIALIZED_VERIFIED" => call'[d].hash = 1 .. Chunks
    BY <1>1, <1>9 DEF ZipInv, AloneInv
  <2> QED BY <1>0, <1>9, <2>1, <2>2, <2>3, <2>4, <2>5, <2>6, <2>7 DEF AloneInv
<1>19. StrandedInv'
  <2> SUFFICES ASSUME ~overlapped' PROVE StrandedInv'
    BY DEF StrandedInv
  <2>1. \A d \in Callers \ {c} : call'[d].pc \in {"idle", "dead"}
    BY <1>1, <1>9 DEF ZipInv, AloneInv, Busy
  <2>2. m \notin stranded /\ dest(m) \notin Files
    BY <1>1 DEF ZipInv, StrandedInv, Busy
  <2>3. \A n \in Writable : dest(n) \notin Files => dest(n) \notin Files'
    BY <1>2, <1>11, NamesApart
  <2>4. ASSUME NEW n \in stranded PROVE part(n) \in DOMAIN fs' /\ dest(n) \notin Files'
    <3>1. n \in Writable
      BY DEF ZipInv, TypeOK
    <3> QED BY <1>1, <1>8, <2>3, <3>1 DEF ZipInv, StrandedInv, Exists
  <2>5. call'[c].member \notin stranded /\ dest(call'[c].member) \notin Files'
    BY <1>2, <1>9, <2>2, <2>3
  <2>6. \A d \in Callers : Busy(d)' => d = c
    BY <2>1 DEF Busy
  <2>7. \A n \in stranded' : Exists(part(n))' /\ (dest(n) \notin Files)'
    BY <1>1, <2>4 DEF Exists, dest, part, Key
  <2>8. ASSUME NEW d \in Callers, Busy(d)' PROVE (call[d].member \notin stranded)'
    <3>1. d = c
      BY <2>6, <2>8
    <3>2. stranded' = stranded
      BY <1>1
    <3> QED BY <2>5, <3>1, <3>2
  <2>9. \A d \in Callers : call'[d].pc \in {"open", "write"} => (dest(call[d].member) \notin Files)'
    BY <1>1, <2>1, <2>5 DEF dest, Key
  <2> QED BY <2>7, <2>8, <2>9 DEF StrandedInv
<1> QED BY <1>0, <1>12, <1>14, <1>15, <1>16, <1>17, <1>18, <1>19 DEF ZipInv

LEMMA WriteKeeps ==
    ASSUME ZipInv, NEW c \in Callers, Write(c)
    PROVE  ZipInv'
<1> DEFINE m == call[c].member
           file == call[c].file
           R == [member : Nat, chunks : SUBSET (1 .. Chunks)]
<1>1. /\ call[c].pc = "write" /\ call[c].done < Chunks
      /\ UNCHANGED <<archive, info, folds, fs, stranded, calls, faults, crashed, overlapped>>
      /\ content' = [content EXCEPT ![file].chunks = @ \cup {call[c].done + 1}]
      /\ call' = [call EXCEPT ![c].done = @ + 1]
  BY DEF Write
<1>0. Writable' = Writable /\ Temps' = Temps /\ NoPartNames'
  BY <1>1, NamesStay DEF ZipInv
<1>2. call \in [Callers -> Calls] /\ call[c].done \in 0 .. Chunks /\ Chunks \in Nat
  BY ZipAssumption DEF ZipInv, TypeOK, Calls
<1>3. file \in DOMAIN content /\ content[file].member = m
  BY <1>1 DEF ZipInv, CallInv
<1>4. /\ content \in Seq(R) /\ content[file].member \in Nat /\ content[file].chunks \subseteq 1 .. Chunks
  BY <1>3, InFile DEF ZipInv, TypeOK
<1> DEFINE more == [content[file] EXCEPT !.chunks = @ \cup {call[c].done + 1}]
<1>5. /\ more \in R /\ more.member = m /\ more.chunks = content[file].chunks \cup {call[c].done + 1}
  <2>1. content[file] \in R
    <3> HIDE DEF R
    <3> QED BY <1>3, <1>4
  <2>2. content[file].chunks \cup {call[c].done + 1} \subseteq 1 .. Chunks
    BY <1>1, <1>2, <1>4
  <2> QED BY <1>3, <2>1, <2>2
<1>6. content' = [content EXCEPT ![file] = more]
  BY <1>1
<1> HIDE DEF more, R
<1>7. /\ content' \in Seq(R) /\ Len(content') = Len(content) /\ DOMAIN content' = DOMAIN content
      /\ content'[file] = more /\ \A g \in DOMAIN content \ {file} : content'[g] = content[g]
  BY <1>3, <1>4, <1>5, <1>6
<1>8. \A g \in DOMAIN content : content'[g].member = content[g].member
  BY <1>3, <1>5, <1>7
<1>9. /\ call' \in [Callers -> Calls] /\ \A d \in Callers \ {c} : call'[d] = call[d]
      /\ call'[c].pc = "write" /\ call'[c].member = m /\ call'[c].file = file
      /\ call'[c].state = call[c].state /\ call'[c].hash = call[c].hash /\ call'[c].done = call[c].done + 1
  <2>1. call[c] \in Calls /\ call[c].done + 1 \in 0 .. Chunks
    BY <1>1, <1>2
  <2>2. [call[c] EXCEPT !.done = call[c].done + 1] \in Calls
    BY <2>1 DEF Calls
  <2>3. call' = [call EXCEPT ![c] = [call[c] EXCEPT !.done = call[c].done + 1]]
    BY <1>1
  <2> QED BY <1>1, <1>2, <2>1, <2>2, <2>3 DEF Calls
<1>10. Files' = Files /\ \A p \in Files : fs[p] \in DOMAIN content
  <2>1. DOMAIN content = 1 .. Len(content) /\ Len(content) \in Nat
    BY <1>4
  <2>2. fs \in [DOMAIN fs -> 0 .. Len(content)]
    BY DEF ZipInv, TypeOK
  <2> QED BY <1>1, <2>1, <2>2 DEF Files, Directory
<1>11. TypeOK'
  BY <1>0, <1>1, <1>7, <1>9 DEF ZipInv, TypeOK, R
<1>12. PathInv'
  <2>1. \A p \in Files : content'[fs[p]].member = content[fs[p]].member
    BY <1>8, <1>10
  <2>2. \A p \in Files : LET n == content[fs[p]].member IN n \in Writable /\ p \in {dest(n), part(n)}
    BY DEF ZipInv, PathInv
  <2>3. \A p \in Files' : (LET n == content[fs[p]].member IN n \in Writable /\ p \in {dest(n), part(n)})'
    BY <1>0, <1>1, <1>10, <2>1, <2>2 DEF dest, part, Key
  <2> QED BY <1>0, <1>1, <1>10, <2>3 DEF ZipInv, PathInv
<1>13. CallInv'
  <2>1. \A d \in Callers : call'[d].pc = call[d].pc /\ call'[d].member = call[d].member /\ call'[d].file = call[d].file
    BY <1>1, <1>9
  <2>2. \A d \in Callers : call'[d].pc = "open" => call'[d].done = 0
    BY <1>9 DEF ZipInv, CallInv
  <2>3. \A d \in Callers : call'[d].pc = "write" =>
           call'[d].file \in DOMAIN content' /\ content'[call'[d].file].member = call'[d].member
    BY <1>7, <1>8, <2>1 DEF ZipInv, CallInv
  <2>4. \A d \in Callers : call'[d].pc = "hash" =>
           dest(call'[d].member) \in DOMAIN fs /\ fs[dest(call'[d].member)] # Directory
    BY <2>1 DEF ZipInv, CallInv
  <2>5. \A d \in Callers : Busy(d)' => call'[d].member \in Writable
    BY <2>1 DEF ZipInv, CallInv, Busy
  <2> QED BY <1>0, <1>1, <2>2, <2>3, <2>4, <2>5 DEF CallInv, dest, Key
<1>14. OwnedInv'
  <2>1. \A n \in Writable : part(n) \in DOMAIN fs =>
           n \in stranded \/ \E d \in Callers : call'[d].pc = "write" /\ call'[d].member = n
    BY <1>1, <1>9 DEF ZipInv, OwnedInv, Exists
  <2> QED BY <1>0, <1>1, <2>1 DEF OwnedInv, Exists, part, Key
<1>15. LastOpenerInv'
  <2> SUFFICES ASSUME ~crashed', faults' = 0, NEW f \in DOMAIN content'
               PROVE  \/ content'[f].chunks = 1 .. Chunks
                      \/ \E d \in Callers : call'[d].pc = "write" /\ call'[d].file = f
                                            /\ 1 .. call'[d].done \subseteq content'[f].chunks
    BY DEF LastOpenerInv
  <2>0. f \in DOMAIN content
    BY <1>7
  <2>1. \/ content[f].chunks = 1 .. Chunks
        \/ \E d \in Callers : call[d].pc = "write" /\ call[d].file = f
                              /\ 1 .. call[d].done \subseteq content[f].chunks
    BY <1>1, <2>0 DEF ZipInv, LastOpenerInv
  <2>2. content[f].chunks \subseteq content'[f].chunks /\ content'[f].chunks \subseteq 1 .. Chunks
    <3>1. more.chunks \subseteq 1 .. Chunks
      BY <1>1, <1>2, <1>4, <1>5
    <3> QED BY <1>5, <1>7, <2>0, <3>1, InFile
  <2>3. CASE content[f].chunks = 1 .. Chunks
    BY <2>2, <2>3
  <2>4. ASSUME NEW d \in Callers, call[d].pc = "write", call[d].file = f,
               1 .. call[d].done \subseteq content[f].chunks
        PROVE  call'[d].pc = "write" /\ call'[d].file = f /\ 1 .. call'[d].done \subseteq content'[f].chunks
    <3>1. CASE d # c
      BY <1>9, <2>2, <2>4, <3>1
    <3>2. CASE d = c
      <4>1. 1 .. call'[c].done = (1 .. call[c].done) \cup {call[c].done + 1}
        BY <1>2, <1>9
      <4>2. call[c].done + 1 \in content'[f].chunks
        BY <1>5, <1>7, <2>4, <3>2
      <4> QED BY <1>9, <2>2, <2>4, <3>2, <4>1, <4>2
    <3> QED BY <3>1, <3>2
  <2> QED BY <2>1, <2>3, <2>4
<1>16. AloneInv'
  <2> SUFFICES ASSUME ~overlapped' PROVE AloneInv'
    BY DEF AloneInv
  <2>1. \A d \in Callers \ {c} : call'[d].pc \in {"idle", "dead"}
    BY <1>1, <1>9 DEF ZipInv, AloneInv, Busy
  <2>2. part(m) \in DOMAIN fs /\ fs[part(m)] = file /\ content[file].chunks = 1 .. call[c].done
    BY <1>1 DEF ZipInv, AloneInv, Exists
  <2>3. content'[file].chunks = 1 .. call'[c].done
    <3>1. content'[file].chunks = (1 .. call[c].done) \cup {call[c].done + 1}
      BY <1>5, <1>7, <2>2
    <3> QED BY <1>2, <1>9, <3>1
  <2>4. part(call'[c].member) \in DOMAIN fs /\ fs[part(call'[c].member)] = call'[c].file
    BY <1>9, <2>2
  <2>5. \A d, e \in Callers : Busy(d)' /\ Busy(e)' => d = e
    BY <2>1 DEF Busy
  <2>6. ASSUME NEW p \in Files, p \notin Temps PROVE content'[fs[p]].chunks = 1 .. Chunks
    <3>1. m \in Writable
      BY <1>1 DEF ZipInv, CallInv, Busy
    <3>2. p # part(m)
      BY <2>6, <3>1, NamesApart
    <3>3. part(m) \in Files
      <4>1. part(m) \in Temps
        BY <3>1, NamesApart
      <4> QED BY <2>2, <4>1 DEF ZipInv, PathInv, Files
    <3>4. fs[p] # file
      BY <2>2, <3>2, <3>3 DEF ZipInv, PathInv
    <3> QED BY <1>1, <1>7, <1>10, <2>6, <3>4 DEF ZipInv, AloneInv
  <2>7. \A d \in Callers : call'[d].state = "MATERIALIZED_VERIFIED" => call'[d].hash = 1 .. Chunks
    BY <1>1, <1>9 DEF ZipInv, AloneInv
  <2> QED BY <1>0, <1>1, <1>9, <1>10, <2>1, <2>3, <2>4, <2>5, <2>6, <2>7 DEF AloneInv, Exists, part, Key
<1>17. StrandedInv'
  <2> SUFFICES ASSUME ~overlapped' PROVE StrandedInv'
    BY DEF StrandedInv
  <2>1. \A d \in Callers : call'[d].pc = call[d].pc /\ call'[d].member = call[d].member
    BY <1>1, <1>9
  <2>2. /\ \A n \in stranded : part(n) \in DOMAIN fs /\ dest(n) \notin Files
        /\ \A d \in Callers : call[d].pc \notin {"idle", "dead"} => call[d].member \notin stranded
        /\ \A d \in Callers : call[d].pc \in {"open", "write"} => dest(call[d].member) \notin Files
    BY <1>1 DEF ZipInv, StrandedInv, Busy, Exists
  <2> QED BY <1>1, <1>10, <2>1, <2>2 DEF StrandedInv, Busy, Exists, dest, part, Key
<1> QED BY <1>0, <1>11, <1>12, <1>13, <1>14, <1>15, <1>16, <1>17 DEF ZipInv

\* The rename.
LEMMA PublishKeeps ==
    ASSUME ZipInv, NEW c \in Callers, Publish(c)
    PROVE  ZipInv'
<1> DEFINE m == call[c].member
<1>1. /\ call[c].pc = "write" /\ call[c].done = Chunks
      /\ UNCHANGED <<archive, info, folds, content, stranded, calls, faults, crashed, overlapped>>
  BY DEF Publish, Complete
<1>2. Exists(part(m)) /\ ~(Exists(dest(m)) /\ fs[dest(m)] = Directory)
  BY DEF Publish, CanPublish
<1>0. Writable' = Writable /\ Temps' = Temps /\ NoPartNames'
  BY <1>1, NamesStay DEF ZipInv
<1>3. ZipInv'
  <2> DEFINE file == fs[part(m)]
  <2>1. /\ fs' = Overlay(Without(fs, part(m)), [p \in {dest(m)} |-> fs[part(m)]])
        /\ call' = [call EXCEPT ![c].pc = "hash"]
    BY DEF Publish
  <2>2. m \in Writable
    BY <1>1 DEF ZipInv, CallInv, Busy
  <2>3. part(m) # dest(m) /\ part(m) \in Temps /\ dest(m) \notin Temps
    BY <2>2, NamesApart
  <2>4. fs \in [DOMAIN fs -> 0 .. Len(content)] /\ call \in [Callers -> Calls] /\ Len(content) \in Nat
    BY DEF ZipInv, TypeOK
  <2>5. file # Directory /\ part(m) \in Files /\ file \in 1 .. Len(content)
    <3>1. part(m) \in DOMAIN fs
      BY <1>2 DEF Exists
    <3>2. file # Directory
      BY <2>3, <3>1 DEF ZipInv, PathInv
    <3> QED BY <2>4, <3>1, <3>2 DEF Files, Directory
  <2>6. /\ DOMAIN fs' = (DOMAIN fs \ {part(m)}) \cup {dest(m)}
        /\ \A p \in DOMAIN fs' : fs'[p] = IF p = dest(m) THEN file ELSE fs[p]
        /\ fs' \in [DOMAIN fs' -> 0 .. Len(content)]
    <3> DEFINE new == [p \in {dest(m)} |-> file]
               rest == Without(fs, part(m))
    <3>1. DOMAIN new = {dest(m)} /\ new[dest(m)] = file
      OBVIOUS
    <3>2. DOMAIN rest = DOMAIN fs \ {part(m)} /\ \A p \in DOMAIN rest : rest[p] = fs[p]
      BY DEF Without
    <3> HIDE DEF new, rest
    <3>3. fs' = [x \in DOMAIN rest \cup DOMAIN new |-> IF x \in DOMAIN new THEN new[x] ELSE rest[x]]
      BY <2>1 DEF Overlay, new, rest
    <3>4. DOMAIN fs' = (DOMAIN fs \ {part(m)}) \cup {dest(m)}
      BY <3>1, <3>2, <3>3
    <3>5. \A p \in DOMAIN fs' : fs'[p] = IF p = dest(m) THEN file ELSE fs[p]
      BY <3>1, <3>2, <3>3, <3>4
    <3>6. \A p \in DOMAIN fs' : fs'[p] \in 0 .. Len(content)
      BY <2>4, <2>5, <3>4, <3>5
    <3> QED BY <3>3, <3>4, <3>5, <3>6
  <2> HIDE DEF file
  <2>7. /\ call' \in [Callers -> Calls] /\ \A d \in Callers \ {c} : call'[d] = call[d]
        /\ call'[c].pc = "hash" /\ call'[c].member = m
        /\ call'[c].state = call[c].state /\ call'[c].hash = call[c].hash
    <3>1. call[c] \in Calls
      BY <2>4
    <3>2. [call[c] EXCEPT !.pc = "hash"] \in Calls
      BY <3>1 DEF Calls
    <3>3. call' = [call EXCEPT ![c] = [call[c] EXCEPT !.pc = "hash"]]
      BY <2>1
    <3> QED BY <2>4, <3>1, <3>2, <3>3 DEF Calls
  <2>8. /\ dest(m) \in Files' /\ fs'[dest(m)] = file
        /\ \A p \in Files' \ {dest(m)} : p \in Files /\ p # part(m) /\ fs'[p] = fs[p] /\ fs'[p] # file
    <3>1. dest(m) \in Files' /\ fs'[dest(m)] = file
      BY <2>5, <2>6 DEF Files
    <3>2. ASSUME NEW p \in Files', p # dest(m)
          PROVE  p \in Files /\ p # part(m) /\ fs'[p] = fs[p] /\ fs'[p] # file
      <4>1. p \in Files /\ p # part(m) /\ fs'[p] = fs[p]
        BY <2>6, <3>2 DEF Files
      <4> QED BY <2>5, <4>1 DEF ZipInv, PathInv, file
    <3> QED BY <3>1, <3>2
  <2>9. content[file].member = m
    <3>1. content[file].member \in Writable
          /\ part(m) \in {dest(content[file].member), part(content[file].member)}
      BY <2>5 DEF ZipInv, PathInv, file
    <3> QED BY <2>2, <3>1, NamesApart
  <2>10. TypeOK'
    BY <1>0, <1>1, <2>6, <2>7 DEF ZipInv, TypeOK
  <2>11. PathInv'
    <3>1. \A p \in DOMAIN fs' : fs'[p] = Directory => p \notin Temps
      BY <2>3, <2>6 DEF ZipInv, PathInv
    <3>2. \A p \in Files : LET n == content[fs[p]].member IN n \in Writable /\ p \in {dest(n), part(n)}
      BY DEF ZipInv, PathInv
    <3>3. ASSUME NEW p \in Files' PROVE (LET n == content[fs[p]].member IN n \in Writable /\ p \in {dest(n), part(n)})'
      <4>1. CASE p = dest(m)
        BY <1>0, <1>1, <2>2, <2>8, <2>9, <4>1 DEF dest, part, Key
      <4>2. CASE p # dest(m)
        <5>1. p \in Files /\ content'[fs'[p]] = content[fs[p]]
          BY <1>1, <2>8, <4>2
        <5> QED BY <1>0, <1>1, <3>2, <5>1 DEF dest, part, Key
      <4> QED BY <4>1, <4>2
    <3>4. \A p, q \in Files' : fs'[p] = fs'[q] => p = q
      BY <2>8 DEF ZipInv, PathInv
    <3> QED BY <1>0, <3>1, <3>3, <3>4 DEF PathInv
  <2>12. CallInv'
    <3>1. ASSUME NEW d \in Callers, call'[d].pc = "hash"
          PROVE  dest(call'[d].member) \in DOMAIN fs' /\ fs'[dest(call'[d].member)] # Directory
      <4>1. CASE d = c
        BY <2>7, <2>8, <4>1 DEF Files
      <4>2. CASE d # c
        <5>1. call[d].pc = "hash" /\ call'[d].member = call[d].member
          BY <2>7, <3>1, <4>2
        <5>2. dest(call[d].member) \in DOMAIN fs /\ fs[dest(call[d].member)] # Directory
          BY <5>1 DEF ZipInv, CallInv
        <5>3. call[d].member \in Writable
          BY <5>1 DEF ZipInv, CallInv, Busy
        <5>4. dest(call[d].member) # part(m)
          BY <2>2, <5>3, NamesApart
        <5> QED BY <2>5, <2>6, <5>1, <5>2, <5>4
      <4> QED BY <4>1, <4>2
    <3>2. \A d \in Callers : Busy(d)' => call'[d].member \in Writable
      BY <2>2, <2>7 DEF ZipInv, CallInv, Busy
    <3>3. \A d \in Callers : /\ call'[d].pc = "open" => call'[d].done = 0
                             /\ call'[d].pc = "write" => call'[d].file \in DOMAIN content
                                                         /\ content[call'[d].file].member = call'[d].member
      BY <2>7 DEF ZipInv, CallInv
    <3> QED BY <1>0, <1>1, <3>1, <3>2, <3>3 DEF CallInv, dest, Key
  <2>13. OwnedInv'
    <3> SUFFICES ASSUME NEW n \in Writable, part(n) \in DOMAIN fs'
                 PROVE  n \in stranded \/ \E d \in Callers : call'[d].pc = "write" /\ call'[d].member = n
      BY <1>0, <1>1 DEF OwnedInv, Exists, part, Key
    <3>1. part(n) \in DOMAIN fs /\ n # m
      BY <2>2, <2>3, <2>6, NamesApart
    <3>2. n \in stranded \/ \E d \in Callers : call[d].pc = "write" /\ call[d].member = n
      BY <3>1 DEF ZipInv, OwnedInv, Exists
    <3> QED BY <2>7, <3>1, <3>2
  <2>14. LastOpenerInv'
    <3> SUFFICES ASSUME ~crashed', faults' = 0, NEW f \in DOMAIN content
                 PROVE  \/ content[f].chunks = 1 .. Chunks
                        \/ \E d \in Callers : call'[d].pc = "write" /\ call'[d].file = f
                                              /\ 1 .. call'[d].done \subseteq content[f].chunks
      BY <1>1 DEF LastOpenerInv
    <3>1. content[f].chunks \subseteq 1 .. Chunks
      BY InFile
    <3>2. \/ content[f].chunks = 1 .. Chunks
          \/ \E d \in Callers : call[d].pc = "write" /\ call[d].file = f
                                /\ 1 .. call[d].done \subseteq content[f].chunks
      BY <1>1 DEF ZipInv, LastOpenerInv
    <3>3. ASSUME NEW d \in Callers, call[d].pc = "write", call[d].file = f,
                 1 .. call[d].done \subseteq content[f].chunks
          PROVE  d = c => content[f].chunks = 1 .. Chunks
      BY <1>1, <3>1, <3>3
    <3> QED BY <2>7, <3>2, <3>3
  <2>15. AloneInv'
    <3> SUFFICES ASSUME ~overlapped' PROVE AloneInv'
      BY DEF AloneInv
    <3>1. \A d \in Callers \ {c} : call'[d].pc \in {"idle", "dead"}
      BY <1>1, <2>7 DEF ZipInv, AloneInv, Busy
    <3>2. content[file].chunks = 1 .. Chunks
      BY <1>1 DEF ZipInv, AloneInv, file
    <3>3. \A p \in Files' : p \notin Temps => content'[fs'[p]].chunks = 1 .. Chunks
      BY <1>1, <2>8, <3>2 DEF ZipInv, AloneInv
    <3>4. \A d \in Callers : call'[d].state = "MATERIALIZED_VERIFIED" => call'[d].hash = 1 .. Chunks
      BY <1>1, <2>7 DEF ZipInv, AloneInv
    <3>5. \A d, e \in Callers : Busy(d)' /\ Busy(e)' => d = e
      BY <3>1 DEF Busy
    <3> QED BY <1>0, <2>7, <3>1, <3>3, <3>4, <3>5 DEF AloneInv
  <2>16. StrandedInv'
    <3> SUFFICES ASSUME ~overlapped' PROVE StrandedInv'
      BY DEF StrandedInv
    <3>1. \A d \in Callers \ {c} : call'[d].pc \in {"idle", "dead"}
      BY <1>1, <2>7 DEF ZipInv, AloneInv, Busy
    <3>2. m \notin stranded
      BY <1>1 DEF ZipInv, StrandedInv, Busy
    <3>3. ASSUME NEW n \in stranded PROVE part(n) \in DOMAIN fs' /\ dest(n) \notin Files'
      <4>1. n \in Writable /\ n # m
        BY <3>2 DEF ZipInv, TypeOK
      <4>2. part(n) \in DOMAIN fs /\ dest(n) \notin Files
        BY <1>1 DEF ZipInv, StrandedInv, Exists
      <4>3. part(n) # part(m) /\ dest(n) # dest(m)
        BY <2>2, <4>1, NamesApart
      <4> QED BY <2>6, <2>8, <4>2, <4>3
    <3> QED BY <1>1, <2>7, <3>1, <3>2, <3>3 DEF StrandedInv, Busy, Exists, dest, part, Key
  <2> QED BY <1>0, <2>10, <2>11, <2>12, <2>13, <2>14, <2>15, <2>16 DEF ZipInv
<1> QED BY <1>3

\* The hash is that of what is at the member's name, and death takes only the caller.
LEMMA LeaveKeeps ==
    ASSUME ZipInv, NEW c \in Callers, Hash(c) \/ Crash(c)
    PROVE  ZipInv'
<1> DEFINE m == call[c].member
<1>1. Busy(c) /\ UNCHANGED <<archive, info, folds, fs, content, calls, faults, overlapped>>
  BY DEF Hash, Crash, Busy
<1>0. Writable' = Writable /\ Temps' = Temps /\ NoPartNames'
  BY <1>1, NamesStay DEF ZipInv
<1>2. call \in [Callers -> Calls]
  BY DEF ZipInv, TypeOK
<1>3. m \in Writable /\ dest(m) \notin Temps
  <2>1. m \in Writable
    BY <1>1 DEF ZipInv, CallInv
  <2> QED BY <2>1, NamesApart
<1>4. Hash(c) => dest(m) \in Files /\ fs[dest(m)] \in DOMAIN content
  <2> SUFFICES ASSUME Hash(c) PROVE dest(m) \in Files /\ fs[dest(m)] \in DOMAIN content
    OBVIOUS
  <2>1. dest(m) \in Files
    BY DEF Hash, ZipInv, CallInv, Files
  <2>2. fs \in [DOMAIN fs -> 0 .. Len(content)] /\ DOMAIN content = 1 .. Len(content)
    BY DEF ZipInv, TypeOK
  <2> QED BY <2>1, <2>2 DEF Files, Directory
<1>5. /\ call' \in [Callers -> Calls] /\ \A d \in Callers \ {c} : call'[d] = call[d]
      /\ call'[c].pc \in {"idle", "dead"}
      /\ call'[c].state = "MATERIALIZED_VERIFIED" => Hash(c) /\ call'[c].hash = content[fs[dest(m)]].chunks
  <2>1. CASE Hash(c)
    <3> DEFINE h == content[fs[dest(m)]].chunks
               mine == [pc |-> "idle", member |-> m, file |-> 0, done |-> 0,
                        state |-> "MATERIALIZED_VERIFIED", hash |-> h]
    <3>1. h \subseteq 1 .. Chunks
      BY <1>4, <2>1, InFile
    <3>2. m \in Nat /\ 0 \in 0 .. Chunks
      BY <1>3, NamesApart, ZipAssumption
    <3> HIDE DEF h
    <3>3. [[pc |-> "idle", member |-> 0, file |-> 0, done |-> 0, state |-> None, hash |-> {}] EXCEPT !.member = m] =
          [pc |-> "idle", member |-> m, file |-> 0, done |-> 0, state |-> None, hash |-> {}]
      OBVIOUS
    <3>4. [[pc |-> "idle", member |-> m, file |-> 0, done |-> 0, state |-> None, hash |-> {}]
             EXCEPT !.state = "MATERIALIZED_VERIFIED"] =
          [pc |-> "idle", member |-> m, file |-> 0, done |-> 0, state |-> "MATERIALIZED_VERIFIED", hash |-> {}]
      OBVIOUS
    <3>5. [[pc |-> "idle", member |-> m, file |-> 0, done |-> 0, state |-> "MATERIALIZED_VERIFIED", hash |-> {}]
             EXCEPT !.hash = h] = mine
      OBVIOUS
    <3>6. call' = [call EXCEPT ![c] = mine]
      BY <1>4, <2>1, <3>3, <3>4, <3>5, Zenon DEF Hash, Idle, h
    <3>7. mine \in Calls
      BY <3>1, <3>2 DEF Calls, Answers
    <3>8. mine.pc = "idle" /\ mine.hash = h
      OBVIOUS
    <3> HIDE DEF mine
    <3> QED BY <1>2, <2>1, <3>6, <3>7, <3>8 DEF h
  <2>2. CASE Crash(c)
    <3> DEFINE mine == [pc |-> "dead", member |-> 0, file |-> 0, done |-> 0, state |-> None, hash |-> {}]
    <3>0. [[pc |-> "idle", member |-> 0, file |-> 0, done |-> 0, state |-> None, hash |-> {}] EXCEPT !.pc = "dead"] =
          mine
      OBVIOUS
    <3>1. call' = [call EXCEPT ![c] = mine]
      BY <2>2, <3>0, Zenon DEF Crash, Idle
    <3>2. mine \in Calls
      BY ZipAssumption DEF Calls, Answers
    <3>3. mine.pc = "dead" /\ mine.state = None
      OBVIOUS
    <3> HIDE DEF mine
    <3> QED BY <1>2, <3>1, <3>2, <3>3 DEF None
  <2> QED BY <2>1, <2>2
<1>6. /\ Hash(c) => UNCHANGED <<crashed, stranded>> /\ call[c].pc = "hash"
      /\ Crash(c) => /\ crashed' = TRUE
                     /\ stranded' = IF call[c].pc = "write" /\ part(m) \in DOMAIN fs
                                    THEN stranded \cup {m} ELSE stranded
  BY DEF Hash, Crash, Exists
<1>7. TypeOK'
  <2>1. crashed' \in BOOLEAN /\ stranded' \subseteq Writable
    BY <1>3, <1>6 DEF ZipInv, TypeOK
  <2> QED BY <1>0, <1>1, <1>5, <2>1 DEF ZipInv, TypeOK
<1>8. PathInv'
  <2>1. \A p \in Files : LET n == content[fs[p]].member IN n \in Writable /\ p \in {dest(n), part(n)}
    BY DEF ZipInv, PathInv
  <2>2. \A p \in Files' : (LET n == content[fs[p]].member IN n \in Writable /\ p \in {dest(n), part(n)})'
    BY <1>0, <1>1, <2>1 DEF Files, dest, part, Key
  <2> QED BY <1>0, <1>1, <2>2 DEF ZipInv, PathInv, Files
<1>9. CallInv'
  <2>1. \A d \in Callers : call'[d].pc \in {"open", "write", "hash"} => call'[d] = call[d]
    BY <1>5
  <2>2. \A d \in Callers : Busy(d)' => Busy(d) /\ call'[d] = call[d]
    BY <1>1, <1>5 DEF Busy
  <2>3. \A d \in Callers : Busy(d)' => call'[d].member \in Writable
    BY <2>2 DEF ZipInv, CallInv
  <2>4. \A d \in Callers : call'[d].pc = "hash" =>
           dest(call'[d].member) \in DOMAIN fs /\ fs[dest(call'[d].member)] # Directory
    BY <2>1 DEF ZipInv, CallInv
  <2>5. \A d \in Callers : /\ call'[d].pc = "open" => call'[d].done = 0
                           /\ call'[d].pc = "write" => call'[d].file \in DOMAIN content
                                                       /\ content[call'[d].file].member = call'[d].member
    BY <2>1 DEF ZipInv, CallInv
  <2> QED BY <1>0, <1>1, <2>3, <2>4, <2>5 DEF CallInv, dest, Key
<1>10. ~crashed' => Hash(c) /\ ~crashed /\ call[c].pc = "hash"
  BY <1>6
<1>11. OwnedInv'
  <2> SUFFICES ASSUME NEW n \in Writable, part(n) \in DOMAIN fs
               PROVE  n \in stranded' \/ \E d \in Callers : call'[d].pc = "write" /\ call'[d].member = n
    BY <1>0, <1>1 DEF OwnedInv, Exists, part, Key
  <2>1. n \in stranded \/ \E d \in Callers : call[d].pc = "write" /\ call[d].member = n
    BY DEF ZipInv, OwnedInv, Exists
  <2>2. CASE call[c].pc = "write" /\ n = m
    BY <1>6, <2>2
  <2>3. CASE ~(call[c].pc = "write" /\ n = m)
    BY <1>5, <1>6, <2>1, <2>3
  <2> QED BY <2>2, <2>3
<1>12. LastOpenerInv'
  <2>1. \A d \in Callers : call[d].pc = "write" /\ ~crashed' => call'[d] = call[d]
    BY <1>5, <1>10
  <2> QED BY <1>1, <1>10, <2>1 DEF ZipInv, LastOpenerInv
<1>13. AloneInv'
  <2> SUFFICES ASSUME ~overlapped' PROVE AloneInv'
    BY DEF AloneInv
  <2>1. \A d \in Callers : call'[d].pc \in {"idle", "dead"}
    BY <1>1, <1>5 DEF ZipInv, AloneInv, Busy
  <2>2. \A p \in Files : p \notin Temps => content[fs[p]].chunks = 1 .. Chunks
    BY <1>1 DEF ZipInv, AloneInv
  <2>3. \A d \in Callers : call'[d].state = "MATERIALIZED_VERIFIED" => call'[d].hash = 1 .. Chunks
    BY <1>1, <1>3, <1>4, <1>5, <2>2 DEF ZipInv, AloneInv
  <2>4. \A p \in Files' : p \notin Temps => content'[fs'[p]].chunks = 1 .. Chunks
    BY <1>1, <2>2 DEF Files
  <2> QED BY <1>0, <2>1, <2>3, <2>4 DEF AloneInv, Busy
<1>14. StrandedInv'
  <2> SUFFICES ASSUME ~overlapped' PROVE StrandedInv'
    BY DEF StrandedInv
  <2>1. \A d \in Callers : call'[d].pc \in {"idle", "dead"}
    BY <1>1, <1>5 DEF ZipInv, AloneInv, Busy
  <2>2. \A n \in stranded : part(n) \in DOMAIN fs /\ dest(n) \notin Files
    BY <1>1 DEF ZipInv, StrandedInv, Exists
  <2>3. call[c].pc = "write" => dest(m) \notin Files
    BY <1>1 DEF ZipInv, StrandedInv
  <2>4. \A n \in stranded' : part(n) \in DOMAIN fs /\ dest(n) \notin Files
    BY <1>6, <2>2, <2>3
  <2> QED BY <1>1, <2>1, <2>4 DEF StrandedInv, Busy, Exists, Files, dest, part, Key
<1> QED BY <1>0, <1>7, <1>8, <1>9, <1>11, <1>12, <1>13, <1>14 DEF ZipInv

LEMMA NextKeeps == ZipInv /\ [Next]_vars => ZipInv'
<1> SUFFICES ASSUME ZipInv, [Next]_vars PROVE ZipInv'
  OBVIOUS
<1>1. ASSUME UNCHANGED vars PROVE ZipInv'
  BY <1>1 DEF vars, ZipInv, NoPartNames, TypeOK, PathInv, CallInv, OwnedInv, StrandedInv, LastOpenerInv,
              AloneInv, Files, Busy, Exists, Writable, Temps, dest, part, Key
<1>2. ASSUME NEW c \in Callers, OpenFails(c) \/ StreamFails(c) \/ PublishFails(c) PROVE ZipInv'
  <2>1. {"OUTPUT_PATH_REFUSED", "DECOMPRESSION_OR_CRC_FAILED"} \subseteq Answers \ {"MATERIALIZED_VERIFIED"}
    BY DEF Answers
  <2>2. CASE OpenFails(c)
    BY <2>1, <2>2, EndKeeps DEF OpenFails
  <2>3. CASE StreamFails(c)
    BY <2>1, <2>3, EndKeeps DEF StreamFails
  <2>4. CASE PublishFails(c)
    BY <2>1, <2>4, EndKeeps DEF PublishFails, Complete
  <2> QED BY <1>2, <2>2, <2>3, <2>4
<1>3. ASSUME NEW c \in Callers,
             Start(c) \/ Open(c) \/ Write(c) \/ Publish(c) \/ Hash(c) \/ Crash(c)
      PROVE  ZipInv'
  BY <1>3, StartKeeps, OpenKeeps, WriteKeeps, PublishKeeps, LeaveKeeps
<1>4. CASE AllDone
  BY <1>1, <1>4 DEF AllDone
<1> QED BY <1>1, <1>2, <1>3, <1>4 DEF Next

\* The container never changes, so its names are in order always or never.
LEMMA NamesStayInOrder == [Next]_vars => (NoPartNames' => NoPartNames)
<1> SUFFICES ASSUME [Next]_vars PROVE UNCHANGED <<info, folds>>
  BY NamesStay
<1> QED BY DEF Next, Start, Open, OpenFails, Write, StreamFails, Publish, PublishFails, Hash, Crash,
               AllDone, vars

LEMMA ZipCorrect == Spec => [](NoPartNames => ZipInv)
<1>1. Init => (NoPartNames => ZipInv)
  BY InitZip
<1>2. (NoPartNames => ZipInv) /\ [Next]_vars => (NoPartNames => ZipInv)'
  BY NextKeeps, NamesStayInOrder
<1> QED BY <1>1, <1>2, PTL DEF Spec

-----------------------------------------------------------------------------
(* Theorems *)

\* In every container in which no member is called like another's temporary
\* file, however else members are spelled and on any file system, a file under
\* the root holds the one member that may be written under its name.
THEOREM NamesDenoteOneMember == Spec => []MembersKeepApart
<1>1. (NoPartNames => ZipInv) => MembersKeepApart
  <2> SUFFICES ASSUME ZipInv, NEW p \in Files
               PROVE  LET m == content[fs[p]].member
                      IN m \in Writable /\ p \in {dest(m), part(m)}
                         /\ \A n \in Writable \ {m} : p \notin {dest(n), part(n)}
    BY DEF MembersKeepApart
  <2> DEFINE m == content[fs[p]].member
  <2>1. m \in Writable /\ p \in {dest(m), part(m)}
    BY DEF ZipInv, PathInv
  <2> HIDE DEF m
  <2>2. \A n \in Writable \ {m} : p \notin {dest(n), part(n)}
    BY <2>1, NamesApart
  <2> QED BY <2>1, <2>2 DEF m
<1> QED BY <1>1, ZipCorrect, PTL

\* Whatever callers share, when they are done the published files are whole,
\* unless one died or failed while they overlapped, and a lone caller's hash is
\* that of a whole file, in every container in which no member is called like
\* another's temporary file.
THEOREM PublishedFilesAreWhole == Spec => [](NoPartNames => PublishedIsWhole)
<1>1. ZipInv => PublishedIsWhole
  <2> SUFFICES ASSUME ZipInv PROVE PublishedIsWhole
    OBVIOUS
  <2>1. ASSUME Quiet, ~(overlapped /\ (crashed \/ faults > 0)), NEW p \in Files, p = dest(content[fs[p]].member)
        PROVE  content[fs[p]].chunks = 1 .. Chunks
    <3>1. CASE ~overlapped
      <4>1. content[fs[p]].member \in Writable
        BY DEF ZipInv, PathInv
      <4>2. p \notin Temps
        BY <2>1, <4>1, NamesApart
      <4> QED BY <3>1, <4>2 DEF ZipInv, AloneInv
    <3>2. CASE ~crashed /\ faults = 0
      <4>1. fs[p] \in DOMAIN content
        <5>1. fs \in [DOMAIN fs -> 0 .. Len(content)] /\ DOMAIN content = 1 .. Len(content)
          BY DEF ZipInv, TypeOK
        <5> QED BY <5>1 DEF Files, Directory
      <4>2. \A d \in Callers : call[d].pc # "write"
        BY <2>1 DEF Quiet, Busy
      <4> QED BY <3>2, <4>1, <4>2 DEF ZipInv, LastOpenerInv
    <3>3. faults \in Nat
      BY DEF ZipInv, TypeOK
    <3> QED BY <2>1, <3>1, <3>2, <3>3
  <2>2. ~overlapped => \A c \in Callers :
            call[c].state = "MATERIALIZED_VERIFIED" => call[c].hash = 1 .. Chunks
    BY DEF ZipInv, AloneInv
  <2> QED BY <2>1, <2>2 DEF PublishedIsWhole
<1> QED BY <1>1, ZipCorrect, PTL

\* A temporary file has a caller that writes its member, or a call of that member
\* died over it or could not remove it; and what calls that did not overlap left
\* behind stays, so that its member is never published.
THEOREM LeftoversHaveAReason == Spec => []LeftoversExplained
<1>1. (NoPartNames => ZipInv) => LeftoversExplained
  <2> SUFFICES ASSUME ZipInv PROVE LeftoversExplained
    BY DEF LeftoversExplained
  <2> QED BY DEF ZipInv, OwnedInv, StrandedInv, LeftoversExplained
<1> QED BY <1>1, ZipCorrect, PTL

=============================================================================
