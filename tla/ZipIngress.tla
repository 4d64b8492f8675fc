----------------------------- MODULE ZipIngress -----------------------------
(***************************************************************************)
(* ZIP containers (extract/container_ingress.cpp): inspect_zip_container   *)
(* decides from the central directory which members may be written, and    *)
(* materialize_zip_member writes one of them under an output root, through *)
(* a temporary file that is renamed when size and CRC agreed.  It is a     *)
(* library call, so callers may overlap, fail or die half way.             *)
(*                                                                         *)
(* A name is a sequence of tokens: letters, separators, "..", "con" (a     *)
(* reserved name), "u" (not ASCII), and ".part" with a number in unary,    *)
(* for the temporary files' ".auto-refirst-part-<index>", which a member   *)
(* may bear as well.  A file's content is the member it was written for    *)
(* and the chunks of it that are there.                                    *)
(***************************************************************************)
EXTENDS Integers, Sequences, SequencesExt, FiniteSets

CONSTANTS
    Archives,             \* what the container may be: sequences of members
    MaxMemberBytes, MaxTotalBytes, MaxRatio, MaxMembers, MaxDepth,
    Callers, Chunks,      \* chunks a member is written in
    MaxCalls, MaxFaults   \* bounds of the model

Tokens == {"a", "A", "b", "/", "\\", "..", "con", "u", ".part", "|"}

Kinds == {"file", "dir", "link", "special", "encrypted", "unsupported"}

\* A member as the central directory has it: "agrees" is explained at Structured.
Member == [name : Seq(Tokens), kind : Kinds, size : Nat, packed : Nat, agrees : BOOLEAN]

\* Left out are members in a directory that is called like a temporary file:
\* rename and remove would then act on directories.
ASSUME ZipAssumption ==
    /\ \A a \in Archives : a \in Seq(Member)
    /\ \A a \in Archives : \A i \in DOMAIN a : \A j, k \in DOMAIN a[i].name :
          a[i].name[j] = ".part" /\ j < k => a[i].name[k] \notin {"/", "\\"}
    /\ Chunks \in Nat \ {0} /\ MaxRatio \in Nat /\ MaxMemberBytes \in Nat /\ MaxTotalBytes \in Nat
    /\ MaxMembers \in Nat /\ MaxDepth \in Nat /\ MaxCalls \in Nat /\ MaxFaults \in Nat

VARIABLES
    archive, info,   \* the container and what was found out about it
    folds,           \* the file system under the root ignores case
    fs, content,     \* path |-> Directory or a file; file |-> what is in it
    call,            \* per caller: what materialize_zip_member is doing
    stranded,        \* members whose temporary file a call of theirs could not
                     \* remove or died over
    calls, faults, crashed, overlapped

vars == <<archive, info, folds, fs, content, call, stranded, calls, faults, crashed, overlapped>>

None == "none"

Directory == 0

Idle == [pc |-> "idle", member |-> 0, file |-> 0, done |-> 0, state |-> None, hash |-> {}]

-----------------------------------------------------------------------------
(* Names.  Definitions named <definition>_<fault> are mutants. *)

Slashed(raw) == [i \in DOMAIN raw |-> IF raw[i] = "\\" THEN "/" ELSE raw[i]]

\* A directory's name without the separators at its end.
Normalized(raw, directory) ==
    LET s == Slashed(raw)
    IN IF directory THEN SubSeq(s, 1, Max({0} \cup {i \in DOMAIN s : s[i] # "/"})) ELSE s

\* The components of a path: its longest stretches without a separator.
Components(path) ==
    {SubSeq(path, r[1], r[2]) : r \in
        {q \in (1 .. Len(path)) \X (0 .. Len(path)) :
            /\ q[1] <= q[2] + 1
            /\ q[1] = 1 \/ path[q[1] - 1] = "/"
            /\ q[2] = Len(path) \/ path[q[2] + 1] = "/"
            /\ \A i \in q[1] .. q[2] : path[i] # "/"}}

safe_relative_name(raw, directory) ==
    LET path == Normalized(raw, directory)
    IN /\ raw # <<>> /\ Slashed(raw)[1] # "/"
       /\ path # <<>> /\ Last(path) # "/"
       /\ \A part \in Components(path) : part # <<>> /\ part # <<"con">> /\ Last(part) # ".."

portable(raw) == \A i \in DOMAIN raw : raw[i] # "u"

lower_ascii(path) == [i \in DOMAIN path |-> IF path[i] = "A" THEN "a" ELSE path[i]]

-----------------------------------------------------------------------------
(* inspect_zip_container *)

\* A member's local header, its descriptor and its place in the file agree
\* with the central directory ("agrees" stands for all those comparisons).
Structured(a) == \A i \in DOMAIN a : a[i].agrees

Identity(m) ==
    [path |-> Normalized(m.name, m.kind = "dir"), safe |-> safe_relative_name(m.name, m.kind = "dir"),
     portable |-> portable(m.name)]

\* Collisions are looked for among the directory's own spellings only.
SameFold_CaseBlind(path, other) == path = other

SameFold(path, other) == lower_ascii(path) = lower_ascii(other)

\* The safe members that case_seen finds under the folded path of member i.
Alike(ids, i) == {j \in DOMAIN ids : ids[j].safe /\ SameFold(ids[i].path, ids[j].path)}

\* The one case_seen holds: later members are compared with it alone.
Earliest(ids, i) == \A j \in Alike(ids, i) : i <= j

\* Every member of a path that comes twice is marked, the first one included.
duplicate_path(ids, i) == \E j \in Alike(ids, i) \ {i} : ids[j].path = ids[i].path

\* Two spellings are both marked when one of them is the earliest.
case_collision(ids, i) ==
    \E j \in Alike(ids, i) : ids[j].path # ids[i].path /\ (Earliest(ids, i) \/ Earliest(ids, j))

finalize_member_state(ids, i, m) ==
    CASE ~ids[i].safe -> "UNSAFE_PATH"
      [] ids[i].safe /\ ~ids[i].portable -> "PORTABILITY_UNVERIFIED"
      [] OTHER ->
         CASE m.kind = "link" -> "LINK_REFUSED"
           [] m.kind = "special" -> "SPECIAL_FILE_REFUSED"
           [] m.kind = "dir" -> "DIRECTORY"
           [] OTHER ->
              IF duplicate_path(ids, i) THEN "DUPLICATE_PATH_REFUSED" ELSE
              IF case_collision(ids, i) THEN "CASE_COLLISION_REFUSED" ELSE
              IF m.kind = "encrypted" THEN "EXPLICIT_CREDENTIAL_REQUIRED" ELSE
              IF m.kind = "unsupported" THEN "UNSUPPORTED_METHOD" ELSE
              IF m.size > MaxMemberBytes \/ m.size > MaxRatio * m.packed THEN "BUDGET_REFUSED"
              ELSE "SAFE_TO_MATERIALIZE"

inspect_zip_container(a) ==
    LET ids == [i \in DOMAIN a |-> Identity(a[i])]
        members == [i \in DOMAIN a |-> [path |-> ids[i].path,
                                        state |-> finalize_member_state(ids, i, a[i])]]
        regular == {i \in DOMAIN a : a[i].kind # "dir"}
        gated == \E i \in regular : members[i].state # "SAFE_TO_MATERIALIZE"
    IN IF Len(a) > MaxMembers THEN [state |-> "REFUSED", members |-> <<>>] ELSE
       IF ~Structured(a) THEN [state |-> "MALFORMED", members |-> <<>>] ELSE
       [state |-> IF regular # {} /\ \A i \in regular : a[i].kind = "encrypted"
                  THEN "EXPLICIT_CREDENTIAL_REQUIRED" ELSE
                  IF gated THEN "CONFIRMED_WITH_POLICY_GATES" ELSE "CONFIRMED",
        members |-> members]

-----------------------------------------------------------------------------
(* materialize_zip_member *)

Key(path) == IF folds THEN lower_ascii(path) ELSE path

dest(m) == Key(info.members[m].path)

Temporary(path, m) == path \o <<".part">> \o [i \in 1 .. m |-> "|"]

part(m) == Temporary(Key(info.members[m].path), m)

Parents(m) ==
    {Key(SubSeq(info.members[m].path, 1, i - 1)) :
        i \in {j \in DOMAIN info.members[m].path : info.members[m].path[j] = "/"}}

Exists(p) == p \in DOMAIN fs

Files == {p \in DOMAIN fs : fs[p] # Directory}

Overlay(f, g) == [x \in DOMAIN f \cup DOMAIN g |-> IF x \in DOMAIN g THEN g[x] ELSE f[x]]

Without(f, p) == [x \in DOMAIN f \ {p} |-> f[x]]

Fault == faults < MaxFaults

Init ==
    /\ archive \in Archives /\ info = inspect_zip_container(archive)
    /\ folds \in BOOLEAN
    /\ fs = << >> /\ content = <<>>
    /\ call = [c \in Callers |-> Idle] /\ stranded = {}
    /\ calls = 0 /\ faults = 0 /\ crashed = FALSE /\ overlapped = FALSE

Busy(c) == call[c].pc \notin {"idle", "dead"}

Returns(c, state) == call' = [call EXCEPT ![c] = [Idle EXCEPT !.member = call[c].member, !.state = state]]

\* What is looked at before anything is opened: verdict, depth, budget, parents
\* and both names.
Refused(m, depth, left) ==
    IF info.members[m].state # "SAFE_TO_MATERIALIZE" THEN info.members[m].state ELSE
    IF depth >= MaxDepth \/ archive[m].size > left THEN "BUDGET_REFUSED" ELSE
    IF \E p \in Parents(m) : Exists(p) /\ fs[p] # Directory THEN "OUTPUT_PATH_REFUSED" ELSE
    IF Exists(dest(m)) \/ Exists(part(m)) THEN "OUTPUT_PATH_REFUSED" ELSE None

\* The parents are made before the names are looked at.
MakesParents(m, depth, left) ==
    /\ info.members[m].state = "SAFE_TO_MATERIALIZE" /\ depth < MaxDepth /\ archive[m].size <= left
    /\ \A p \in Parents(m) : Exists(p) => fs[p] = Directory

Start(c) ==
    /\ call[c].pc = "idle" /\ calls < MaxCalls
    /\ \E m \in DOMAIN info.members, depth \in 0 .. MaxDepth, left \in {0, MaxTotalBytes} :
          /\ call' = [call EXCEPT ![c] =
                [Idle EXCEPT !.pc = IF Refused(m, depth, left) = None THEN "open" ELSE "idle",
                             !.member = m, !.state = Refused(m, depth, left)]]
          /\ fs' = IF MakesParents(m, depth, left)
                   THEN Overlay(fs, [p \in Parents(m) |-> Directory]) ELSE fs
    /\ calls' = calls + 1
    /\ overlapped' = (overlapped \/ \E d \in Callers \ {c} : Busy(d))
    /\ UNCHANGED <<archive, info, folds, content, stranded, faults, crashed>>

\* The temporary file is opened for writing: made, or emptied if it is there.
Open(c) ==
    /\ call[c].pc = "open"
    /\ LET m == call[c].member
           file == IF Exists(part(m)) THEN fs[part(m)] ELSE Len(content) + 1
           empty == [member |-> m, chunks |-> {}]
       IN /\ fs' = Overlay(fs, [p \in {part(m)} |-> file])
          /\ content' = IF file <= Len(content) THEN [content EXCEPT ![file] = empty]
                        ELSE Append(content, empty)
          /\ call' = [call EXCEPT ![c].pc = "write", ![c].file = file]
    /\ UNCHANGED <<archive, info, folds, stranded, calls, faults, crashed, overlapped>>

OpenFails(c) ==
    /\ call[c].pc = "open" /\ Fault
    /\ Returns(c, "OUTPUT_PATH_REFUSED") /\ faults' = faults + 1
    /\ UNCHANGED <<archive, info, folds, fs, content, stranded, calls, crashed, overlapped>>

Write(c) ==
    /\ call[c].pc = "write" /\ call[c].done < Chunks
    /\ content' = [content EXCEPT ![call[c].file].chunks = @ \cup {call[c].done + 1}]
    /\ call' = [call EXCEPT ![c].done = @ + 1]
    /\ UNCHANGED <<archive, info, folds, fs, stranded, calls, faults, crashed, overlapped>>

Gone(p) == IF Exists(p) THEN Without(fs, p) ELSE fs

\* The temporary file of a call is removed, or stays because remove fails too,
\* which nobody is told.
Removed(m) == fs' = Gone(part(m)) /\ stranded' = stranded

NotRemoved(m) == Exists(part(m)) /\ fs' = fs /\ stranded' = stranded \cup {m}

\* A short or over-long stream, a wrong CRC, a full disk: the file goes.
StreamFails_Kept(c) ==
    /\ call[c].pc = "write" /\ Fault
    /\ fs' = fs /\ stranded' = stranded
    /\ Returns(c, "DECOMPRESSION_OR_CRC_FAILED") /\ faults' = faults + 1
    /\ UNCHANGED <<archive, info, folds, content, calls, crashed, overlapped>>

StreamFails(c) ==
    /\ call[c].pc = "write" /\ Fault
    /\ Removed(call[c].member) \/ NotRemoved(call[c].member)
    /\ Returns(c, "DECOMPRESSION_OR_CRC_FAILED") /\ faults' = faults + 1
    /\ UNCHANGED <<archive, info, folds, content, calls, crashed, overlapped>>

Complete_Early(c) == call[c].pc = "write" /\ call[c].done >= Chunks - 1

Complete(c) == call[c].pc = "write" /\ call[c].done = Chunks

\* The rename replaces a file, and fails when another caller has moved the
\* temporary file away or made a directory of the member's name.
CanPublish(m) == Exists(part(m)) /\ ~(Exists(dest(m)) /\ fs[dest(m)] = Directory)

Publish(c) ==
    /\ Complete(c) /\ CanPublish(call[c].member)
    /\ LET m == call[c].member
       IN fs' = Overlay(Without(fs, part(m)), [p \in {dest(m)} |-> fs[part(m)]])
    /\ call' = [call EXCEPT ![c].pc = "hash"]
    /\ UNCHANGED <<archive, info, folds, content, stranded, calls, faults, crashed, overlapped>>

PublishFails(c) ==
    /\ Complete(c)
    /\ \/ ~CanPublish(call[c].member) /\ Removed(call[c].member) /\ faults' = faults
       \/ /\ Fault /\ faults' = faults + 1
          /\ Removed(call[c].member) \/ NotRemoved(call[c].member)
    /\ Returns(c, "OUTPUT_PATH_REFUSED")
    /\ UNCHANGED <<archive, info, folds, content, calls, crashed, overlapped>>

\* sha256_file reads what is there now, if anything.
Hash(c) ==
    /\ call[c].pc = "hash"
    /\ LET p == dest(call[c].member)
       IN call' = [call EXCEPT ![c] = [Idle EXCEPT !.member = call[c].member,
                     !.state = "MATERIALIZED_VERIFIED",
                     !.hash = IF p \in Files THEN content[fs[p]].chunks ELSE {}]]
    /\ UNCHANGED <<archive, info, folds, fs, content, stranded, calls, faults, crashed, overlapped>>

Crash(c) ==
    /\ Busy(c) /\ ~crashed
    /\ call' = [call EXCEPT ![c] = [Idle EXCEPT !.pc = "dead"]] /\ crashed' = TRUE
    /\ stranded' = IF call[c].pc = "write" /\ Exists(part(call[c].member))
                   THEN stranded \cup {call[c].member} ELSE stranded
    /\ UNCHANGED <<archive, info, folds, fs, content, calls, faults, overlapped>>

AllDone ==
    /\ \A c \in Callers : ~Busy(c)
    /\ calls = MaxCalls \/ info.members = <<>> \/ \A c \in Callers : call[c].pc = "dead"
    /\ UNCHANGED vars

Next ==
    \/ \E c \in Callers : \/ Start(c) \/ Open(c) \/ OpenFails(c) \/ Write(c) \/ StreamFails(c)
                          \/ Publish(c) \/ PublishFails(c) \/ Hash(c) \/ Crash(c)
    \/ AllDone

Spec == Init /\ [][Next]_vars

-----------------------------------------------------------------------------
(* Properties *)

Quiet == \A c \in Callers : ~Busy(c)

Writable == {m \in DOMAIN info.members : info.members[m].state = "SAFE_TO_MATERIALIZE"}

\* No member is called like the temporary file of another.  The inspection does
\* not look for such names; where they are, callers that overlap, a death or a
\* file that was not removed may put one member's bytes under another's name.
NoPartNames == \A m, n \in Writable : part(m) # dest(n)

\* As long as no member is called like another's temporary file, and also where
\* the file system ignores case, a file under the root only ever holds the
\* member that bears its name, whatever spellings the container mixes: no two
\* members that may be written share a name, final or temporary.
MembersKeepApart ==
    NoPartNames => \A p \in Files :
        LET m == content[fs[p]].member
        IN m \in Writable /\ p \in {dest(m), part(m)}
           /\ \A n \in Writable \ {m} : p \notin {dest(n), part(n)}

\* Once the callers are done a file under a member's own name is whole, even
\* when they shared the temporary file, unless one died or failed while they
\* overlapped; and the recorded hash is the file's when nobody interfered.
PublishedIsWhole ==
    /\ Quiet /\ ~(overlapped /\ (crashed \/ faults > 0)) => \A p \in Files :
           p = dest(content[fs[p]].member) => content[fs[p]].chunks = 1 .. Chunks
    /\ ~overlapped => \A c \in Callers :
           call[c].state = "MATERIALIZED_VERIFIED" => call[c].hash = 1 .. Chunks

\* A temporary file has a caller that writes its member, unless a call of that
\* very member died over it or failed to remove it (and no member is called like
\* it).  When callers do not overlap that is for ever: the name is taken, so
\* every later call is refused and the member is never published.
LeftoversExplained ==
    NoPartNames =>
        /\ \A m \in Writable : Exists(part(m)) =>
              m \in stranded \/ \E c \in Callers : call[c].pc = "write" /\ call[c].member = m
        /\ ~overlapped => \A m \in stranded : Exists(part(m)) /\ dest(m) \notin Files

=============================================================================
