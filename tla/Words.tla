-------------------------------- MODULE Words --------------------------------
(* Offsets, lengths and counts as the parsers handle them: unsigned words of   *)
(* limited width, with the checked operations the sources share, and ranges    *)
(* of a file.  WordLimit stands for 2^64 (or 2^32 where the source says so).   *)
EXTENDS Integers, Sequences, FiniteSets, SequencesExt

CONSTANT WordLimit

ASSUME WordAssumption == WordLimit \in Nat /\ WordLimit > 1

checked_add(a, b) == a + b < WordLimit

checked_mul(a, b) == a * b < WordLimit

\* A bounds check that forms the sum first.
span_in_bounds_Wrapping(size, off, len) == (off + len) % WordLimit <= size

\* The comparison the bounds checks use, which cannot wrap around.
span_in_bounds(size, off, len) == off <= size /\ len <= size - off

range(off, len) == [off |-> off, len |-> len]

Inside(r, size) == r.off >= 0 /\ r.len >= 0 /\ r.off + r.len <= size

Overlap(r, s) == r.off < s.off + s.len /\ s.off < r.off + r.len

\* Sorting the ranges and comparing neighbours, as the parsers do, finds an
\* overlap if and only if two of them overlap (empty ranges aside).
NeighboursOverlap(rs) ==
    LET sorted == SortSeq(rs, LAMBDA r, s : r.off < s.off \/ (r.off = s.off /\ r.len < s.len))
    IN \E i \in 2 .. Len(sorted) : sorted[i].off < sorted[i - 1].off + sorted[i - 1].len

Disjoint(rs) == \A i, j \in DOMAIN rs : i # j => ~Overlap(rs[i], rs[j])

\* What a parser leaves behind: the state of its finding, whether it takes the
\* structure for valid, and the ranges of the file it names.
Failed == [state |-> "FAILED", valid |-> FALSE, ranges |-> <<>>]

Partial(rs) == [state |-> "PARTIAL", valid |-> FALSE, ranges |-> rs]

Confirmed(rs) == [state |-> "CONFIRMED", valid |-> TRUE, ranges |-> rs]

Absent == [state |-> "ABSENT", valid |-> FALSE, ranges |-> <<>>]

\* A cursor that has left its bounds.
Bad == -1

\* The first index at which one of two things happens, 0 if neither does.
FirstWhere(n, P(_)) ==
    IF \E i \in 1 .. n : P(i) THEN CHOOSE i \in 1 .. n : P(i) /\ \A j \in 1 .. i - 1 : ~P(j) ELSE 0

SumOver(n, f(_)) == FoldFunction(+, 0, [i \in 1 .. n |-> f(i)])

\* What is reached from the seed in at most n steps.
Closure(seed, next(_), n) ==
    LET grow[k \in 0 .. n] == IF k = 0 THEN seed ELSE LET s == grow[k - 1] IN s \cup UNION {next(t) : t \in s}
    IN grow[n]

\* An input and all that differ from it in at most two fields.
Variants(base, alt) ==
    LET One(x) == {[x EXCEPT ![f] = v] : <<f, v>> \in UNION {{f} \X alt[f] : f \in DOMAIN alt}}
    IN {base} \cup One(base) \cup UNION {One(x) : x \in One(base)}

IsVariant(x, base, alt) ==
    \/ x = base
    \/ \E f, g \in DOMAIN alt : \E v \in alt[f], w \in alt[g] : x = [base EXCEPT ![f] = v, ![g] = w]
=============================================================================
