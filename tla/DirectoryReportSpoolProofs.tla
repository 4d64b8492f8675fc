-------------------- MODULE DirectoryReportSpoolProofs --------------------
(***************************************************************************)
(* Proofs about DirectoryReportSpool, for any set of inputs, any sizes of  *)
(* reports and chunks and any budgets: the counters are exact, the disk    *)
(* never holds more than the reported peak, and the errors the code calls  *)
(* invariants cannot occur.                                                *)
(***************************************************************************)
EXTENDS DirectoryReportSpool, FiniteSetTheorems, TLAPS

-----------------------------------------------------------------------------
(* Totals of bytes *)

\* The cells of a set of files are finite, so a total is a natural number.
LEMMA BytesType ==
    ASSUME NEW S \in SUBSET Inputs, NEW n
    PROVE  IsFiniteSet(Cells(S, n)) /\ Bytes(S, n) \in Nat
<1>1. IsFiniteSet(S)
  BY SpoolAssumption, FS_Subset
<1>2. IsFiniteSet(1 .. WordMax)
  BY SpoolAssumption, FS_Interval
<1>3. IsFiniteSet(S \X (1 .. WordMax))
  BY <1>1, <1>2, FS_Product
<1>4. Cells(S, n) \in SUBSET (S \X (1 .. WordMax))
  BY DEF Cells
<1>5. IsFiniteSet(Cells(S, n))
  BY <1>3, <1>4, FS_Subset
<1> QED BY <1>5, FS_CardinalityType DEF Bytes

\* No file, no bytes.
LEMMA BytesEmpty == ASSUME NEW n PROVE Bytes({}, n) = 0
<1>1. Cells({}, n) = {}
  BY DEF Cells
<1> QED BY <1>1, FS_EmptySet DEF Bytes

\* Fewer files hold no more bytes.
LEMMA BytesSubset ==
    ASSUME NEW S \in SUBSET Inputs, NEW T \in SUBSET S, NEW n
    PROVE  Bytes(T, n) <= Bytes(S, n)
<1>1. Cells(T, n) \in SUBSET Cells(S, n)
  BY DEF Cells
<1> QED BY <1>1, BytesType, FS_Subset DEF Bytes

\* Only the sizes of the files of S matter.
LEMMA BytesCongruence ==
    ASSUME NEW S, NEW m, NEW n, \A i \in S : m[i] = n[i]
    PROVE  Bytes(S, m) = Bytes(S, n)
<1>1. Cells(S, m) = Cells(S, n)
  BY DEF Cells
<1> QED BY <1>1 DEF Bytes

\* One file holds as many bytes as its size says.
LEMMA BytesSingleton ==
    ASSUME NEW i \in Inputs, NEW n, n[i] \in 0 .. WordMax
    PROVE  Bytes({i}, n) = n[i]
<1> DEFINE T == 1 .. n[i]
           f == [k \in T |-> <<i, k>>]
<1>0. WordMax \in Nat
  BY SpoolAssumption
<1>1. Cells({i}, n) = {<<i, k>> : k \in T}
  BY <1>0 DEF Cells
<1>2. f \in Bijection(T, Cells({i}, n))
  <2>1. f \in [T -> Cells({i}, n)]
    BY <1>1
  <2>2. IsInjective(f)
    BY DEF IsInjective
  <2>3. \A t \in Cells({i}, n) : \E s \in T : f[s] = t
    BY <1>1
  <2> QED BY <2>1, <2>2, <2>3 DEF Bijection, Injection, Surjection
<1>3. ExistsBijection(T, Cells({i}, n))
  BY <1>2 DEF ExistsBijection
<1>4. IsFiniteSet(T) /\ Cardinality(T) = n[i]
  <2>1. n[i] \in Nat
    BY <1>0
  <2>2. /\ IsFiniteSet(T)
        /\ Cardinality(T) = IF 1 > n[i] THEN 0 ELSE n[i] - 1 + 1
    BY <2>1, FS_Interval
  <2> QED BY <2>1, <2>2
<1> QED BY <1>3, <1>4, FS_Bijection DEF Bytes

\* A file that joins a set brings its size.
LEMMA BytesAdd ==
    ASSUME NEW S \in SUBSET Inputs, NEW i \in Inputs \ S,
           NEW n, n[i] \in 0 .. WordMax
    PROVE  Bytes(S \cup {i}, n) = Bytes(S, n) + n[i]
<1>1. Cells(S \cup {i}, n) = Cells(S, n) \cup Cells({i}, n)
  BY DEF Cells
<1>2. Cells(S, n) \cap Cells({i}, n) = {}
  BY DEF Cells
<1>3. IsFiniteSet(Cells(S, n)) /\ IsFiniteSet(Cells({i}, n))
  BY BytesType
<1>4. Bytes(S \cup {i}, n) = Bytes(S, n) + Bytes({i}, n) - Cardinality({})
  BY <1>1, <1>2, <1>3, FS_Union DEF Bytes
<1>5. Bytes({i}, n) = n[i]
  BY BytesSingleton
<1>6. Bytes(S, n) \in Nat /\ n[i] \in Int /\ Cardinality({}) = 0
  BY SpoolAssumption, BytesType, FS_EmptySet
<1> QED BY <1>4, <1>5, <1>6

\* A file that leaves a set takes its size along.
LEMMA BytesRemove ==
    ASSUME NEW S \in SUBSET Inputs, NEW i \in S,
           NEW n, n[i] \in 0 .. WordMax
    PROVE  Bytes(S \ {i}, n) = Bytes(S, n) - n[i]
<1>1. (S \ {i}) \cup {i} = S
  OBVIOUS
<1>2. Bytes(S, n) = Bytes(S \ {i}, n) + n[i]
  BY <1>1, BytesAdd
<1> QED BY <1>2, BytesType

-----------------------------------------------------------------------------
(* Every step preserves the inductive invariant *)

\* The initial state satisfies it.
LEMMA InitInv == Init => IInv
<1> SUFFICES ASSUME Init PROVE IInv
  OBVIOUS
<1> USE SpoolAssumption, NobodyAssumption DEF Init
<1>1. TypeOK
  <2>1. priorities_finalized \in BOOLEAN
    BY Zenon
  <2>2. full \in [Inputs -> 0 .. WordMax] /\ size \in [Inputs -> 0 .. WordMax]
    OBVIOUS
  <2>3. priority \in [Inputs -> Int] /\ reason \in [Inputs -> Reasons]
    BY DEF Reasons
  <2> QED BY <2>1, <2>2, <2>3 DEF TypeOK, PCs
<1>2. Accounting
  BY BytesEmpty DEF Accounting
<1>3. RecordsInv /\ StreamInv /\ DiskInv
  BY DEF RecordsInv, StreamInv, DiskInv
<1>4. BudgetInv
  BY DEF BudgetInv, HardBytes
<1>5. NoInternalFailure /\ NoFalseAlarm
  BY DEF NoInternalFailure, NoFalseAlarm, InternalErrors
<1> QED BY <1>1, <1>2, <1>3, <1>4, <1>5 DEF IInv

\* An operation that fails leaves the books as they were, provided its error
\* is one that the environment may cause.
LEMMA FailInv ==
    ASSUME IInv, NEW e \in ExternalErrors, Fail(e),
           pc \notin {"enforce", "select", "closed"},
           ~Interference => e \notin {"remove", "unavailable", "size changed", "unaccounted"}
    PROVE  IInv'
<1> USE DEF Fail, IInv, recordVars, streamVars, counterVars, diskVars
<1>1. TypeOK'
  BY DEF TypeOK, PCs
<1>2. Accounting'
  BY DEF Accounting, Bytes, Cells
<1>3. RecordsInv'
  BY DEF RecordsInv
<1>4. StreamInv'
  BY DEF StreamInv
<1>5. DiskInv'
  BY DEF DiskInv
<1>6. BudgetInv'
  BY DEF BudgetInv
<1>7. NoInternalFailure' /\ NoFalseAlarm'
  BY DEF NoInternalFailure, NoFalseAlarm, InternalErrors, ExternalErrors
<1> QED BY <1>1, <1>2, <1>3, <1>4, <1>5, <1>6, <1>7

\* Opening a payload adds an empty file.
LEMMA AddOpenInv ==
    ASSUME IInv, NEW i \in Inputs, NEW p \in Priorities, AddOpen(i, p)
    PROVE  IInv'
<1> USE SpoolAssumption, NobodyAssumption
    DEF AddOpen, Goto, IInv, counterVars
<1>1. TypeOK'
  BY DEF TypeOK, PCs
<1>2. Accounting'
  BY DEF Accounting, Bytes, Cells
<1>3. RecordsInv'
  BY DEF RecordsInv, TypeOK
<1>4. StreamInv'
  BY DEF StreamInv, TypeOK, MinOf
<1>5. DiskInv'
  BY DEF DiskInv, StreamInv, TypeOK
<1>6. BudgetInv'
  BY DEF BudgetInv, StreamInv
<1>7. NoInternalFailure' /\ NoFalseAlarm'
  BY DEF NoInternalFailure, NoFalseAlarm
<1> QED BY <1>1, <1>2, <1>3, <1>4, <1>5, <1>6, <1>7

\* A chunk is counted in full and staged up to the cap.
LEMMA XsputnInv ==
    ASSUME IInv, NEW n \in Chunks, xsputn(n)
    PROVE  IInv'
<1> USE SpoolAssumption
    DEF xsputn, Goto, IInv, recordVars, counterVars, diskVars
<1>1. TypeOK'
  BY DEF TypeOK, PCs, SatAdd, MinOf
<1>2. Accounting'
  BY DEF Accounting, Bytes, Cells
<1>3. RecordsInv'
  BY DEF RecordsInv
<1>4. StreamInv'
  BY DEF StreamInv, TypeOK, MinOf, SatAdd, HardBytes
<1>5. DiskInv'
  BY DEF DiskInv
<1>6. BudgetInv'
  BY DEF BudgetInv
<1>7. NoInternalFailure' /\ NoFalseAlarm'
  BY DEF NoInternalFailure, NoFalseAlarm
<1> QED BY <1>1, <1>2, <1>3, <1>4, <1>5, <1>6, <1>7

\* While staging needs room there is an unselected payload to evict: what is
\* selected takes at most InlineBytes and staging at most PerReportBytes.
LEMMA RoomCanBeMade ==
    ASSUME IInv, pc = "reserve"
    PROVE  /\ Staging = written + take
           /\ Staging <= PerReportBytes
           /\ NeedsRoom => Evictable # {}
<1> USE SpoolAssumption DEF IInv
<1>1. Staging = written + take /\ Staging <= PerReportBytes
  BY DEF Staging, SatAdd, StreamInv, TypeOK, MinOf, HardBytes
<1>2. ASSUME NeedsRoom, Evictable = {} PROVE FALSE
  <2>1. payload = selected
    BY <1>2 DEF Evictable, RecordsInv
  <2>2. resident_bytes = selected_bytes
    BY <2>1 DEF Accounting
  <2>3. selected_bytes <= InlineBytes
    BY DEF BudgetInv
  <2> QED BY <1>1, <1>2, <2>2, <2>3 DEF NeedsRoom, HardBytes, TypeOK
<1> QED BY <1>1, <1>2

\* An eviction takes the bytes of the evicted payload off the books.
LEMMA ReserveEvictInv ==
    ASSUME IInv, pc = "reserve", NEW w \in Evictable, ReserveEvict(w)
    PROVE  IInv'
<1> USE SpoolAssumption
    DEF ReserveEvict, remove_payload, IInv, streamVars, Evictable
<1>0. /\ w \in Inputs /\ w \in payload /\ w \notin selected
      /\ full[w] \in 0 .. WordMax
  BY DEF TypeOK
<1>1. TypeOK'
  BY <1>0 DEF TypeOK, Reasons
<1>2. Accounting'
  <2>1. Bytes(payload \ {w}, full) = Bytes(payload, full) - full[w]
    BY <1>0, BytesRemove DEF TypeOK
  <2> QED BY <2>1 DEF Accounting, Bytes, Cells
<1>3. RecordsInv'
  BY <1>0 DEF RecordsInv, StreamInv
<1>4. StreamInv'
  BY DEF StreamInv
<1>5. DiskInv'
  BY <1>0 DEF DiskInv, StreamInv, RecordsInv
<1>6. BudgetInv'
  BY <1>0 DEF BudgetInv, TypeOK
<1>7. NoInternalFailure' /\ NoFalseAlarm'
  BY DEF NoInternalFailure, NoFalseAlarm
<1> QED BY <1>1, <1>2, <1>3, <1>4, <1>5, <1>6, <1>7

\* Room is granted before a byte is written, and the peak already counts it.
LEMMA ReserveGrantedInv ==
    ASSUME IInv, pc = "reserve", ~NeedsRoom, ReserveGranted
    PROVE  IInv'
<1> USE SpoolAssumption
    DEF ReserveGranted, Goto, IInv, recordVars, streamVars, diskVars
<1>0. Staging = written + take /\ resident_bytes + Staging <= HardBytes
  BY RoomCanBeMade DEF NeedsRoom, TypeOK, HardBytes
<1>1. TypeOK'
  <2>1. resident_bytes \in Nat
    BY BytesType DEF Accounting, TypeOK
  <2> QED BY <1>0, <2>1 DEF TypeOK, PCs, MaxOf
<1>2. Accounting'
  BY DEF Accounting, Bytes, Cells
<1>3. RecordsInv'
  BY DEF RecordsInv
<1>4. StreamInv'
  BY DEF StreamInv
<1>5. DiskInv'
  BY DEF DiskInv
<1>6. BudgetInv'
  BY <1>0 DEF BudgetInv, TypeOK, MaxOf, HardBytes
<1>7. NoInternalFailure' /\ NoFalseAlarm'
  BY DEF NoInternalFailure, NoFalseAlarm
<1> QED BY <1>1, <1>2, <1>3, <1>4, <1>5, <1>6, <1>7

\* reserve_staging preserves the invariant, and none of its three internal
\* errors can occur.
LEMMA ReserveInv ==
    ASSUME IInv, reserve_staging
    PROVE  IInv'
<1>1. pc = "reserve" /\ ~(Staging > PerReportBytes)
  <2>1. pc = "reserve"
    BY DEF reserve_staging
  <2>2. Staging = written + take /\ Staging <= PerReportBytes
    BY <2>1, RoomCanBeMade
  <2> QED BY <2>1, <2>2, SpoolAssumption DEF IInv, TypeOK
<1>2. CASE ~NeedsRoom
  <2>1. ReserveGranted
    BY <1>1, <1>2 DEF reserve_staging
  <2> QED BY <1>1, <1>2, <2>1, ReserveGrantedInv
<1>3. CASE NeedsRoom
  <2>1. PICK w \in Evictable : ReserveEvict(w) \/ ReserveEvictFails(w)
    BY <1>1, <1>3, RoomCanBeMade DEF reserve_staging
  <2>2. CASE ReserveEvict(w)
    BY <1>1, <2>2, ReserveEvictInv
  <2>3. CASE ReserveEvictFails(w)
    <3>1. Interference
      BY <1>1, <2>3, SpoolAssumption
         DEF ReserveEvictFails, Evictable, IInv, DiskInv
    <3> QED BY <1>1, <2>3, <3>1, FailInv DEF ReserveEvictFails, ExternalErrors
  <2> QED BY <2>1, <2>2, <2>3
<1> QED BY <1>2, <1>3

\* The granted bytes are written.
LEMMA StreamWriteInv ==
    ASSUME IInv, StreamWrite
    PROVE  IInv'
<1> USE SpoolAssumption
    DEF StreamWrite, Goto, IInv, recordVars, counterVars
<1>0. /\ SatAdd(written, take) = written + take
      /\ written + take <= PerReportBytes
      /\ cur \in Inputs /\ cur \notin payload
  BY DEF SatAdd, StreamInv, RecordsInv, TypeOK, MinOf, HardBytes
<1>1. TypeOK'
  BY <1>0 DEF TypeOK, PCs, HardBytes
<1>2. Accounting'
  BY DEF Accounting, Bytes, Cells
<1>3. RecordsInv'
  BY <1>0 DEF RecordsInv, TypeOK
<1>4. StreamInv'
  BY <1>0 DEF StreamInv, TypeOK
<1>5. DiskInv'
  BY DEF DiskInv
<1>6. BudgetInv'
  BY <1>0 DEF BudgetInv, TypeOK
<1>7. NoInternalFailure' /\ NoFalseAlarm'
  BY DEF NoInternalFailure, NoFalseAlarm
<1> QED BY <1>1, <1>2, <1>3, <1>4, <1>5, <1>6, <1>7

\* What the stream has staged fits under the peak, and a report that was not
\* cut is staged completely.
LEMMA ClosingFacts ==
    ASSUME IInv, pc = "render"
    PROVE  /\ StagedPeak = peak_bytes /\ StagedPeak <= HardBytes
           /\ cur \in Inputs \ added
           /\ total <= PerReportBytes => written = total /\ size[cur] = total
<1> USE SpoolAssumption DEF IInv
<1>1. resident_bytes \in Nat
  BY BytesType DEF Accounting, TypeOK
<1>2. SatAdd(resident_bytes, written) = resident_bytes + written
  BY <1>1 DEF SatAdd, BudgetInv, TypeOK, HardBytes
<1>3. StagedPeak = peak_bytes /\ StagedPeak <= HardBytes
  BY <1>1, <1>2 DEF StagedPeak, MaxOf, BudgetInv, TypeOK
<1>4. cur \in Inputs \ added
  BY DEF StreamInv, TypeOK
<1>5. total <= PerReportBytes => written = total /\ size[cur] = total
  BY DEF StreamInv, TypeOK, MinOf
<1> QED BY <1>3, <1>4, <1>5

\* An oversize report leaves a record and no file.
LEMMA AddOversizeInv ==
    ASSUME IInv, pc = "render", AddOversize
    PROVE  IInv'
<1> USE SpoolAssumption, NobodyAssumption, ClosingFacts
    DEF AddOversize, remove_payload, Goto, IInv
<1>0. cur \notin payload /\ cur \notin selected
  BY DEF RecordsInv
<1>1. TypeOK'
  BY DEF TypeOK, PCs, Reasons, SatAdd
<1>2. Accounting'
  <2>1. Bytes(payload, full') = Bytes(payload, full)
    BY <1>0, BytesCongruence DEF TypeOK
  <2>2. Bytes(selected, full') = Bytes(selected, full)
    BY <1>0, BytesCongruence DEF TypeOK
  <2> QED BY <2>1, <2>2 DEF Accounting, Bytes, Cells
<1>3. RecordsInv'
  BY <1>0 DEF RecordsInv, TypeOK
<1>4. StreamInv'
  BY DEF StreamInv, TypeOK
<1>5. DiskInv'
  BY <1>0 DEF DiskInv, TypeOK
<1>6. BudgetInv'
  BY DEF BudgetInv, TypeOK
<1>7. NoInternalFailure' /\ NoFalseAlarm'
  BY DEF NoInternalFailure, NoFalseAlarm
<1> QED BY <1>1, <1>2, <1>3, <1>4, <1>5, <1>6, <1>7

\* A report that fits is resident and, for the moment, selected.
LEMMA AddSelectedInv ==
    ASSUME IInv, pc = "render", AddSelected
    PROVE  IInv'
<1> USE SpoolAssumption, NobodyAssumption, ClosingFacts
    DEF AddSelected, Goto, IInv, diskVars
<1>0. /\ cur \notin payload /\ cur \notin selected
      /\ total \in 0 .. WordMax /\ full'[cur] = total
      /\ payload \in SUBSET Inputs /\ selected \in SUBSET Inputs
  BY DEF RecordsInv, TypeOK
<1>a. /\ resident_bytes = Bytes(payload, full) /\ selected_bytes = Bytes(selected, full)
      /\ resident_bytes \in Nat /\ selected_bytes \in Nat
      /\ selected_bytes <= InlineBytes
  BY <1>0, BytesType DEF Accounting, BudgetInv
<1>b. SatAdd(selected_bytes, total) = selected_bytes + total
  BY <1>0, <1>a DEF SatAdd, HardBytes
<1>1. TypeOK'
  BY <1>0, <1>a, <1>b DEF TypeOK, PCs, SatAdd
<1>2. Accounting'
  <2>1. /\ Bytes(payload, full') = Bytes(payload, full)
        /\ Bytes(selected, full') = Bytes(selected, full)
    BY <1>0, BytesCongruence DEF TypeOK
  <2>2. Bytes(payload \cup {cur}, full') = Bytes(payload, full') + total
    BY <1>0, BytesAdd
  <2>3. Bytes(selected \cup {cur}, full') = Bytes(selected, full') + total
    BY <1>0, BytesAdd
  <2> QED BY <1>a, <1>b, <2>1, <2>2, <2>3 DEF Accounting, Bytes, Cells
<1>3. RecordsInv'
  BY <1>0 DEF RecordsInv, TypeOK
<1>4. StreamInv'
  BY DEF StreamInv, TypeOK
<1>5. DiskInv'
  BY <1>0 DEF DiskInv, TypeOK
<1>6. BudgetInv'
  BY <1>0 DEF BudgetInv, TypeOK
<1>7. NoInternalFailure' /\ NoFalseAlarm'
  BY DEF NoInternalFailure, NoFalseAlarm
<1> QED BY <1>1, <1>2, <1>3, <1>4, <1>5, <1>6, <1>7

\* Closing a payload preserves the invariant; the hard budget holds, and only
\* interference can make the removal of an oversize payload fail.
LEMMA AddCloseInv ==
    ASSUME IInv, AddClose
    PROVE  IInv'
<1>1. pc = "render" /\ ~(StagedPeak > HardBytes)
  <2>1. pc = "render"
    BY DEF AddClose
  <2> QED BY <2>1, ClosingFacts, SpoolAssumption DEF IInv, TypeOK, HardBytes
<1>2. AddOversize \/ AddOversizeFails \/ AddSelected
  BY <1>1 DEF AddClose
<1>3. CASE AddOversize
  BY <1>1, <1>3, AddOversizeInv
<1>4. CASE AddOversizeFails
  <2>1. Interference
    BY <1>1, <1>4, SpoolAssumption DEF AddOversizeFails, IInv, DiskInv, StreamInv
  <2> QED BY <1>1, <1>4, <2>1, FailInv DEF AddOversizeFails, ExternalErrors
<1>5. CASE AddSelected
  BY <1>1, <1>5, AddSelectedInv
<1> QED BY <1>2, <1>3, <1>4, <1>5

\* A deferral keeps the payload and gives the inline bytes back.
LEMMA EnforceDeferInv ==
    ASSUME IInv, pc = "enforce", NEW w \in selected, EnforceDefer(w)
    PROVE  IInv'
<1> USE SpoolAssumption
    DEF EnforceDefer, defer_record, IInv, streamVars, diskVars
<1>0. w \in Inputs /\ full[w] \in 0 .. WordMax
  BY DEF TypeOK
<1>1. TypeOK'
  BY <1>0 DEF TypeOK, Reasons
<1>2. Accounting'
  <2>1. Bytes(selected \ {w}, full) = Bytes(selected, full) - full[w]
    BY <1>0, BytesRemove DEF TypeOK
  <2> QED BY <2>1 DEF Accounting, Bytes, Cells
<1>3. RecordsInv'
  BY DEF RecordsInv
<1>4. StreamInv'
  BY DEF StreamInv
<1>5. DiskInv'
  BY DEF DiskInv
<1>6. BudgetInv'
  BY DEF BudgetInv
<1>7. NoInternalFailure' /\ NoFalseAlarm'
  BY DEF NoInternalFailure, NoFalseAlarm
<1> QED BY <1>1, <1>2, <1>3, <1>4, <1>5, <1>6, <1>7

\* enforce_inline_budget always has something to defer while the selection
\* is over the inline budget.
LEMMA EnforceInv ==
    ASSUME IInv, enforce_inline_budget
    PROVE  IInv'
<1> USE SpoolAssumption
<1>1. pc = "enforce"
  BY DEF enforce_inline_budget
<1>2. CASE selected_bytes <= InlineBytes
  <2> USE DEF EnforceDone, Goto, IInv, recordVars, streamVars, counterVars, diskVars
  <2>0. EnforceDone
    BY <1>2 DEF enforce_inline_budget
  <2>1. TypeOK'
    BY <2>0 DEF TypeOK, PCs
  <2>2. Accounting'
    BY <1>1, <2>0 DEF Accounting, Bytes, Cells
  <2>3. RecordsInv' /\ StreamInv'
    BY <1>1, <2>0 DEF RecordsInv, StreamInv
  <2>4. DiskInv'
    BY <1>1, <2>0 DEF DiskInv
  <2>5. BudgetInv'
    BY <1>1, <1>2, <2>0 DEF BudgetInv
  <2>6. NoInternalFailure' /\ NoFalseAlarm'
    BY <2>0 DEF NoInternalFailure, NoFalseAlarm
  <2> QED BY <2>1, <2>2, <2>3, <2>4, <2>5, <2>6
<1>3. CASE ~(selected_bytes <= InlineBytes)
  <2>1. selected # {}
    <3>1. ASSUME selected = {} PROVE FALSE
      <4>1. selected_bytes = 0
        BY <1>1, <3>1, BytesEmpty DEF IInv, Accounting
      <4> QED BY <1>3, <4>1
    <3> QED BY <3>1
  <2>2. PICK w \in selected : EnforceDefer(w)
    BY <1>3, <2>1 DEF enforce_inline_budget
  <2> QED BY <1>1, <2>2, EnforceDeferInv
<1> QED BY <1>2, <1>3

\* The final selection starts from nothing selected.
LEMMA FinalizeBeginInv ==
    ASSUME IInv, NEW P \in [added -> Priorities], FinalizeBegin(P)
    PROVE  IInv'
<1> USE SpoolAssumption
    DEF FinalizeBegin, Goto, IInv, streamVars, diskVars
<1>1. TypeOK'
  <2>1. priority' \in [Inputs -> Int]
    BY DEF TypeOK
  <2> QED BY <2>1 DEF TypeOK, PCs
<1>2. Accounting'
  <2>1. selected \ payload = {}
    BY DEF RecordsInv
  <2>2. Bytes(selected \ payload, full) = 0
    BY <2>1, BytesEmpty
  <2> QED BY <2>2 DEF Accounting, Bytes, Cells
<1>3. RecordsInv'
  BY DEF RecordsInv
<1>4. StreamInv'
  BY DEF StreamInv
<1>5. DiskInv'
  BY DEF DiskInv
<1>6. BudgetInv'
  BY DEF BudgetInv
<1>7. NoInternalFailure' /\ NoFalseAlarm'
  BY DEF NoInternalFailure, NoFalseAlarm
<1> QED BY <1>1, <1>2, <1>3, <1>4, <1>5, <1>6, <1>7

\* Each visited record enters the inline total or leaves the selection.
LEMMA SelectNextInv ==
    ASSUME IInv, NEW b \in Inputs, SelectNext(b)
    PROVE  IInv'
<1> USE SpoolAssumption
    DEF SelectNext, IInv, streamVars, diskVars
<1>0. /\ b \in pending /\ b \in payload /\ full[b] \in 0 .. WordMax
      /\ FinalReason(b) \in Reasons
  BY DEF IsBest, TypeOK, RecordsInv, FinalReason, Reasons
<1>1. TypeOK'
  <2>1. reason' \in [Inputs -> Reasons]
    BY <1>0 DEF TypeOK
  <2>2. CASE FitsInline(b)
    <3>1. reselected_count' \in Nat /\ selected_bytes' \in Int
      BY <1>0, <2>2 DEF TypeOK
    <3>2. selected' \subseteq Inputs
      BY <2>2 DEF TypeOK
    <3> QED BY <2>1, <3>1, <3>2 DEF TypeOK
  <2>3. CASE ~FitsInline(b)
    BY <1>0, <2>1, <2>3 DEF TypeOK
  <2> QED BY <2>2, <2>3
<1>2. Accounting'
  <2>1. CASE FitsInline(b)
    <3>1. (selected \cup {b}) \ (pending \ {b}) = (selected \ pending) \cup {b}
      BY <1>0
    <3>2. Bytes((selected \ pending) \cup {b}, full) = Bytes(selected \ pending, full) + full[b]
      BY <1>0, BytesAdd DEF TypeOK
    <3> QED BY <2>1, <3>1, <3>2 DEF Accounting, Bytes, Cells
  <2>2. CASE ~FitsInline(b)
    <3>1. (selected \ {b}) \ (pending \ {b}) = selected \ pending
      BY <1>0
    <3> QED BY <2>2, <3>1 DEF Accounting, Bytes, Cells
  <2> QED BY <2>1, <2>2
<1>3. RecordsInv'
  BY <1>0 DEF RecordsInv
<1>4. StreamInv'
  BY DEF StreamInv
<1>5. DiskInv'
  BY DEF DiskInv
<1>6. BudgetInv'
  <2>1. CASE FitsInline(b)
    BY <1>0, <2>1 DEF BudgetInv, FitsInline, TypeOK
  <2>2. CASE ~FitsInline(b)
    BY <2>2 DEF BudgetInv
  <2> QED BY <2>1, <2>2
<1>7. NoInternalFailure' /\ NoFalseAlarm'
  BY DEF NoInternalFailure, NoFalseAlarm
<1> QED BY <1>1, <1>2, <1>3, <1>4, <1>5, <1>6, <1>7

\* The selection is complete once every available record was visited.
LEMMA SelectDoneInv ==
    ASSUME IInv, SelectDone
    PROVE  IInv'
<1> USE DEF SelectDone, Goto, IInv, recordVars, streamVars, counterVars, diskVars
<1>1. TypeOK'
  <2>1. priorities_finalized' \in BOOLEAN
    BY Zenon
  <2> QED BY <2>1 DEF TypeOK, PCs
<1>2. Accounting'
  <2>1. selected \ pending = selected
    OBVIOUS
  <2> QED BY <2>1 DEF Accounting, Bytes, Cells
<1>3. RecordsInv'
  BY DEF RecordsInv
<1>4. StreamInv'
  BY DEF StreamInv
<1>5. DiskInv'
  BY DEF DiskInv
<1>6. BudgetInv'
  BY DEF BudgetInv
<1>7. NoInternalFailure' /\ NoFalseAlarm'
  BY DEF NoInternalFailure, NoFalseAlarm
<1> QED BY <1>1, <1>2, <1>3, <1>4, <1>5, <1>6, <1>7

\* validate finds the books and the directory in agreement, unless someone
\* else deleted a payload.
LEMMA ValidateFacts ==
    ASSUME IInv, pc \in {"validate", "revalidate"}
    PROVE  /\ ValidateError \in {"none", "unavailable", "unaccounted"}
           /\ ~Interference => ValidateError = "none"
<1> USE SpoolAssumption DEF IInv
<1>0. cur = Nobody /\ cur \notin files /\ pc # "closed"
  BY NobodyAssumption DEF StreamInv, TypeOK
<1>1. AccountingAgrees
  <2>1. Bytes(payload, size) = Bytes(payload, full)
    BY BytesCongruence DEF RecordsInv
  <2>2. Bytes(selected, size) = Bytes(selected, full)
    BY BytesCongruence DEF RecordsInv
  <2>3. /\ resident_bytes = Bytes(payload, full)
        /\ selected_bytes = Bytes(selected, full)
        /\ selected_bytes <= InlineBytes
    BY DEF Accounting, BudgetInv
  <2>4. resident_bytes <= HardBytes /\ peak_bytes <= HardBytes
    BY <1>0 DEF BudgetInv, StreamInv, TypeOK, HardBytes
  <2>5. MinOf(WordMax, resident_bytes) = resident_bytes
    BY <2>4 DEF MinOf, HardBytes, TypeOK
  <2> QED BY <2>1, <2>2, <2>3, <2>4, <2>5 DEF AccountingAgrees
<1>2. selected \subseteq payload /\ \A i \in payload : size[i] = full[i]
  BY DEF RecordsInv
<1>3. ~Interference => files = payload
  BY <1>0 DEF DiskInv
<1>4. ValidateError \in {"none", "unavailable", "unaccounted"}
  BY <1>1, <1>2 DEF ValidateError
<1>5. ASSUME ~Interference PROVE ValidateError = "none"
  BY <1>1, <1>2, <1>3, <1>5 DEF ValidateError
<1> QED BY <1>4, <1>5

\* Validation only moves on or fails.
LEMMA ValidateInv ==
    ASSUME IInv, Validate
    PROVE  IInv'
<1>0. pc \in {"validate", "revalidate"}
  BY DEF Validate
<1>a. CASE ValidateError # "none"
  <2>1. Fail(ValidateError)
    BY <1>a DEF Validate
  <2>2. ValidateError \in ExternalErrors /\ Interference
    BY <1>0, <1>a, ValidateFacts, SpoolAssumption DEF ExternalErrors
  <2> QED BY <1>0, <2>1, <2>2, FailInv
<1>b. CASE ValidateError = "none"
  <2> USE DEF Goto, IInv, recordVars, streamVars, counterVars, diskVars
  <2>0. /\ pc' \in {"revalidate", "output"} /\ error' = error
        /\ UNCHANGED <<recordVars, streamVars, counterVars,
                       priorities_finalized, pending, diskVars, shown>>
    BY <1>b DEF Validate
  <2>1. TypeOK'
    BY <2>0 DEF TypeOK, PCs
  <2>2. Accounting'
    BY <1>0, <2>0 DEF Accounting, Bytes, Cells
  <2>3. RecordsInv' /\ StreamInv'
    BY <1>0, <2>0 DEF RecordsInv, StreamInv
  <2>4. DiskInv'
    BY <1>0, <2>0 DEF DiskInv
  <2>5. BudgetInv'
    BY <1>0, <2>0 DEF BudgetInv
  <2>6. NoInternalFailure' /\ NoFalseAlarm'
    BY <2>0 DEF NoInternalFailure, NoFalseAlarm
  <2> QED BY <2>1, <2>2, <2>3, <2>4, <2>5, <2>6
<1> QED BY <1>a, <1>b

\* Copying a payload to the output changes no record.
LEMMA OutputNextInv ==
    ASSUME IInv, NEW i \in Inputs, OutputNext(i), i \in files
    PROVE  IInv'
<1> USE DEF OutputNext, IInv, recordVars, streamVars, counterVars, diskVars
<1>1. TypeOK'
  BY DEF TypeOK, PCs
<1>2. Accounting'
  BY DEF Accounting, Bytes, Cells
<1>3. RecordsInv'
  BY DEF RecordsInv
<1>4. StreamInv'
  BY DEF StreamInv
<1>5. DiskInv'
  BY DEF DiskInv
<1>6. BudgetInv'
  BY DEF BudgetInv
<1>7. NoInternalFailure' /\ NoFalseAlarm'
  BY DEF NoInternalFailure, NoFalseAlarm
<1> QED BY <1>1, <1>2, <1>3, <1>4, <1>5, <1>6, <1>7

\* Finishing the output changes no record.
LEMMA OutputDoneInv ==
    ASSUME IInv, OutputDone
    PROVE  IInv'
<1> USE DEF OutputDone, Goto, IInv, recordVars, streamVars, counterVars, diskVars
<1>1. TypeOK'
  BY DEF TypeOK, PCs
<1>2. Accounting'
  BY DEF Accounting, Bytes, Cells
<1>3. RecordsInv'
  BY DEF RecordsInv
<1>4. StreamInv'
  BY DEF StreamInv
<1>5. DiskInv'
  BY DEF DiskInv
<1>6. BudgetInv'
  BY DEF BudgetInv
<1>7. NoInternalFailure' /\ NoFalseAlarm'
  BY DEF NoInternalFailure, NoFalseAlarm
<1> QED BY <1>1, <1>2, <1>3, <1>4, <1>5, <1>6, <1>7

\* The destructor empties the directory.
LEMMA DestroyInv ==
    ASSUME IInv, Destroy
    PROVE  IInv'
<1> USE DEF Destroy, Goto, IInv, recordVars, streamVars, counterVars
<1>1. TypeOK'
  BY DEF TypeOK, PCs
<1>2. Accounting'
  BY DEF Accounting, Bytes, Cells
<1>3. RecordsInv'
  BY DEF RecordsInv
<1>4. StreamInv'
  BY DEF StreamInv
<1>5. DiskInv'
  BY DEF DiskInv
<1>6. BudgetInv'
  BY DEF BudgetInv
<1>7. NoInternalFailure' /\ NoFalseAlarm'
  BY DEF NoInternalFailure, NoFalseAlarm
<1> QED BY <1>1, <1>2, <1>3, <1>4, <1>5, <1>6, <1>7

\* A deletion by someone else changes the directory only.
LEMMA InterfereInv ==
    ASSUME IInv, NEW i \in Inputs, Interfere(i)
    PROVE  IInv'
<1> USE DEF Interfere, IInv, recordVars, streamVars, counterVars
<1>1. TypeOK'
  BY DEF TypeOK, PCs
<1>2. Accounting'
  BY DEF Accounting, Bytes, Cells
<1>3. RecordsInv'
  BY DEF RecordsInv
<1>4. StreamInv'
  BY DEF StreamInv
<1>5. DiskInv'
  BY DEF DiskInv
<1>6. BudgetInv'
  BY DEF BudgetInv
<1>7. NoInternalFailure' /\ NoFalseAlarm'
  BY DEF NoInternalFailure, NoFalseAlarm
<1> QED BY <1>1, <1>2, <1>3, <1>4, <1>5, <1>6, <1>7

\* Every step of the specification preserves the inductive invariant.
LEMMA NextInv == IInv /\ [Next]_vars => IInv'
<1> SUFFICES ASSUME IInv, [Next]_vars PROVE IInv'
  OBVIOUS
<1>1. ASSUME NEW i \in Inputs, NEW p \in Priorities, AddOpen(i, p) PROVE IInv'
  BY <1>1, AddOpenInv
<1>2. CASE AddOpenFails
  BY <1>2, FailInv DEF AddOpenFails, ExternalErrors
<1>3. ASSUME NEW n \in Chunks, xsputn(n) PROVE IInv'
  BY <1>3, XsputnInv
<1>4. CASE reserve_staging
  BY <1>4, ReserveInv
<1>5. CASE StreamWrite
  BY <1>5, StreamWriteInv
<1>6. CASE StreamWriteFails
  BY <1>6, FailInv DEF StreamWriteFails, ExternalErrors
<1>7. CASE AddClose
  BY <1>7, AddCloseInv
<1>8. CASE AddCloseFails
  BY <1>8, FailInv DEF AddCloseFails, ExternalErrors
<1>9. CASE enforce_inline_budget
  BY <1>9, EnforceInv
<1>10. ASSUME NEW P \in [added -> Priorities], FinalizeBegin(P) PROVE IInv'
  BY <1>10, FinalizeBeginInv
<1>11. CASE FinalizeMissing
  BY <1>11, FailInv DEF FinalizeMissing, ExternalErrors
<1>12. CASE SelectStep
  BY <1>12, SelectNextInv, SelectDoneInv DEF SelectStep
<1>13. CASE Validate
  BY <1>13, ValidateInv
<1>14. CASE OutputStep
  <2>1. ASSUME NEW i \in Inputs, OutputNext(i) PROVE IInv'
    <3>1. CASE i \in files
      BY <2>1, <3>1, OutputNextInv
    <3>2. CASE i \notin files
      BY <2>1, <3>2, FailInv DEF OutputNext, ExternalErrors
    <3> QED BY <3>1, <3>2
  <2> QED BY <1>14, <2>1, OutputDoneInv DEF OutputStep
<1>15. CASE Destroy
  BY <1>15, DestroyInv
<1>16. CASE Closed \/ UNCHANGED vars
  <2> USE DEF IInv, vars, recordVars, streamVars, counterVars, diskVars
  <2>0. UNCHANGED vars
    BY <1>16 DEF Closed
  <2>1. TypeOK'
    BY <2>0 DEF TypeOK
  <2>2. Accounting'
    BY <2>0 DEF Accounting, Bytes, Cells
  <2>3. RecordsInv' /\ StreamInv' /\ BudgetInv'
    BY <2>0 DEF RecordsInv, StreamInv, BudgetInv
  <2>4. DiskInv'
    BY <2>0 DEF DiskInv
  <2>5. NoInternalFailure' /\ NoFalseAlarm'
    BY <2>0 DEF NoInternalFailure, NoFalseAlarm
  <2> QED BY <2>1, <2>2, <2>3, <2>4, <2>5
<1>17. ASSUME NEW i \in Inputs, Interfere(i) PROVE IInv'
  BY <1>17, InterfereInv
<1> QED
  BY <1>1, <1>2, <1>3, <1>4, <1>5, <1>6, <1>7, <1>8, <1>9, <1>10, <1>11, <1>12,
     <1>13, <1>14, <1>15, <1>16, <1>17 DEF Next, Step

-----------------------------------------------------------------------------
(* The theorems *)

\* The inductive invariant holds in every reachable state.
THEOREM InductiveInvariant == Spec => []IInv
BY InitInv, NextInv, PTL DEF Spec

\* Every variable keeps its type: totals saturate instead of wrapping, and no
\* staged report grows past the per-report cap.
THEOREM TypeCorrect == Spec => []TypeOK
<1>1. IInv => TypeOK
  BY DEF IInv
<1> QED BY <1>1, InductiveInvariant, PTL

\* resident_bytes_ and selected_bytes_ are exact in every state.
THEOREM AccountingCorrect == Spec => []Accounting
<1>1. IInv => Accounting
  BY DEF IInv
<1> QED BY <1>1, InductiveInvariant, PTL

\* The hard disk budget: at every moment the temporary directory holds at most
\* the reported peak, and the peak at most InlineBytes + PerReportBytes.
THEOREM DiskBudget == Spec => []PeakIsHonest
<1>1. IInv => PeakIsHonest
  <2> SUFFICES ASSUME IInv PROVE PeakIsHonest
    OBVIOUS
  <2> USE SpoolAssumption DEF IInv
  <2>1. Bytes(payload, size) = resident_bytes
    BY BytesCongruence DEF RecordsInv, Accounting
  <2>2. Bytes(files, size) <= resident_bytes + written
    <3>1. CASE cur = Nobody
      <4>1. files \in SUBSET payload /\ written = 0
        BY <3>1, NobodyAssumption DEF DiskInv, StreamInv, TypeOK
      <4>2. Bytes(files, size) <= Bytes(payload, size)
        BY <4>1, BytesSubset DEF TypeOK
      <4> QED BY <2>1, <4>1, <4>2 DEF TypeOK
    <3>2. CASE cur # Nobody
      <4>1. cur \in Inputs \ payload /\ size[cur] = written
        BY <3>2 DEF StreamInv, RecordsInv, TypeOK
      <4>2. Bytes(payload \cup {cur}, size) = Bytes(payload, size) + written
        BY <4>1, BytesAdd DEF TypeOK
      <4>3. Bytes(files, size) <= Bytes(payload \cup {cur}, size)
        BY <4>1, BytesSubset DEF DiskInv, TypeOK
      <4> QED BY <2>1, <4>2, <4>3
    <3> QED BY <3>1, <3>2
  <2>3. Bytes(files, size) \in Nat
    BY BytesType DEF TypeOK
  <2> QED BY <2>2, <2>3 DEF PeakIsHonest, BudgetInv, TypeOK, HardBytes
<1> QED BY <1>1, InductiveInvariant, PTL

\* The errors the code calls invariants cannot occur, with or without
\* interference, whatever I/O operation fails.
THEOREM InternalErrorsUnreachable == Spec => []NoInternalFailure
<1>1. IInv => NoInternalFailure
  BY DEF IInv
<1> QED BY <1>1, InductiveInvariant, PTL

\* Without interference neither a removal nor a validation ever complains.
THEOREM ValidationHasNoFalseAlarm == Spec => []NoFalseAlarm
<1>1. IInv => NoFalseAlarm
  BY DEF IInv
<1> QED BY <1>1, InductiveInvariant, PTL

-----------------------------------------------------------------------------
(* What the plan of the report says in the end.  The strengthening: every    *)
(* reason says what happened to its record at any time, the known bytes are  *)
(* the sum of all reports (saturated), and while finalize_selection visits   *)
(* the records, those it has visited are better than those to come.          *)

CacheLost == {i \in added : reason[i] = "DIRECTORY_SPOOL_CACHE_BUDGET"}

ReasonInv ==
    /\ \A i \in Inputs \ added : reason[i] = "NONE"
    /\ \A i \in added :
          /\ i \in selected <=> reason[i] = "NONE"
          /\ i \in payload \ selected <=> reason[i] = "DIRECTORY_INLINE_REPORT_BUDGET"
          /\ full[i] > PerReportBytes <=> reason[i] = "PER_REPORT_BYTE_BUDGET"
    /\ cache_evicted_count = Cardinality(CacheLost)

KnownInv ==
    /\ known_full_bytes = MinOf(WordMax, Bytes(added, full))
    /\ cur = Nobody => total = 0

LossInv == cache_evicted_count > 0 => SatAdd(known_full_bytes, total) > HardBytes

Selecting == {"select", "validate", "revalidate", "output", "done"}

GreedyInv ==
    pc \in Selecting =>
        /\ \A v \in payload \ pending, q \in pending : record_better(v, q)
        /\ \A r \in (payload \ pending) \ selected :
              full[r] > InlineBytes - Bytes({s \in selected \ pending : record_better(s, r)}, full)

OutcomeInv == ReasonInv /\ KnownInv /\ LossInv /\ GreedyInv

\* What exceeds a limit below WordMax still exceeds it when more is added.
LEMMA SatAddMonotone ==
    ASSUME NEW k \in Int, NEW a \in Int, NEW b \in Int, NEW h \in Int,
           a <= b, h < WordMax, WordMax \in Int, SatAdd(k, a) > h
    PROVE  SatAdd(k, b) > h
<1>1. CASE b > WordMax - k
  BY <1>1 DEF SatAdd
<1>2. CASE ~(b > WordMax - k)
  <2>1. ~(a > WordMax - k)
    BY <1>2
  <2>2. SatAdd(k, a) = k + a /\ SatAdd(k, b) = k + b
    BY <1>2, <2>1 DEF SatAdd
  <2> QED BY <2>2
<1> QED BY <1>1, <1>2

\* Nothing is recorded, and nothing is known, at the start.
LEMMA InitOutcome == Init => OutcomeInv
<1> SUFFICES ASSUME Init PROVE OutcomeInv
  OBVIOUS
<1> USE SpoolAssumption DEF Init
<1>1. ReasonInv
  <2>1. CacheLost = {}
    BY DEF CacheLost
  <2> QED BY <2>1, FS_EmptySet DEF ReasonInv
<1>2. KnownInv
  BY BytesEmpty DEF KnownInv, MinOf
<1>3. LossInv /\ GreedyInv
  BY DEF LossInv, GreedyInv, Selecting
<1> QED BY <1>1, <1>2, <1>3 DEF OutcomeInv

\* A step that leaves the records alone, only adds to the counted bytes, and
\* does not begin a selection.
LEMMA RecordsUntouched ==
    ASSUME IInv, IInv', OutcomeInv,
           UNCHANGED <<added, full, selected, payload, reason, known_full_bytes,
                       cache_evicted_count>>,
           total <= total', cur' = Nobody => total' = 0,
           pc' \in Selecting => pc \in Selecting /\ UNCHANGED <<priority, pending>>
    PROVE  OutcomeInv'
<1> USE SpoolAssumption DEF OutcomeInv
<1>1. ReasonInv'
  BY DEF ReasonInv, CacheLost
<1>2. KnownInv'
  BY DEF KnownInv, Bytes, Cells
<1>3. LossInv'
  <2> SUFFICES ASSUME cache_evicted_count > 0
               PROVE  SatAdd(known_full_bytes, total') > HardBytes
    BY DEF LossInv, SatAdd
  <2>1. /\ total \in Int /\ total' \in Int /\ known_full_bytes \in Int
        /\ WordMax \in Int /\ HardBytes \in Int /\ HardBytes < WordMax
        /\ known_full_bytes <= WordMax /\ total <= total'
    BY DEF IInv, TypeOK, HardBytes
  <2>2. SatAdd(known_full_bytes, total) > HardBytes
    BY DEF LossInv
  <2> QED BY <2>1, <2>2, SatAddMonotone
<1>4. GreedyInv'
  <2> SUFFICES ASSUME pc' \in Selecting PROVE GreedyInv'
    BY DEF GreedyInv
  <2>1. pc \in Selecting /\ UNCHANGED <<priority, pending>>
    OBVIOUS
  <2> QED BY <2>1 DEF GreedyInv, record_better, Bytes, Cells
<1> QED BY <1>1, <1>2, <1>3, <1>4

\* The cache loses a report only when the known reports exceed the disk
\* budget: what is resident was recorded, what is staged is part of a report.
LEMMA ReserveEvictOutcome ==
    ASSUME IInv, OutcomeInv, pc = "reserve", NeedsRoom, NEW w \in Evictable, ReserveEvict(w)
    PROVE  OutcomeInv'
<1> USE SpoolAssumption DEF OutcomeInv
<1>0. /\ w \in Inputs /\ w \in payload /\ w \notin selected /\ w \in added
      /\ full[w] <= PerReportBytes /\ full \in [Inputs -> 0 .. WordMax]
  BY DEF Evictable, IInv, TypeOK, RecordsInv
<1>1. /\ UNCHANGED <<added, full, selected, known_full_bytes, total, cur, pc>>
      /\ payload' = payload \ {w}
      /\ reason' = [reason EXCEPT ![w] = "DIRECTORY_SPOOL_CACHE_BUDGET"]
      /\ cache_evicted_count' = cache_evicted_count + 1
  BY DEF ReserveEvict, streamVars
<1>2. reason \in [Inputs -> Reasons] /\ added \in SUBSET Inputs
  BY DEF IInv, TypeOK
<1>3. ReasonInv'
  <2>1. /\ \A i \in Inputs \ added : reason'[i] = "NONE"
        /\ \A i \in added :
              /\ i \in selected <=> reason'[i] = "NONE"
              /\ i \in payload' \ selected <=> reason'[i] = "DIRECTORY_INLINE_REPORT_BUDGET"
              /\ full[i] > PerReportBytes <=> reason'[i] = "PER_REPORT_BYTE_BUDGET"
    BY <1>0, <1>1, <1>2 DEF ReasonInv
  <2>2. CacheLost' = CacheLost \cup {w} /\ w \notin CacheLost
    BY <1>0, <1>1, <1>2 DEF CacheLost, ReasonInv
  <2>3. IsFiniteSet(CacheLost)
    BY <1>2, FS_Subset DEF CacheLost
  <2>4. Cardinality(CacheLost') = Cardinality(CacheLost) + 1
    BY <2>2, <2>3, FS_AddElement
  <2> QED BY <1>1, <2>1, <2>4 DEF ReasonInv
<1>4. KnownInv'
  BY <1>1 DEF KnownInv, Bytes, Cells
<1>5. LossInv'
  <2>1. Staging = written + take /\ written + take <= total
    BY RoomCanBeMade DEF IInv, StreamInv, TypeOK, MinOf
  <2>2. resident_bytes = Bytes(payload, full) /\ Bytes(payload, full) \in Nat
    BY BytesType DEF IInv, Accounting, TypeOK
  <2>3. Bytes(payload, full) <= Bytes(added, full) /\ Bytes(added, full) \in Nat
    BY <1>2, BytesSubset, BytesType DEF IInv, RecordsInv
  <2>4. Bytes(payload, full) + total > HardBytes
    BY <2>1, <2>2 DEF NeedsRoom, IInv, TypeOK, HardBytes
  <2>5. SatAdd(known_full_bytes, total) > HardBytes
    BY <2>2, <2>3, <2>4 DEF KnownInv, SatAdd, MinOf, HardBytes, IInv, TypeOK
  <2> QED BY <1>1, <2>5 DEF LossInv, SatAdd
<1>6. GreedyInv'
  BY <1>1 DEF GreedyInv, Selecting
<1> QED BY <1>3, <1>4, <1>5, <1>6

\* A report that joins the records.
LEMMA JoinsRecords ==
    ASSUME IInv, OutcomeInv, pc = "render",
           added' = added \cup {cur}, full' = [full EXCEPT ![cur] = total],
           known_full_bytes' = SatAdd(known_full_bytes, total),
           UNCHANGED cache_evicted_count, total' = 0
    PROVE  KnownInv' /\ LossInv'
<1> USE SpoolAssumption DEF OutcomeInv
<1>1. /\ cur \in Inputs \ added /\ total \in 0 .. WordMax
      /\ added \in SUBSET Inputs /\ full \in [Inputs -> 0 .. WordMax]
      /\ known_full_bytes \in 0 .. WordMax
  BY ClosingFacts DEF IInv, TypeOK
<1>2. Bytes(added', full') = Bytes(added, full) + total
  <2> DEFINE f == [full EXCEPT ![cur] = total]
  <2>1. f[cur] = total /\ f[cur] \in 0 .. WordMax /\ \A i \in added : f[i] = full[i]
    BY <1>1
  <2>2. full' = f /\ added' = added \cup {cur}
    OBVIOUS
  <2> HIDE DEF f
  <2>3. Bytes(added, f) = Bytes(added, full)
    BY <2>1, BytesCongruence
  <2>4. Bytes(added \cup {cur}, f) = Bytes(added, f) + f[cur]
    BY <1>1, <2>1, BytesAdd
  <2> QED BY <2>1, <2>2, <2>3, <2>4
<1>3. Bytes(added, full) \in Nat
  BY <1>1, BytesType
<1>4. KnownInv'
  <2>1. known_full_bytes' = MinOf(WordMax, Bytes(added', full'))
    BY <1>1, <1>2, <1>3 DEF KnownInv, SatAdd, MinOf
  <2> QED BY <2>1 DEF KnownInv, Bytes, Cells
<1>5. LossInv'
  <2>1. SatAdd(known_full_bytes, total) \in 0 .. WordMax
    BY <1>1 DEF SatAdd
  <2>2. SatAdd(known_full_bytes', 0) = known_full_bytes'
    BY <2>1 DEF SatAdd
  <2> QED BY <2>2 DEF LossInv, SatAdd
<1> QED BY <1>4, <1>5

LEMMA AddOversizeOutcome ==
    ASSUME IInv, OutcomeInv, pc = "render", AddOversize
    PROVE  OutcomeInv'
<1> USE SpoolAssumption DEF OutcomeInv
<1>1. /\ cur \in Inputs \ added /\ cur \notin payload /\ cur \notin selected
      /\ reason \in [Inputs -> Reasons] /\ full \in [Inputs -> 0 .. WordMax]
      /\ total \in 0 .. WordMax /\ added \in SUBSET Inputs
  BY ClosingFacts DEF IInv, TypeOK, RecordsInv
<1>2. /\ total > PerReportBytes /\ added' = added \cup {cur} /\ full' = [full EXCEPT ![cur] = total]
      /\ reason' = [reason EXCEPT ![cur] = "PER_REPORT_BYTE_BUDGET"]
      /\ known_full_bytes' = SatAdd(known_full_bytes, total)
      /\ UNCHANGED <<selected, payload, cache_evicted_count>> /\ total' = 0 /\ pc' = "idle"
  BY DEF AddOversize, Goto
<1>3. ReasonInv'
  <2>1. CacheLost' = CacheLost
    BY <1>1, <1>2 DEF CacheLost
  <2> QED BY <1>1, <1>2, <2>1 DEF ReasonInv
<1>4. GreedyInv'
  BY <1>2 DEF GreedyInv, Selecting
<1> QED BY <1>2, <1>3, <1>4, JoinsRecords

LEMMA AddSelectedOutcome ==
    ASSUME IInv, OutcomeInv, pc = "render", AddSelected
    PROVE  OutcomeInv'
<1> USE SpoolAssumption DEF OutcomeInv
<1>1. /\ cur \in Inputs \ added /\ cur \notin payload /\ cur \notin selected
      /\ reason \in [Inputs -> Reasons] /\ full \in [Inputs -> 0 .. WordMax]
      /\ total \in 0 .. WordMax /\ added \in SUBSET Inputs
  BY ClosingFacts DEF IInv, TypeOK, RecordsInv
<1>2. /\ total <= PerReportBytes /\ added' = added \cup {cur} /\ full' = [full EXCEPT ![cur] = total]
      /\ payload' = payload \cup {cur} /\ selected' = selected \cup {cur}
      /\ known_full_bytes' = SatAdd(known_full_bytes, total)
      /\ UNCHANGED <<reason, cache_evicted_count>> /\ total' = 0 /\ pc' = "enforce"
  BY DEF AddSelected, Goto
<1>3. ReasonInv'
  <2>1. CacheLost' = CacheLost
    BY <1>1, <1>2 DEF CacheLost, ReasonInv
  <2> QED BY <1>1, <1>2, <2>1 DEF ReasonInv
<1>4. GreedyInv'
  BY <1>2 DEF GreedyInv, Selecting
<1> QED BY <1>2, <1>3, <1>4, JoinsRecords

LEMMA EnforceDeferOutcome ==
    ASSUME IInv, OutcomeInv, pc = "enforce", NEW w \in selected, EnforceDefer(w)
    PROVE  OutcomeInv'
<1> USE SpoolAssumption DEF OutcomeInv
<1>1. /\ w \in payload /\ w \in added /\ w \in Inputs /\ full[w] <= PerReportBytes
      /\ reason \in [Inputs -> Reasons] /\ added \in SUBSET Inputs
  BY DEF IInv, TypeOK, RecordsInv
<1>2. /\ selected' = selected \ {w}
      /\ reason' = [reason EXCEPT ![w] = "DIRECTORY_INLINE_REPORT_BUDGET"]
      /\ UNCHANGED <<pc, added, full, payload, known_full_bytes, cache_evicted_count, total, cur>>
  BY DEF EnforceDefer, defer_record, streamVars
<1>3. ReasonInv'
  <2>1. CacheLost' = CacheLost
    BY <1>1, <1>2 DEF CacheLost, ReasonInv
  <2> QED BY <1>1, <1>2, <2>1 DEF ReasonInv
<1>4. KnownInv' /\ LossInv'
  BY <1>2 DEF KnownInv, LossInv, Bytes, Cells
<1>5. GreedyInv'
  BY <1>2 DEF GreedyInv, Selecting
<1> QED BY <1>3, <1>4, <1>5

LEMMA FinalizeBeginOutcome ==
    ASSUME IInv, OutcomeInv, NEW P \in [added -> Priorities], FinalizeBegin(P)
    PROVE  OutcomeInv'
<1> USE DEF OutcomeInv
<1>1. /\ UNCHANGED <<added, full, selected, payload, reason, known_full_bytes,
                     cache_evicted_count, total, cur>>
      /\ pending' = payload
  BY DEF FinalizeBegin, streamVars
<1>2. ReasonInv' /\ KnownInv' /\ LossInv'
  BY <1>1 DEF ReasonInv, CacheLost, KnownInv, LossInv, Bytes, Cells
<1>3. GreedyInv'
  BY <1>1 DEF GreedyInv
<1> QED BY <1>2, <1>3

\* The best of the pending records is visited: the reports selected so far are
\* all better, so that it is deferred only for what they take.
LEMMA SelectNextOutcome ==
    ASSUME IInv, OutcomeInv, NEW b \in Inputs, SelectNext(b)
    PROVE  OutcomeInv'
<1> USE SpoolAssumption DEF OutcomeInv
<1>1. /\ b \in pending /\ b \in payload /\ b \in added /\ full[b] <= PerReportBytes
      /\ \A i \in pending \ {b} : record_better(b, i)
      /\ reason \in [Inputs -> Reasons] /\ added \in SUBSET Inputs
      /\ selected \in SUBSET Inputs /\ selected \subseteq payload /\ pending \subseteq payload
      /\ full \in [Inputs -> 0 .. WordMax]
  BY DEF SelectNext, IsBest, IInv, TypeOK, RecordsInv
<1>2. /\ pending' = pending \ {b} /\ pc = "select"
      /\ reason' = [reason EXCEPT ![b] = FinalReason(b)]
      /\ IF FitsInline(b) THEN selected' = selected \cup {b} ELSE selected' = selected \ {b}
      /\ UNCHANGED <<pc, added, full, priority, payload, known_full_bytes, cache_evicted_count,
                     total, cur>>
  BY DEF SelectNext, streamVars
<1>3. ReasonInv'
  <2>1. CacheLost' = CacheLost
    BY <1>1, <1>2 DEF CacheLost, ReasonInv, FinalReason
  <2>2. CASE FitsInline(b)
    BY <1>1, <1>2, <2>1, <2>2 DEF ReasonInv, FinalReason
  <2>3. CASE ~FitsInline(b)
    BY <1>1, <1>2, <2>1, <2>3 DEF ReasonInv, FinalReason
  <2> QED BY <2>2, <2>3
<1>4. KnownInv' /\ LossInv'
  BY <1>2 DEF KnownInv, LossInv, Bytes, Cells
<1>5. GreedyInv'
  <2> DEFINE Before(T, r) == {s \in T : record_better(s, r)}
  <2>0. \A s, r : record_better(s, r)' <=> record_better(s, r)
    BY <1>2 DEF record_better
  <2>1. ASSUME NEW v \in payload \ pending', NEW q \in pending' PROVE record_better(v, q)
    <3>1. CASE v = b
      BY <1>1, <1>2, <3>1
    <3>2. CASE v # b
      BY <1>2, <2>1, <3>2 DEF GreedyInv, Selecting
    <3> QED BY <3>1, <3>2
  <2>2. ASSUME NEW r \in (payload \ pending') \ selected'
        PROVE  full[r] > InlineBytes - Bytes(Before(selected' \ pending', r), full)
    <3>1. CASE r = b
      <4>1. ~FitsInline(b) /\ selected' \ pending' = selected \ pending
        BY <1>1, <1>2, <2>2, <3>1
      <4>2. Before(selected' \ pending', b) = selected \ pending
        BY <1>1, <1>2, <4>1 DEF GreedyInv, Selecting
      <4>3. selected_bytes = Bytes(selected \ pending, full)
        BY <1>2 DEF IInv, Accounting
      <4>4. /\ full[b] \in Int /\ InlineBytes \in Int /\ selected_bytes \in Int
            /\ ~(full[b] <= InlineBytes - selected_bytes)
        BY <1>1, <4>1 DEF FitsInline, IInv, TypeOK
      <4>5. full[b] > InlineBytes - selected_bytes
        BY <4>4
      <4>6. Bytes(Before(selected' \ pending', b), full) = selected_bytes
        BY <4>2, <4>3
      <4> HIDE DEF Before
      <4> QED BY <3>1, <4>5, <4>6
    <3>2. CASE r # b
      <4>1. r \in (payload \ pending) \ selected
        BY <1>1, <1>2, <2>2, <3>2
      <4>2. full[r] > InlineBytes - Bytes(Before(selected \ pending, r), full)
        BY <1>2, <4>1 DEF GreedyInv, Selecting
      <4>3. Before(selected \ pending, r) \subseteq Before(selected' \ pending', r)
        BY <1>1, <1>2
      <4>4. Before(selected' \ pending', r) \in SUBSET Inputs
        BY <1>1, <1>2
      <4> DEFINE S == Before(selected' \ pending', r)
                 T == Before(selected \ pending, r)
      <4>5. Bytes(T, full) <= Bytes(S, full) /\ Bytes(S, full) \in Nat /\ Bytes(T, full) \in Nat
        <5> HIDE DEF S, T
        <5>1. S \in SUBSET Inputs /\ T \in SUBSET S
          BY <4>3, <4>4 DEF S, T
        <5> QED BY <5>1, BytesSubset, BytesType
      <4>6. full[r] \in Nat
        BY <1>1, <4>1 DEF IInv, RecordsInv
      <4> HIDE DEF Before
      <4> QED BY <4>2, <4>5, <4>6
    <3> QED BY <3>1, <3>2
  <2>3. \A r : {s \in selected' \ pending' : record_better(s, r)'} = Before(selected' \ pending', r)
    BY <2>0
  <2> HIDE DEF Before
  <2>4. \A r \in (payload' \ pending') \ selected' :
           full'[r] > InlineBytes
                 - Bytes({s \in selected' \ pending' : record_better(s, r)'}, full')
    BY <1>2, <2>2, <2>3
  <2> QED BY <1>2, <2>0, <2>1, <2>4 DEF GreedyInv, Bytes, Cells
<1> QED BY <1>3, <1>4, <1>5

\* An operation that fails leaves the records as they were.
LEMMA FailOutcome ==
    ASSUME IInv, IInv', OutcomeInv, NEW e, Fail(e)
    PROVE  OutcomeInv'
<1>1. /\ UNCHANGED <<added, full, selected, payload, reason, known_full_bytes,
                     cache_evicted_count, total, cur>>
      /\ pc' = "failed"
  BY DEF Fail, recordVars, streamVars, counterVars
<1>2. total <= total' /\ (cur' = Nobody => total' = 0)
  BY <1>1, SpoolAssumption DEF OutcomeInv, KnownInv, IInv, TypeOK
<1>3. pc' \notin Selecting
  BY <1>1 DEF Selecting
<1> QED BY <1>1, <1>2, <1>3, RecordsUntouched

\* A step that changes no record, no counted byte and no stream.
LEMMA QuietOutcome ==
    ASSUME IInv, IInv', OutcomeInv,
           UNCHANGED <<added, full, selected, payload, reason, known_full_bytes,
                       cache_evicted_count, total, cur>>,
           pc' \in Selecting => pc \in Selecting /\ UNCHANGED <<priority, pending>>
    PROVE  OutcomeInv'
<1>1. total <= total' /\ (cur' = Nobody => total' = 0)
  BY SpoolAssumption DEF OutcomeInv, KnownInv, IInv, TypeOK
<1> QED BY <1>1, RecordsUntouched

\* Every step preserves the strengthening.
LEMMA NextOutcome == IInv /\ OutcomeInv /\ [Next]_vars => OutcomeInv'
<1> SUFFICES ASSUME IInv, OutcomeInv, [Next]_vars PROVE OutcomeInv'
  OBVIOUS
<1>0. IInv'
  BY NextInv
<1>1. ASSUME NEW i \in Inputs, NEW p \in Priorities, AddOpen(i, p) PROVE OutcomeInv'
  <2>1. /\ UNCHANGED <<added, full, selected, payload, reason, known_full_bytes,
                       cache_evicted_count>>
        /\ total' = 0 /\ pc = "idle" /\ pc' = "render"
    BY <1>1 DEF AddOpen, Goto, counterVars
  <2>2. total = 0
    BY <2>1 DEF IInv, StreamInv, OutcomeInv, KnownInv
  <2>3. pc' \notin Selecting
    BY <2>1 DEF Selecting
  <2> QED BY <1>0, <2>1, <2>2, <2>3, RecordsUntouched
<1>2. CASE AddOpenFails \/ StreamWriteFails \/ AddCloseFails \/ FinalizeMissing
  <2>1. PICK e \in {"create", "write", "close", "priority missing"} : Fail(e)
    BY <1>2 DEF AddOpenFails, StreamWriteFails, AddCloseFails, FinalizeMissing
  <2> QED BY <1>0, <2>1, FailOutcome
<1>3. ASSUME NEW n \in Chunks, xsputn(n) PROVE OutcomeInv'
  <2>1. /\ UNCHANGED <<added, full, selected, payload, reason, known_full_bytes,
                       cache_evicted_count, cur>>
        /\ total' = SatAdd(total, n) /\ pc = "render" /\ pc' \in {"reserve", "render"}
    BY <1>3 DEF xsputn, Goto, recordVars, counterVars
  <2>2. total <= total'
    <3>1. total \in 0 .. WordMax /\ n \in 1 .. WordMax /\ WordMax \in Nat
      BY SpoolAssumption DEF IInv, TypeOK
    <3> QED BY <2>1, <3>1 DEF SatAdd
  <2>3. cur # Nobody
    BY <2>1 DEF IInv, StreamInv
  <2>4. pc' \notin Selecting
    BY <2>1 DEF Selecting
  <2> QED BY <1>0, <2>1, <2>2, <2>3, <2>4, RecordsUntouched
<1>4. CASE reserve_staging
  <2>1. ASSUME NEW e, Fail(e) PROVE OutcomeInv'
    BY <1>0, <2>1, FailOutcome
  <2>2. CASE ReserveGranted
    <3>1. /\ UNCHANGED <<added, full, selected, payload, reason, known_full_bytes,
                         cache_evicted_count, total, cur>>
          /\ pc' \notin Selecting
      BY <2>2 DEF ReserveGranted, Goto, recordVars, streamVars, Selecting
    <3> QED BY <1>0, <3>1, QuietOutcome
  <2>3. ASSUME NeedsRoom, NEW w \in Evictable, ReserveEvict(w) \/ ReserveEvictFails(w)
        PROVE  OutcomeInv'
    <3>1. CASE ReserveEvict(w)
      BY <1>4, <2>3, <3>1, ReserveEvictOutcome DEF reserve_staging
    <3>2. CASE ReserveEvictFails(w)
      BY <2>1, <3>2 DEF ReserveEvictFails
    <3> QED BY <2>3, <3>1, <3>2
  <2> QED BY <1>4, <2>1, <2>2, <2>3 DEF reserve_staging
<1>5. CASE StreamWrite \/ Destroy \/ Closed \/ UNCHANGED vars
  <2>1. UNCHANGED <<added, full, selected, payload, reason, known_full_bytes,
                    cache_evicted_count, total, cur>>
    BY <1>5 DEF StreamWrite, Destroy, Closed, vars, recordVars, streamVars, counterVars
  <2>2. pc' \in Selecting => pc \in Selecting /\ UNCHANGED <<priority, pending>>
    BY <1>5 DEF StreamWrite, Destroy, Closed, Goto, Selecting, vars, recordVars
  <2> QED BY <1>0, <2>1, <2>2, QuietOutcome
<1>6. CASE AddClose
  <2>1. CASE AddOversize \/ AddSelected
    BY <1>6, <2>1, AddOversizeOutcome, AddSelectedOutcome DEF AddClose
  <2>2. ASSUME NEW e, Fail(e) PROVE OutcomeInv'
    BY <1>0, <2>2, FailOutcome
  <2> QED BY <1>6, <2>1, <2>2 DEF AddClose, AddOversizeFails
<1>7. CASE enforce_inline_budget
  <2>1. ASSUME NEW e, Fail(e) PROVE OutcomeInv'
    BY <1>0, <2>1, FailOutcome
  <2>2. CASE EnforceDone
    <3>1. /\ UNCHANGED <<added, full, selected, payload, reason, known_full_bytes,
                         cache_evicted_count, total, cur>>
          /\ pc' \notin Selecting
      BY <2>2 DEF EnforceDone, Goto, recordVars, streamVars, counterVars, Selecting
    <3> QED BY <1>0, <3>1, QuietOutcome
  <2>3. ASSUME NEW w \in selected, EnforceDefer(w) PROVE OutcomeInv'
    BY <1>7, <2>3, EnforceDeferOutcome DEF enforce_inline_budget
  <2> QED BY <1>7, <2>1, <2>2, <2>3 DEF enforce_inline_budget
<1>8. ASSUME NEW P \in [added -> Priorities], FinalizeBegin(P) PROVE OutcomeInv'
  BY <1>8, FinalizeBeginOutcome
<1>9. CASE SelectStep
  <2>1. ASSUME NEW b \in Inputs, SelectNext(b) PROVE OutcomeInv'
    BY <2>1, SelectNextOutcome
  <2>2. CASE SelectDone
    <3>1. /\ UNCHANGED <<added, full, selected, payload, reason, known_full_bytes,
                         cache_evicted_count, total, cur, priority, pending>>
          /\ pc \in Selecting
      BY <2>2 DEF SelectDone, recordVars, streamVars, counterVars, Selecting
    <3> QED BY <1>0, <3>1, QuietOutcome
  <2> QED BY <1>9, <2>1, <2>2 DEF SelectStep
<1>10. CASE Validate
  <2>1. CASE Fail(ValidateError)
    BY <1>0, <2>1, FailOutcome
  <2>2. CASE UNCHANGED <<recordVars, streamVars, counterVars, priorities_finalized,
                         pending, diskVars, shown>>
    <3>1. /\ UNCHANGED <<added, full, selected, payload, reason, known_full_bytes,
                         cache_evicted_count, total, cur, priority, pending>>
          /\ pc \in Selecting
      BY <1>10, <2>2 DEF Validate, recordVars, streamVars, counterVars, Selecting
    <3> QED BY <1>0, <3>1, QuietOutcome
  <2> QED BY <1>10, <2>1, <2>2 DEF Validate
<1>11. CASE OutputStep
  <2>1. ASSUME NEW i \in Inputs, OutputNext(i) PROVE OutcomeInv'
    <3>1. CASE i \in files
      <4>1. UNCHANGED <<pc, added, full, selected, payload, reason, known_full_bytes,
                        cache_evicted_count, total, cur, priority, pending>>
        BY <2>1, <3>1 DEF OutputNext, recordVars, streamVars, counterVars
      <4> QED BY <1>0, <4>1, QuietOutcome
    <3>2. CASE i \notin files
      BY <1>0, <2>1, <3>2, FailOutcome DEF OutputNext
    <3> QED BY <3>1, <3>2
  <2>2. CASE OutputDone
    <3>1. /\ UNCHANGED <<added, full, selected, payload, reason, known_full_bytes,
                         cache_evicted_count, total, cur, priority, pending>>
          /\ pc \in Selecting
      BY <2>2 DEF OutputDone, recordVars, streamVars, counterVars, Selecting
    <3> QED BY <1>0, <3>1, QuietOutcome
  <2> QED BY <1>11, <2>1, <2>2 DEF OutputStep
<1>12. ASSUME NEW i \in Inputs, Interfere(i) PROVE OutcomeInv'
  <2>1. UNCHANGED <<pc, added, full, selected, payload, reason, known_full_bytes,
                    cache_evicted_count, total, cur, priority, pending>>
    BY <1>12 DEF Interfere, recordVars, streamVars, counterVars
  <2> QED BY <1>0, <2>1, QuietOutcome
<1> QED
  BY <1>1, <1>2, <1>3, <1>4, <1>5, <1>6, <1>7, <1>8, <1>9, <1>10, <1>11, <1>12
  DEF Next, Step

\* It holds in every reachable state.
LEMMA OutcomeInvariant == Spec => []OutcomeInv
<1>1. Init => OutcomeInv
  BY InitOutcome
<1>2. IInv /\ OutcomeInv /\ [Next]_vars => OutcomeInv'
  BY NextOutcome
<1> QED BY <1>1, <1>2, InductiveInvariant, PTL DEF Spec

\* The reason annotate_plan prints for a report says what happened to its
\* bytes: each of the four reasons is given exactly when it is the truth, and
\* the counters that rendering() prints agree with the records.
THEOREM ReasonsSayWhatHappened == Spec => []ReasonsAreTrue
<1>1. IInv /\ OutcomeInv => ReasonsAreTrue
  <2> SUFFICES ASSUME IInv, OutcomeInv, Finalized PROVE ReasonsAreTrue
    BY DEF ReasonsAreTrue
  <2>1. /\ pending = {} /\ pc # "select" /\ selected \subseteq added
        /\ added \in SUBSET Inputs /\ selected \in SUBSET Inputs
    BY DEF Finalized, IInv, RecordsInv, TypeOK
  <2>2. selected_bytes <= known_full_bytes
    <3>1. selected_bytes = Bytes(selected, full) /\ selected_bytes <= InlineBytes
      BY <2>1 DEF IInv, Accounting, BudgetInv, Finalized
    <3>2. Bytes(selected, full) <= Bytes(added, full)
      BY <2>1, BytesSubset
    <3>3. Bytes(selected, full) \in Nat /\ Bytes(added, full) \in Nat
      BY <2>1, BytesType
    <3>4. known_full_bytes = MinOf(WordMax, Bytes(added, full))
      BY DEF OutcomeInv, KnownInv
    <3> QED BY <3>1, <3>2, <3>3, <3>4, SpoolAssumption DEF MinOf, HardBytes
  <2> QED BY <2>2 DEF OutcomeInv, ReasonInv, CacheLost, ReasonsAreTrue
<1> QED BY <1>1, InductiveInvariant, OutcomeInvariant, PTL

\* finalize_selection is greedy in the order of record_better: a cached report
\* is deferred only for what the reports better than it already take.
THEOREM SelectionIsGreedy == Spec => []GreedySelection
<1>1. IInv /\ OutcomeInv => GreedySelection
  <2> SUFFICES ASSUME IInv, OutcomeInv, Finalized,
                      NEW r \in payload \ selected
               PROVE  full[r] > InlineBytes
                          - Bytes({s \in selected : record_better(s, r)}, full)
    BY DEF GreedySelection
  <2>1. pending = {} /\ pc \in Selecting
    BY DEF Finalized, Selecting, IInv, RecordsInv
  <2>2. payload \ pending = payload /\ selected \ pending = selected
    BY <2>1
  <2> QED BY <2>1, <2>2 DEF OutcomeInv, GreedyInv
<1> QED BY <1>1, InductiveInvariant, OutcomeInvariant, PTL

\* An eviction means that the reports known so far exceed the disk budget; and
\* when all reports together fit inline, every staged one of them is shown,
\* whatever the order of additions and however the priorities moved.
THEOREM LossesAreNeeded == Spec => []NoNeedlessLoss
<1>1. IInv /\ OutcomeInv => NoNeedlessLoss
  <2> SUFFICES ASSUME IInv, OutcomeInv PROVE NoNeedlessLoss
    OBVIOUS
  <2>1. cache_evicted_count > 0 => SatAdd(known_full_bytes, total) > HardBytes
    BY DEF OutcomeInv, LossInv
  <2>2. ASSUME Finalized, known_full_bytes <= InlineBytes
        PROVE  selected = {i \in added : full[i] <= PerReportBytes}
    <3>1. /\ pending = {} /\ pc \in Selecting /\ cur = Nobody
          /\ selected \subseteq payload /\ payload \subseteq added
          /\ added \in SUBSET Inputs /\ full \in [Inputs -> 0 .. WordMax]
          /\ \A i \in payload : full[i] <= PerReportBytes
      BY <2>2 DEF Finalized, Selecting, IInv, RecordsInv, StreamInv, TypeOK
    <3>2. Bytes(added, full) <= InlineBytes /\ Bytes(added, full) \in Nat
      <4>1. Bytes(added, full) \in Nat /\ WordMax \in Nat /\ InlineBytes \in Nat
            /\ InlineBytes < WordMax
        BY <3>1, BytesType, SpoolAssumption DEF HardBytes
      <4>2. known_full_bytes = MinOf(WordMax, Bytes(added, full))
        BY DEF OutcomeInv, KnownInv
      <4> QED BY <2>2, <4>1, <4>2 DEF MinOf
    <3>3. CacheLost = {}
      <4>1. SatAdd(known_full_bytes, total) = known_full_bytes
        <5>1. total = 0
          BY <3>1 DEF OutcomeInv, KnownInv
        <5> QED BY <5>1, SpoolAssumption DEF SatAdd, IInv, TypeOK
      <4>2. ~(known_full_bytes > HardBytes)
        BY <2>2, SpoolAssumption DEF HardBytes, IInv, TypeOK
      <4>3. cache_evicted_count = 0
        BY <2>1, <4>1, <4>2 DEF IInv, TypeOK
      <4>4. IsFiniteSet(CacheLost)
        BY <3>1, SpoolAssumption, FS_Subset DEF CacheLost
      <4> QED BY <4>3, <4>4, FS_EmptySet DEF OutcomeInv, ReasonInv
    <3>4. ASSUME NEW i \in added, full[i] <= PerReportBytes PROVE i \in selected
      <4>1. SUFFICES ASSUME i \notin selected PROVE FALSE
        OBVIOUS
      <4>2. reason[i] \notin {"NONE", "PER_REPORT_BYTE_BUDGET", "DIRECTORY_SPOOL_CACHE_BUDGET"}
        BY <3>1, <3>3, <3>4, <4>1, SpoolAssumption DEF OutcomeInv, ReasonInv, CacheLost
      <4>3. i \in payload
        BY <3>1, <4>2 DEF OutcomeInv, ReasonInv, IInv, TypeOK, Reasons
      <4> DEFINE T == {s \in selected : record_better(s, i)}
      <4>4. full[i] > InlineBytes - Bytes(T, full)
        <5>1. payload \ pending = payload /\ selected \ pending = selected
          BY <3>1
        <5> QED BY <3>1, <4>1, <4>3, <5>1 DEF OutcomeInv, GreedyInv
      <4>5. T \in SUBSET Inputs /\ i \in Inputs \ T /\ T \cup {i} \in SUBSET added
            /\ full[i] \in 0 .. WordMax
        BY <3>1, <4>1
      <4> HIDE DEF T
      <4>6. Bytes(T \cup {i}, full) = Bytes(T, full) + full[i]
        BY <4>5, BytesAdd
      <4>7. Bytes(T \cup {i}, full) <= Bytes(added, full)
        BY <3>1, <4>5, BytesSubset
      <4>8. Bytes(T, full) \in Nat /\ full[i] \in Nat /\ InlineBytes \in Nat
        BY <4>5, BytesType, SpoolAssumption
      <4> QED BY <3>2, <4>4, <4>6, <4>7, <4>8
    <3> QED BY <3>1, <3>4
  <2> QED BY <2>1, <2>2 DEF NoNeedlessLoss
<1> QED BY <1>1, InductiveInvariant, OutcomeInvariant, PTL

=============================================================================
