----------------------- MODULE ResidentKVStore_proofs -----------------------
(***************************************************************************)
(* Proofs about ResidentKVStore, for all sets of ids, budgets and sizes.   *)
(***************************************************************************)
EXTENDS ResidentKVStore, FiniteSetTheorems, WellFoundedInduction, TLAPS

-----------------------------------------------------------------------------
(* Sums of accounted bytes.                                                *)

(* The accounted bytes of any entries are finitely many. *)
LEMMA ByteUnitsFinite ==
  ASSUME NEW E
  PROVE  IsFiniteSet(ByteUnits(E)) /\ SumBytes(E) \in Nat
<1>1. IsFiniteSet(Key)
  BY SessionsAssumption, SegmentsAssumption, FS_Product DEF Key
<1>2. IsFiniteSet(1..MaxSnapshotBytes)
  BY BytesAssumption, FS_Interval
<1>3. IsFiniteSet(Key \X (1..MaxSnapshotBytes))
  BY <1>1, <1>2, FS_Product
<1>4. ByteUnits(E) \in SUBSET (Key \X (1..MaxSnapshotBytes))
  BY DEF ByteUnits
<1>5. IsFiniteSet(ByteUnits(E))
  BY <1>3, <1>4, FS_Subset
<1> QED
  BY <1>5, FS_CardinalityType DEF SumBytes

(* The sum splits over a set of keys and the rest. *)
LEMMA SumSplits ==
  ASSUME NEW E, NEW K
  PROVE  SumBytes(E) = SumBytes(Only(E, K)) + SumBytes(Without(E, K))
<1>1. ByteUnits(E) = ByteUnits(Only(E, K)) \cup ByteUnits(Without(E, K))
  BY DEF ByteUnits, Only, Without
<1>2. ByteUnits(Only(E, K)) \cap ByteUnits(Without(E, K)) = {}
  BY DEF ByteUnits, Only, Without
<1>3. Cardinality(ByteUnits(Only(E, K)) \cap ByteUnits(Without(E, K))) = 0
  BY <1>2, FS_EmptySet
<1>4. Cardinality(ByteUnits(E)) = Cardinality(ByteUnits(Only(E, K)))
                                  + Cardinality(ByteUnits(Without(E, K))) - 0
  BY <1>1, <1>3, ByteUnitsFinite, FS_Union
<1> QED
  BY <1>4, ByteUnitsFinite DEF SumBytes

(* Fewer entries have no larger sum. *)
LEMMA SumMonotone ==
  ASSUME NEW E, NEW K, NEW L, K \cap DOMAIN E \subseteq L
  PROVE  SumBytes(Only(E, K)) <= SumBytes(Only(E, L))
<1>1. ByteUnits(Only(E, K)) \in SUBSET ByteUnits(Only(E, L))
  BY DEF ByteUnits, Only
<1> QED
  BY <1>1, ByteUnitsFinite, FS_Subset DEF SumBytes

(* The sum over one entry is the size accounted for it. *)
LEMMA SumOfOne ==
  ASSUME NEW E, NEW k \in Key, k \in DOMAIN E, E[k].bytes \in Size
  PROVE  SumBytes(Only(E, {k})) = E[k].bytes
<1> DEFINE n == E[k].bytes
<1>1. n \in Nat /\ n <= MaxSnapshotBytes
  BY BytesAssumption DEF Size
<1>2. ByteUnits(Only(E, {k})) = {k} \X (1..n)
  <2>1. DOMAIN Only(E, {k}) = {k} /\ Only(E, {k})[k] = E[k]
    BY DEF Only
  <2> QED
    BY <1>1, <2>1, BytesAssumption DEF ByteUnits
<1>3. IsFiniteSet({k}) /\ Cardinality({k}) = 1
  BY FS_Singleton
<1>4. IsFiniteSet(1..n) /\ Cardinality(1..n) = n
  BY <1>1, FS_Interval
<1>5. Cardinality({k} \X (1..n)) = Cardinality({k}) * Cardinality(1..n)
  BY <1>3, <1>4, FS_Product
<1>6. SumBytes(Only(E, {k})) = 1 * n
  BY <1>2, <1>3, <1>4, <1>5 DEF SumBytes
<1> QED
  BY <1>1, <1>6

(* No entry, nothing accounted. *)
LEMMA SumOfNone ==
  ASSUME NEW E, DOMAIN E = {}
  PROVE  SumBytes(E) = 0
<1>1. ByteUnits(E) = {}
  BY DEF ByteUnits
<1> QED
  BY <1>1, FS_EmptySet DEF SumBytes

-----------------------------------------------------------------------------
(* The operations on entries and their sums.                               *)

(* A store replaces what k contributed by the new entry's bytes. *)
LEMMA SumOfPut ==
  ASSUME NEW E, NEW k \in Key, NEW e \in Entry
  PROVE  SumBytes(Put(E, k, e)) = SumBytes(E) - SumBytes(Only(E, {k})) + e.bytes
<1> DEFINE P == Put(E, k, e)
<1>1. k \in DOMAIN P /\ P[k] = e
  BY DEF Put
<1>2. SumBytes(Only(P, {k})) = e.bytes
  BY <1>1, SumOfOne DEF Entry
<1>3. Without(P, {k}) = Without(E, {k})
  BY DEF Put, Without
<1>4. SumBytes(P) = SumBytes(Only(P, {k})) + SumBytes(Without(P, {k}))
  BY SumSplits
<1>5. SumBytes(E) = SumBytes(Only(E, {k})) + SumBytes(Without(E, {k}))
  BY SumSplits
<1>6. e.bytes \in Nat
  BY BytesAssumption DEF Entry, Size
<1> QED
  BY <1>2, <1>3, <1>4, <1>5, <1>6, ByteUnitsFinite

(* Releasing contexts keeps the entries and their type, and those not      *)
(* released keep their bytes.                                              *)
LEMMA ReleasedTyped ==
  ASSUME TypeOK, NEW K \in SUBSET (DOMAIN entries),
         NEW exported \in [{k \in K : entries[k].live} -> Size]
  PROVE  /\ DOMAIN Released(K, exported) = DOMAIN entries
         /\ Released(K, exported) \in [DOMAIN entries -> Entry]
         /\ Without(Released(K, exported), K) = Without(entries, K)
<1>1. DOMAIN Released(K, exported) = DOMAIN entries
  BY DEF Released
<1>2. ASSUME NEW k \in DOMAIN entries
      PROVE  Released(K, exported)[k] \in Entry
  <2>1. entries[k] \in Entry
    BY DEF TypeOK
  <2>2. CASE k \in K /\ entries[k].live
    BY <2>1, <2>2 DEF Released, Entry
  <2>3. CASE k \in K /\ ~entries[k].live
    BY <2>1, <2>3 DEF Released, Entry
  <2>4. CASE k \notin K
    BY <2>1, <2>4 DEF Released
  <2> QED
    BY <2>2, <2>3, <2>4
<1>3. Released(K, exported) \in [DOMAIN entries -> Entry]
  BY <1>1, <1>2 DEF Released
<1>4. Without(Released(K, exported), K) = Without(entries, K)
  BY <1>1 DEF Released, Without
<1> QED
  BY <1>1, <1>3, <1>4

(* The counter follows the refreshed bytes. *)
LEMMA ReleasedAccounted ==
  ASSUME TypeOK, BytesAccounted, NEW K \in SUBSET (DOMAIN entries),
         NEW exported \in [{k \in K : entries[k].live} -> Size]
  PROVE  ReleasedTotal(K, exported) = SumBytes(Released(K, exported))
<1> DEFINE R == Released(K, exported)
<1>1. SumBytes(entries) = SumBytes(Only(entries, K)) + SumBytes(Without(entries, K))
  BY SumSplits
<1>2. SumBytes(R) = SumBytes(Only(R, K)) + SumBytes(Without(R, K))
  BY SumSplits
<1>3. Without(R, K) = Without(entries, K)
  BY ReleasedTyped
<1>4. /\ SumBytes(Only(R, K)) \in Nat
      /\ SumBytes(Only(entries, K)) \in Nat
      /\ SumBytes(Without(entries, K)) \in Nat
  BY ByteUnitsFinite
<1> QED
  BY <1>1, <1>2, <1>3, <1>4 DEF ReleasedTotal, BytesAccounted

(* Trimming entries whose sum is the total leaves the entries, their       *)
(* recency and the counter consistent.                                     *)
LEMMA EvictPreserves ==
  ASSUME NEW E, NEW R, NEW total, NEW protected,
         DOMAIN E \subseteq Key, E \in [DOMAIN E -> Entry],
         R \subseteq (DOMAIN E) \X (DOMAIN E), total = SumBytes(E),
         EvictToBudget(E, R, total, protected)
  PROVE  TypeOK' /\ BytesAccounted'
<1> DEFINE V == Victims(E, R, total, protected)
<1>1. /\ entries' = Without(E, V)
      /\ older' = OlderAmong(R, DOMAIN E \ V)
      /\ resident_bytes' = total - SumBytes(Only(E, V))
  BY DEF EvictToBudget
<1>2. SumBytes(E) = SumBytes(Only(E, V)) + SumBytes(Without(E, V))
  BY SumSplits
<1>3. /\ SumBytes(Only(E, V)) \in Nat
      /\ SumBytes(Without(E, V)) \in Nat
  BY ByteUnitsFinite
<1>4. resident_bytes' = SumBytes(Without(E, V))
  BY <1>1, <1>2, <1>3
<1>5. DOMAIN entries' = DOMAIN E \ V
  BY <1>1 DEF Without
<1>6. entries' \in [DOMAIN entries' -> Entry]
  BY <1>1, <1>5 DEF Without
<1>7. older' \subseteq (DOMAIN entries') \X (DOMAIN entries')
  <2>1. OlderAmong(R, DOMAIN E \ V) \subseteq (DOMAIN E \ V) \X (DOMAIN E \ V)
    BY DEF OlderAmong
  <2> QED
    BY <1>1, <1>5, <2>1
<1>8. TypeOK'
  BY <1>3, <1>4, <1>5, <1>6, <1>7 DEF TypeOK
<1>9. BytesAccounted'
  BY <1>1, <1>4 DEF BytesAccounted, SumBytes, ByteUnits
<1> QED
  BY <1>8, <1>9

-----------------------------------------------------------------------------
(* The inductive invariant of the accounting.                              *)
Accounted == TypeOK /\ BytesAccounted

(* Changing what is not accounted, or a live flag, keeps the invariant. *)
LEMMA SameBytes ==
  ASSUME Accounted, UNCHANGED resident_bytes, UNCHANGED older,
         DOMAIN entries' = DOMAIN entries,
         entries' \in [DOMAIN entries' -> Entry],
         \A k \in DOMAIN entries : entries'[k].bytes = entries[k].bytes
  PROVE  Accounted'
<1>1. ByteUnits(entries') = ByteUnits(entries)
  BY DEF ByteUnits
<1>2. BytesAccounted'
  BY <1>1 DEF Accounted, BytesAccounted, SumBytes, ByteUnits
<1>3. TypeOK'
  BY DEF Accounted, TypeOK
<1> QED
  BY <1>2, <1>3 DEF Accounted

LEMMA StorePreserves ==
  ASSUME Accounted, NEW k \in Key, NEW snapshot \in Size, NEW live \in BOOLEAN,
         Store(k, snapshot, live)
  PROVE  Accounted'
<1> DEFINE e == [snapshot |-> snapshot, live |-> live, bytes |-> snapshot]
           E == Put(entries, k, e)
           R == Touched(older, DOMAIN entries \cup {k}, k)
           total == resident_bytes - SumBytes(Only(entries, {k})) + e.bytes
<1>1. e \in Entry
  BY DEF Entry
<1>2. DOMAIN E = DOMAIN entries \cup {k} /\ E \in [DOMAIN E -> Entry]
  BY <1>1 DEF Put, Accounted, TypeOK
<1>3. DOMAIN E \subseteq Key
  BY <1>2 DEF Accounted, TypeOK
<1>4. R \subseteq (DOMAIN E) \X (DOMAIN E)
  BY <1>2 DEF Touched, OlderAmong, Accounted, TypeOK
<1>5. total = SumBytes(E)
  BY <1>1, SumOfPut DEF Accounted, BytesAccounted
<1>6. EvictToBudget(E, R, total, {k})
  BY DEF Store
<1> QED
  BY <1>2, <1>3, <1>4, <1>5, <1>6, EvictPreserves DEF Accounted

LEMMA ForgetPreserves ==
  ASSUME Accounted, NEW K, Forget(K)
  PROVE  Accounted'
<1>1. SumBytes(entries) = SumBytes(Only(entries, K)) + SumBytes(Without(entries, K))
  BY SumSplits
<1>2. /\ SumBytes(Only(entries, K)) \in Nat
      /\ SumBytes(Without(entries, K)) \in Nat
  BY ByteUnitsFinite
<1>3. resident_bytes' = SumBytes(Without(entries, K))
  BY <1>1, <1>2 DEF Forget, Accounted, BytesAccounted
<1>4. BytesAccounted'
  BY <1>3 DEF BytesAccounted, Forget, SumBytes, ByteUnits
<1>5. DOMAIN entries' = DOMAIN entries \ K /\ entries' \in [DOMAIN entries' -> Entry]
  BY DEF Forget, Without, Accounted, TypeOK
<1>6. older' \subseteq (DOMAIN entries') \X (DOMAIN entries')
  BY <1>5 DEF Forget, OlderAmong, Accounted, TypeOK
<1> QED
  BY <1>2, <1>3, <1>4, <1>5, <1>6 DEF Accounted, TypeOK

LEMMA ReleaseFailsPreserves ==
  ASSUME Accounted, NEW targets \in SUBSET (DOMAIN entries), ReleaseFails(targets)
  PROVE  Accounted'
<1>0. PICK done \in SUBSET targets :
          \E exported \in [{k \in done : entries[k].live} -> Size] :
             /\ entries' = Released(done, exported)
             /\ resident_bytes' = ReleasedTotal(done, exported)
             /\ UNCHANGED older
  BY DEF ReleaseFails
<1>1. PICK exported \in [{k \in done : entries[k].live} -> Size] :
          /\ entries' = Released(done, exported)
          /\ resident_bytes' = ReleasedTotal(done, exported)
          /\ UNCHANGED older
  BY <1>0
<1>2. done \in SUBSET (DOMAIN entries)
  BY <1>1
<1>3. resident_bytes' = SumBytes(Released(done, exported))
  BY <1>1, <1>2, ReleasedAccounted DEF Accounted
<1>4. BytesAccounted'
  BY <1>1, <1>3 DEF BytesAccounted, SumBytes, ByteUnits
<1>5. DOMAIN entries' = DOMAIN entries /\ entries' \in [DOMAIN entries' -> Entry]
  BY <1>1, <1>2, ReleasedTyped DEF Accounted
<1>6. resident_bytes' \in Nat
  BY <1>3, ByteUnitsFinite
<1> QED
  BY <1>1, <1>4, <1>5, <1>6 DEF Accounted, TypeOK

(* release_all_live_contexts, and the two calls that release some and trim *)
(* the rest.                                                               *)
LEMMA ReleaseAllPreserves ==
  ASSUME Accounted, ReleaseAllLiveContexts
  PROVE  Accounted'
<1>1. PICK exported \in [{k \in DOMAIN entries : entries[k].live} -> Size] :
          /\ entries' = Released(DOMAIN entries, exported)
          /\ resident_bytes' = ReleasedTotal(DOMAIN entries, exported)
          /\ UNCHANGED older
  BY DEF ReleaseAllLiveContexts
<1>2. resident_bytes' = SumBytes(Released(DOMAIN entries, exported))
  BY <1>1, ReleasedAccounted DEF Accounted
<1>3. BytesAccounted'
  BY <1>1, <1>2 DEF BytesAccounted, SumBytes, ByteUnits
<1>4. DOMAIN entries' = DOMAIN entries /\ entries' \in [DOMAIN entries' -> Entry]
  BY <1>1, ReleasedTyped DEF Accounted
<1>5. resident_bytes' \in Nat
  BY <1>2, ByteUnitsFinite
<1> QED
  BY <1>1, <1>3, <1>4, <1>5 DEF Accounted, TypeOK

LEMMA ReleaseAndEvictPreserves ==
  ASSUME Accounted, NEW targets \in SUBSET (DOMAIN entries),
         NEW exported \in [{k \in targets : entries[k].live} -> Size], NEW protected,
         EvictToBudget(Released(targets, exported), older,
                       ReleasedTotal(targets, exported), protected)
  PROVE  Accounted'
<1> DEFINE E == Released(targets, exported)
<1>1. DOMAIN E = DOMAIN entries /\ E \in [DOMAIN E -> Entry]
  BY ReleasedTyped DEF Accounted
<1>2. ReleasedTotal(targets, exported) = SumBytes(E)
  BY ReleasedAccounted DEF Accounted
<1>3. DOMAIN E \subseteq Key /\ older \subseteq (DOMAIN E) \X (DOMAIN E)
  BY <1>1 DEF Accounted, TypeOK
<1> QED
  BY <1>1, <1>2, <1>3, EvictPreserves DEF Accounted

-----------------------------------------------------------------------------
(* Every step preserves the accounting. *)
LEMMA AccountedInductive == Accounted /\ [Next]_vars => Accounted'
<1> SUFFICES ASSUME Accounted, [Next]_vars PROVE Accounted'
  OBVIOUS
<1> USE DEF Accounted
<1>1. ASSUME NEW k \in Key, Find(k) PROVE Accounted'
  <2>1. Touched(older, DOMAIN entries, k) \subseteq (DOMAIN entries) \X (DOMAIN entries)
    BY <1>1 DEF Find, Touched, OlderAmong, TypeOK
  <2>2. TypeOK'
    BY <1>1, <2>1 DEF Find, TypeOK
  <2> QED
    BY <1>1, <2>2 DEF Find, BytesAccounted, SumBytes, ByteUnits
<1>2. ASSUME NEW k \in Key, NEW size \in Size, NEW live \in BOOLEAN, Store(k, size, live)
      PROVE  Accounted'
  BY <1>2, StorePreserves
<1>3. ASSUME NEW k \in Key, Remove(k) PROVE Accounted'
  BY <1>3, ForgetPreserves DEF Remove
<1>4. ASSUME NEW k \in Key, KeepOnlySegmentLive(k) PROVE Accounted'
  <2> DEFINE targets == (DOMAIN entries \cap SessionKeys(k[1])) \ {k}
  <2>1. PICK exported \in [{j \in targets : entries[j].live} -> Size] :
            EvictToBudget(Released(targets, exported), older,
                          ReleasedTotal(targets, exported), {k})
    BY <1>4 DEF KeepOnlySegmentLive
  <2>2. targets \in SUBSET (DOMAIN entries)
    OBVIOUS
  <2> HIDE DEF targets, Accounted
  <2> QED
    BY <2>1, <2>2, ReleaseAndEvictPreserves
<1>5. ASSUME NEW k \in Key, KeepOnlySegmentLiveFails(k) PROVE Accounted'
  BY <1>5, ReleaseFailsPreserves DEF KeepOnlySegmentLiveFails
<1>6. ASSUME NEW k \in Key, NEW size \in Size, ExportInPlace(k, size) PROVE Accounted'
  <2>1. DOMAIN entries' = DOMAIN entries
    BY <1>6 DEF ExportInPlace
  <2>2. ASSUME NEW j \in DOMAIN entries
        PROVE  entries'[j] \in Entry /\ entries'[j].bytes = entries[j].bytes
    BY <1>6 DEF ExportInPlace, TypeOK, Entry
  <2>3. entries' \in [DOMAIN entries' -> Entry]
    BY <1>6, <2>1, <2>2 DEF ExportInPlace
  <2> QED
    BY <1>6, <2>1, <2>2, <2>3, SameBytes DEF ExportInPlace
<1>7. ASSUME NEW k \in Key, SwitchContext(k) PROVE Accounted'
  <2>1. DOMAIN entries' = DOMAIN entries
    BY <1>7 DEF SwitchContext
  <2>2. ASSUME NEW j \in DOMAIN entries
        PROVE  entries'[j] \in Entry /\ entries'[j].bytes = entries[j].bytes
    BY <1>7 DEF SwitchContext, TypeOK, Entry
  <2>3. entries' \in [DOMAIN entries' -> Entry]
    BY <1>7, <2>1, <2>2 DEF SwitchContext
  <2> QED
    BY <1>7, <2>1, <2>2, <2>3, SameBytes DEF SwitchContext
<1>8. ASSUME NEW s \in Sessions, ClearSession(s) PROVE Accounted'
  BY <1>8, ForgetPreserves DEF ClearSession
<1>9. ASSUME NEW s \in Sessions, KeepOnlySessionLive(s) PROVE Accounted'
  <2> DEFINE targets == DOMAIN entries \ SessionKeys(s)
  <2>1. PICK exported \in [{k \in targets : entries[k].live} -> Size] :
            EvictToBudget(Released(targets, exported), older,
                          ReleasedTotal(targets, exported), SessionKeys(s))
    BY <1>9 DEF KeepOnlySessionLive
  <2>2. targets \in SUBSET (DOMAIN entries)
    OBVIOUS
  <2> HIDE DEF targets, Accounted
  <2> QED
    BY <2>1, <2>2, ReleaseAndEvictPreserves
<1>10. ASSUME NEW s \in Sessions, KeepOnlySessionLiveFails(s) PROVE Accounted'
  BY <1>10, ReleaseFailsPreserves DEF KeepOnlySessionLiveFails
<1>11. ASSUME Clear PROVE Accounted'
  <2>1. DOMAIN entries' = {}
    BY <1>11 DEF Clear
  <2>2. ByteUnits(entries') = {}
    BY <2>1 DEF ByteUnits
  <2>3. Cardinality(ByteUnits(entries')) = 0
    BY <2>2, FS_EmptySet
  <2>4. resident_bytes' = SumBytes(entries)'
    BY <1>11, <2>3 DEF Clear, SumBytes, ByteUnits
  <2>5. TypeOK'
    BY <1>11 DEF Clear, TypeOK
  <2> QED
    BY <2>4, <2>5 DEF BytesAccounted
<1>12. ASSUME ReleaseAllLiveContexts PROVE Accounted'
  BY <1>12, ReleaseAllPreserves
<1>13. ASSUME ReleaseAllLiveContextsFails PROVE Accounted'
  BY <1>13, ReleaseFailsPreserves DEF ReleaseAllLiveContextsFails
<1>14. CASE UNCHANGED vars
  BY <1>14 DEF vars, TypeOK, BytesAccounted, SumBytes, ByteUnits
<1> QED
  BY <1>1, <1>2, <1>3, <1>4, <1>5, <1>6, <1>7, <1>8, <1>9, <1>10, <1>11, <1>12,
     <1>13, <1>14 DEF Next

LEMMA AccountedInvariant == Spec => []Accounted
<1>1. Init => Accounted
  <2> SUFFICES ASSUME Init PROVE Accounted
    OBVIOUS
  <2>1. TypeOK
    BY DEF Init, TypeOK
  <2>2. SumBytes(entries) = 0
    BY SumOfNone DEF Init
  <2> QED
    BY <2>1, <2>2 DEF Init, Accounted, BytesAccounted
<1> QED
  BY <1>1, AccountedInductive, PTL DEF Spec

(* The entries stay well typed, and the unsigned counter never wraps: every *)
(* subtraction of store, remove, refresh_entry_bytes and evict_to_budget   *)
(* takes away no more than the counter holds.                              *)
THEOREM TypeCorrect == Spec => []TypeOK
<1>1. Accounted => TypeOK
  BY DEF Accounted
<1> QED
  BY <1>1, AccountedInvariant, PTL

(* The counter resident_bytes_ is the sum of the accounted sizes, for any  *)
(* ids, budget and sizes, also after releases that failed midway.          *)
THEOREM BytesAlwaysAccounted == Spec => []BytesAccounted
<1>1. Accounted => BytesAccounted
  BY DEF Accounted
<1> QED
  BY <1>1, AccountedInvariant, PTL

-----------------------------------------------------------------------------
(* The recency order.                                                      *)
TotalOn(R, D) ==
    /\ \A j, k \in D : j # k => (<<j, k>> \in R <=> <<k, j>> \notin R)
    /\ \A i, j, k \in D : <<i, j>> \in R /\ <<j, k>> \in R => <<i, k>> \in R
    /\ \A k \in D : <<k, k>> \notin R

(* Forgetting keys keeps the order of the others. *)
LEMMA OlderAmongTotal ==
  ASSUME NEW R, NEW D, NEW K, TotalOn(R, D), K \subseteq D
  PROVE  TotalOn(OlderAmong(R, K), K)
<1>1. \A j, k \in K : <<j, k>> \in OlderAmong(R, K) <=> <<j, k>> \in R
  BY DEF OlderAmong
<1> QED
  BY <1>1 DEF TotalOn

(* touch makes its key the newest one and keeps the order of the others. *)
LEMMA TouchedTotal ==
  ASSUME NEW R, NEW D, NEW k, TotalOn(R, D)
  PROVE  TotalOn(Touched(R, D \cup {k}, k), D \cup {k})
<1> DEFINE T == Touched(R, D \cup {k}, k)
           C == D \cup {k}
<1>1. \A i, j \in C : <<i, j>> \in T <=> i # k /\ (j = k \/ <<i, j>> \in R)
  BY DEF Touched, OlderAmong
<1>2. \A i \in C : i # k => i \in D
  OBVIOUS
<1> HIDE DEF T, C
<1>3. \A i, j \in C : i # j => (<<i, j>> \in T <=> <<j, i>> \notin T)
  BY <1>1, <1>2 DEF TotalOn
<1>4. \A h, i, j \in C : <<h, i>> \in T /\ <<i, j>> \in T => <<h, j>> \in T
  BY <1>1, <1>2 DEF TotalOn
<1>5. \A i \in C : <<i, i>> \notin T
  BY <1>1, <1>2 DEF TotalOn
<1>6. TotalOn(T, C)
  BY <1>3, <1>4, <1>5 DEF TotalOn
<1> QED
  BY <1>6 DEF T, C

LEMMA EvictKeepsOrder ==
  ASSUME NEW E, NEW R, NEW total, NEW protected, TotalOn(R, DOMAIN E),
         EvictToBudget(E, R, total, protected)
  PROVE  RecencyIsTotal'
<1> DEFINE V == Victims(E, R, total, protected)
<1>1. DOMAIN entries' = DOMAIN E \ V /\ older' = OlderAmong(R, DOMAIN E \ V)
  BY DEF EvictToBudget, Without
<1>2. TotalOn(OlderAmong(R, DOMAIN E \ V), DOMAIN E \ V)
  BY OlderAmongTotal
<1> QED
  BY <1>1, <1>2 DEF RecencyIsTotal, TotalOn

(* The order survives a step that keeps the keys and their recency. *)
LEMMA SameOrder ==
  ASSUME RecencyIsTotal, UNCHANGED older, DOMAIN entries' = DOMAIN entries
  PROVE  RecencyIsTotal'
BY DEF RecencyIsTotal

Ordered == TypeOK /\ RecencyIsTotal

LEMMA OrderInductive == Ordered /\ [Next]_vars => RecencyIsTotal'
<1> SUFFICES ASSUME Ordered, [Next]_vars PROVE RecencyIsTotal'
  OBVIOUS
<1>0. TypeOK /\ RecencyIsTotal /\ TotalOn(older, DOMAIN entries)
  BY DEF Ordered, TotalOn, RecencyIsTotal
<1>1. ASSUME NEW k \in Key, Find(k) PROVE RecencyIsTotal'
  <2>1. DOMAIN entries \cup {k} = DOMAIN entries
    BY <1>1 DEF Find
  <2>2. TotalOn(older', DOMAIN entries)
    BY <1>0, <1>1, <2>1, TouchedTotal DEF Find
  <2> QED
    BY <1>1, <2>2 DEF Find, TotalOn, RecencyIsTotal
<1>2. ASSUME NEW k \in Key, NEW size \in Size, NEW live \in BOOLEAN, Store(k, size, live)
      PROVE  RecencyIsTotal'
  <2> DEFINE e == [snapshot |-> size, live |-> live, bytes |-> size]
             E == Put(entries, k, e)
             R == Touched(older, DOMAIN entries \cup {k}, k)
  <2>1. DOMAIN E = DOMAIN entries \cup {k}
    BY DEF Put
  <2>2. TotalOn(R, DOMAIN E)
    BY <1>0, <2>1, TouchedTotal
  <2>3. EvictToBudget(E, R, resident_bytes - SumBytes(Only(entries, {k})) + e.bytes, {k})
    BY <1>2 DEF Store
  <2> QED
    BY <2>2, <2>3, EvictKeepsOrder
<1>3. ASSUME NEW K, Forget(K) PROVE RecencyIsTotal'
  <2>1. TotalOn(older', DOMAIN entries \ K)
    BY <1>0, <1>3, OlderAmongTotal DEF Forget
  <2>2. DOMAIN entries' = DOMAIN entries \ K
    BY <1>3 DEF Forget, Without
  <2> QED
    BY <2>1, <2>2 DEF TotalOn, RecencyIsTotal
<1>4. ASSUME NEW targets \in SUBSET (DOMAIN entries), ReleaseFails(targets)
      PROVE  RecencyIsTotal'
  <2>1. UNCHANGED older /\ DOMAIN entries' = DOMAIN entries
    BY <1>4 DEF ReleaseFails, Released
  <2> QED
    BY <1>0, <2>1, SameOrder
<1>5. ASSUME NEW targets \in SUBSET (DOMAIN entries),
             NEW exported \in [{k \in targets : entries[k].live} -> Size], NEW protected,
             EvictToBudget(Released(targets, exported), older,
                           ReleasedTotal(targets, exported), protected)
      PROVE  RecencyIsTotal'
  <2>1. DOMAIN Released(targets, exported) = DOMAIN entries
    BY DEF Released
  <2> QED
    BY <1>0, <1>5, <2>1, EvictKeepsOrder
<1>6. ASSUME NEW k \in Key, KeepOnlySegmentLive(k) PROVE RecencyIsTotal'
  BY <1>5, <1>6 DEF KeepOnlySegmentLive
<1>7. ASSUME NEW s \in Sessions, KeepOnlySessionLive(s) PROVE RecencyIsTotal'
  BY <1>5, <1>7 DEF KeepOnlySessionLive
<1>8. ASSUME NEW k \in Key, NEW size \in Size, ExportInPlace(k, size) PROVE RecencyIsTotal'
  BY <1>0, <1>8, SameOrder DEF ExportInPlace
<1>9. ASSUME Clear PROVE RecencyIsTotal'
  BY <1>9 DEF Clear, RecencyIsTotal
<1>10. ASSUME ReleaseAllLiveContexts PROVE RecencyIsTotal'
  BY <1>0, <1>10, SameOrder DEF ReleaseAllLiveContexts, Released
<1>11. ASSUME NEW k \in Key, Remove(k) \/ KeepOnlySegmentLiveFails(k)
       PROVE  RecencyIsTotal'
  BY <1>3, <1>4, <1>11 DEF Remove, KeepOnlySegmentLiveFails
<1>12. ASSUME NEW s \in Sessions, ClearSession(s) \/ KeepOnlySessionLiveFails(s)
       PROVE  RecencyIsTotal'
  BY <1>3, <1>4, <1>12 DEF ClearSession, KeepOnlySessionLiveFails
<1>13. ASSUME ReleaseAllLiveContextsFails PROVE RecencyIsTotal'
  BY <1>4, <1>13 DEF ReleaseAllLiveContextsFails
<1>14. CASE UNCHANGED vars
  BY <1>0, <1>14 DEF vars, RecencyIsTotal
<1>15. ASSUME NEW k \in Key, SwitchContext(k) PROVE RecencyIsTotal'
  BY <1>0, <1>15, SameOrder DEF SwitchContext
<1> QED
  BY <1>1, <1>2, <1>6, <1>7, <1>8, <1>9, <1>10, <1>11, <1>12, <1>13, <1>14, <1>15 DEF Next

(* The access clock orders any two entries one way, so the victim of an    *)
(* eviction never depends on the iteration order of the hash map.          *)
THEOREM RecencyAlwaysTotal == Spec => []RecencyIsTotal
<1>1. Init => RecencyIsTotal
  BY DEF Init, RecencyIsTotal
<1>2. TypeOK /\ RecencyIsTotal /\ [Next]_vars => RecencyIsTotal'
  BY OrderInductive DEF Ordered
<1> QED
  BY <1>1, <1>2, TypeCorrect, PTL DEF Spec

-----------------------------------------------------------------------------
(* What an eviction leaves.                                                *)

(* Of finitely many entries one is the oldest: the one with the fewest     *)
(* entries before it.                                                      *)
LEMMA OldestExists ==
  ASSUME NEW R, NEW S, IsFiniteSet(S), S # {}, TotalOn(R, S)
  PROVE  \E k \in S : \A j \in S : <<j, k>> \notin R
<1> DEFINE Before(k) == {j \in S : <<j, k>> \in R}
           T == {Before(k) : k \in S}
<1>1. T \subseteq FiniteSubsetsOf(S) /\ T # {}
  <2>1. FiniteSubsetsOf(S) = SUBSET S
    BY FS_FiniteSubsetsOfFinite
  <2>2. T \subseteq SUBSET S
    OBVIOUS
  <2>3. T # {}
    OBVIOUS
  <2> HIDE DEF T
  <2> QED
    BY <2>1, <2>2, <2>3
<1>2. PICK B \in T : \A A \in T : <<A, B>> \notin StrictSubsetOrdering(S)
  BY <1>1, FS_StrictSubsetOrderingWellFounded, WFMin
<1>3. PICK k \in S : B = Before(k)
  BY <1>2
<1>4. ASSUME NEW j \in S, <<j, k>> \in R PROVE FALSE
  <2>1. Before(j) \subseteq Before(k)
    BY <1>4 DEF TotalOn
  <2>2. j \in Before(k) /\ j \notin Before(j)
    BY <1>4 DEF TotalOn
  <2>3. <<Before(j), Before(k)>> \in StrictSubsetOrdering(S)
    BY <2>1, <2>2 DEF StrictSubsetOrdering
  <2> QED
    BY <1>2, <1>3, <2>3
<1> QED
  BY <1>4

(* The keys of the store are finitely many. *)
LEMMA KeysFinite ==
  ASSUME NEW S, S \subseteq Key
  PROVE  IsFiniteSet(S)
BY SessionsAssumption, SegmentsAssumption, FS_Product, FS_Subset DEF Key

(* An unprotected survivor proves that the total fell within the budget:   *)
(* what is older than the oldest of them is gone, and that sufficed.       *)
LEMMA EvictWithinBudget ==
  ASSUME NEW E, NEW R, NEW total \in Nat, NEW protected, DOMAIN E \subseteq Key,
         TotalOn(R, DOMAIN E), EvictToBudget(E, R, total, protected)
  PROVE  Budget = 0 \/ resident_bytes' <= Budget \/ DOMAIN entries' \subseteq protected
<1> DEFINE V == Victims(E, R, total, protected)
           candidates == DOMAIN E \ protected
           Before(k) == Only(E, {j \in candidates : <<j, k>> \in R})
           S == candidates \ V
<1> SUFFICES ASSUME Budget # 0, S # {} PROVE resident_bytes' <= Budget
  BY DEF EvictToBudget, Without
<1>1. V = {k \in candidates : Budget # 0 /\ total - SumBytes(Before(k)) > Budget}
  BY DEF Victims
<1>2. IsFiniteSet(S) /\ TotalOn(R, S)
  BY KeysFinite DEF TotalOn
<1>3. PICK k \in S : \A j \in S : <<j, k>> \notin R
  BY <1>2, OldestExists
<1>4. {j \in candidates : <<j, k>> \in R} \subseteq V
  BY <1>3
<1> HIDE DEF V
<1>5. SumBytes(Before(k)) <= SumBytes(Only(E, V))
  BY <1>4, SumMonotone
<1>6. SumBytes(Before(k)) \in Nat /\ SumBytes(Only(E, V)) \in Nat
  BY ByteUnitsFinite
<1>7. total - SumBytes(Before(k)) <= Budget
  BY <1>1, <1>3, <1>6, BytesAssumption
<1>8. resident_bytes' = total - SumBytes(Only(E, V))
  BY DEF EvictToBudget, V
<1> QED
  BY <1>5, <1>6, <1>7, <1>8, BytesAssumption

(* A store accounts exactly the entries it is about to trim. *)
LEMMA StoreTotal ==
  ASSUME Accounted, NEW k \in Key, NEW e \in Entry
  PROVE  /\ resident_bytes - SumBytes(Only(entries, {k})) + e.bytes
               = SumBytes(Put(entries, k, e))
         /\ DOMAIN Put(entries, k, e) = DOMAIN entries \cup {k}
         /\ DOMAIN Put(entries, k, e) \subseteq Key
<1>1. DOMAIN Put(entries, k, e) = DOMAIN entries \cup {k}
  BY DEF Put
<1> QED
  BY <1>1, SumOfPut DEF Accounted, BytesAccounted, TypeOK

LEMMA BudgetStep ==
  Accounted /\ RecencyIsTotal /\ [Next]_vars => [EvictionsKeepBudget]_vars
<1> SUFFICES ASSUME Accounted, RecencyIsTotal, [Next]_vars PROVE EvictionsKeepBudget
  OBVIOUS
<1>0. Accounted' /\ TotalOn(older, DOMAIN entries)
  BY AccountedInductive DEF TotalOn, RecencyIsTotal
<1>1. ASSUME NEW k \in Key, Stored(k) PROVE WithinBudgetBut({k})'
  <2> DEFINE snapshot == entries'[k].snapshot
             e == [snapshot |-> snapshot, live |-> entries'[k].live, bytes |-> snapshot]
             E == Put(entries, k, e)
             R == Touched(older, DOMAIN entries \cup {k}, k)
             total == resident_bytes - SumBytes(Only(entries, {k})) + e.bytes
  <2>1. entries'[k] \in Entry
    BY <1>0, <1>1 DEF Stored, Accounted, TypeOK
  <2>2. e \in Entry
    BY <2>1 DEF Entry
  <2>3. total = SumBytes(E) /\ DOMAIN E = DOMAIN entries \cup {k} /\ DOMAIN E \subseteq Key
    BY <2>2, StoreTotal
  <2>4. total \in Nat
    BY <2>3, ByteUnitsFinite
  <2>5. TotalOn(R, DOMAIN E)
    BY <1>0, <2>3, TouchedTotal
  <2>6. EvictToBudget(E, R, total, {k})
    BY <1>1 DEF Stored, Store
  <2> HIDE DEF E, R, total
  <2> QED
    BY <2>3, <2>4, <2>5, <2>6, EvictWithinBudget DEF WithinBudgetBut
<1>2. ASSUME NEW targets \in SUBSET (DOMAIN entries),
             NEW exported \in [{k \in targets : entries[k].live} -> Size], NEW protected,
             EvictToBudget(Released(targets, exported), older,
                           ReleasedTotal(targets, exported), protected)
      PROVE  Budget = 0 \/ resident_bytes' <= Budget \/ DOMAIN entries' \subseteq protected
  <2>1. ReleasedTotal(targets, exported) = SumBytes(Released(targets, exported))
    BY ReleasedAccounted DEF Accounted
  <2>2. ReleasedTotal(targets, exported) \in Nat
    BY <2>1, ByteUnitsFinite
  <2>3. DOMAIN Released(targets, exported) = DOMAIN entries
    BY DEF Released
  <2>4. DOMAIN Released(targets, exported) \subseteq Key
    BY <2>3 DEF Accounted, TypeOK
  <2> QED
    BY <1>0, <1>2, <2>2, <2>3, <2>4, EvictWithinBudget
<1>3. ASSUME NEW k \in Key, KeepOnlySegmentLive(k) PROVE WithinBudgetBut({k})'
  <2> DEFINE targets == (DOMAIN entries \cap SessionKeys(k[1])) \ {k}
  <2>1. PICK exported \in [{j \in targets : entries[j].live} -> Size] :
            EvictToBudget(Released(targets, exported), older,
                          ReleasedTotal(targets, exported), {k})
    BY <1>3 DEF KeepOnlySegmentLive
  <2> QED
    BY <1>2, <2>1 DEF WithinBudgetBut
<1>4. ASSUME NEW s \in Sessions, KeepOnlySessionLive(s)
      PROVE  WithinBudgetBut(SessionKeys(s))'
  <2> DEFINE targets == DOMAIN entries \ SessionKeys(s)
  <2>1. PICK exported \in [{j \in targets : entries[j].live} -> Size] :
            EvictToBudget(Released(targets, exported), older,
                          ReleasedTotal(targets, exported), SessionKeys(s))
    BY <1>4 DEF KeepOnlySessionLive
  <2>2. Budget = 0 \/ resident_bytes' <= Budget \/ DOMAIN entries' \subseteq SessionKeys(s)
    BY <1>2, <2>1
  <2> QED
    BY <2>2 DEF WithinBudgetBut, SessionKeys
<1> QED
  BY <1>1, <1>3, <1>4 DEF EvictionsKeepBudget

(* Whatever the recency order and the sizes, each call that trims the      *)
(* store ends within the budget or with nothing left but what it protects. *)
THEOREM BudgetAlwaysEnforced == Spec => BudgetEnforced
<1> QED
  BY BudgetStep, AccountedInvariant, RecencyAlwaysTotal, PTL DEF Spec, BudgetEnforced

-----------------------------------------------------------------------------
(* What a store evicts.                                                    *)

LEMMA StoreEvicts ==
  ASSUME Accounted, RecencyIsTotal, NEW k \in Key, Stored(k), TypeOK'
  PROVE  EvictsOldestAndFew(k)
<1> DEFINE snapshot == entries'[k].snapshot
           e == [snapshot |-> snapshot, live |-> entries'[k].live, bytes |-> snapshot]
           E == Put(entries, k, e)
           R == Touched(older, DOMAIN entries \cup {k}, k)
           total == resident_bytes - SumBytes(Only(entries, {k})) + e.bytes
           V == Victims(E, R, total, {k})
           candidates == DOMAIN E \ {k}
           Earlier(i) == {j \in candidates : <<j, i>> \in R}
           Before(i) == Only(E, Earlier(i))
           gone == DOMAIN entries \ (DOMAIN entries' \cup {k})
           kept == (DOMAIN entries \cap DOMAIN entries') \ {k}
<1>1. e \in Entry
  BY DEF Stored, TypeOK, Entry
<1>2. total = SumBytes(E) /\ DOMAIN E = DOMAIN entries \cup {k}
  BY <1>1, StoreTotal
<1>3. total \in Nat
  BY <1>2, ByteUnitsFinite
<1>4. \A i, j \in candidates : <<i, j>> \in R <=> <<i, j>> \in older
  BY <1>2 DEF Touched, OlderAmong
<1>5. EvictToBudget(E, R, total, {k})
  BY DEF Stored, Store
<1>6. V = {i \in candidates : Budget # 0 /\ total - SumBytes(Before(i)) > Budget}
  BY DEF Victims
<1>7. DOMAIN entries' = DOMAIN E \ V /\ resident_bytes' = total - SumBytes(Only(E, V))
  BY <1>5 DEF EvictToBudget, Without
<1>8. gone = V /\ kept = candidates \ V
  BY <1>2, <1>6, <1>7
<1>9. \A i, j \in candidates : i # j => (<<i, j>> \in R <=> <<j, i>> \notin R)
  BY <1>2, <1>4 DEF RecencyIsTotal
<1>10. \A h, i, j \in candidates : <<h, i>> \in R /\ <<i, j>> \in R => <<h, j>> \in R
  BY <1>2, <1>4 DEF RecencyIsTotal
<1> HIDE DEF E, R, total, V, gone, kept
<1>11. ASSUME NEW i \in V, NEW j \in candidates \ V PROVE <<i, j>> \in R
  <2> SUFFICES ASSUME <<j, i>> \in R PROVE FALSE
    BY <1>6, <1>9
  <2>1. Earlier(j) \subseteq Earlier(i)
    BY <1>6, <1>10
  <2>2. SumBytes(Before(j)) <= SumBytes(Before(i))
    BY <2>1, SumMonotone
  <2>3. SumBytes(Before(i)) \in Nat /\ SumBytes(Before(j)) \in Nat
    BY ByteUnitsFinite
  <2> QED
    BY <1>3, <1>6, <2>2, <2>3, BytesAssumption
<1>12. ASSUME NEW i \in V, \A j \in V \ {i} : <<j, i>> \in older
       PROVE  resident_bytes' + entries[i].bytes > Budget
  <2>1. /\ i \in candidates /\ i \in DOMAIN entries /\ i \in Key
        /\ E[i] = entries[i] /\ E[i].bytes \in Nat
    BY <1>2, <1>6, BytesAssumption DEF E, Put, Accounted, TypeOK, Entry, Size
  <2>2. Without(Only(E, V), {i}) = Only(E, V \ {i})
    BY DEF Without, Only
  <2>3. Only(Only(E, V), {i}) = Only(E, {i})
    BY DEF Only
  <2>4. SumBytes(Only(E, V)) = SumBytes(Only(E, {i})) + SumBytes(Only(E, V \ {i}))
    BY <2>2, <2>3, SumSplits
  <2>5. SumBytes(Only(E, {i})) = entries[i].bytes
    <3>1. E[i].bytes \in Size
      BY <2>1 DEF Accounted, TypeOK, Entry
    <3> QED
      BY <1>2, <2>1, <3>1, SumOfOne
  <2>6. V \ {i} \subseteq Earlier(i)
    BY <1>4, <1>6, <1>12
  <2>7. SumBytes(Only(E, V \ {i})) <= SumBytes(Before(i))
    BY <2>6, SumMonotone
  <2>8. SumBytes(Before(i)) \in Nat /\ SumBytes(Only(E, V \ {i})) \in Nat
    BY ByteUnitsFinite
  <2>9. total - SumBytes(Before(i)) > Budget
    BY <1>6
  <2> QED
    BY <1>3, <1>7, <2>1, <2>4, <2>5, <2>7, <2>8, <2>9, BytesAssumption
<1> QED
  <2>1. \A i \in gone, j \in kept : <<i, j>> \in older
    BY <1>4, <1>6, <1>8, <1>11
  <2>2. \A i \in gone : (\A j \in gone \ {i} : <<j, i>> \in older)
            => resident_bytes' + entries[i].bytes > Budget
    BY <1>8, <1>12
  <2> QED
    BY <2>1, <2>2 DEF EvictsOldestAndFew, gone, kept

(* No store of any session evicts an entry while an older one stays, nor   *)
(* one entry more than the budget asks for.                                *)
THEOREM StoreAlwaysEvictsMinimally == Spec => StoreEvictsMinimally
<1>1. Accounted /\ RecencyIsTotal /\ [Next]_vars => [StoresEvictOldestAndFew]_vars
  <2> SUFFICES ASSUME Accounted, RecencyIsTotal, [Next]_vars,
                      NEW k \in Key, Stored(k)
               PROVE  EvictsOldestAndFew(k)
    BY DEF StoresEvictOldestAndFew
  <2>1. TypeOK'
    BY AccountedInductive DEF Accounted
  <2> QED
    BY <2>1, StoreEvicts
<1> QED
  BY <1>1, AccountedInvariant, RecencyAlwaysTotal, PTL DEF Spec, StoreEvictsMinimally

=============================================================================
