------------------------- MODULE ResidentKVStore -------------------------
(***************************************************************************)
(* ResidentKVStore (src/src/context/kv/resident_kv_store.{h,cpp}): the     *)
(* in-memory cache of segment KV handles, accounted in snapshot bytes and  *)
(* trimmed to a byte budget, least recently used first.                    *)
(*                                                                         *)
(* A handle is shared with the active slot of the context, so its fields   *)
(* change under the store as well: ExportInPlace and DropContext are those *)
(* changes, and they bypass the accounting exactly as in the code.         *)
(***************************************************************************)
EXTENDS Integers, FiniteSets

CONSTANTS
    Sessions,         \* session ids
    Segments,         \* segment ids
    Budget,           \* budget_bytes_; 0 means unlimited
    MaxSnapshotBytes  \* bound on the size of one snapshot blob

(* The ids in use are finite, and all blobs together fit in memory: the    *)
(* uint64 overflow return of store (lines 182-185) is never taken.         *)
ASSUME SessionsAssumption == IsFiniteSet(Sessions)
ASSUME SegmentsAssumption == IsFiniteSet(Segments)
ASSUME BytesAssumption == Budget \in Nat /\ MaxSnapshotBytes \in Nat

VARIABLES
    entries,         \* resident_segments_: the entry of every resident key
    older,           \* the pairs of keys <<j, k>> with j.last_access < k.last_access
    resident_bytes   \* resident_bytes_

vars == <<entries, older, resident_bytes>>

-----------------------------------------------------------------------------
Key == Sessions \X Segments
Size == 0..MaxSnapshotBytes
Entry == [snapshot : Size,    \* size of the handle's snapshot blob
          live : BOOLEAN,     \* whether the handle holds a live context
          bytes : Size]       \* the size accounted when last refreshed

SessionKeys(s) == {s} \X Segments

(* The sum of the accounted bytes of the entries E, as the number of its   *)
(* accounted bytes: byte n of key k is the pair <<k, n>>.                  *)
ByteUnits(E) == {u \in Key \X (1..MaxSnapshotBytes) :
                   u[1] \in DOMAIN E /\ u[2] <= E[u[1]].bytes}
SumBytes(E) == Cardinality(ByteUnits(E))

Only(E, K) == [k \in DOMAIN E \cap K |-> E[k]]
Without(E, K) == [k \in DOMAIN E \ K |-> E[k]]
Put(E, k, e) == [j \in DOMAIN E \cup {k} |-> IF j = k THEN e ELSE E[j]]

OlderAmong(R, K) == {p \in R : p[1] \in K /\ p[2] \in K}

(* touch: k becomes the most recently accessed of the keys K. *)
Touched(R, K, k) == OlderAmong(R, K \ {k}) \cup ((K \ {k}) \X {k})

(* Defect: one eviction instead of a loop.                                 *)
VictimsOnePass(E, R, total, protected) ==
    LET candidates == DOMAIN E \ protected
    IN {k \in candidates : /\ Budget # 0
                           /\ total > Budget
                           /\ \A j \in candidates \ {k} : <<k, j>> \in R}

(* Defect: the most recently used entry goes first.                        *)
VictimsNewestFirst(E, R, total, protected) ==
    LET candidates == DOMAIN E \ protected
        After(k) == Only(E, {j \in candidates : <<k, j>> \in R})
    IN {k \in candidates : /\ Budget # 0
                           /\ total - SumBytes(After(k)) > Budget}

(* evict_to_budget over entries E accounted as total: the loop removes the *)
(* oldest unprotected entry while the total is above the budget.  So an    *)
(* entry goes exactly when the older unprotected ones did not suffice.     *)
Victims(E, R, total, protected) ==
    LET candidates == DOMAIN E \ protected
        Before(k) == Only(E, {j \in candidates : <<j, k>> \in R})
    IN {k \in candidates : /\ Budget # 0
                           /\ total - SumBytes(Before(k)) > Budget}

EvictToBudget(E, R, total, protected) ==
    LET V == Victims(E, R, total, protected)
    IN /\ entries' = Without(E, V)
       /\ older' = OlderAmong(R, DOMAIN E \ V)
       /\ resident_bytes' = total - SumBytes(Only(E, V))

-----------------------------------------------------------------------------
Init ==
    /\ entries = [k \in {} |-> 0]
    /\ older = {}
    /\ resident_bytes = 0

(* find refreshes the recency of a hit; peek changes nothing. *)
Find(k) ==
    /\ k \in DOMAIN entries
    /\ older' = Touched(older, DOMAIN entries, k)
    /\ UNCHANGED <<entries, resident_bytes>>

(* Defect: the bytes of a replaced entry stay in the total.                *)
StoreForgettingPrevious(k, snapshot, live) ==
    LET entry == [snapshot |-> snapshot, live |-> live, bytes |-> snapshot]
    IN EvictToBudget(Put(entries, k, entry),
                     Touched(older, DOMAIN entries \cup {k}, k),
                     resident_bytes + entry.bytes,
                     {k})

(* store: account the handle, touch it, replace the entry, trim the rest. *)
Store(k, snapshot, live) ==
    LET entry == [snapshot |-> snapshot, live |-> live, bytes |-> snapshot]
        previous_bytes == SumBytes(Only(entries, {k}))
    IN EvictToBudget(Put(entries, k, entry),
                     Touched(older, DOMAIN entries \cup {k}, k),
                     resident_bytes - previous_bytes + entry.bytes,
                     {k})

(* remove, clear_session and clear drop the entries of the keys K. *)
Forget(K) ==
    /\ entries' = Without(entries, K)
    /\ older' = OlderAmong(older, DOMAIN entries \ K)
    /\ resident_bytes' = resident_bytes - SumBytes(Only(entries, K))

Remove(k) == k \in DOMAIN entries /\ Forget({k})

ClearSession(s) == SessionKeys(s) \cap DOMAIN entries # {} /\ Forget(SessionKeys(s))

Clear ==
    /\ entries # [k \in {} |-> 0]
    /\ entries' = [k \in {} |-> 0]
    /\ older' = {}
    /\ resident_bytes' = 0

(* The entries after the loop body of release_live_context_to_snapshot and *)
(* refresh_entry_bytes ran for the keys K: a live context is exported, the *)
(* blob being of size exported[k], and released; the bytes are refreshed.  *)
Released(K, exported) ==
    [k \in DOMAIN entries |->
        IF k \in K
        THEN LET blob == IF entries[k].live THEN exported[k] ELSE entries[k].snapshot
             IN [snapshot |-> blob, live |-> FALSE, bytes |-> blob]
        ELSE entries[k]]

(* Defect: the bytes before and after the refresh are swapped.             *)
ReleasedTotalSwapped(K, exported) ==
    resident_bytes + SumBytes(Only(entries, K)) - SumBytes(Only(Released(K, exported), K))

ReleasedTotal(K, exported) ==
    resident_bytes - SumBytes(Only(entries, K)) + SumBytes(Only(Released(K, exported), K))

(* The loop stops at the first live context whose export fails; the hash   *)
(* map's order is arbitrary, so any of the other targets may be done.      *)
ReleaseFails(targets) ==
    \E failed \in {k \in targets : entries[k].live} :
        \E done \in SUBSET (targets \ {failed}) :
            \E exported \in [{k \in done : entries[k].live} -> Size] :
                /\ entries' = Released(done, exported)
                /\ resident_bytes' = ReleasedTotal(done, exported)
                /\ UNCHANGED older

(* release_all_live_contexts: no eviction follows, whatever the exports    *)
(* added to the total.                                                     *)
ReleaseAllLiveContexts ==
    \E exported \in [{k \in DOMAIN entries : entries[k].live} -> Size] :
        /\ entries' = Released(DOMAIN entries, exported)
        /\ resident_bytes' = ReleasedTotal(DOMAIN entries, exported)
        /\ UNCHANGED older

ReleaseAllLiveContextsFails == ReleaseFails(DOMAIN entries)

KeepOnlySessionLive(s) ==
    LET targets == DOMAIN entries \ SessionKeys(s)
    IN \E exported \in [{k \in targets : entries[k].live} -> Size] :
           EvictToBudget(Released(targets, exported), older,
                         ReleasedTotal(targets, exported), SessionKeys(s))

KeepOnlySessionLiveFails(s) == ReleaseFails(DOMAIN entries \ SessionKeys(s))

(* keep_only_segment_live returns at once when the session has no entry;   *)
(* otherwise eviction may take any other entry, of any session.            *)
KeepOnlySegmentLive(k) ==
    LET targets == (DOMAIN entries \cap SessionKeys(k[1])) \ {k}
    IN /\ DOMAIN entries \cap SessionKeys(k[1]) # {}
       /\ \E exported \in [{j \in targets : entries[j].live} -> Size] :
              EvictToBudget(Released(targets, exported), older,
                            ReleasedTotal(targets, exported), {k})

KeepOnlySegmentLiveFails(k) ==
    ReleaseFails((DOMAIN entries \cap SessionKeys(k[1])) \ {k})

(* ensure_segment_kv_snapshot called on a resident handle from outside the *)
(* store (while an index or save persists it): the blob appears in place.  *)
ExportInPlace(k, size) ==
    /\ k \in DOMAIN entries
    /\ entries[k].live
    /\ entries' = [entries EXCEPT ![k].snapshot = size]
    /\ UNCHANGED <<older, resident_bytes>>

(* A live context attached to, or released from, a resident handle from    *)
(* outside the store (activate_segment_kv, release_segment_kv_context).    *)
SwitchContext(k) ==
    /\ k \in DOMAIN entries
    /\ entries' = [entries EXCEPT ![k].live = ~@]
    /\ UNCHANGED <<older, resident_bytes>>

Next ==
    \/ \E k \in Key :
          \/ Find(k)
          \/ \E size \in Size, live \in BOOLEAN : Store(k, size, live)
          \/ Remove(k)
          \/ KeepOnlySegmentLive(k)
          \/ KeepOnlySegmentLiveFails(k)
          \/ \E size \in Size : ExportInPlace(k, size)
          \/ SwitchContext(k)
    \/ \E s \in Sessions :
          \/ ClearSession(s)
          \/ KeepOnlySessionLive(s)
          \/ KeepOnlySessionLiveFails(s)
    \/ Clear
    \/ ReleaseAllLiveContexts
    \/ ReleaseAllLiveContextsFails

Spec == Init /\ [][Next]_vars

-----------------------------------------------------------------------------
(* Every entry is of a known key and is an entry; the counter is a natural *)
(* number: the unsigned subtractions of the code never wrap below zero.    *)
TypeOK ==
    /\ DOMAIN entries \subseteq Key
    /\ entries \in [DOMAIN entries -> Entry]
    /\ older \subseteq (DOMAIN entries) \X (DOMAIN entries)
    /\ resident_bytes \in Nat

(* The running counter resident_bytes_ equals the sum of the accounted     *)
(* sizes of the entries, after any sequence of stores over an old entry,   *)
(* evictions, partial releases that failed midway, and session clears.     *)
BytesAccounted == resident_bytes = SumBytes(entries)

(* The access clock orders any two resident entries one way, so the victim *)
(* of evict_to_budget is unique and does not depend on hash map order.     *)
(* The two action properties rest on it in the proofs.                     *)
RecencyIsTotal ==
    /\ \A j, k \in DOMAIN entries :
          j # k => (<<j, k>> \in older <=> <<k, j>> \notin older)
    /\ \A i, j, k \in DOMAIN entries :
          <<i, j>> \in older /\ <<j, k>> \in older => <<i, k>> \in older
    /\ \A k \in DOMAIN entries : <<k, k>> \notin older

WithinBudgetBut(K) ==
    Budget = 0 \/ resident_bytes <= Budget \/ DOMAIN entries \subseteq K

(* The step stored an entry for k. *)
Stored(k) ==
    /\ k \in DOMAIN entries'
    /\ Store(k, entries'[k].snapshot, entries'[k].live)

EvictionsKeepBudget ==
    /\ \A k \in Key : Stored(k) \/ KeepOnlySegmentLive(k) => WithinBudgetBut({k})'
    /\ \A s \in Sessions : KeepOnlySessionLive(s) => WithinBudgetBut(SessionKeys(s))'

(* Every call that ends in evict_to_budget leaves the total within the     *)
(* budget, or leaves nothing but what that call protects.                  *)
BudgetEnforced == [][EvictionsKeepBudget]_vars

(* Evicting for k: no unprotected entry outlives a newer one, and the      *)
(* newest entry evicted was needed: with it the total is over the budget.  *)
EvictsOldestAndFew(k) ==
    LET gone == DOMAIN entries \ (DOMAIN entries' \cup {k})
        kept == (DOMAIN entries \cap DOMAIN entries') \ {k}
    IN /\ \A i \in gone, j \in kept : <<i, j>> \in older
       /\ \A i \in gone : (\A j \in gone \ {i} : <<j, i>> \in older)
             => resident_bytes' + entries[i].bytes > Budget

StoresEvictOldestAndFew == \A k \in Key : Stored(k) => EvictsOldestAndFew(k)

(* A store evicts in least recently used order and no more than it must.   *)
StoreEvictsMinimally == [][StoresEvictOldestAndFew]_vars

=============================================================================
