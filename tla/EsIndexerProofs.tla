--------------------------- MODULE EsIndexerProofs ---------------------------
(***************************************************************************)
(* Theorems about EsIndexer, for every number of events, batch size, set   *)
(* of events that may fail and number of ends of the process: the marker   *)
(* never runs ahead of the index, the index is never auto-created, no      *)
(* batch exceeds its limit, and the indexer implements Mirror.             *)
(***************************************************************************)
EXTENDS EsIndexer, FiniteSetTheorems, TLAPS

\* What the sets hold.
InStore == batch \cup marked \cup indexed \subseteq stored

\* Between the bulk call and the marker, the batch is in the index, but for the
\* items that Elasticsearch failed.
BulkDone == pc = "marking" => batch \subseteq indexed \cup Rejectable

\* The index exists once the flag is set, and whenever it is written.
IndexExists ==
    /\ esIndex \in {"absent", "explicit", "dynamic"}
    /\ mappingReady \/ pc = "indexing" => esIndex # "absent"

OutboxInv == InStore /\ BulkDone /\ IndexExists /\ MarkedIsIndexed /\ NoDynamicMapping

LEMMA OutboxInit == Init => OutboxInv
BY DEF Init, OutboxInv, InStore, BulkDone, IndexExists, MarkedIsIndexed, NoDynamicMapping

LEMMA OutboxStep == OutboxInv /\ [Next]_vars => OutboxInv'
<1> SUFFICES ASSUME OutboxInv, [Next]_vars
             PROVE  OutboxInv'
  OBVIOUS
<1> USE DEF OutboxInv, InStore, BulkDone, IndexExists, MarkedIsIndexed, NoDynamicMapping
<1>1. ASSUME NEW e \in Events, Store(e)
      PROVE  OutboxInv'
  BY <1>1 DEF Store
<1>2. CASE Start
  BY <1>2 DEF Start, Mapped
<1>3. CASE Fetch
  BY <1>3 DEF Fetch, FetchedBatch, Unindexed
<1>4. CASE CheckMapping
  BY <1>4 DEF CheckMapping
<1>5. CASE CreateMapping
  BY <1>5 DEF CreateMapping
<1>6. CASE BulkIndex
  BY <1>6 DEF BulkIndex, IndexAll
<1>7. CASE MarkIndexed
  BY <1>7 DEF MarkIndexed, Mark
<1>8. ASSUME HalfDone, UNCHANGED stored, batch' = {},
             pc' \in {"idle", "down"}, (mappingReady' = mappingReady) \/ ~mappingReady'
      PROVE  OutboxInv'
  <2>1. CASE UNCHANGED <<marked, indexed, esIndex>>
    BY <1>8, <2>1
  <2>2. CASE pc = "creating" /\ esIndex' = "explicit" /\ UNCHANGED <<marked, indexed>>
    BY <1>8, <2>2
  <2>3. CASE /\ pc = "indexing"
             /\ \E some \in SUBSET batch : IndexAll(some)
             /\ UNCHANGED marked
    BY <1>8, <2>3 DEF IndexAll
  <2>4. CASE /\ pc = "marking"
             /\ \E some \in SUBSET batch : Mark(some)
             /\ UNCHANGED <<indexed, esIndex>>
    BY <1>8, <2>4 DEF Mark
  <2> QED
    BY <1>8, <2>1, <2>2, <2>3, <2>4 DEF HalfDone
<1>9. CASE PassFails
  BY <1>8, <1>9 DEF PassFails
<1>10. CASE Wake
  BY <1>10 DEF Wake
<1>11. CASE Halt
  BY <1>8, <1>11 DEF Halt
<1>12. CASE UNCHANGED vars
  BY <1>12 DEF vars
<1> QED
  BY <1>1, <1>2, <1>3, <1>4, <1>5, <1>6, <1>7, <1>9, <1>10, <1>11, <1>12 DEF Next

LEMMA OutboxInvariant == Spec => []OutboxInv
BY OutboxInit, OutboxStep, PTL DEF Spec

\* The marker is flipped only on success: a marked event is in the index, unless
\* Elasticsearch may have failed its item.
THEOREM MarkedIsIndexedHolds == Spec => []MarkedIsIndexed
<1>1. OutboxInv => MarkedIsIndexed
  BY DEF OutboxInv
<1> QED
  BY <1>1, OutboxInvariant, PTL

\* No write of the indexer creates the index with a dynamic mapping.
THEOREM NoDynamicMappingHolds == Spec => []NoDynamicMapping
<1>1. OutboxInv => NoDynamicMapping
  BY DEF OutboxInv
<1> QED
  BY <1>1, OutboxInvariant, PTL

\* Elasticsearch never holds an event that MongoDB does not: the outbox copies
\* what is committed, and nothing is ever taken out of the store.
THEOREM IndexedIsStored == Spec => [](indexed \subseteq stored)
<1>1. OutboxInv => indexed \subseteq stored
  BY DEF OutboxInv, InStore
<1> QED
  BY <1>1, OutboxInvariant, PTL

-----------------------------------------------------------------------------
\* Each step of the indexer is a step of the mirror or leaves it alone.
LEMMA MirrorStep ==
    ASSUME OutboxInv, OutboxInv', [Next]_vars
    PROVE  [MirrorOfStore!MirrorNext]_(MirrorOfStore!mirrorVars)
<1> USE DEF MirrorOfStore!MirrorNext, MirrorOfStore!mirrorVars
<1>1. ASSUME NEW e \in Events, Store(e)
      PROVE  MirrorOfStore!Commit(e)
  BY <1>1 DEF Store, MirrorOfStore!Commit
<1>2. ASSUME UNCHANGED <<stored, marked>>,
             \E some \in SUBSET stored : indexed' = indexed \cup some
      PROVE  MirrorOfStore!CopyOver
  BY <1>2 DEF MirrorOfStore!CopyOver
<1>3. ASSUME UNCHANGED <<stored, indexed>>, pc = "marking",
             \E some \in SUBSET batch : marked' = marked \cup some
      PROVE  MirrorOfStore!Acknowledge
  <2>1. PICK some \in SUBSET batch : marked' = marked \cup some
    BY <1>3
  <2>2. some \ Rejectable \in SUBSET indexed
    BY <1>3, <2>1 DEF OutboxInv, BulkDone
  <2>3. marked' \ Rejectable = (marked \ Rejectable) \cup (some \ Rejectable)
    BY <2>1
  <2> QED
    BY <1>3, <2>2, <2>3 DEF MirrorOfStore!Acknowledge
<1>4. ASSUME UNCHANGED <<stored, marked, indexed>>
      PROVE  UNCHANGED MirrorOfStore!mirrorVars
  BY <1>4
<1>5. ASSUME HalfDone, UNCHANGED stored
      PROVE  [MirrorOfStore!MirrorNext]_(MirrorOfStore!mirrorVars)
  BY <1>2, <1>3, <1>4, <1>5 DEF HalfDone, IndexAll, Mark, OutboxInv, InStore
<1>6. CASE Start \/ Fetch \/ CheckMapping \/ CreateMapping \/ Wake \/ UNCHANGED vars
  BY <1>4, <1>6 DEF Start, Fetch, CheckMapping, CreateMapping, Wake, vars
<1>7. CASE BulkIndex
  <2>1. PICK errors \in SUBSET (batch \cap Rejectable) : IndexAll(batch \ errors)
    BY <1>7 DEF BulkIndex
  <2> QED
    BY <1>2, <1>7, <2>1 DEF BulkIndex, IndexAll, OutboxInv, InStore
<1>8. CASE MarkIndexed
  BY <1>3, <1>8 DEF MarkIndexed, Mark
<1>9. CASE PassFails \/ Halt
  BY <1>5, <1>9 DEF PassFails, Halt
<1> QED
  BY <1>1, <1>6, <1>7, <1>8, <1>9 DEF Next

\* The indexer implements the mirror: it copies only what is committed and
\* acknowledges only what is copied, in spite of every failure and crash.
THEOREM MirrorImplemented == Spec => ImplementsMirror
<1>1. Init => MirrorOfStore!MirrorInit
  BY DEF Init, MirrorOfStore!MirrorInit
<1>2. OutboxInv /\ OutboxInv' /\ [Next]_vars
      => [MirrorOfStore!MirrorNext]_(MirrorOfStore!mirrorVars)
  BY MirrorStep
<1> QED
  BY <1>1, <1>2, OutboxInvariant, PTL DEF Spec, ImplementsMirror, MirrorOfStore!MirrorSpec

-----------------------------------------------------------------------------
(* The batch of a pass. *)

\* The pending events that are older than e.
Older(e) == {d \in Unindexed : d < e}

LEMMA EventsFinite ==
    ASSUME NEW S \in SUBSET Events
    PROVE  IsFiniteSet(S) /\ Cardinality(S) \in Nat
<1>1. IsFiniteSet(Events)
  BY EsIndexerAssumption, FS_Interval DEF Events
<1> QED
  BY <1>1, FS_Subset, FS_CardinalityType

LEMMA UnindexedType ==
    ASSUME stored \subseteq Events
    PROVE  Unindexed \subseteq Nat /\ Unindexed \subseteq Events
<1>1. Events \subseteq Nat
  BY EsIndexerAssumption DEF Events
<1> QED
  BY <1>1 DEF Unindexed

LEMMA OlderGrows ==
    ASSUME stored \subseteq Events, NEW d \in Unindexed, NEW e \in Unindexed, d < e
    PROVE  Cardinality(Older(d)) < Cardinality(Older(e))
<1>1. Unindexed \subseteq Nat /\ d \in Nat /\ e \in Nat
  BY UnindexedType
<1>2. Older(d) \cup {d} \subseteq Older(e) /\ d \notin Older(d)
  <2>1. \A x \in Unindexed : (x < d => x < e) /\ ~(d < d)
    BY <1>1
  <2> QED
    BY <2>1 DEF Older
<1>3. Older(d) \subseteq Events /\ Older(e) \subseteq Events
  BY DEF Older, Unindexed
<1>4. Cardinality(Older(d) \cup {d}) = Cardinality(Older(d)) + 1
  BY <1>2, <1>3, EventsFinite, FS_AddElement
<1>5. Cardinality(Older(d) \cup {d}) <= Cardinality(Older(e))
  BY <1>2, <1>3, EventsFinite, FS_Subset
<1> QED
  BY <1>3, <1>4, <1>5, EventsFinite

\* fetch_unindexed respects its limit: the events of a batch have different
\* numbers of older ones pending, all of them below BatchSize.
LEMMA FetchLimited ==
    ASSUME stored \subseteq Events
    PROVE  FetchedBatch \subseteq Unindexed /\ Cardinality(FetchedBatch) <= BatchSize
<1>1. FetchedBatch = {e \in Unindexed : Cardinality(Older(e)) < BatchSize}
  BY DEF FetchedBatch, Older
<1>2. /\ BatchSize \in Nat \ {0} /\ Unindexed \subseteq Nat /\ Unindexed \subseteq Events
      /\ \A e : IsFiniteSet(Older(e)) /\ Cardinality(Older(e)) \in Nat
  <2>1. \A e : Older(e) \subseteq Events
    BY DEF Older, Unindexed
  <2> QED
    BY <2>1, EventsFinite, UnindexedType, EsIndexerAssumption
<1>3. Cardinality(FetchedBatch) <= BatchSize
  <2> DEFINE ranks == 0 .. (BatchSize - 1)
             f == [e \in FetchedBatch |-> Cardinality(Older(e))]
  <2>1. f \in [FetchedBatch -> ranks]
    BY <1>1, <1>2
  <2>2. ASSUME NEW d \in FetchedBatch, NEW e \in FetchedBatch, f[d] = f[e]
        PROVE  d = e
    <3>1. d \in Unindexed /\ e \in Unindexed /\ d \in Nat /\ e \in Nat
      BY <1>1, <1>2
    <3>2. ~(d < e) /\ ~(e < d)
      BY <1>2, <2>2, <3>1, OlderGrows
    <3> QED
      BY <3>1, <3>2
  <2>3. f \in Injection(FetchedBatch, ranks)
    BY <2>1, <2>2 DEF Injection, IsInjective
  <2>4. IsFiniteSet(ranks) /\ Cardinality(ranks) = BatchSize
    BY <1>2, FS_Interval
  <2> HIDE DEF f, ranks
  <2> QED
    BY <2>3, <2>4, FS_Injection
<1> QED
  BY <1>1, <1>3

\* The types of the variables, and with them the bound of fetch_unindexed on
\* what a pass may hold.
THEOREM TypeCorrect == Spec => []TypeOK
<1>1. Init => TypeOK
  <2>1. Cardinality({}) <= BatchSize /\ 0 \in 0 .. MaxHalts
    BY FS_EmptySet, EsIndexerAssumption
  <2> QED
    BY <2>1 DEF Init, TypeOK
<1>2. TypeOK /\ [Next]_vars => TypeOK'
  <2> SUFFICES ASSUME TypeOK, [Next]_vars
               PROVE  TypeOK'
    OBVIOUS
  <2> USE DEF TypeOK
  <2>1. BatchSize \in Nat \ {0} /\ MaxHalts \in Nat /\ Cardinality({}) <= BatchSize
    BY EsIndexerAssumption, FS_EmptySet
  <2>2. ASSUME NEW e \in Events, Store(e)
        PROVE  TypeOK'
    BY <2>2 DEF Store
  <2>3. CASE Start
    BY <2>3 DEF Start, Mapped
  <2>4. CASE Fetch
    <3>1. batch' \subseteq Events /\ Cardinality(batch') <= BatchSize
      BY <2>4, FetchLimited DEF Fetch, Unindexed
    <3>2. pc' \in {"idle", "indexing", "checking"}
      BY <2>4 DEF Fetch
    <3> QED
      BY <2>4, <3>1, <3>2 DEF Fetch
  <2>5. CASE CheckMapping
    BY <2>5 DEF CheckMapping
  <2>6. CASE CreateMapping
    BY <2>6 DEF CreateMapping
  <2>7. CASE BulkIndex
    BY <2>7 DEF BulkIndex, IndexAll
  <2>8. CASE MarkIndexed
    BY <2>1, <2>8 DEF MarkIndexed, Mark
  <2>9. ASSUME HalfDone
        PROVE  /\ marked' \subseteq Events /\ indexed' \subseteq Events
               /\ esIndex' \in {"absent", "explicit", "dynamic"}
    BY <2>9 DEF HalfDone, IndexAll, Mark
  <2>10. CASE PassFails
    BY <2>1, <2>9, <2>10 DEF PassFails
  <2>11. CASE Wake
    BY <2>11 DEF Wake
  <2>12. CASE Halt
    <3>1. halts' \in 0 .. MaxHalts
      BY <2>1, <2>12 DEF Halt
    <3> QED
      BY <2>1, <2>9, <2>12, <3>1 DEF Halt
  <2>13. CASE UNCHANGED vars
    BY <2>13 DEF vars
  <2> QED
    BY <2>2, <2>3, <2>4, <2>5, <2>6, <2>7, <2>8, <2>10, <2>11, <2>12, <2>13 DEF Next
<1> QED
  BY <1>1, <1>2, PTL DEF Spec

=============================================================================
