----------------------------- MODULE PagingProofs -----------------------------
(***************************************************************************)
(* Theorems about Paging, for any finite set of records, any sort keys and *)
(* limits, and any interleaving of inserts and deletes with the queries of *)
(* the walk.                                                               *)
(***************************************************************************)
EXTENDS Paging, FiniteSetTheorems, TLAPS

\* How many of the records P come before r in the listing.
Above(P, r) == Cardinality({s \in P : SortKey[s] > SortKey[r]})

\* Those of the records U that are listed before the offset n, and those of S
\* that are listed from there on.
Skipped(P, U, n) == {r \in U \cap P \cap Untied : Above(P, r) < n}

Beyond(P, S, n) == {r \in S \cap P \cap Untied : Above(P, r) >= n}

PagingTypeOK ==
    /\ listing \in {"events", "dlq"} /\ limit \in Limits
    /\ present \subseteq Records /\ deleted \subseteq Records /\ present \cap deleted = {}
    /\ first \subseteq present \cup deleted
    /\ walk \in {"querying", "counting", "answered", "over"} /\ offset \in Nat
    /\ page \subseteq present \cup deleted /\ more \in BOOLEAN /\ total \in Nat \cup {None}
    /\ shown \subseteq present \cup deleted /\ repeated \subseteq shown

\* What a call holds before, during and after its queries.
Calls ==
    /\ listing = "events" => deleted = {}
    /\ walk \in {"querying", "over"} => page = {}
    /\ walk = "answered" => page \subseteq shown
    /\ listing = "dlq" => ~more
    /\ listing = "dlq" /\ walk = "answered" => total \in Nat

\* The walk has no page to come.
LastPage ==
    \/ walk = "counting" /\ listing = "events" /\ ~more
    \/ walk = "answered" /\ ~GoesOn
    \/ walk = "over"

\* Each record that was there at the beginning and is neither shown nor still to
\* come has been pulled over an edge by a delete.
DeletesPay ==
    /\ walk \in {"querying", "counting"} =>
          Cardinality(Skipped(present, first \ shown, offset)) <= Cardinality(deleted)
    /\ walk \in {"counting", "answered"} =>
          Cardinality(Skipped(present, first \ (shown \cup page), offset + limit))
             <= Cardinality(deleted)
    /\ LastPage =>
          Cardinality((first \cap present \cap Untied) \ (shown \cup page)) <= Cardinality(deleted)

\* Each record that is shown twice, or will be, has been pushed over an edge by
\* an insert.
InsertsPay ==
    /\ walk \in {"querying", "counting"} =>
          Cardinality((repeated \cap Untied) \cup Beyond(present, shown, offset))
             <= Cardinality(Inserted)
    /\ walk = "counting" =>
          Cardinality(((repeated \cup (shown \cap page)) \cap Untied)
                         \cup Beyond(present, shown \cup page, offset + limit))
             <= Cardinality(Inserted)
    /\ walk = "answered" =>
          Cardinality((repeated \cap Untied) \cup Beyond(present, shown, offset + limit))
             <= Cardinality(Inserted)
    /\ walk = "over" => Cardinality(repeated \cap Untied) <= Cardinality(Inserted)

\* The end of the page, and the document beyond it if there was one.
PageEnd == offset + Cardinality(page) + (IF more THEN 1 ELSE 0)

PageCounted ==
    /\ listing = "events" /\ walk = "counting" /\ page # {} => Cardinality(present) >= PageEnd
    /\ TotalCoversPage

PagingInv == PagingTypeOK /\ Calls /\ DeletesPay /\ InsertsPay /\ PageCounted

-----------------------------------------------------------------------------
(* The order of a listing. *)

LEMMA RecordsFinite ==
    ASSUME NEW P \in SUBSET Records
    PROVE  IsFiniteSet(P) /\ Cardinality(P) \in Nat
BY PagingAssumption, FS_Subset, FS_CardinalityType

LEMMA AboveType ==
    ASSUME NEW P \in SUBSET Records, NEW r
    PROVE  /\ Above(P, r) \in Nat
           /\ IsFiniteSet({s \in P : SortKey[s] > SortKey[r]})
<1>1. {s \in P : SortKey[s] > SortKey[r]} \in SUBSET Records
  OBVIOUS
<1> QED
  BY <1>1, RecordsFinite DEF Above

\* A record with a sort key of its own is the only one with its place.
LEMMA PlacesDiffer ==
    ASSUME NEW P \in SUBSET Records, NEW r \in P \cap Untied, NEW s \in P \cap Untied, r # s
    PROVE  Above(P, r) # Above(P, s)
<1>1. ASSUME NEW a \in P \cap Untied, NEW b \in P \cap Untied, SortKey[a] > SortKey[b]
      PROVE  Above(P, a) < Above(P, b)
  <2> DEFINE A == {q \in P : SortKey[q] > SortKey[a]}
             B == {q \in P : SortKey[q] > SortKey[b]}
  <2>1. IsFiniteSet(A) /\ Cardinality(A) \in Nat /\ IsFiniteSet(B) /\ Cardinality(B) \in Nat
    BY AboveType DEF Above
  <2>2. A \cup {a} \subseteq B /\ a \notin A
    <3>1. \A q \in P : SortKey[q] \in Nat
      BY PagingAssumption
    <3> QED
      BY <1>1, <3>1
  <2>3. Cardinality(A \cup {a}) = Cardinality(A) + 1
    BY <2>1, <2>2, FS_AddElement
  <2>4. Cardinality(A \cup {a}) <= Cardinality(B)
    BY <2>1, <2>2, FS_Subset
  <2> QED
    BY <2>1, <2>3, <2>4 DEF Above
<1>2. SortKey[r] \in Nat /\ SortKey[s] \in Nat /\ SortKey[r] # SortKey[s]
  BY PagingAssumption DEF Untied
<1>3. Above(P, r) < Above(P, s) \/ Above(P, s) < Above(P, r)
  BY <1>1, <1>2
<1>4. Above(P, r) \in Nat /\ Above(P, s) \in Nat
  BY AboveType
<1> QED
  BY <1>3, <1>4

\* A record that is inserted moves each other one down by one place or none.
LEMMA InsertMoves ==
    ASSUME NEW P \in SUBSET Records, NEW x \in Records \ P, NEW r
    PROVE  Above(P \cup {x}, r) \in {Above(P, r), Above(P, r) + 1}
<1> DEFINE A == {s \in P : SortKey[s] > SortKey[r]}
           B == {s \in P \cup {x} : SortKey[s] > SortKey[r]}
<1>1. IsFiniteSet(A) /\ x \notin A
  BY AboveType
<1>2. B = A \/ B = A \cup {x}
  OBVIOUS
<1>3. Cardinality(A \cup {x}) = Cardinality(A) + 1
  BY <1>1, FS_AddElement
<1> QED
  BY <1>2, <1>3 DEF Above

-----------------------------------------------------------------------------
(* What inserts and deletes do to the records at an edge. *)

\* An insert skips nothing.
LEMMA InsertSkips ==
    ASSUME NEW P \in SUBSET Records, NEW x \in Records \ P, NEW U, x \notin U, NEW n \in Nat
    PROVE  Skipped(P \cup {x}, U, n) \subseteq Skipped(P, U, n)
<1> SUFFICES ASSUME NEW r \in U \cap P \cap Untied, Above(P \cup {x}, r) < n
             PROVE  Above(P, r) < n
  BY DEF Skipped
<1>1. Above(P, r) \in Nat
  BY AboveType
<1>2. Above(P \cup {x}, r) \in {Above(P, r), Above(P, r) + 1}
  BY InsertMoves
<1> QED
  BY <1>1, <1>2

\* A delete skips one record at most: the one that was listed at the offset.
LEMMA DeleteSkips ==
    ASSUME NEW P \in SUBSET Records, NEW x \in P, NEW U, NEW n \in Nat
    PROVE  \E e : Skipped(P \ {x}, U, n) \subseteq Skipped(P, U, n) \cup {e}
<1>1. PICK e : (\E r \in P \cap Untied : Above(P, r) = n) => e \in P \cap Untied /\ Above(P, e) = n
  OBVIOUS
<1>2. ASSUME NEW r \in U \cap (P \ {x}) \cap Untied, Above(P \ {x}, r) < n
      PROVE  r = e \/ Above(P, r) < n
  <2>1. (P \ {x}) \cup {x} = P
    OBVIOUS
  <2>2. Above(P, r) \in {Above(P \ {x}, r), Above(P \ {x}, r) + 1}
    BY <2>1, InsertMoves
  <2>3. Above(P, r) = n \/ Above(P, r) < n
    <3>1. Above(P \ {x}, r) \in Nat
      BY AboveType
    <3> QED
      BY <1>2, <2>2, <3>1
  <2>4. CASE Above(P, r) = n
    BY <1>1, <2>4, PlacesDiffer
  <2> QED
    BY <2>3, <2>4
<1> QED
  BY <1>2 DEF Skipped

\* An insert repeats one record at most: the last one above the offset.
LEMMA InsertRepeats ==
    ASSUME NEW P \in SUBSET Records, NEW x \in Records \ P, NEW S, x \notin S, NEW n \in Nat
    PROVE  \E e : Beyond(P \cup {x}, S, n) \subseteq Beyond(P, S, n) \cup {e}
<1>1. PICK e : (\E r \in P \cap Untied : Above(P, r) + 1 = n) => e \in P \cap Untied /\ Above(P, e) + 1 = n
  OBVIOUS
<1>2. ASSUME NEW r \in S \cap P \cap Untied, Above(P \cup {x}, r) >= n
      PROVE  r = e \/ Above(P, r) >= n
  <2>1. Above(P \cup {x}, r) \in {Above(P, r), Above(P, r) + 1}
    BY InsertMoves
  <2>2. Above(P, r) \in Nat
    BY AboveType
  <2>3. Above(P, r) + 1 = n \/ Above(P, r) >= n
    BY <1>2, <2>1, <2>2
  <2>4. CASE Above(P, r) + 1 = n
    <3>1. e \in P \cap Untied /\ Above(P, e) + 1 = n
      BY <1>1, <2>4
    <3>2. Above(P, e) \in Nat
      BY AboveType
    <3> QED
      BY <2>2, <2>4, <3>1, <3>2, PlacesDiffer
  <2> QED
    BY <2>3, <2>4
<1> QED
  BY <1>2 DEF Beyond

\* A delete repeats nothing.
LEMMA DeleteRepeats ==
    ASSUME NEW P \in SUBSET Records, NEW x \in P, NEW S, NEW n \in Nat
    PROVE  Beyond(P \ {x}, S, n) \subseteq Beyond(P, S, n)
<1> SUFFICES ASSUME NEW r \in S \cap (P \ {x}) \cap Untied, Above(P \ {x}, r) >= n
             PROVE  Above(P, r) >= n
  BY DEF Beyond
<1>1. (P \ {x}) \cup {x} = P
  OBVIOUS
<1>2. Above(P, r) \in {Above(P \ {x}, r), Above(P \ {x}, r) + 1}
  BY <1>1, InsertMoves
<1>3. Above(P \ {x}, r) \in Nat
  BY AboveType
<1> QED
  BY <1>2, <1>3

-----------------------------------------------------------------------------
(* The page that a query returns. *)

\* What a listing is: every record once, the newest first.
LEMMA ListingShape ==
    ASSUME present \subseteq Records, NEW order \in NewestFirst
    PROVE  /\ order \in [1 .. Cardinality(present) -> present]
           /\ \A i, j \in 1 .. Cardinality(present) : order[i] = order[j] => i = j
           /\ \A i, j \in 1 .. Cardinality(present) :
                 i < j => SortKey[order[i]] >= SortKey[order[j]]
           /\ \A r \in present : \E i \in 1 .. Cardinality(present) : order[i] = r
<1> DEFINE n == Cardinality(present)
<1>1. /\ order \in [1 .. n -> present]
      /\ \A i, j \in 1 .. n : order[i] = order[j] => i = j
      /\ \A i, j \in 1 .. n : i < j => SortKey[order[i]] >= SortKey[order[j]]
  BY DEF NewestFirst, SetToSeqs
<1>2. IsFiniteSet(present) /\ n \in Nat
  BY RecordsFinite
<1>3. order \in Injection(1 .. n, present)
  BY <1>1 DEF Injection, IsInjective
<1>4. Cardinality(1 .. n) = n
  BY <1>2, FS_Interval
<1>5. order \in Surjection(1 .. n, present)
  BY <1>2, <1>3, <1>4, FS_Injection
<1> QED
  BY <1>1, <1>5 DEF Surjection

\* The place of a record with a sort key of its own does not depend on how the
\* others are ordered.
LEMMA Placed ==
    ASSUME present \subseteq Records, NEW order \in NewestFirst,
           NEW i \in 1 .. Cardinality(present), order[i] \in Untied
    PROVE  Above(present, order[i]) = i - 1
<1> DEFINE n == Cardinality(present)
           A == {s \in present : SortKey[s] > SortKey[order[i]]}
           f == [j \in 1 .. (i - 1) |-> order[j]]
<1>1. n \in Nat /\ 1 .. (i - 1) \subseteq 1 .. n
  BY RecordsFinite
<1>2. /\ order \in [1 .. n -> present]
      /\ \A j, k \in 1 .. n : order[j] = order[k] => j = k
      /\ \A j, k \in 1 .. n : j < k => SortKey[order[j]] >= SortKey[order[k]]
      /\ \A r \in present : \E j \in 1 .. n : order[j] = r
  BY ListingShape
<1>3. \A r \in present : SortKey[r] \in Nat /\ (r # order[i] => SortKey[r] # SortKey[order[i]])
  BY PagingAssumption DEF Untied
<1>4. f \in [1 .. (i - 1) -> A]
  <2> SUFFICES ASSUME NEW j \in 1 .. (i - 1)
               PROVE  order[j] \in A
    OBVIOUS
  <2>1. j \in 1 .. n /\ j < i /\ order[j] \in present /\ order[j] # order[i]
    BY <1>1, <1>2
  <2>2. SortKey[order[j]] >= SortKey[order[i]] /\ SortKey[order[j]] # SortKey[order[i]]
    BY <1>2, <1>3, <2>1
  <2> QED
    BY <1>2, <1>3, <2>1, <2>2
<1>5. \A j, k \in 1 .. (i - 1) : f[j] = f[k] => j = k
  BY <1>1, <1>2
<1>6. ASSUME NEW r \in A
      PROVE  \E j \in 1 .. (i - 1) : f[j] = r
  <2>1. PICK j \in 1 .. n : order[j] = r
    BY <1>2
  <2>2. ~(SortKey[order[i]] >= SortKey[r]) /\ j # i
    BY <1>2, <1>3, <2>1
  <2>3. j < i
    BY <1>1, <1>2, <2>1, <2>2
  <2> QED
    BY <1>1, <2>1, <2>3
<1>7. f \in Bijection(1 .. (i - 1), A)
  BY <1>4, <1>5, <1>6 DEF Bijection, Injection, Surjection, IsInjective
<1>8. Cardinality(A) = Cardinality(1 .. (i - 1))
  BY <1>7, FS_Interval, FS_Bijection DEF ExistsBijection
<1>9. Cardinality(1 .. (i - 1)) = i - 1
  BY FS_Interval
<1> QED
  BY <1>8, <1>9 DEF Above

\* The records of a page, by their places.
LEMMA Paged ==
    ASSUME present \subseteq Records, offset \in Nat,
           NEW order \in NewestFirst, NEW m \in Nat
    PROVE  /\ Slice(order, m) \subseteq present
           /\ \A r \in present \cap Untied :
                 r \in Slice(order, m) <=>
                    Above(present, r) >= offset /\ Above(present, r) < offset + m
<1> DEFINE n == Cardinality(present)
<1>1. n \in Nat
  BY RecordsFinite
<1>2. /\ order \in [1 .. n -> present]
      /\ \A i, j \in 1 .. n : order[i] = order[j] => i = j
      /\ \A r \in present : \E i \in 1 .. n : order[i] = r
  BY ListingShape
<1>3. Slice(order, m) = {order[i] : i \in (1 .. n) \cap (offset + 1 .. offset + m)}
  BY <1>2 DEF Slice
<1>4. ASSUME NEW r \in present \cap Untied
      PROVE  r \in Slice(order, m) <=>
                Above(present, r) >= offset /\ Above(present, r) < offset + m
  <2>1. PICK i \in 1 .. n : order[i] = r
    BY <1>2
  <2>2. Above(present, r) = i - 1
    BY <2>1, Placed
  <2>3. r \in Slice(order, m) <=> i \in offset + 1 .. offset + m
    BY <1>2, <1>3, <2>1
  <2> QED
    BY <1>1, <2>2, <2>3
<1> QED
  BY <1>2, <1>3, <1>4

\* How long a page is.
LEMMA PageLength ==
    ASSUME present \subseteq Records, offset \in Nat,
           NEW order \in NewestFirst, NEW m \in Nat, Slice(order, m) # {}
    PROVE  /\ Cardinality(Slice(order, m)) \in Nat
           /\ Cardinality(Slice(order, m)) <= m
           /\ offset + Cardinality(Slice(order, m)) <= Cardinality(present)
<1> DEFINE n == Cardinality(present)
           D == (1 .. n) \cap (offset + 1 .. offset + m)
<1>1. n \in Nat
  BY RecordsFinite
<1>2. order \in [1 .. n -> present]
  BY ListingShape
<1>3. Slice(order, m) = {order[i] : i \in D}
  BY <1>2 DEF Slice
<1>4. D \subseteq offset + 1 .. n /\ D \subseteq offset + 1 .. offset + m /\ offset < n
  BY <1>1, <1>3
<1>5. /\ Cardinality(offset + 1 .. n) = n - offset /\ IsFiniteSet(offset + 1 .. n)
      /\ Cardinality(offset + 1 .. offset + m) = m /\ IsFiniteSet(offset + 1 .. offset + m)
  <2> HIDE DEF n
  <2>1. Cardinality(offset + 1 .. n) = n - offset /\ IsFiniteSet(offset + 1 .. n)
    BY <1>1, <1>4, FS_Interval
  <2>2. Cardinality(offset + 1 .. offset + m) = m /\ IsFiniteSet(offset + 1 .. offset + m)
    <3> DEFINE k == offset + m
    <3>1. k \in Nat /\ k >= offset /\ k - (offset + 1) + 1 = m
      OBVIOUS
    <3> HIDE DEF k
    <3>2. Cardinality(offset + 1 .. k) = m /\ IsFiniteSet(offset + 1 .. k)
      BY <3>1, FS_Interval
    <3> QED
      BY <3>2 DEF k
  <2> QED
    BY <2>1, <2>2
<1>6. Cardinality(D) <= n - offset /\ Cardinality(D) <= m /\ IsFiniteSet(D)
  <2> HIDE DEF D, n
  <2>1. IsFiniteSet(D) /\ Cardinality(D) <= Cardinality(offset + 1 .. n)
    BY <1>4, <1>5, FS_Subset
  <2>2. Cardinality(D) <= Cardinality(offset + 1 .. offset + m)
    BY <1>4, <1>5, FS_Subset
  <2> QED
    BY <1>5, <2>1, <2>2
<1>7. Cardinality(Slice(order, m)) <= Cardinality(D) /\ IsFiniteSet(Slice(order, m))
  <2>1. [i \in D |-> order[i]] \in Surjection(D, Slice(order, m))
    BY <1>3 DEF Surjection
  <2> QED
    BY <1>6, <2>1, FS_Surjection
<1>8. Cardinality(D) \in Nat /\ Cardinality(Slice(order, m)) \in Nat
  BY <1>6, <1>7, FS_CardinalityType
<1> QED
  BY <1>1, <1>6, <1>7, <1>8

\* A document beyond the page is found if and only if the collection is longer.
LEMMA PageBeyond ==
    ASSUME present \subseteq Records, offset \in Nat, limit \in Nat, NEW order \in NewestFirst
    PROVE  Slice(order, limit + 1) # Slice(order, limit) <=>
              Cardinality(present) >= offset + limit + 1
<1> DEFINE n == Cardinality(present)
           last == offset + limit + 1
<1>1. n \in Nat
  BY RecordsFinite
<1>2. /\ order \in [1 .. n -> present]
      /\ \A i, j \in 1 .. n : order[i] = order[j] => i = j
  BY ListingShape
<1>3. \A m \in Nat : Slice(order, m) = {order[i] : i \in (1 .. n) \cap (offset + 1 .. offset + m)}
  BY <1>2 DEF Slice
<1>4. CASE n >= last
  <2>1. last \in 1 .. n /\ last \in offset + 1 .. offset + (limit + 1)
    BY <1>1, <1>4
  <2>2. order[last] \in Slice(order, limit + 1)
    BY <1>3, <2>1
  <2>3. order[last] \notin Slice(order, limit)
    <3> SUFFICES ASSUME NEW i \in (1 .. n) \cap (offset + 1 .. offset + limit), order[i] = order[last]
                 PROVE  FALSE
      BY <1>3
    <3> QED
      BY <1>2, <2>1
  <2> QED
    BY <1>4, <2>2, <2>3
<1>5. CASE ~(n >= last)
  <2>1. (1 .. n) \cap (offset + 1 .. offset + limit) = (1 .. n) \cap (offset + 1 .. offset + (limit + 1))
    BY <1>1, <1>5
  <2>2. /\ Slice(order, limit) = {order[i] : i \in (1 .. n) \cap (offset + 1 .. offset + limit)}
        /\ Slice(order, limit + 1) = {order[i] : i \in (1 .. n) \cap (offset + 1 .. offset + (limit + 1))}
    BY <1>3
  <2> QED
    BY <1>5, <2>1, <2>2
<1> QED
  BY <1>4, <1>5

\* No place is beyond the end of the listing.
LEMMA AboveLast ==
    ASSUME NEW P \in SUBSET Records, NEW r \in P
    PROVE  Above(P, r) < Cardinality(P)
<1> DEFINE A == {s \in P : SortKey[s] > SortKey[r]}
<1>1. A \subseteq P /\ r \in P /\ r \notin A
  BY PagingAssumption
<1>2. IsFiniteSet(P) /\ IsFiniteSet(A) /\ Cardinality(A) \in Nat /\ Cardinality(P) \in Nat
  BY RecordsFinite, AboveType DEF Above
<1>3. Cardinality(A \cup {r}) = Cardinality(A) + 1
  BY <1>1, <1>2, FS_AddElement
<1>4. Cardinality(A \cup {r}) <= Cardinality(P)
  BY <1>1, <1>2, FS_Subset
<1> QED
  BY <1>2, <1>3, <1>4 DEF Above

-----------------------------------------------------------------------------
(* Counting records. *)

LEMMA Fewer ==
    ASSUME NEW S \in SUBSET Records, NEW T \in SUBSET S
    PROVE  /\ Cardinality(S) \in Nat /\ Cardinality(T) \in Nat
           /\ Cardinality(T) <= Cardinality(S)
<1>1. IsFiniteSet(S) /\ Cardinality(S) \in Nat /\ Cardinality(T) \in Nat
  BY RecordsFinite
<1> QED
  BY <1>1, FS_Subset

LEMMA OneMore ==
    ASSUME NEW S \in SUBSET Records, NEW T \in SUBSET Records, NEW e, T \subseteq S \cup {e}
    PROVE  /\ Cardinality(S) \in Nat /\ Cardinality(T) \in Nat
           /\ Cardinality(T) <= Cardinality(S) + 1
<1>1. IsFiniteSet(S) /\ Cardinality(S) \in Nat /\ Cardinality(T) \in Nat
  BY RecordsFinite
<1>2. /\ IsFiniteSet(S \cup {e})
      /\ Cardinality(S \cup {e}) = IF e \in S THEN Cardinality(S) ELSE Cardinality(S) + 1
  BY <1>1, FS_AddElement
<1>3. Cardinality(T) <= Cardinality(S \cup {e})
  BY <1>2, FS_Subset
<1> QED
  BY <1>1, <1>2, <1>3

LEMMA Added ==
    ASSUME NEW S \in SUBSET Records, NEW x \in Records \ S
    PROVE  Cardinality(S \cup {x}) = Cardinality(S) + 1
BY RecordsFinite, FS_AddElement

-----------------------------------------------------------------------------
(* The walk. *)

LEMMA PagingStart == Init => PagingInv
<1> SUFFICES ASSUME Init
             PROVE  PagingInv
  OBVIOUS
<1>1. PagingTypeOK /\ Calls
  BY DEF Init, PagingTypeOK, Calls
<1>2. Skipped(present, first \ shown, offset) = {}
  <2> SUFFICES ASSUME NEW r \in present, Above(present, r) < 0
               PROVE  FALSE
    BY DEF Init, Skipped
  <2>1. Above(present, r) \in Nat
    BY AboveType DEF Init
  <2> QED
    BY <2>1
<1>3. (repeated \cap Untied) \cup Beyond(present, shown, offset) = {}
  BY DEF Init, Beyond
<1>4. Cardinality(deleted) = 0 /\ Cardinality(Inserted) = 0
  <2>1. deleted = {} /\ Inserted = {}
    BY DEF Init, Inserted
  <2> QED
    BY <2>1, FS_EmptySet
<1>5. DeletesPay
  BY <1>2, <1>4, FS_EmptySet DEF Init, DeletesPay, LastPage
<1>6. InsertsPay
  BY <1>3, <1>4, FS_EmptySet DEF Init, InsertsPay
<1>7. PageCounted
  BY DEF Init, PageCounted, TotalCoversPage
<1> QED
  BY <1>1, <1>5, <1>6, <1>7 DEF PagingInv

\* The types, and what a call holds.
LEMMA PagingTypes ==
    ASSUME PagingTypeOK, Calls, [Next]_vars
    PROVE  PagingTypeOK' /\ Calls'
<1> USE DEF PagingTypeOK, Calls
<1>0. limit \in Nat \ {0} /\ None \notin Nat
  BY PagingAssumption
<1>1. CASE Insert
  BY <1>1 DEF Insert, callVars, walkVars
<1>2. CASE Delete
  BY <1>2 DEF Delete, callVars, walkVars
<1>3. CASE Query
  <2>1. PICK order \in NewestFirst : Fetch(order)
    BY <1>3 DEF Query
  <2>2. page' \subseteq present /\ more' \in BOOLEAN /\ (listing = "dlq" => ~more')
    BY <1>0, <2>1, Paged DEF Fetch
  <2> QED
    BY <1>3, <2>2 DEF Query, collectionVars, walkVars
<1>4. CASE Count
  <2>1. Cardinality(present) \in Nat
    BY RecordsFinite
  <2> QED
    BY <1>4, <2>1 DEF Count, Total, collectionVars
<1>5. CASE CallFails
  BY <1>5 DEF CallFails, collectionVars, walkVars
<1>6. CASE NextPage
  <2>1. /\ UNCHANGED <<listing, limit, present, deleted, first, shown, repeated>>
        /\ page' = {} /\ more' = FALSE /\ total' = None
    BY <1>6 DEF NextPage, collectionVars
  <2>2. walk' \in {"querying", "over"} /\ offset' \in Nat
    BY <1>0, <1>6 DEF NextPage
  <2> QED
    BY <2>1, <2>2
<1>7. CASE UNCHANGED vars
  BY <1>7 DEF vars, collectionVars, callVars, walkVars
<1> QED
  BY <1>1, <1>2, <1>3, <1>4, <1>5, <1>6, <1>7 DEF Next, Over

\* An insert moves at most one shown record over an edge, and counts for it.
LEMMA InsertStep ==
    ASSUME PagingInv, Insert
    PROVE  DeletesPay' /\ InsertsPay' /\ PageCounted'
<1> USE DEF PagingInv
<1>1. PICK x \in Records \ (present \cup deleted) : present' = present \cup {x}
  BY DEF Insert
<1>2. /\ UNCHANGED <<listing, limit, deleted, first, walk, offset, page, more, total, shown, repeated>>
      /\ x \notin present /\ x \notin first /\ x \notin shown /\ x \notin shown \cup page
      /\ offset \in Nat /\ offset + limit \in Nat
  BY <1>1, PagingAssumption DEF Insert, callVars, walkVars, PagingTypeOK
<1>3. DeletesPay'
  <2>1. ASSUME NEW U \in SUBSET first, NEW n \in Nat
        PROVE  Cardinality(Skipped(present', U, n)) <= Cardinality(Skipped(present, U, n))
    <3>1. Skipped(present', U, n) \subseteq Skipped(present, U, n)
      BY <1>1, <1>2, InsertSkips DEF PagingTypeOK
    <3>2. Skipped(present, U, n) \subseteq Records
      BY DEF Skipped, PagingTypeOK
    <3> QED
      BY <3>1, <3>2, Fewer
  <2>2. \A U \in SUBSET first, n \in Nat :
           /\ Cardinality(Skipped(present', U, n)) \in Nat
           /\ Cardinality(Skipped(present, U, n)) \in Nat
    <3>1. \A U, n : Skipped(present', U, n) \subseteq Records /\ Skipped(present, U, n) \subseteq Records
      BY <1>1 DEF Skipped, PagingTypeOK
    <3> QED
      BY <3>1, RecordsFinite
  <2>3. Cardinality(deleted) \in Nat
    BY RecordsFinite DEF PagingTypeOK
  <2>4. (walk \in {"querying", "counting"} =>
            Cardinality(Skipped(present, first \ shown, offset)) <= Cardinality(deleted))'
    BY <1>2, <2>1, <2>2, <2>3 DEF DeletesPay
  <2>5. (walk \in {"counting", "answered"} =>
            Cardinality(Skipped(present, first \ (shown \cup page), offset + limit))
               <= Cardinality(deleted))'
    BY <1>2, <2>1, <2>2, <2>3 DEF DeletesPay
  <2>6. (LastPage =>
            Cardinality((first \cap present \cap Untied) \ (shown \cup page)) <= Cardinality(deleted))'
    <3>1. first \cap present' = first \cap present
      BY <1>1, <1>2
    <3>2. LastPage' = LastPage
      BY <1>2 DEF LastPage, GoesOn
    <3> QED
      BY <1>2, <3>1, <3>2 DEF DeletesPay
  <2> QED
    BY <2>4, <2>5, <2>6 DEF DeletesPay
<1>4. InsertsPay'
  <2>1. Inserted' = Inserted \cup {x} /\ x \in Records \ Inserted /\ Inserted \in SUBSET Records
    BY <1>1, <1>2 DEF Inserted, PagingTypeOK
  <2>2. Cardinality(Inserted') = Cardinality(Inserted) + 1 /\ Cardinality(Inserted) \in Nat
    BY <2>1, Added, RecordsFinite
  <2>3. ASSUME NEW R \in SUBSET Records, NEW S, x \notin S, NEW n \in Nat,
               Cardinality(R \cup Beyond(present, S, n)) <= Cardinality(Inserted)
        PROVE  Cardinality(R \cup Beyond(present', S, n)) <= Cardinality(Inserted')
    <3>1. PICK e : Beyond(present', S, n) \subseteq Beyond(present, S, n) \cup {e}
      BY <1>1, <1>2, <2>3, InsertRepeats DEF PagingTypeOK
    <3>2. Beyond(present', S, n) \subseteq Records /\ Beyond(present, S, n) \subseteq Records
      BY <1>1 DEF Beyond, PagingTypeOK
    <3> DEFINE A == R \cup Beyond(present, S, n)
               B == R \cup Beyond(present', S, n)
    <3>3. A \in SUBSET Records /\ B \in SUBSET Records /\ B \subseteq A \cup {e}
      BY <3>1, <3>2
    <3> HIDE DEF A, B
    <3>4. /\ Cardinality(A) \in Nat /\ Cardinality(B) \in Nat
          /\ Cardinality(B) <= Cardinality(A) + 1
      BY <3>3, OneMore
    <3>5. Cardinality(A) <= Cardinality(Inserted)
      BY <2>3 DEF A
    <3>6. Cardinality(B) <= Cardinality(Inserted')
      BY <2>2, <3>4, <3>5
    <3> QED
      BY <3>6 DEF B
  <2>4. shown \subseteq Records /\ repeated \subseteq Records
    BY DEF PagingTypeOK
  <2>5. (walk \in {"querying", "counting"} =>
            Cardinality((repeated \cap Untied) \cup Beyond(present, shown, offset))
               <= Cardinality(Inserted))'
    BY <1>2, <2>3, <2>4 DEF InsertsPay
  <2>6. (walk = "counting" =>
            Cardinality(((repeated \cup (shown \cap page)) \cap Untied)
                           \cup Beyond(present, shown \cup page, offset + limit))
               <= Cardinality(Inserted))'
    BY <1>2, <2>3, <2>4 DEF InsertsPay
  <2>7. (walk = "answered" =>
            Cardinality((repeated \cap Untied) \cup Beyond(present, shown, offset + limit))
               <= Cardinality(Inserted))'
    BY <1>2, <2>3, <2>4 DEF InsertsPay
  <2>8. (walk = "over" => Cardinality(repeated \cap Untied) <= Cardinality(Inserted))'
    BY <1>2 DEF Insert
  <2> QED
    BY <2>5, <2>6, <2>7, <2>8 DEF InsertsPay
<1>5. PageCounted'
  <2>1. Cardinality(present') = Cardinality(present) + 1 /\ Cardinality(present) \in Nat
    BY <1>1, Added, RecordsFinite DEF PagingTypeOK
  <2>2. Cardinality(page) \in Nat
    BY RecordsFinite DEF PagingTypeOK
  <2>3. TotalCoversPage'
    BY <1>2 DEF PageCounted, TotalCoversPage
  <2>4. PageEnd' = PageEnd /\ PageEnd \in Nat
    BY <1>2, <2>2 DEF PageEnd
  <2> QED
    BY <1>2, <2>1, <2>3, <2>4 DEF PageCounted
<1> QED
  BY <1>3, <1>4, <1>5

\* A delete hides at most one record at an edge, and counts for it.
LEMMA DeleteStep ==
    ASSUME PagingInv, Delete
    PROVE  DeletesPay' /\ InsertsPay' /\ PageCounted'
<1> USE DEF PagingInv
<1>1. PICK x \in present : present' = present \ {x} /\ deleted' = deleted \cup {x}
  BY DEF Delete
<1>2. /\ UNCHANGED <<listing, limit, first, walk, offset, page, more, total, shown, repeated>>
      /\ listing = "dlq" /\ x \in Records \ deleted
      /\ offset \in Nat /\ offset + limit \in Nat
  BY <1>1, PagingAssumption DEF Delete, callVars, walkVars, PagingTypeOK
<1>3. DeletesPay'
  <2>1. Cardinality(deleted') = Cardinality(deleted) + 1 /\ Cardinality(deleted) \in Nat
    BY <1>1, <1>2, Added, RecordsFinite DEF PagingTypeOK
  <2>2. ASSUME NEW U, NEW n \in Nat, Cardinality(Skipped(present, U, n)) <= Cardinality(deleted)
        PROVE  Cardinality(Skipped(present', U, n)) <= Cardinality(deleted')
    <3>1. PICK e : Skipped(present', U, n) \subseteq Skipped(present, U, n) \cup {e}
      BY <1>1, DeleteSkips DEF PagingTypeOK
    <3>2. Skipped(present', U, n) \subseteq Records /\ Skipped(present, U, n) \subseteq Records
      BY <1>1 DEF Skipped, PagingTypeOK
    <3>3. /\ Cardinality(Skipped(present', U, n)) \in Nat /\ Cardinality(Skipped(present, U, n)) \in Nat
          /\ Cardinality(Skipped(present', U, n)) <= Cardinality(Skipped(present, U, n)) + 1
      BY <3>1, <3>2, OneMore
    <3> QED
      BY <2>1, <2>2, <3>3
  <2>3. (walk \in {"querying", "counting"} =>
            Cardinality(Skipped(present, first \ shown, offset)) <= Cardinality(deleted))'
    BY <1>2, <2>2 DEF DeletesPay
  <2>4. (walk \in {"counting", "answered"} =>
            Cardinality(Skipped(present, first \ (shown \cup page), offset + limit))
               <= Cardinality(deleted))'
    BY <1>2, <2>2 DEF DeletesPay
  <2>5. (LastPage =>
            Cardinality((first \cap present \cap Untied) \ (shown \cup page)) <= Cardinality(deleted))'
    <3> DEFINE A == (first \cap present \cap Untied) \ (shown \cup page)
    <3>1. LastPage' = LastPage
      BY <1>2 DEF LastPage, GoesOn
    <3>2. A' \subseteq A /\ A \in SUBSET Records
      BY <1>1, <1>2 DEF PagingTypeOK
    <3>3. /\ Cardinality(A) \in Nat /\ Cardinality(A') \in Nat
          /\ Cardinality(A') <= Cardinality(A)
      BY <3>2, Fewer
    <3>4. LastPage => Cardinality(A) <= Cardinality(deleted)
      BY DEF DeletesPay
    <3> HIDE DEF A
    <3>5. LastPage' => Cardinality(A') <= Cardinality(deleted')
      BY <2>1, <3>1, <3>3, <3>4
    <3> QED
      BY <3>5 DEF A
  <2> QED
    BY <2>3, <2>4, <2>5 DEF DeletesPay
<1>4. InsertsPay'
  <2>1. Inserted' = Inserted
    BY <1>1, <1>2 DEF Inserted
  <2>2. Cardinality(Inserted) \in Nat
    BY RecordsFinite DEF Inserted, PagingTypeOK
  <2>3. ASSUME NEW R \in SUBSET Records, NEW S, NEW n \in Nat,
               Cardinality(R \cup Beyond(present, S, n)) <= Cardinality(Inserted)
        PROVE  Cardinality(R \cup Beyond(present', S, n)) <= Cardinality(Inserted')
    <3> DEFINE A == R \cup Beyond(present, S, n)
               B == R \cup Beyond(present', S, n)
    <3>1. Beyond(present', S, n) \subseteq Beyond(present, S, n)
      BY <1>1, DeleteRepeats DEF PagingTypeOK
    <3>2. A \in SUBSET Records /\ B \subseteq A
      BY <3>1 DEF Beyond, PagingTypeOK
    <3> HIDE DEF A, B
    <3>3. Cardinality(A) \in Nat /\ Cardinality(B) \in Nat /\ Cardinality(B) <= Cardinality(A)
      BY <3>2, Fewer
    <3>4. Cardinality(A) <= Cardinality(Inserted)
      BY <2>3 DEF A
    <3>5. Cardinality(B) <= Cardinality(Inserted')
      BY <2>1, <2>2, <3>3, <3>4
    <3> QED
      BY <3>5 DEF B
  <2>4. shown \subseteq Records /\ repeated \subseteq Records
    BY DEF PagingTypeOK
  <2>5. (walk \in {"querying", "counting"} =>
            Cardinality((repeated \cap Untied) \cup Beyond(present, shown, offset))
               <= Cardinality(Inserted))'
    BY <1>2, <2>3, <2>4 DEF InsertsPay
  <2>6. (walk = "counting" =>
            Cardinality(((repeated \cup (shown \cap page)) \cap Untied)
                           \cup Beyond(present, shown \cup page, offset + limit))
               <= Cardinality(Inserted))'
    BY <1>2, <2>3, <2>4 DEF InsertsPay
  <2>7. (walk = "answered" =>
            Cardinality((repeated \cap Untied) \cup Beyond(present, shown, offset + limit))
               <= Cardinality(Inserted))'
    BY <1>2, <2>3, <2>4 DEF InsertsPay
  <2>8. (walk = "over" => Cardinality(repeated \cap Untied) <= Cardinality(Inserted))'
    BY <1>2 DEF Delete
  <2> QED
    BY <2>5, <2>6, <2>7, <2>8 DEF InsertsPay
<1>5. PageCounted'
  BY <1>2 DEF PageCounted, TotalCoversPage
<1> QED
  BY <1>3, <1>4, <1>5

\* If the collection is no longer than the page reaches, whatever is listed and
\* not shown has been skipped.
LEMMA NothingBeyond ==
    ASSUME PagingTypeOK, Cardinality(present) <= offset + limit, NEW S
    PROVE  (first \cap present \cap Untied) \ S \subseteq Skipped(present, first \ S, offset + limit)
<1> SUFFICES ASSUME NEW r \in (first \cap present \cap Untied) \ S
             PROVE  Above(present, r) < offset + limit
  BY DEF Skipped
<1>1. Above(present, r) < Cardinality(present)
  BY AboveLast DEF PagingTypeOK
<1>2. Above(present, r) \in Nat /\ Cardinality(present) \in Nat /\ limit \in Nat /\ offset \in Nat
  BY AboveType, RecordsFinite, PagingAssumption DEF PagingTypeOK
<1> QED
  BY <1>1, <1>2

\* A page takes the records from one edge to the other.
LEMMA QueryStep ==
    ASSUME PagingInv, Query
    PROVE  DeletesPay' /\ InsertsPay' /\ PageCounted'
<1> USE DEF PagingInv
<1>1. PICK order \in NewestFirst : Fetch(order)
  BY DEF Query
<1>2. /\ UNCHANGED <<listing, limit, present, deleted, first, offset, total, shown, repeated>>
      /\ walk = "querying" /\ walk' = "counting"
  BY DEF Query, collectionVars, walkVars
<1>3. /\ present \subseteq Records /\ deleted \subseteq Records /\ first \subseteq Records
      /\ shown \subseteq Records /\ repeated \subseteq shown
      /\ offset \in Nat /\ limit \in Nat
      /\ Cardinality(present) \in Nat /\ Cardinality(deleted) \in Nat /\ Cardinality(Inserted) \in Nat
  <2>1. limit \in Nat
    BY PagingAssumption DEF PagingTypeOK
  <2>2. Inserted \subseteq Records
    BY DEF Inserted, PagingTypeOK
  <2> QED
    BY <2>1, <2>2, RecordsFinite DEF PagingTypeOK
<1>4. /\ page' \subseteq present
      /\ \A r \in present \cap Untied :
            /\ Above(present, r) \in Nat
            /\ r \in page' <=> Above(present, r) >= offset /\ Above(present, r) < offset + limit
  <2>1. page' = Slice(order, limit)
    BY <1>1 DEF Fetch
  <2> QED
    BY <1>3, <2>1, Paged, AboveType
<1>5. DeletesPay'
  <2> DEFINE A == Skipped(present, first \ shown, offset)
             B == Skipped(present, first \ (shown \cup page'), offset + limit)
  <2>1. B \subseteq A /\ A \in SUBSET Records
    BY <1>3, <1>4 DEF Skipped
  <2>2. Cardinality(A) <= Cardinality(deleted)
    BY <1>2 DEF DeletesPay
  <2>3. Cardinality(B) <= Cardinality(deleted) /\ Cardinality(B) \in Nat /\ IsFiniteSet(B)
    <3>1. Cardinality(A) \in Nat /\ Cardinality(B) \in Nat /\ Cardinality(B) <= Cardinality(A)
      BY <2>1, Fewer
    <3>2. IsFiniteSet(B)
      BY <2>1, RecordsFinite
    <3> HIDE DEF A, B
    <3> QED
      BY <1>3, <2>2, <3>1, <3>2
  <2>4. (walk \in {"querying", "counting"} =>
            Cardinality(Skipped(present, first \ shown, offset)) <= Cardinality(deleted))'
    BY <1>2, <2>2
  <2>5. (walk \in {"counting", "answered"} =>
            Cardinality(Skipped(present, first \ (shown \cup page), offset + limit))
               <= Cardinality(deleted))'
    BY <1>2, <2>3
  <2>6. (LastPage =>
            Cardinality((first \cap present \cap Untied) \ (shown \cup page)) <= Cardinality(deleted))'
    <3> SUFFICES ASSUME LastPage'
                 PROVE  Cardinality((first \cap present \cap Untied) \ (shown \cup page'))
                           <= Cardinality(deleted)
      BY <1>2
    <3>1. listing = "events" /\ ~more'
      BY <1>2 DEF LastPage
    <3>2. Slice(order, limit + 1) = Slice(order, limit)
      BY <1>1, <3>1 DEF Fetch
    <3>3. Cardinality(present) <= offset + limit
      BY <1>3, <3>2, PageBeyond
    <3> DEFINE C == (first \cap present \cap Untied) \ (shown \cup page')
    <3>4. C \in SUBSET B /\ B \in SUBSET Records
      BY <2>1, <3>3, NothingBeyond
    <3>5. Cardinality(C) \in Nat /\ Cardinality(C) <= Cardinality(B)
      BY <3>4, Fewer
    <3> HIDE DEF B, C
    <3>6. Cardinality(C) <= Cardinality(deleted)
      BY <1>3, <2>3, <3>5
    <3> QED
      BY <3>6 DEF C
  <2> QED
    BY <2>4, <2>5, <2>6 DEF DeletesPay
<1>6. InsertsPay'
  <2>1. Inserted' = Inserted
    BY <1>2 DEF Inserted
  <2> DEFINE A == (repeated \cap Untied) \cup Beyond(present, shown, offset)
             B == ((repeated \cup (shown \cap page')) \cap Untied)
                     \cup Beyond(present, shown \cup page', offset + limit)
  <2>2. Beyond(present, shown \cup page', offset + limit) \subseteq Beyond(present, shown, offset)
    BY <1>3, <1>4 DEF Beyond
  <2>3. shown \cap page' \cap Untied \subseteq Beyond(present, shown, offset)
    BY <1>3, <1>4 DEF Beyond
  <2>4. B \subseteq A /\ A \in SUBSET Records
    BY <1>3, <2>2, <2>3 DEF Beyond
  <2>5. Cardinality(A) <= Cardinality(Inserted)
    BY <1>2 DEF InsertsPay
  <2>6. Cardinality(B) <= Cardinality(Inserted)
    <3>1. Cardinality(A) \in Nat /\ Cardinality(B) \in Nat /\ Cardinality(B) <= Cardinality(A)
      BY <2>4, Fewer
    <3> HIDE DEF A, B
    <3> QED
      BY <1>3, <2>5, <3>1
  <2>7. (walk \in {"querying", "counting"} =>
            Cardinality((repeated \cap Untied) \cup Beyond(present, shown, offset))
               <= Cardinality(Inserted))'
    BY <1>2, <2>1, <2>5
  <2>8. (walk = "counting" =>
            Cardinality(((repeated \cup (shown \cap page)) \cap Untied)
                           \cup Beyond(present, shown \cup page, offset + limit))
               <= Cardinality(Inserted))'
    BY <1>2, <2>1, <2>6
  <2> QED
    BY <1>2, <2>7, <2>8 DEF InsertsPay
<1>7. PageCounted'
  <2>1. ASSUME page' # {}, listing = "events"
        PROVE  Cardinality(present) >= PageEnd'
    <3>1. page' = Slice(order, limit) /\ (more' <=> Slice(order, limit + 1) # Slice(order, limit))
      BY <1>1, <2>1 DEF Fetch
    <3>2. /\ Cardinality(page') \in Nat /\ Cardinality(page') <= limit
          /\ offset + Cardinality(page') <= Cardinality(present)
      BY <1>3, <2>1, <3>1, PageLength
    <3>3. more' => Cardinality(present) >= offset + limit + 1
      BY <1>3, <3>1, PageBeyond
    <3>4. PageEnd' = offset + Cardinality(page') + (IF more' THEN 1 ELSE 0)
      BY <1>2 DEF PageEnd
    <3> QED
      BY <1>3, <3>2, <3>3, <3>4
  <2> QED
    BY <1>2, <2>1 DEF PageCounted, TotalCoversPage
<1> QED
  BY <1>5, <1>6, <1>7

\* The answer counts what the query has taken.
LEMMA CountStep ==
    ASSUME PagingInv, Count
    PROVE  DeletesPay' /\ InsertsPay' /\ PageCounted'
<1> USE DEF PagingInv
<1>1. /\ UNCHANGED <<listing, limit, present, deleted, first, offset, page, more>>
      /\ walk = "counting" /\ walk' = "answered"
      /\ shown' = shown \cup page /\ repeated' = repeated \cup (shown \cap page)
      /\ shown' \cup page' = shown \cup page
  BY DEF Count, collectionVars
<1>2. total' = Cardinality(present) \/ (listing = "events" /\ total' = None)
  BY DEF Count, Total
<1>3. DeletesPay'
  <2> DEFINE B == Skipped(present, first \ (shown \cup page), offset + limit)
  <2>1. Cardinality(B) <= Cardinality(deleted)
    BY <1>1 DEF DeletesPay
  <2>2. (walk \in {"counting", "answered"} =>
            Cardinality(Skipped(present, first \ (shown \cup page), offset + limit))
               <= Cardinality(deleted))'
    BY <1>1, <2>1
  <2>3. (LastPage =>
            Cardinality((first \cap present \cap Untied) \ (shown \cup page)) <= Cardinality(deleted))'
    <3> SUFFICES ASSUME LastPage'
                 PROVE  Cardinality((first \cap present \cap Untied) \ (shown \cup page))
                           <= Cardinality(deleted)
      BY <1>1
    <3>1. ~more /\ ~(listing = "dlq" /\ total' > offset + limit)
      BY <1>1 DEF LastPage, GoesOn
    <3>2. CASE listing = "events"
      BY <1>1, <3>1, <3>2 DEF LastPage, DeletesPay
    <3>3. CASE listing = "dlq"
      <4> DEFINE C == (first \cap present \cap Untied) \ (shown \cup page)
      <4>1. /\ Cardinality(present) \in Nat /\ Cardinality(deleted) \in Nat
            /\ limit \in Nat /\ offset \in Nat
        BY RecordsFinite, PagingAssumption DEF PagingTypeOK
      <4>2. Cardinality(present) <= offset + limit
        BY <1>2, <3>1, <3>3, <4>1
      <4>3. C \in SUBSET B /\ B \in SUBSET Records
        BY <4>2, NothingBeyond DEF Skipped, PagingTypeOK
      <4>4. /\ Cardinality(B) \in Nat /\ Cardinality(C) \in Nat
            /\ Cardinality(C) <= Cardinality(B)
        BY <4>3, Fewer
      <4> HIDE DEF B, C
      <4>5. Cardinality(C) <= Cardinality(deleted)
        BY <2>1, <4>1, <4>4
      <4> QED
        BY <4>5 DEF C
    <3> QED
      BY <3>2, <3>3 DEF PagingTypeOK
  <2> QED
    BY <1>1, <2>2, <2>3 DEF DeletesPay
<1>4. InsertsPay'
  <2>1. Inserted' = Inserted
    BY <1>1 DEF Inserted
  <2> QED
    BY <1>1, <2>1 DEF InsertsPay
<1>5. PageCounted'
  <2>1. TotalCoversPage'
    BY <1>1, <1>2 DEF TotalCoversPage, PageCounted, PageEnd
  <2> QED
    BY <1>1, <2>1 DEF PageCounted
<1> QED
  BY <1>3, <1>4, <1>5

\* A call that fails shows nothing, and leaves the walk at its edge.
LEMMA FailStep ==
    ASSUME PagingInv, CallFails
    PROVE  DeletesPay' /\ InsertsPay' /\ PageCounted'
<1> USE DEF PagingInv
<1>1. /\ UNCHANGED <<listing, limit, present, deleted, first, offset, total, shown, repeated>>
      /\ walk = "counting" /\ walk' = "querying" /\ page' = {}
  BY DEF CallFails, collectionVars, walkVars
<1>2. DeletesPay'
  BY <1>1 DEF DeletesPay, LastPage
<1>3. InsertsPay'
  <2>1. Inserted' = Inserted
    BY <1>1 DEF Inserted
  <2> QED
    BY <1>1, <2>1 DEF InsertsPay
<1>4. PageCounted'
  BY <1>1 DEF PageCounted, TotalCoversPage
<1> QED
  BY <1>2, <1>3, <1>4

\* The next page begins where this one ends.
LEMMA NextPageStep ==
    ASSUME PagingInv, NextPage
    PROVE  DeletesPay' /\ InsertsPay' /\ PageCounted'
<1> USE DEF PagingInv
<1>1. /\ UNCHANGED <<listing, limit, present, deleted, first, shown, repeated>>
      /\ walk = "answered" /\ page' = {} /\ page \subseteq shown
      /\ shown' \cup page' = shown /\ shown \cup page = shown
  BY DEF NextPage, collectionVars, Calls
<1>2. \/ GoesOn /\ walk' = "querying" /\ offset' = offset + limit
      \/ ~GoesOn /\ walk' = "over" /\ offset' = offset
  BY DEF NextPage
<1>3. DeletesPay'
  <2>1. CASE walk' = "querying"
    BY <1>1, <1>2, <2>1 DEF DeletesPay, LastPage
  <2>2. CASE walk' = "over"
    <3>1. LastPage
      BY <1>1, <1>2, <2>2 DEF LastPage
    <3> QED
      BY <1>1, <2>2, <3>1 DEF DeletesPay
  <2> QED
    BY <1>2, <2>1, <2>2
<1>4. InsertsPay'
  <2>1. Inserted' = Inserted
    BY <1>1 DEF Inserted
  <2>2. CASE walk' = "querying"
    BY <1>1, <1>2, <2>1, <2>2 DEF InsertsPay
  <2>3. CASE walk' = "over"
    <3> DEFINE A == (repeated \cap Untied) \cup Beyond(present, shown, offset + limit)
               R == repeated \cap Untied
    <3>1. R \in SUBSET A /\ A \in SUBSET Records
      BY DEF Beyond, PagingTypeOK
    <3>2. Cardinality(A) \in Nat /\ Cardinality(R) \in Nat /\ Cardinality(R) <= Cardinality(A)
      BY <3>1, Fewer
    <3>3. Cardinality(A) <= Cardinality(Inserted)
      BY <1>1 DEF InsertsPay
    <3>4. Cardinality(Inserted) \in Nat
      BY RecordsFinite DEF Inserted, PagingTypeOK
    <3> HIDE DEF A, R
    <3>5. Cardinality(R) <= Cardinality(Inserted)
      BY <3>2, <3>3, <3>4
    <3>6. Cardinality(repeated' \cap Untied) <= Cardinality(Inserted')
      BY <1>1, <2>1, <3>5 DEF R
    <3> QED
      BY <2>3, <3>6 DEF InsertsPay
  <2> QED
    BY <1>2, <2>2, <2>3
<1>5. PageCounted'
  BY <1>1, <1>2 DEF PageCounted, TotalCoversPage
<1> QED
  BY <1>3, <1>4, <1>5

LEMMA PagingStep == PagingInv /\ [Next]_vars => PagingInv'
<1> SUFFICES ASSUME PagingInv, [Next]_vars
             PROVE  PagingInv'
  OBVIOUS
<1>1. PagingTypeOK' /\ Calls'
  BY PagingTypes DEF PagingInv
<1>2. CASE Insert
  BY <1>1, <1>2, InsertStep DEF PagingInv
<1>3. CASE Delete
  BY <1>1, <1>3, DeleteStep DEF PagingInv
<1>4. CASE Query
  BY <1>1, <1>4, QueryStep DEF PagingInv
<1>5. CASE Count
  BY <1>1, <1>5, CountStep DEF PagingInv
<1>6. CASE CallFails
  BY <1>1, <1>6, FailStep DEF PagingInv
<1>7. CASE NextPage
  BY <1>1, <1>7, NextPageStep DEF PagingInv
<1>8. CASE UNCHANGED vars
  <2> USE <1>8 DEF vars, collectionVars, callVars, walkVars
  <2>1. DeletesPay'
    BY DEF PagingInv, DeletesPay, LastPage, GoesOn
  <2>2. InsertsPay'
    BY DEF PagingInv, InsertsPay, Inserted
  <2>3. PageCounted'
    BY DEF PagingInv, PageCounted, PageEnd, TotalCoversPage
  <2> QED
    BY <1>1, <2>1, <2>2, <2>3 DEF PagingInv
<1> QED
  BY <1>2, <1>3, <1>4, <1>5, <1>6, <1>7, <1>8 DEF Next, Over

LEMMA PagingAlways == Spec => []PagingInv
BY PagingStart, PagingStep, PTL DEF Spec

-----------------------------------------------------------------------------
(* Theorems. *)

\* find_events with skip and limit: whatever is inserted while the client
\* pages, every event with a timestamp of its own that was there when the walk
\* began is on some page when has_more says that the walk is over.
THEOREM EventsWalkCompleteHolds == Spec => []EventsWalkComplete
<1>1. PagingInv => EventsWalkComplete
  <2> SUFFICES ASSUME PagingInv, listing = "events", walk = "over"
               PROVE  first \cap Untied \subseteq shown
    BY DEF EventsWalkComplete
  <2> DEFINE A == (first \cap present \cap Untied) \ (shown \cup page)
  <2>1. deleted = {} /\ page = {} /\ first \subseteq present /\ A \subseteq Records
    BY DEF PagingInv, PagingTypeOK, Calls
  <2>2. Cardinality(A) <= Cardinality(deleted)
    BY DEF PagingInv, DeletesPay, LastPage
  <2>3. A = {}
    <3>1. Cardinality(deleted) = 0 /\ IsFiniteSet(A) /\ Cardinality(A) \in Nat
      BY <2>1, RecordsFinite, FS_EmptySet
    <3> HIDE DEF A
    <3>2. Cardinality(A) = 0
      BY <2>2, <3>1
    <3> QED
      BY <3>1, <3>2, FS_EmptySet
  <2> QED
    BY <2>1, <2>3
<1> QED
  BY <1>1, PagingAlways, PTL

\* list_dead_letters with skip and limit, against delete_dead_letter: whatever
\* is inserted and deleted between the queries, a walk through the dead letters
\* misses at most one remaining record for each deleted one.
THEOREM DeletesHideFewHolds == Spec => []DeletesHideFew
<1>1. PagingInv => DeletesHideFew
  <2> SUFFICES ASSUME PagingInv, walk = "over"
               PROVE  Cardinality((first \cap present \cap Untied) \ shown) <= Cardinality(deleted)
    BY DEF DeletesHideFew
  <2>1. page = {}
    BY DEF PagingInv, Calls
  <2> QED
    BY <2>1 DEF PagingInv, DeletesPay, LastPage
<1> QED
  BY <1>1, PagingAlways, PTL

\* find_events and list_dead_letters with skip and limit: a record is returned
\* on two pages only for a record that was inserted during the walk.
THEOREM RepeatsAreInsertsHolds == Spec => []RepeatsAreInserts
<1>1. PagingInv => RepeatsAreInserts
  <2> SUFFICES ASSUME PagingInv
               PROVE  Cardinality(repeated \cap Untied) <= Cardinality(Inserted)
    BY DEF RepeatsAreInserts
  <2> DEFINE R == repeated \cap Untied
  <2>1. CASE walk = "over"
    BY <2>1 DEF PagingInv, InsertsPay
  <2>2. CASE walk # "over"
    <3>1. PICK n : Cardinality(R \cup Beyond(present, shown, n)) <= Cardinality(Inserted)
      BY <2>2 DEF PagingInv, PagingTypeOK, InsertsPay
    <3> DEFINE A == R \cup Beyond(present, shown, n)
    <3>2. R \in SUBSET A /\ A \in SUBSET Records
      BY DEF PagingInv, PagingTypeOK, Beyond
    <3>3. Cardinality(A) \in Nat /\ Cardinality(R) \in Nat /\ Cardinality(R) <= Cardinality(A)
      BY <3>2, Fewer
    <3>4. Cardinality(Inserted) \in Nat
      BY RecordsFinite DEF Inserted, PagingInv, PagingTypeOK
    <3>5. Cardinality(A) <= Cardinality(Inserted)
      BY <3>1
    <3> HIDE DEF A, R
    <3>6. Cardinality(R) <= Cardinality(Inserted)
      BY <3>3, <3>4, <3>5
    <3> QED
      BY <3>6 DEF R
  <2> QED
    BY <2>1, <2>2
<1> QED
  BY <1>1, PagingAlways, PTL

\* list_events counts after it has queried: the total it answers with is never
\* less than what the page, its offset and has_more prove to exist.
THEOREM TotalCoversPageHolds == Spec => []TotalCoversPage
<1>1. PagingInv => TotalCoversPage
  BY DEF PagingInv, PageCounted
<1> QED
  BY <1>1, PagingAlways, PTL

=============================================================================
