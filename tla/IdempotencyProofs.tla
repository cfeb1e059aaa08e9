-------------------------- MODULE IdempotencyProofs --------------------------
(***************************************************************************)
(* Theorems about Idempotency, for any requests, keys and bodies.          *)
(***************************************************************************)
EXTENDS Idempotency, TLAPS

Statuses == {"new", "comparing", "checked", "202", "409", "429", "503"}

IdemTypeOK ==
    /\ request \in [Requests -> Statuses]
    /\ claim \in [Keys -> Bodies \cup {None}]
    /\ queued \subseteq Requests
    /\ document \in [Keys \cup Requests -> Bodies \cup {None}]

\* The requests that an idempotency check has let through.
Passed(r) == request[r] \in {"checked", "202", "429", "503"}

\* While the claim on a key stands, every request behind it has its body, and
\* so has the document.
ClaimStands ==
    \A k \in Keys \ forgotten :
        /\ claim[k] # None =>
              \E q \in Requests : KeyOf[q] = k /\ BodyOf[q] = claim[k] /\ request[q] # "new"
        /\ \A r \in Requests : KeyOf[r] = k =>
              /\ request[r] = "comparing" => claim[k] # None
              /\ Passed(r) => claim[k] = BodyOf[r]
        /\ document[k] \in {None, claim[k]}

\* Only a request with a key compares.
Compares == \A r \in Requests : request[r] = "comparing" => Keyed(r)

\* A request without a key has an id that no other request writes.
Unshared == \A r \in Requests : document[r] \in {None, BodyOf[r]}

\* What has left the queue is in the collection.
Documented ==
    /\ \A r \in queued : request[r] = "202"
    /\ \A r \in Requests : Delivered(r) => document[EventIdOf(r)] # None

IdemInv == IdemTypeOK /\ ClaimStands /\ Compares /\ Unshared /\ Documented /\ ConflictIsReal

-----------------------------------------------------------------------------
LEMMA IdemInit == Init => IdemInv
BY IdempotencyAssumption
   DEF Init, IdemInv, IdemTypeOK, Statuses, ClaimStands, Compares, Passed, Unshared, Documented,
       Delivered, Keyed, ConflictIsReal

\* The id of an event is its key, or the request's own.
LEMMA EventIds ==
    ASSUME NEW r \in Requests
    PROVE  /\ KeyOf[r] \in Keys \cup {NoKey} /\ BodyOf[r] \in Bodies
           /\ EventIdOf(r) \in Keys \cup Requests
           /\ EventIdOf(r) \in Keys => KeyOf[r] = EventIdOf(r)
           /\ EventIdOf(r) \in Requests => EventIdOf(r) = r
BY IdempotencyAssumption DEF EventIdOf, Keyed

\* A conflict, once it is real, stays so: no request goes back to new.
LEMMA ConflictStays ==
    ASSUME IdemInv, NEW r \in Requests, NEW p \in Statuses \ {"new", "409"},
           request' = [request EXCEPT ![r] = p], forgotten \subseteq forgotten'
    PROVE  ConflictIsReal'
BY DEF IdemInv, IdemTypeOK, ConflictIsReal

LEMMA IdemStep == IdemInv /\ [Next]_vars => IdemInv'
<1> SUFFICES ASSUME IdemInv, [Next]_vars
             PROVE  IdemInv'
  OBVIOUS
<1> USE IdempotencyAssumption DEF IdemInv
<1>1. ASSUME NEW r \in Requests, Unkeyed(r)
      PROVE  IdemInv'
  <2>1. ConflictIsReal'
    BY <1>1, ConflictStays DEF Unkeyed, Moves, Statuses
  <2> QED
    BY <1>1, <2>1 DEF Unkeyed, Moves, Keyed, IdemTypeOK, Statuses, ClaimStands, Passed, Unshared,
                      Documented, Delivered, Compares
<1>2. ASSUME NEW r \in Requests, Claim(r)
      PROVE  IdemInv'
  <2>1. ConflictIsReal'
    BY <1>2, ConflictStays DEF Claim, Moves, Statuses
  <2>2. IdemTypeOK' /\ Compares' /\ Unshared' /\ Documented'
    BY <1>2, EventIds DEF Claim, Moves, Keyed, Fingerprint, IdemTypeOK, Statuses, Unshared,
                          Documented, Delivered, Compares
  <2>3. ClaimStands'
    BY <1>2, EventIds DEF Claim, Moves, Keyed, Fingerprint, IdemTypeOK, Statuses, ClaimStands, Passed
  <2> QED
    BY <2>1, <2>2, <2>3
<1>3. ASSUME NEW r \in Requests, Compare(r)
      PROVE  IdemInv'
  <2>1. ConflictIsReal'
    <3>1. CASE request' = [request EXCEPT ![r] = "checked"]
      BY <1>3, <3>1, ConflictStays DEF Compare, Statuses
    <3>2. CASE request' = [request EXCEPT ![r] = "409"] /\ claim[KeyOf[r]] # BodyOf[r]
      <4>1. KeyOf[r] \in Keys /\ request[r] = "comparing" /\ forgotten' = forgotten
        BY <1>3, <3>2, EventIds DEF Compare, Moves, Compares, Keyed, IdemTypeOK
      <4>2. ASSUME KeyOf[r] \notin forgotten
            PROVE  \E q \in Requests :
                      KeyOf[q] = KeyOf[r] /\ BodyOf[q] # BodyOf[r] /\ request[q] # "new"
        BY <3>2, <4>1, <4>2 DEF ClaimStands
      <4> QED
        BY <3>2, <4>1, <4>2 DEF ConflictIsReal, IdemTypeOK
    <3> QED
      BY <1>3, <3>1, <3>2 DEF Compare, Moves, Fingerprint
  <2>2. IdemTypeOK' /\ Compares' /\ Unshared' /\ Documented'
    BY <1>3 DEF Compare, Moves, IdemTypeOK, Statuses, Unshared, Documented, Delivered, Compares, Keyed
  <2>3. ClaimStands'
    BY <1>3, EventIds DEF Compare, Moves, Fingerprint, IdemTypeOK, Statuses, ClaimStands, Passed
  <2> QED
    BY <2>1, <2>2, <2>3
<1>4. ASSUME NEW r \in Requests, CheckFails(r)
      PROVE  IdemInv'
  <2>1. ConflictIsReal'
    BY <1>4, ConflictStays DEF CheckFails, Moves, Statuses
  <2>2. IdemTypeOK' /\ Compares' /\ Unshared' /\ Documented'
    BY <1>4, EventIds DEF CheckFails, Moves, Keyed, Fingerprint, IdemTypeOK, Statuses, Unshared,
                          Documented, Delivered, Compares
  <2>3. ClaimStands'
    BY <1>4, EventIds DEF CheckFails, Moves, Keyed, IdemTypeOK, Statuses, ClaimStands, Passed
  <2> QED
    BY <2>1, <2>2, <2>3
<1>5. ASSUME NEW r \in Requests, Ingest(r)
      PROVE  IdemInv'
  <2>1. ConflictIsReal'
    BY <1>5, ConflictStays DEF Ingest, Moves, Statuses
  <2>2. IdemTypeOK' /\ Compares' /\ Unshared' /\ Documented'
    BY <1>5 DEF Ingest, Moves, IdemTypeOK, Statuses, Unshared, Documented, Delivered, Compares, Keyed
  <2>3. ClaimStands'
    BY <1>5 DEF Ingest, Moves, IdemTypeOK, Statuses, ClaimStands, Passed
  <2> QED
    BY <2>1, <2>2, <2>3
<1>6. ASSUME NEW r \in Requests, Insert(r)
      PROVE  IdemInv'
  <2>1. request[r] = "202" /\ UNCHANGED <<request, claim, forgotten>>
    BY <1>6 DEF Insert, Documented
  <2>2. /\ document' = [document EXCEPT ![EventIdOf(r)] = IF @ = None THEN BodyOf[r] ELSE @]
        /\ queued' = queued \ {r}
    BY <1>6 DEF Insert
  <2>3. IdemTypeOK' /\ ConflictIsReal' /\ Compares'
    BY <2>1, <2>2, EventIds DEF IdemTypeOK, ConflictIsReal, Compares, Keyed
  <2>4. Documented'
    BY <2>1, <2>2, EventIds DEF IdemTypeOK, Documented, Delivered, EventIdOf, Keyed
  <2>5. ClaimStands' /\ Unshared'
    <3>1. \A q \in Requests : document'[q] \in {document[q], BodyOf[q]}
      BY <2>2, EventIds DEF IdemTypeOK
    <3>2. \A k \in Keys : document'[k] = document[k] \/ (KeyOf[r] = k /\ document'[k] = BodyOf[r])
      BY <2>2, EventIds DEF IdemTypeOK
    <3> QED
      BY <2>1, <3>1, <3>2 DEF ClaimStands, Unshared, Passed
  <2> QED
    BY <2>3, <2>4, <2>5
<1>7. ASSUME NEW k \in Keys, Expire(k)
      PROVE  IdemInv'
  BY <1>7 DEF Expire, IdemTypeOK, ClaimStands, Passed, Unshared, Documented, Delivered, Compares,
              ConflictIsReal, EventIdOf, Keyed
<1>8. CASE UNCHANGED vars
  BY <1>8 DEF vars, IdemTypeOK, ClaimStands, Passed, Unshared, Documented, Delivered, Compares,
              ConflictIsReal, EventIdOf, Keyed
<1> QED
  BY <1>1, <1>2, <1>3, <1>4, <1>5, <1>6, <1>7, <1>8 DEF Next, Done

-----------------------------------------------------------------------------
\* No accepted body is dropped behind the id of another one while the claim on
\* its key stands, however requests, outages, expiries and inserts interleave.
THEOREM AcceptedIsStoredHolds == Spec => []AcceptedIsStored
<1>1. IdemInv => AcceptedIsStored
  BY EventIds, IdempotencyAssumption
     DEF IdemInv, IdemTypeOK, ClaimStands, Passed, Unshared, Documented, Delivered, AcceptedIsStored,
         EventIdOf, Keyed
<1> QED
  BY <1>1, IdemInit, IdemStep, PTL DEF Spec

\* A 409 is answered only to a request whose key another body has used.
THEOREM ConflictIsRealHolds == Spec => []ConflictIsReal
<1>1. IdemInv => ConflictIsReal
  BY DEF IdemInv
<1> QED
  BY <1>1, IdemInit, IdemStep, PTL DEF Spec

-----------------------------------------------------------------------------
(* What a documentation claim that the code refutes comes down to. *)

\* While no key expires, a claim is the body of a request with its key, and a
\* request that compares finds one.
ClaimsLast ==
    /\ \A k \in Keys : claim[k] # None => \E q \in Requests : KeyOf[q] = k /\ BodyOf[q] = claim[k]
    /\ \A r \in Requests : request[r] = "comparing" => Keyed(r) /\ claim[KeyOf[r]] # None

LastInv == IdemTypeOK /\ ClaimsLast /\ NoFalseConflict

LEMMA LastInit == Init => LastInv
BY IdempotencyAssumption
   DEF Init, LastInv, IdemTypeOK, Statuses, ClaimsLast, NoFalseConflict

LEMMA LastStep ==
    ASSUME ~KeysExpire, IdemInv, LastInv, [Next]_vars
    PROVE  LastInv'
<1> USE IdempotencyAssumption DEF LastInv, ClaimsLast
<1>0. IdemTypeOK'
  BY IdemStep DEF IdemInv
<1>1. ASSUME NEW r \in Requests, NEW p \in Statuses \ {"comparing", "409"},
             request' = [request EXCEPT ![r] = p],
             \/ claim' = claim
             \/ KeyOf[r] \in Keys /\ claim' = [claim EXCEPT ![KeyOf[r]] = BodyOf[r]]
      PROVE  ClaimsLast' /\ NoFalseConflict'
  <2>1. NoFalseConflict'
    BY <1>1 DEF NoFalseConflict, IdemTypeOK
  <2>2. ClaimsLast'
    BY <1>1 DEF IdemTypeOK, Keyed
  <2> QED
    BY <2>1, <2>2
<1>2. ASSUME NEW r \in Requests, Unkeyed(r) \/ Ingest(r)
      PROVE  LastInv'
  BY <1>0, <1>1, <1>2 DEF Unkeyed, Ingest, Moves, Statuses
<1>3. ASSUME NEW r \in Requests, Claim(r)
      PROVE  LastInv'
  <2>1. KeyOf[r] \in Keys
    BY <1>3 DEF Claim, Keyed
  <2>2. CASE request' = [request EXCEPT ![r] = "checked"]
    BY <1>0, <1>1, <1>3, <2>1, <2>2 DEF Claim, Moves, Statuses, Fingerprint
  <2>3. CASE /\ request' = [request EXCEPT ![r] = "comparing"]
             /\ claim[KeyOf[r]] # None /\ claim' = claim
    <3>1. NoFalseConflict'
      BY <2>3 DEF NoFalseConflict, IdemTypeOK
    <3>2. ClaimsLast'
      BY <1>3, <2>3 DEF Claim, IdemTypeOK, Keyed
    <3> QED
      BY <1>0, <3>1, <3>2
  <2> QED
    BY <1>3, <2>2, <2>3 DEF Claim, Moves
<1>4. ASSUME NEW r \in Requests, Compare(r)
      PROVE  LastInv'
  <2>1. CASE request' = [request EXCEPT ![r] = "checked"]
    BY <1>0, <1>1, <1>4, <2>1 DEF Compare, Statuses
  <2>2. CASE /\ request' = [request EXCEPT ![r] = "409"]
             /\ request[r] = "comparing" /\ claim[KeyOf[r]] # BodyOf[r]
    <3>1. KeyOf[r] \in Keys /\ claim[KeyOf[r]] # None
      BY <2>2 DEF Keyed
    <3>2. \E q \in Requests : KeyOf[q] = KeyOf[r] /\ BodyOf[q] # BodyOf[r]
      BY <2>2, <3>1
    <3>3. NoFalseConflict'
      BY <2>2, <3>2 DEF NoFalseConflict, IdemTypeOK
    <3>4. ClaimsLast'
      BY <1>4, <2>2 DEF Compare, IdemTypeOK, Keyed
    <3> QED
      BY <1>0, <3>3, <3>4
  <2> QED
    BY <1>4, <2>1, <2>2 DEF Compare, Moves, Fingerprint
<1>5. ASSUME NEW r \in Requests, CheckFails(r)
      PROVE  LastInv'
  <2>1. KeyOf[r] \in Keys
    BY <1>5 DEF CheckFails, Keyed
  <2> QED
    BY <1>0, <1>1, <1>5, <2>1 DEF CheckFails, Moves, Statuses, Fingerprint
<1>6. ASSUME NEW r \in Requests, Insert(r)
      PROVE  LastInv'
  BY <1>0, <1>6 DEF Insert, NoFalseConflict, Keyed
<1>7. ASSUME NEW k \in Keys, Expire(k)
      PROVE  LastInv'
  BY <1>7 DEF Expire
<1>8. CASE UNCHANGED vars
  BY <1>0, <1>8 DEF vars, NoFalseConflict, Keyed
<1> QED
  BY <1>2, <1>3, <1>4, <1>5, <1>6, <1>7, <1>8 DEF Next, Done

\* redis_cache.py, check_idempotency: "a conflict is a key that was reused with
\* a different body" is true as long as no key expires, even if Redis fails at
\* any call.
THEOREM NoFalseConflictWithoutExpiry ==
    ASSUME ~KeysExpire
    PROVE  Spec => []NoFalseConflict
<1>1. IdemInv /\ LastInv /\ [Next]_vars => IdemInv' /\ LastInv'
  BY IdemStep, LastStep
<1>2. LastInv => NoFalseConflict
  BY DEF LastInv
<1> QED
  BY <1>1, <1>2, IdemInit, LastInit, PTL DEF Spec

=============================================================================
