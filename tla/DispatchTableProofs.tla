------------------------- MODULE DispatchTableProofs -------------------------
(***************************************************************************)
(* Proofs about the dispatch table for any set of requests and any number  *)
(* of generations.  The safety invariants are consequences of one          *)
(* inductive invariant, IInv; that the free list misses no vacant slot     *)
(* needs the numbering of its places as well.  What the channels deliver   *)
(* implements RequestLifecycle.                                            *)
(***************************************************************************)
EXTENDS DispatchTable, FiniteSetTheorems, FunctionTheorems, SequenceTheorems, WellFoundedInduction, TLAPS

(***************************************************************************)
(* The free list as a relation between slots: the head and the links lead  *)
(* to vacant slots only, no two links share a target and no link leads to  *)
(* the head.  It is what keeps insert's pop from leaving a dangling link.  *)
(***************************************************************************)
FreeListLocal ==
  /\ free_head \in Vacant \cup {None}
  /\ \A v \in Vacant : slots[v].next_free \in Vacant \cup {None}
  /\ \A u, v \in Vacant : slots[u].next_free = slots[v].next_free
                            => u = v \/ slots[u].next_free = None
  /\ \A v \in Vacant : slots[v].next_free = free_head => free_head = None

(***************************************************************************)
(* Until a slot wraps, its generation counts its releases, and an id       *)
(* issued for it either is older than that or belongs to its occupant.     *)
(***************************************************************************)
GenerationCounts ==
  NoWrap => \A i \in Index : slots[i].generation = releases[i]

IdsKnown ==
  \A id \in issued :
    /\ id.index \in Index
    /\ NoWrap => \/ id.generation < releases[id.index]
                 \/ /\ id.generation = releases[id.index]
                    /\ slots[id.index].owner = id.owner

HeadBeforeChunks == \A i \in Occupied : ~ slots[i].head => slots[i].chunks = <<>>

OwnBodies ==
  NoWrap =>
    /\ \A i \in Occupied : OnlyOwn(slots[i].chunks, slots[i].owner)
    /\ \A r \in Requests : \A k \in 1..Len(outcome[r]) : OnlyOwn(outcome[r][k].body, r)

IInv ==
  /\ TypeOK
  /\ Conservation
  /\ FreeListLocal
  /\ InFlightExact
  /\ GenerationCounts
  /\ IdsKnown
  /\ HeadBeforeChunks
  /\ OwnBodies

-----------------------------------------------------------------------------
(***************************************************************************)
(* A nonempty set of naturals has a least element.                         *)
(***************************************************************************)
LEMMA LeastNatural ==
  ASSUME NEW S \in SUBSET Nat, S # {}
  PROVE  \E m \in S : \A j \in S : m <= j
<1> DEFINE R == {p \in Nat \X Nat : p[1] < p[2]}
<1>1. R = OpToRel(<, Nat)
  BY DEF OpToRel
<1>2. IsWellFoundedOn(R, Nat)
  BY <1>1, NatLessThanWellFounded, Zenon
<1>3. \A x, y \in Nat : <<x, y>> \in R <=> x < y
  OBVIOUS
<1> HIDE DEF R
<1>4. PICK m \in S : \A j \in S : ~ (<<j, m>> \in R)
  BY <1>2, WFMin
<1>5. ASSUME NEW j \in S PROVE m <= j
  <2>1. ~ (j < m)
    BY <1>3, <1>4, Zenon
  <2> QED BY <2>1
<1> QED BY <1>5

(***************************************************************************)
(* The operator Highest finds the greatest element of a nonempty bounded set  *)
(* of indices.                                                             *)
(***************************************************************************)
LEMMA LastIsGreatest ==
  ASSUME NEW n \in Nat, NEW S \in SUBSET (0..(n - 1)), S # {}
  PROVE  Highest(S) \in S /\ \A j \in S : j <= Highest(S)
<1> DEFINE T == {n - j : j \in S}
<1>1. T \in SUBSET Nat /\ T # {}
  OBVIOUS
<1>2. PICK t \in T : \A u \in T : t <= u
  BY <1>1, LeastNatural
<1>3. PICK m \in S : t = n - m
  BY <1>2
<1>4. \A j \in S : j <= m
  BY <1>2, <1>3
<1> QED BY <1>4 DEF Highest

(***************************************************************************)
(* The occupied slots are finitely many.                                   *)
(***************************************************************************)
LEMMA OccupiedFinite ==
  ASSUME TypeOK
  PROVE  IsFiniteSet(Occupied) /\ Cardinality(Occupied) \in Nat
<1>1. IsFiniteSet(0..(len - 1))
  BY FS_Interval DEF TypeOK
<1>2. Occupied \in SUBSET (0..(len - 1))
  BY DEF Occupied, Index
<1> QED BY <1>1, <1>2, FS_Subset, FS_CardinalityType

(***************************************************************************)
(* Issuing an id adds its request to the inserted ones.                    *)
(***************************************************************************)
LEMMA InsertedGrows ==
  ASSUME NEW new, issued' = issued \cup {new}
  PROVE  Inserted' = Inserted \cup {new.owner}
<1>1. Inserted' = {id.owner : id \in issued'}
  BY DEF Inserted
<1>2. \A x : x \in Inserted' <=> x \in Inserted \/ x = new.owner
  BY <1>1, Zenon DEF Inserted
<1> QED BY <1>2

-----------------------------------------------------------------------------
(***************************************************************************)
(* The empty table satisfies the inductive invariant.                      *)
(***************************************************************************)
LEMMA InitIInv == Init => IInv
<1> SUFFICES ASSUME Init PROVE IInv
  OBVIOUS
<1> USE ConstantsAssumption DEF Init
<1>1. Index = {} /\ Occupied = {} /\ Vacant = {}
  BY DEF Index, Occupied, Vacant
<1>2. TypeOK
  BY <1>1 DEF TypeOK, Index
<1>3. Conservation
  BY <1>1 DEF Conservation, Inserted, HoldsNoSlot
<1>4. InFlightExact
  BY <1>1, FS_EmptySet DEF InFlightExact
<1> QED BY <1>1, <1>2, <1>3, <1>4
     DEF IInv, FreeListLocal, GenerationCounts, IdsKnown, HeadBeforeChunks, OwnBodies, OnlyOwn

(***************************************************************************)
(* insert into the slot at the head of the free list.                      *)
(***************************************************************************)
LEMMA ReuseIInv ==
  ASSUME IInv, NEW r \in Requests, Insert(r), Reuse(r)
  PROVE  IInv'
<1> USE ConstantsAssumption
<1> DEFINE h == free_head
           e == NewEntry(r, slots[h].generation)
           new == [index |-> h, generation |-> slots[h].generation, owner |-> r]
<1>1. TypeOK /\ h \in Vacant /\ h \in Index /\ slots[h] \in Slot
  BY DEF IInv, FreeListLocal, TypeOK, Reuse, Vacant
<1>2. e \in Slot /\ e.owner = r /\ e.completion /\ ~ e.head /\ e.chunks = <<>>
      /\ e.generation = slots[h].generation
  BY <1>1 DEF NewEntry, Slot
<1>3. /\ slots' = [slots EXCEPT ![h] = e]
      /\ issued' = issued \cup {new}
      /\ free_head' = slots[h].next_free
      /\ len' = len /\ releases' = releases /\ outcome' = outcome
      /\ in_flight' = in_flight + 1 /\ r \notin Inserted
  BY DEF Reuse, Insert
<1> HIDE DEF e
<1>4. /\ Index' = Index
      /\ slots'[h] = e
      /\ \A i \in Index : i # h => slots'[i] = slots[i]
      /\ slots' \in [Index -> Slot]
  BY <1>1, <1>2, <1>3 DEF Index, TypeOK
<1>5. Occupied' = Occupied \cup {h} /\ Vacant' = Vacant \ {h} /\ h \notin Occupied
  BY <1>1, <1>2, <1>4 DEF Occupied, Vacant
<1>6. Inserted' = Inserted \cup {r}
  BY <1>3, new.owner = r, InsertedGrows
<1>7. NoWrap' <=> NoWrap
  BY <1>3, <1>4 DEF NoWrap
<1>8. TypeOK'
  <2>1. new \in RequestId
    BY <1>1 DEF RequestId, Slot, Index, TypeOK
  <2>2. free_head' \in Nat \cup {None}
    BY <1>1, <1>3 DEF Slot
  <2> QED BY <1>1, <1>3, <1>4, <2>1, <2>2 DEF TypeOK
<1>9. Conservation'
  <2> SUFFICES ASSUME NEW q \in Requests
               PROVE  \/ q \notin Inserted' /\ outcome'[q] = <<>> /\ HoldsNoSlot(q)'
                      \/ q \in Inserted' /\ outcome'[q] = <<>> /\ HoldsOneSlot(q)'
                      \/ q \in Inserted' /\ Len(outcome'[q]) = 1 /\ HoldsNoSlot(q)'
    BY DEF Conservation
  <2>1. CASE q = r
    <3>1. outcome[q] = <<>> /\ HoldsNoSlot(q)
      BY <2>1, <1>3 DEF IInv, Conservation
    <3>2. HoldsOneSlot(q)'
      BY <2>1, <3>1, <1>2, <1>4, <1>5, <1>1 DEF HoldsOneSlot, HoldsNoSlot, Occupied
    <3> QED BY <2>1, <3>1, <3>2, <1>3, <1>6
  <2>2. CASE q # r
    <3>1. HoldsNoSlot(q) => HoldsNoSlot(q)'
      BY <2>2, <1>2, <1>4, <1>5 DEF HoldsNoSlot, Occupied
    <3>2. HoldsOneSlot(q) => HoldsOneSlot(q)'
      BY <2>2, <1>2, <1>4, <1>5 DEF HoldsOneSlot, Occupied
    <3> QED BY <2>2, <3>1, <3>2, <1>3, <1>6 DEF IInv, Conservation
  <2> QED BY <2>1, <2>2
<1>10. FreeListLocal'
  BY <1>1, <1>3, <1>4, <1>5 DEF IInv, FreeListLocal, Vacant, Index, None
<1>11. InFlightExact'
  BY <1>1, <1>3, <1>5, OccupiedFinite, FS_AddElement DEF IInv, InFlightExact
<1>12. GenerationCounts'
  BY <1>2, <1>3, <1>4, <1>7 DEF IInv, GenerationCounts
<1>13. IdsKnown'
  <2> SUFFICES ASSUME NEW id \in issued'
               PROVE  /\ id.index \in Index'
                      /\ NoWrap' => \/ id.generation < releases'[id.index]
                                    \/ /\ id.generation = releases'[id.index]
                                       /\ slots'[id.index].owner = id.owner
    BY DEF IdsKnown
  <2>1. CASE id = new
    BY <2>1, <1>1, <1>2, <1>3, <1>4, <1>7 DEF IInv, GenerationCounts
  <2>2. CASE id \in issued
    <3>1. CASE id.index = h
      BY <2>2, <3>1, <1>1, <1>3, <1>4, <1>7 DEF IInv, IdsKnown, Vacant, TypeOK, RequestId
    <3>2. CASE id.index # h
      BY <2>2, <3>2, <1>1, <1>3, <1>4, <1>7 DEF IInv, IdsKnown
    <3> QED BY <3>1, <3>2
  <2> QED BY <2>1, <2>2, <1>3
<1>14. HeadBeforeChunks'
  BY <1>2, <1>4, <1>5 DEF IInv, HeadBeforeChunks, Occupied
<1>15. OwnBodies'
  <2> SUFFICES ASSUME NoWrap'
               PROVE  /\ \A i \in Occupied' : OnlyOwn(slots'[i].chunks, slots'[i].owner)
                      /\ \A q \in Requests : \A k \in 1..Len(outcome'[q]) :
                           OnlyOwn(outcome'[q][k].body, q)
    BY DEF OwnBodies, OnlyOwn
  <2>1. OnlyOwn(slots'[h].chunks, slots'[h].owner)
    BY <1>2, <1>4 DEF OnlyOwn
  <2>2. \A i \in Occupied : slots'[i] = slots[i]
    BY <1>4, <1>5 DEF Occupied
  <2> QED BY <2>1, <2>2, <1>3, <1>5, <1>7 DEF IInv, OwnBodies
<1> QED BY <1>8, <1>9, <1>10, <1>11, <1>12, <1>13, <1>14, <1>15 DEF IInv

(***************************************************************************)
(* insert into a new slot at the end of the vector.                        *)
(***************************************************************************)
LEMMA GrowIInv ==
  ASSUME IInv, NEW r \in Requests, Insert(r), Grow(r)
  PROVE  IInv'
<1> USE ConstantsAssumption
<1> DEFINE e == NewEntry(r, 0)
           new == [index |-> len, generation |-> 0, owner |-> r]
<1>1. TypeOK /\ free_head = None /\ len \in Nat /\ len \notin Index
  BY DEF IInv, TypeOK, Grow, Index
<1>2. e \in Slot /\ e.owner = r /\ e.completion /\ ~ e.head /\ e.chunks = <<>>
      /\ e.generation = 0
  BY DEF NewEntry, Slot, Generation
<1>3. /\ slots' = [i \in 0..len |-> IF i = len THEN e ELSE slots[i]]
      /\ releases' = [i \in 0..len |-> IF i = len THEN 0 ELSE releases[i]]
      /\ issued' = issued \cup {new}
      /\ free_head' = free_head
      /\ len' = len + 1 /\ outcome' = outcome
      /\ in_flight' = in_flight + 1 /\ r \notin Inserted
  BY DEF Grow, Insert
<1> HIDE DEF e
<1>4. Index' = Index \cup {len} /\ Index' = 0..len
  BY <1>1, <1>3 DEF Index
<1>5. /\ slots'[len] = e /\ releases'[len] = 0
      /\ \A i \in Index : slots'[i] = slots[i] /\ releases'[i] = releases[i]
      /\ slots' \in [Index' -> Slot] /\ releases' \in [Index' -> Nat]
  <2>1. \A i \in 0..len : i # len => i \in Index
    BY <1>1 DEF Index
  <2>2. \A i \in Index : i \in 0..len /\ i # len
    BY <1>1 DEF Index
  <2>3. \A i \in Index : slots[i] \in Slot /\ releases[i] \in Nat
    BY <1>1 DEF TypeOK
  <2> QED BY <1>1, <1>2, <1>3, <1>4, <2>1, <2>2, <2>3
<1>6. Occupied' = Occupied \cup {len} /\ Vacant' = Vacant /\ len \notin Occupied
  BY <1>1, <1>2, <1>4, <1>5 DEF Occupied, Vacant
<1>7. Inserted' = Inserted \cup {r}
  BY <1>3, new.owner = r, InsertedGrows
<1>8. NoWrap' <=> NoWrap
  BY <1>4, <1>5 DEF NoWrap
<1>9. TypeOK'
  <2>1. new \in RequestId
    BY <1>1 DEF RequestId, Generation
  <2> QED BY <1>1, <1>3, <1>5, <2>1 DEF TypeOK
<1>10. Conservation'
  <2> SUFFICES ASSUME NEW q \in Requests
               PROVE  \/ q \notin Inserted' /\ outcome'[q] = <<>> /\ HoldsNoSlot(q)'
                      \/ q \in Inserted' /\ outcome'[q] = <<>> /\ HoldsOneSlot(q)'
                      \/ q \in Inserted' /\ Len(outcome'[q]) = 1 /\ HoldsNoSlot(q)'
    BY DEF Conservation
  <2>1. CASE q = r
    <3>1. outcome[q] = <<>> /\ HoldsNoSlot(q)
      BY <2>1, <1>3 DEF IInv, Conservation
    <3>2. HoldsOneSlot(q)'
      BY <2>1, <3>1, <1>2, <1>5, <1>6 DEF HoldsOneSlot, HoldsNoSlot, Occupied
    <3> QED BY <2>1, <3>1, <3>2, <1>3, <1>7
  <2>2. CASE q # r
    <3>1. HoldsNoSlot(q) => HoldsNoSlot(q)'
      BY <2>2, <1>2, <1>5, <1>6 DEF HoldsNoSlot, Occupied
    <3>2. HoldsOneSlot(q) => HoldsOneSlot(q)'
      BY <2>2, <1>2, <1>5, <1>6 DEF HoldsOneSlot, Occupied
    <3> QED BY <2>2, <3>1, <3>2, <1>3, <1>7 DEF IInv, Conservation
  <2> QED BY <2>1, <2>2
<1>11. FreeListLocal'
  BY <1>1, <1>3, <1>5, <1>6 DEF IInv, FreeListLocal, Vacant
<1>12. InFlightExact'
  BY <1>1, <1>3, <1>6, OccupiedFinite, FS_AddElement DEF IInv, InFlightExact
<1>13. GenerationCounts'
  BY <1>2, <1>4, <1>5, <1>8 DEF IInv, GenerationCounts
<1>14. IdsKnown'
  <2> SUFFICES ASSUME NEW id \in issued'
               PROVE  /\ id.index \in Index'
                      /\ NoWrap' => \/ id.generation < releases'[id.index]
                                    \/ /\ id.generation = releases'[id.index]
                                       /\ slots'[id.index].owner = id.owner
    BY DEF IdsKnown
  <2>1. CASE id = new
    BY <2>1, <1>2, <1>4, <1>5
  <2>2. CASE id \in issued
    BY <2>2, <1>4, <1>5, <1>8 DEF IInv, IdsKnown
  <2> QED BY <2>1, <2>2, <1>3
<1>15. HeadBeforeChunks'
  BY <1>2, <1>5, <1>6 DEF IInv, HeadBeforeChunks, Occupied
<1>16. OwnBodies'
  <2> SUFFICES ASSUME NoWrap'
               PROVE  /\ \A i \in Occupied' : OnlyOwn(slots'[i].chunks, slots'[i].owner)
                      /\ \A q \in Requests : \A k \in 1..Len(outcome'[q]) :
                           OnlyOwn(outcome'[q][k].body, q)
    BY DEF OwnBodies, OnlyOwn
  <2>1. OnlyOwn(slots'[len].chunks, slots'[len].owner)
    BY <1>2, <1>5 DEF OnlyOwn
  <2>2. \A i \in Occupied : slots'[i] = slots[i]
    BY <1>5 DEF Occupied
  <2> QED BY <2>1, <2>2, <1>3, <1>6, <1>8 DEF IInv, OwnBodies
<1> QED BY <1>9, <1>10, <1>11, <1>12, <1>13, <1>14, <1>15, <1>16 DEF IInv

-----------------------------------------------------------------------------
(***************************************************************************)
(* A step that only fills the response of one occupied slot, with chunks   *)
(* of the slot's own request, preserves the invariant.                     *)
(***************************************************************************)
LEMMA FillIInv ==
  ASSUME IInv, NEW i \in Occupied, NEW s \in Slot,
         s.owner = slots[i].owner, s.completion = slots[i].completion,
         s.generation = slots[i].generation, ~ s.head => s.chunks = <<>>,
         NoWrap => OnlyOwn(s.chunks, s.owner),
         slots' = [slots EXCEPT ![i] = s],
         UNCHANGED <<len, free_head, in_flight, releases, issued, outcome>>
  PROVE  IInv'
<1> USE ConstantsAssumption
<1>1. TypeOK /\ i \in Index
  BY DEF IInv, Occupied
<1>2. /\ Index' = Index
      /\ slots'[i] = s
      /\ \A j \in Index : j # i => slots'[j] = slots[j]
      /\ slots' \in [Index -> Slot]
  BY <1>1 DEF Index, TypeOK
<1>3. /\ \A j \in Index : /\ slots'[j].owner = slots[j].owner
                         /\ slots'[j].completion = slots[j].completion
                         /\ slots'[j].generation = slots[j].generation
      /\ \A j \in Vacant : slots'[j] = slots[j]
  BY <1>2 DEF Vacant, Occupied
<1>4. Occupied' = Occupied /\ Vacant' = Vacant
  BY <1>2, <1>3 DEF Occupied, Vacant
<1>5. Inserted' = Inserted /\ (NoWrap' <=> NoWrap)
  BY <1>2 DEF Inserted, NoWrap
<1>6. TypeOK'
  BY <1>1, <1>2 DEF TypeOK
<1>7. Conservation'
  BY <1>3, <1>4, <1>5 DEF IInv, Conservation, HoldsNoSlot, HoldsOneSlot, Occupied
<1>8. FreeListLocal'
  BY <1>3, <1>4 DEF IInv, FreeListLocal
<1>9. InFlightExact'
  BY <1>4 DEF IInv, InFlightExact
<1>10. GenerationCounts' /\ IdsKnown'
  BY <1>2, <1>3, <1>5 DEF IInv, GenerationCounts, IdsKnown
<1>11. HeadBeforeChunks'
  BY <1>2, <1>4 DEF IInv, HeadBeforeChunks, Occupied
<1>12. OwnBodies'
  <2>1. NoWrap => \A j \in Occupied : OnlyOwn(slots'[j].chunks, slots'[j].owner)
    BY <1>2 DEF IInv, OwnBodies, Occupied
  <2> QED BY <2>1, <1>4, <1>5 DEF IInv, OwnBodies, OnlyOwn
<1> QED BY <1>6, <1>7, <1>8, <1>9, <1>10, <1>11, <1>12 DEF IInv

(***************************************************************************)
(* An id that resolves reaches an occupied slot and, until a slot wraps,   *)
(* the one of the request it was issued for.                               *)
(***************************************************************************)
LEMMA LiveOwner ==
  ASSUME IInv, NEW id \in issued, Live(id)
  PROVE  /\ id.index \in Occupied
         /\ id.owner \in Requests
         /\ slots[id.index] \in Slot
         /\ NoWrap => slots[id.index].owner = id.owner
<1>1. id.index \in Index /\ id \in RequestId /\ slots[id.index] \in Slot
  BY DEF IInv, IdsKnown, TypeOK
<1>2. id.index \in Occupied
  BY <1>1 DEF Live, Occupied
<1>3. ASSUME NoWrap PROVE slots[id.index].owner = id.owner
  <2>1. id.generation = releases[id.index] /\ releases[id.index] \in Nat
    BY <1>1, <1>3 DEF IInv, GenerationCounts, Live, TypeOK
  <2> QED BY <1>3, <2>1 DEF IInv, IdsKnown
<1> QED BY <1>1, <1>2, <1>3 DEF RequestId

(***************************************************************************)
(* op_nexide_send_head.                                                    *)
(***************************************************************************)
LEMMA SendHeadIInv ==
  ASSUME IInv, NEW id \in issued, SendHead(id)
  PROVE  IInv'
<1> DEFINE i == id.index
           s == [slots[i] EXCEPT !.head = TRUE]
<1>1. i \in Occupied /\ slots[i] \in Slot
  BY LiveOwner DEF SendHead
<1>2. s \in Slot /\ s.owner = slots[i].owner /\ s.completion = slots[i].completion
      /\ s.generation = slots[i].generation /\ s.head /\ s.chunks = slots[i].chunks
  BY <1>1 DEF Slot
<1>3. slots' = [slots EXCEPT ![i] = s]
  BY DEF SendHead
<1>4. NoWrap => OnlyOwn(s.chunks, s.owner)
  BY <1>1, <1>2 DEF IInv, OwnBodies
<1>5. UNCHANGED <<len, free_head, in_flight, releases, issued, outcome>>
  BY DEF SendHead
<1> HIDE DEF s
<1> QED BY <1>1, <1>2, <1>3, <1>4, <1>5, FillIInv

(***************************************************************************)
(* op_nexide_send_chunk.                                                   *)
(***************************************************************************)
LEMMA SendChunkIInv ==
  ASSUME IInv, NEW id \in issued, SendChunk(id)
  PROVE  IInv'
<1> DEFINE i == id.index
           c == Append(slots[i].chunks, id.owner)
           s == [slots[i] EXCEPT !.chunks = c]
<1>1. i \in Occupied /\ slots[i] \in Slot /\ slots[i].head /\ id.owner \in Requests
  BY LiveOwner DEF SendChunk
<1>2. slots[i].chunks \in Seq(Requests)
  BY <1>1 DEF Slot
<1>3. c \in Seq(Requests) /\ Len(c) = Len(slots[i].chunks) + 1
      /\ c[Len(c)] = id.owner
      /\ \A k \in 1..Len(slots[i].chunks) : c[k] = slots[i].chunks[k]
  BY <1>1, <1>2
<1>4. slots' = [slots EXCEPT ![i] = s]
  BY DEF SendChunk
<1>5. NoWrap => OnlyOwn(c, slots[i].owner)
  <2> SUFFICES ASSUME NoWrap, NEW k \in 1..Len(c)
               PROVE  c[k] = slots[i].owner
    BY DEF OnlyOwn
  <2>1. slots[i].owner = id.owner
    BY LiveOwner DEF SendChunk
  <2>2. OnlyOwn(slots[i].chunks, slots[i].owner)
    BY <1>1 DEF IInv, OwnBodies
  <2>3. k \in 1..Len(slots[i].chunks) \/ k = Len(c)
    BY <1>2, <1>3
  <2> QED BY <1>3, <2>1, <2>2, <2>3 DEF OnlyOwn
<1> HIDE DEF c
<1>6. s \in Slot /\ s.owner = slots[i].owner /\ s.completion = slots[i].completion
      /\ s.generation = slots[i].generation /\ s.head /\ s.chunks = c
  BY <1>1, <1>3 DEF Slot
<1>7. UNCHANGED <<len, free_head, in_flight, releases, issued, outcome>>
  BY DEF SendChunk
<1> HIDE DEF s
<1> QED BY <1>1, <1>4, <1>5, <1>6, <1>7, FillIInv

-----------------------------------------------------------------------------
(***************************************************************************)
(* A vacated slot and its generation.                                      *)
(***************************************************************************)
LEMMA VacatedSlot ==
  ASSUME NEW s \in Slot, NEW n \in Nat \cup {None}
  PROVE  /\ Vacated(s, n) \in Slot
         /\ Vacated(s, n).owner = NoRequest
         /\ Vacated(s, n).next_free = n
         /\ Vacated(s, n).generation = NextGeneration(s.generation)
         /\ s.generation + 1 < GenLimit => NextGeneration(s.generation) = s.generation + 1
<1> USE ConstantsAssumption
<1>1. s.generation \in 0..(GenLimit - 1)
  BY DEF Slot, Generation
<1>2. NextGeneration(s.generation) \in 0..(GenLimit - 1)
  BY <1>1 DEF NextGeneration
<1>3. s.generation + 1 < GenLimit => NextGeneration(s.generation) = s.generation + 1
  BY <1>1 DEF NextGeneration
<1> QED BY <1>2, <1>3 DEF Vacated, Slot, Generation

(***************************************************************************)
(* Settling an occupied slot with a result that holds only chunks of its   *)
(* own request (settle_ok, settle_err and remove).                         *)
(***************************************************************************)
LEMMA SettleIInv ==
  ASSUME IInv, NEW i \in Occupied, NEW result \in Result,
         NoWrap => OnlyOwn(result.body, slots[i].owner), Settle(i, result)
  PROVE  IInv'
<1> USE ConstantsAssumption
<1> DEFINE o == slots[i].owner
           v == Vacated(slots[i], free_head)
<1>1. TypeOK /\ i \in Index /\ o \in Requests /\ slots[i] \in Slot /\ i \in Nat
      /\ len \in Nat /\ free_head \in Nat \cup {None}
  BY DEF IInv, TypeOK, Occupied, Slot, Index
<1>2. /\ v \in Slot /\ v.owner = NoRequest /\ v.next_free = free_head
      /\ slots[i].generation + 1 < GenLimit => v.generation = slots[i].generation + 1
  BY <1>1, VacatedSlot
<1>3. outcome[o] = <<>> /\ o \in Inserted /\ slots[i].completion
      /\ \A j \in Occupied : slots[j].owner = o => j = i
  BY <1>1 DEF IInv, Conservation, HoldsNoSlot, HoldsOneSlot
<1>4. Deliver(slots[i], result) = <<result>>
  BY <1>3 DEF Deliver
<1>5. in_flight \in Nat /\ in_flight # 0
  <2>1. IsFiniteSet(Occupied) /\ Cardinality(Occupied) \in Nat
    BY <1>1, OccupiedFinite
  <2>2. Cardinality(Occupied) # 0
    BY <2>1, FS_EmptySet
  <2> QED BY <2>1, <2>2 DEF IInv, InFlightExact
<1>6. /\ outcome' = [outcome EXCEPT ![o] = <<result>>]
      /\ slots' = [slots EXCEPT ![i] = v]
      /\ free_head' = i /\ in_flight' = in_flight - 1
      /\ releases' = [releases EXCEPT ![i] = @ + 1]
      /\ len' = len /\ issued' = issued
  BY <1>4, <1>5 DEF Settle
<1> HIDE DEF v
<1>7. /\ Index' = Index
      /\ slots'[i] = v /\ releases'[i] = releases[i] + 1
      /\ \A j \in Index : j # i => slots'[j] = slots[j] /\ releases'[j] = releases[j]
      /\ slots' \in [Index -> Slot] /\ releases' \in [Index -> Nat]
      /\ \A j \in Index : releases[j] \in Nat
  BY <1>1, <1>2, <1>6 DEF Index, TypeOK
<1>8. Occupied' = Occupied \ {i} /\ Vacant' = Vacant \cup {i} /\ i \notin Vacant
  BY <1>1, <1>2, <1>7 DEF Occupied, Vacant
<1>9. /\ outcome'[o] = <<result>>
      /\ \A q \in Requests : q # o => outcome'[q] = outcome[q]
      /\ outcome' \in [Requests -> Seq(Result)]
  BY <1>1, <1>6 DEF TypeOK
<1>10. Inserted' = Inserted
  BY <1>6 DEF Inserted
<1>11. NoWrap' => NoWrap
  BY <1>1, <1>7 DEF NoWrap
<1>12. TypeOK'
  <2>1. in_flight' \in Nat
    BY <1>6, <1>5
  <2> QED BY <2>1, <1>1, <1>6, <1>7, <1>9 DEF TypeOK
<1>13. Conservation'
  <2> SUFFICES ASSUME NEW q \in Requests
               PROVE  \/ q \notin Inserted' /\ outcome'[q] = <<>> /\ HoldsNoSlot(q)'
                      \/ q \in Inserted' /\ outcome'[q] = <<>> /\ HoldsOneSlot(q)'
                      \/ q \in Inserted' /\ Len(outcome'[q]) = 1 /\ HoldsNoSlot(q)'
    BY DEF Conservation
  <2>1. CASE q = o
    <3>1. HoldsNoSlot(q)'
      BY <2>1, <1>3, <1>7, <1>8 DEF HoldsNoSlot, Occupied
    <3>2. Len(outcome'[q]) = 1
      BY <2>1, <1>9
    <3> QED BY <2>1, <3>1, <3>2, <1>3, <1>10
  <2>2. CASE q # o
    <3>1. HoldsNoSlot(q) => HoldsNoSlot(q)'
      BY <2>2, <1>7, <1>8 DEF HoldsNoSlot, Occupied
    <3>2. HoldsOneSlot(q) => HoldsOneSlot(q)'
      BY <2>2, <1>7, <1>8 DEF HoldsOneSlot, Occupied
    <3> QED BY <2>2, <3>1, <3>2, <1>9, <1>10 DEF IInv, Conservation
  <2> QED BY <2>1, <2>2
<1>14. FreeListLocal'
  <2>1. \A u \in Vacant : slots'[u] = slots[u] /\ u # i
    BY <1>7, <1>8 DEF Vacant
  <2>2. FreeListLocal
    BY DEF IInv
  <2>3. i # None
    BY <1>1 DEF None
  <2> QED BY <1>1, <1>2, <1>6, <1>7, <1>8, <2>1, <2>2, <2>3 DEF FreeListLocal
<1>15. InFlightExact'
  BY <1>1, <1>6, <1>8, OccupiedFinite, FS_RemoveElement DEF IInv, InFlightExact
<1>16. GenerationCounts'
  <2> SUFFICES ASSUME NoWrap', NEW j \in Index
               PROVE  slots'[j].generation = releases'[j]
    BY <1>7 DEF GenerationCounts
  <2>1. slots[j].generation = releases[j] /\ releases'[j] < GenLimit
    BY <1>7, <1>11 DEF IInv, GenerationCounts, NoWrap
  <2> QED BY <2>1, <1>1, <1>2, <1>7
<1>17. IdsKnown'
  <2> SUFFICES ASSUME NEW id \in issued
               PROVE  /\ id.index \in Index
                      /\ NoWrap' => \/ id.generation < releases'[id.index]
                                    \/ /\ id.generation = releases'[id.index]
                                       /\ slots'[id.index].owner = id.owner
    BY <1>6, <1>7 DEF IdsKnown
  <2>1. id.index \in Index /\ id.generation \in Nat
    BY <1>1 DEF IInv, IdsKnown, TypeOK, RequestId, Generation
  <2>2. CASE id.index = i
    BY <2>1, <2>2, <1>7, <1>11 DEF IInv, IdsKnown
  <2>3. CASE id.index # i
    BY <2>1, <2>3, <1>7, <1>11 DEF IInv, IdsKnown
  <2> QED BY <2>2, <2>3
<1>18. HeadBeforeChunks'
  BY <1>7, <1>8 DEF IInv, HeadBeforeChunks, Occupied
<1>19. OwnBodies'
  <2> SUFFICES ASSUME NoWrap'
               PROVE  /\ \A j \in Occupied' : OnlyOwn(slots'[j].chunks, slots'[j].owner)
                      /\ \A q \in Requests : \A k \in 1..Len(outcome'[q]) :
                           OnlyOwn(outcome'[q][k].body, q)
    BY DEF OwnBodies, OnlyOwn
  <2>1. \A j \in Occupied' : j \in Occupied /\ slots'[j] = slots[j]
    BY <1>7, <1>8 DEF Occupied
  <2>2. Len(outcome'[o]) = 1 /\ outcome'[o][1] = result
    BY <1>9
  <2>3. \A k \in 1..Len(outcome'[o]) : OnlyOwn(outcome'[o][k].body, o)
    BY <2>2, <1>11
  <2> QED BY <2>1, <2>3, <1>9, <1>11 DEF IInv, OwnBodies
<1> QED BY <1>12, <1>13, <1>14, <1>15, <1>16, <1>17, <1>18, <1>19 DEF IInv

(***************************************************************************)
(* op_nexide_send_end.                                                     *)
(***************************************************************************)
LEMMA SendEndIInv ==
  ASSUME IInv, NEW id \in issued, SendEnd(id)
  PROVE  IInv'
<1> DEFINE i == id.index
           result == [kind |-> "ok", body |-> slots[i].chunks]
<1>1. i \in Occupied /\ slots[i] \in Slot
  BY LiveOwner DEF SendEnd
<1>2. result \in Result
  BY <1>1 DEF Result, Slot
<1>3. NoWrap => OnlyOwn(result.body, slots[i].owner)
  BY <1>1 DEF IInv, OwnBodies
<1>4. Settle(i, result)
  BY DEF SendEnd
<1> HIDE DEF result
<1> QED BY <1>1, <1>2, <1>3, <1>4, SettleIInv

(***************************************************************************)
(* op_nexide_send_response: the head has not been sent, so the buffered    *)
(* body is empty and the result holds the op's own body alone.             *)
(***************************************************************************)
LEMMA SendResponseIInv ==
  ASSUME IInv, NEW id \in issued, SendResponse(id)
  PROVE  IInv'
<1> DEFINE i == id.index
<1>1. i \in Occupied /\ slots[i] \in Slot /\ id.owner \in Requests /\ ~ slots[i].head
  BY LiveOwner DEF SendResponse
<1>2. slots[i].chunks = <<>>
  BY <1>1 DEF IInv, HeadBeforeChunks
<1>3. PICK body \in {<<>>, <<id.owner>>} :
        Settle(i, [kind |-> "ok", body |-> slots[i].chunks \o body])
  BY DEF SendResponse
<1>4. body \in Seq(Requests) /\ \A k \in 1..Len(body) : body[k] = id.owner
  <2>1. CASE body = <<>>
    BY <2>1
  <2>2. CASE body = <<id.owner>>
    BY <2>2, <1>1
  <2> QED BY <2>1, <2>2, <1>3
<1>5. slots[i].chunks \o body = body
  BY <1>2, <1>4
<1> DEFINE result == [kind |-> "ok", body |-> body]
<1>6. Settle(i, result)
  BY <1>3, <1>5
<1>7. result \in Result
  BY <1>4 DEF Result
<1>8. NoWrap => OnlyOwn(result.body, slots[i].owner)
  <2>1. NoWrap => slots[i].owner = id.owner
    BY LiveOwner DEF SendResponse
  <2> QED BY <1>4, <2>1 DEF OnlyOwn
<1> HIDE DEF result
<1> QED BY <1>1, <1>6, <1>7, <1>8, SettleIInv

(***************************************************************************)
(* op_nexide_finish_error.                                                 *)
(***************************************************************************)
LEMMA FinishErrorIInv ==
  ASSUME IInv, NEW id \in issued, FinishError(id)
  PROVE  IInv'
<1> DEFINE result == [kind |-> "handler", body |-> <<>>]
<1>1. id.index \in Occupied
  BY LiveOwner DEF FinishError
<1>2. result \in Result
  BY DEF Result
<1>3. OnlyOwn(result.body, slots[id.index].owner)
  BY DEF OnlyOwn
<1>4. Settle(id.index, result)
  BY DEF FinishError
<1> HIDE DEF result
<1> QED BY <1>1, <1>2, <1>3, <1>4, SettleIInv

(***************************************************************************)
(* The link fail_all leaves in an occupied slot leads to an earlier        *)
(* occupied slot or to the old head, and no two of them agree.             *)
(***************************************************************************)
LEMMA PreviousOccupiedLinks ==
  ASSUME TypeOK, FreeListLocal, NEW i \in Occupied, NEW p, p = PreviousOccupied(i)
  PROVE  /\ p \in Nat \cup {None}
         /\ (p \in Occupied /\ p < i) \/ p = free_head
         /\ \A j \in Occupied : j < i => p \in Occupied /\ j <= p
<1> DEFINE before == {j \in Occupied : j < i}
<1>1. before \in SUBSET (0..(len - 1)) /\ len \in Nat /\ free_head \in Nat \cup {None}
  BY DEF Occupied, Index, TypeOK
<1>2. CASE before = {}
  BY <1>1, <1>2 DEF PreviousOccupied
<1>3. CASE before # {}
  <2>1. Highest(before) \in before /\ \A j \in before : j <= Highest(before)
    BY <1>1, <1>3, LastIsGreatest
  <2>2. p = Highest(before)
    BY <1>3 DEF PreviousOccupied
  <2>3. p \in before /\ \A j \in before : j <= p
    BY <2>1, <2>2
  <2> QED BY <1>1, <2>3
<1> QED BY <1>2, <1>3

(***************************************************************************)
(* DispatchTable::fail_all.                                                *)
(***************************************************************************)
LEMMA FailAllIInv ==
  ASSUME IInv, FailAll
  PROVE  IInv'
<1> USE ConstantsAssumption
<1>1. /\ TypeOK /\ FreeListLocal /\ len \in Nat /\ Index \in SUBSET Nat
      /\ \A i \in Index : slots[i] \in Slot /\ releases[i] \in Nat
      /\ \A i \in Index : i \in Vacant \/ i \in Occupied
      /\ Occupied \cap Vacant = {} /\ Occupied \in SUBSET Index /\ Vacant \in SUBSET Index
  BY DEF IInv, TypeOK, Index, Vacant, Occupied
<1>2. /\ slots' = [i \in Index |-> IF i \in Occupied
                                   THEN Vacated(slots[i], PreviousOccupied(i)) ELSE slots[i]]
      /\ releases' = [i \in Index |-> IF i \in Occupied THEN releases[i] + 1 ELSE releases[i]]
      /\ free_head' = IF Occupied = {} THEN free_head ELSE Highest(Occupied)
      /\ in_flight' = 0 /\ len' = len /\ issued' = issued
  BY DEF FailAll
<1>3. Index' = Index /\ Inserted' = Inserted
  BY <1>2 DEF Index, Inserted
<1>4. \A i \in Occupied :
        /\ slots'[i] \in Slot /\ slots'[i].owner = NoRequest
        /\ slots[i].generation + 1 < GenLimit
             => slots'[i].generation = slots[i].generation + 1
        /\ releases'[i] = releases[i] + 1
  <2> TAKE i \in Occupied
  <2> DEFINE p == PreviousOccupied(i)
  <2>1. slots'[i] = Vacated(slots[i], p) /\ releases'[i] = releases[i] + 1
    BY <1>1, <1>2
  <2>2. p \in Nat \cup {None} /\ slots[i] \in Slot
    BY <1>1, PreviousOccupiedLinks
  <2> HIDE DEF p
  <2> QED BY <2>1, <2>2, VacatedSlot, SMTT(30)
<1>5. \A i \in Vacant : slots'[i] = slots[i] /\ releases'[i] = releases[i]
  BY <1>1, <1>2
<1>6. slots' \in [Index -> Slot] /\ releases' \in [Index -> Nat]
  <2>1. \A i \in Index : slots'[i] \in Slot /\ releases'[i] \in Nat
    BY <1>1, <1>4, <1>5
  <2> QED BY <2>1, <1>2
<1>7. Occupied' = {} /\ Vacant' = Index
  BY <1>1, <1>3, <1>4, <1>5, ZenonT(40) DEF Occupied, Vacant
<1> DEFINE Held == {slots[i].owner : i \in Occupied}
<1>8. \A q \in Requests :
        /\ q \notin Held => outcome'[q] = outcome[q]
        /\ q \in Held => outcome[q] = <<>> /\ q \in Inserted /\ outcome'[q] = <<PumpDied>>
  <2> TAKE q \in Requests
  <2>1. outcome'[q] = IF \E i \in Occupied : slots[i].owner = q
                      THEN Deliver(slots[CHOOSE i \in Occupied : slots[i].owner = q], PumpDied)
                      ELSE outcome[q]
    BY DEF FailAll
  <2>2. q \notin Held => outcome'[q] = outcome[q]
    BY <2>1
  <2>3. ASSUME q \in Held
        PROVE  outcome[q] = <<>> /\ q \in Inserted /\ outcome'[q] = <<PumpDied>>
    <3>1. outcome[q] = <<>> /\ q \in Inserted /\ HoldsOneSlot(q)
      BY <2>3 DEF IInv, Conservation, HoldsNoSlot
    <3> DEFINE c == CHOOSE i \in Occupied : slots[i].owner = q
    <3>2. c \in Occupied /\ slots[c].owner = q
      BY <2>3
    <3>3. slots[c].completion
      BY <3>1, <3>2 DEF HoldsOneSlot
    <3>4. outcome'[q] = Deliver(slots[c], PumpDied)
      BY <2>1, <3>2
    <3> HIDE DEF c
    <3> QED BY <3>1, <3>2, <3>3, <3>4 DEF Deliver
  <2> QED BY <2>2, <2>3
<1>8a. \A q \in Requests : HoldsNoSlot(q) <=> q \notin Held
  BY DEF HoldsNoSlot
<1> HIDE DEF Held
<1>9. NoWrap' => NoWrap
  <2> SUFFICES ASSUME NoWrap', NEW i \in Index PROVE releases[i] < GenLimit
    BY DEF NoWrap
  <2>1. releases'[i] < GenLimit
    BY <1>3 DEF NoWrap
  <2>2. releases'[i] = releases[i] + 1 \/ releases'[i] = releases[i]
    BY <1>1, <1>4, <1>5
  <2>3. releases[i] \in Nat
    BY <1>1
  <2> QED BY <2>1, <2>2, <2>3
<1>10. Occupied # {} => Highest(Occupied) \in Occupied /\ \A j \in Occupied : j <= Highest(Occupied)
  BY <1>1, LastIsGreatest DEF Index
<1>11. TypeOK'
  <2>1. PumpDied \in Result
    BY DEF PumpDied, Result
  <2>2. \A q \in Requests : outcome'[q] \in Seq(Result)
    <3> TAKE q \in Requests
    <3>1. outcome'[q] = outcome[q] \/ outcome'[q] = <<PumpDied>>
      BY <1>8
    <3>2. outcome[q] \in Seq(Result)
      BY <1>1 DEF TypeOK
    <3>3. <<PumpDied>> \in Seq(Result)
      BY <2>1
    <3> QED BY <3>1, <3>2, <3>3
  <2>3. outcome' \in [Requests -> Seq(Result)]
    BY <2>2 DEF FailAll
  <2>4. free_head' \in Nat \cup {None}
    BY <1>1, <1>2, <1>10 DEF TypeOK
  <2> QED BY <1>1, <1>2, <1>3, <1>6, <2>3, <2>4 DEF TypeOK
<1>12. Conservation'
  <2> SUFFICES ASSUME NEW q \in Requests
               PROVE  \/ q \notin Inserted' /\ outcome'[q] = <<>> /\ HoldsNoSlot(q)'
                      \/ q \in Inserted' /\ Len(outcome'[q]) = 1 /\ HoldsNoSlot(q)'
    BY DEF Conservation
  <2>1. HoldsNoSlot(q)'
    BY <1>7 DEF HoldsNoSlot
  <2>2. CASE q \notin Held
    <3>1. HoldsNoSlot(q) /\ ~ HoldsOneSlot(q)
      BY <2>2, <1>8a DEF HoldsNoSlot, HoldsOneSlot
    <3> QED BY <2>1, <2>2, <3>1, <1>3, <1>8 DEF IInv, Conservation
  <2>3. CASE q \in Held
    <3>1. q \in Inserted /\ outcome'[q] = <<PumpDied>>
      BY <2>3, <1>8
    <3>2. Len(outcome'[q]) = 1
      BY <3>1
    <3> QED BY <2>1, <3>1, <3>2, <1>3
  <2> QED BY <2>2, <2>3
<1>13. FreeListLocal'
  <2>1. free_head' \in Vacant' \cup {None}
    BY <1>1, <1>2, <1>7, <1>10 DEF FreeListLocal
  <2>2. \A v \in Occupied :
          /\ \/ slots'[v].next_free \in Occupied /\ slots'[v].next_free < v
             \/ slots'[v].next_free = free_head
          /\ \A a \in Occupied : a < v => /\ slots'[v].next_free \in Occupied
                                         /\ a <= slots'[v].next_free
    <3> TAKE v \in Occupied
    <3> DEFINE p == PreviousOccupied(v)
    <3>1. slots'[v] = Vacated(slots[v], p)
      BY <1>1, <1>2
    <3>2. slots'[v].next_free = p
      BY <3>1 DEF Vacated
    <3>3. /\ (p \in Occupied /\ p < v) \/ p = free_head
          /\ \A a \in Occupied : a < v => p \in Occupied /\ a <= p
      BY <1>1, PreviousOccupiedLinks
    <3> HIDE DEF p
    <3> QED BY <3>2, <3>3
  <2>3. \A v \in Vacant : slots'[v].next_free \in Vacant \cup {None}
    BY <1>1, <1>5 DEF FreeListLocal
  <2>4. None \notin Index
    BY DEF None, Index
  <2>5. \A v \in Vacant' : slots'[v].next_free \in Vacant' \cup {None}
    BY <1>1, <1>7, <2>2, <2>3 DEF FreeListLocal
  <2>6. ASSUME NEW u \in Index, NEW v \in Index, slots'[u].next_free = slots'[v].next_free
        PROVE  u = v \/ slots'[u].next_free = None
    <3>1. CASE u \in Vacant /\ v \in Vacant
      BY <1>1, <1>5, <2>6, <3>1 DEF FreeListLocal
    <3>2. CASE u \in Vacant /\ v \in Occupied
      BY <1>1, <1>5, <2>2, <2>3, <2>4, <2>6, <3>2 DEF FreeListLocal
    <3>3. CASE u \in Occupied /\ v \in Vacant
      BY <1>1, <1>5, <2>2, <2>3, <2>4, <2>6, <3>3 DEF FreeListLocal
    <3>4. CASE u \in Occupied /\ v \in Occupied
      <4>1. \A a, b \in Occupied : a < b => slots'[b].next_free \in Occupied
                                           /\ a <= slots'[b].next_free
        BY <2>2
      <4>2. free_head \notin Occupied
        BY <1>1, <2>4 DEF FreeListLocal
      <4>3. \A a, b \in Occupied : a < b => slots'[a].next_free # slots'[b].next_free
        <5> TAKE a, b \in Occupied
        <5>1. a \in Nat /\ b \in Nat
          BY <1>1
        <5>2. ASSUME a < b PROVE slots'[a].next_free # slots'[b].next_free
          <6>1. slots'[b].next_free \in Occupied /\ a <= slots'[b].next_free
            BY <4>1, <5>2
          <6>2. slots'[a].next_free < a \/ slots'[a].next_free = free_head
            BY <2>2
          <6>3. slots'[b].next_free \in Nat
            BY <1>1, <6>1
          <6> QED BY <4>2, <5>1, <6>1, <6>2, <6>3
        <5> QED BY <5>2
      <4> QED BY <1>1, <2>6, <3>4, <4>3
    <3> QED BY <1>1, <3>1, <3>2, <3>3, <3>4
  <2>7. ASSUME NEW v \in Index, slots'[v].next_free = free_head'
        PROVE  free_head' = None
    <3>1. CASE Occupied = {}
      BY <1>1, <1>2, <1>5, <2>7, <3>1 DEF FreeListLocal
    <3>2. CASE Occupied # {}
      <4>1. free_head' \in Occupied /\ \A j \in Occupied : j <= free_head'
        BY <1>2, <1>10, <3>2
      <4>2. CASE v \in Vacant
        BY <1>1, <2>3, <2>4, <2>7, <4>1, <4>2
      <4>3. CASE v \in Occupied
        <5>1. free_head \notin Occupied
          BY <1>1, <2>4 DEF FreeListLocal
        <5>2. free_head' < v /\ v <= free_head'
          BY <2>2, <2>7, <4>1, <4>3, <5>1
        <5> QED BY <1>1, <4>1, <4>3, <5>2
      <4> QED BY <1>1, <4>2, <4>3
    <3> QED BY <3>1, <3>2
  <2> QED BY <1>7, <2>1, <2>5, <2>6, <2>7 DEF FreeListLocal
<1>14. InFlightExact'
  BY <1>2, <1>7, FS_EmptySet DEF InFlightExact
<1>15. GenerationCounts'
  <2> SUFFICES ASSUME NoWrap', NEW j \in Index
               PROVE  slots'[j].generation = releases'[j]
    BY <1>3 DEF GenerationCounts
  <2>1. slots[j].generation = releases[j] /\ releases'[j] < GenLimit
    BY <1>3, <1>9 DEF IInv, GenerationCounts, NoWrap
  <2> QED BY <2>1, <1>1, <1>4, <1>5
<1>16. IdsKnown'
  <2> SUFFICES ASSUME NEW id \in issued
               PROVE  /\ id.index \in Index
                      /\ NoWrap' => \/ id.generation < releases'[id.index]
                                    \/ /\ id.generation = releases'[id.index]
                                       /\ slots'[id.index].owner = id.owner
    BY <1>2, <1>3 DEF IdsKnown
  <2>1. id.index \in Index /\ id.generation \in Nat
    BY <1>1 DEF IInv, IdsKnown, TypeOK, RequestId, Generation
  <2>2. CASE id.index \in Occupied
    <3>1. releases'[id.index] = releases[id.index] + 1 /\ releases[id.index] \in Nat
      BY <2>1, <2>2, <1>1, <1>4
    <3>2. NoWrap => id.generation <= releases[id.index]
      BY <2>1, <3>1 DEF IInv, IdsKnown
    <3> QED BY <2>1, <3>1, <3>2, <1>9
  <2>3. CASE id.index \in Vacant
    BY <2>1, <2>3, <1>5, <1>9 DEF IInv, IdsKnown
  <2> QED BY <1>1, <2>1, <2>2, <2>3
<1>17. HeadBeforeChunks'
  BY <1>7 DEF HeadBeforeChunks
<1>18. OwnBodies'
  <2> SUFFICES ASSUME NoWrap', NEW q \in Requests, NEW k \in 1..Len(outcome'[q])
               PROVE  OnlyOwn(outcome'[q][k].body, q)
    BY <1>7 DEF OwnBodies
  <2>1. CASE q \notin Held
    BY <2>1, <1>8, <1>9 DEF IInv, OwnBodies
  <2>2. CASE q \in Held
    BY <2>2, <1>8 DEF OnlyOwn, PumpDied
  <2> QED BY <2>1, <2>2
<1> QED BY <1>11, <1>12, <1>13, <1>14, <1>15, <1>16, <1>17, <1>18 DEF IInv

-----------------------------------------------------------------------------
(***************************************************************************)
(* Every step preserves the inductive invariant.                           *)
(***************************************************************************)
LEMMA NextIInv == IInv /\ [Next]_vars => IInv'
<1> SUFFICES ASSUME IInv, [Next]_vars PROVE IInv'
  OBVIOUS
<1>1. ASSUME NEW r \in Requests, Insert(r) PROVE IInv'
  BY <1>1, ReuseIInv, GrowIInv DEF Insert
<1>2. ASSUME NEW id \in issued, SendHead(id) PROVE IInv'
  BY <1>2, SendHeadIInv
<1>3. ASSUME NEW id \in issued, SendChunk(id) PROVE IInv'
  BY <1>3, SendChunkIInv
<1>4. ASSUME NEW id \in issued, SendEnd(id) PROVE IInv'
  BY <1>4, SendEndIInv
<1>5. ASSUME NEW id \in issued, SendResponse(id) PROVE IInv'
  BY <1>5, SendResponseIInv
<1>6. ASSUME NEW id \in issued, FinishError(id) PROVE IInv'
  BY <1>6, FinishErrorIInv
<1>7. CASE FailAll
  BY <1>7, FailAllIInv
<1>8. CASE UNCHANGED vars
  <2> USE <1>8 DEF vars
  <2>1. Index' = Index /\ Occupied' = Occupied /\ Vacant' = Vacant /\ Inserted' = Inserted
    BY DEF Index, Occupied, Vacant, Inserted
  <2>2. TypeOK'
    BY <2>1 DEF IInv, TypeOK
  <2>3. Conservation'
    BY <2>1 DEF IInv, Conservation, HoldsOneSlot, HoldsNoSlot
  <2>4. FreeListLocal' /\ InFlightExact'
    BY <2>1 DEF IInv, FreeListLocal, InFlightExact
  <2>5. NoWrap' <=> NoWrap
    BY <2>1 DEF NoWrap
  <2>6. GenerationCounts' /\ IdsKnown'
    BY <2>1, <2>5 DEF IInv, GenerationCounts, IdsKnown
  <2>7. HeadBeforeChunks' /\ OwnBodies'
    BY <2>1, <2>5 DEF IInv, HeadBeforeChunks, OwnBodies, OnlyOwn
  <2> QED BY <2>2, <2>3, <2>4, <2>6, <2>7 DEF IInv
<1> QED BY <1>1, <1>2, <1>3, <1>4, <1>5, <1>6, <1>7, <1>8 DEF Next

(***************************************************************************)
(* The table's reachable states satisfy the inductive invariant.           *)
(***************************************************************************)
THEOREM Invariance == Spec => []IInv
<1> QED BY InitIInv, NextIInv, PTL DEF Spec

(***************************************************************************)
(* The arena's fields and histories keep their types; in particular every  *)
(* slot has a generation below the wrap bound.                             *)
(***************************************************************************)
THEOREM TypeCorrect == Spec => []TypeOK
<1>1. IInv => TypeOK
  BY DEF IInv
<1> QED BY <1>1, Invariance, PTL

(***************************************************************************)
(* No request is lost and none is answered twice, for any number of        *)
(* requests, whatever ids JavaScript uses when (insert, settle_ok,         *)
(* settle_err, fail_all).                                                  *)
(***************************************************************************)
THEOREM RequestsConserved == Spec => []Conservation
<1>1. IInv => Conservation
  BY DEF IInv
<1> QED BY <1>1, Invariance, PTL

(***************************************************************************)
(* insert never follows the free list to an occupied slot or out of the    *)
(* vector: the unreachable! and expect arms of advance_free_list and       *)
(* activate_vacant are dead, and no two slots share a successor.           *)
(***************************************************************************)
THEOREM FreeListSound == Spec => []FreeListLocal
<1>1. IInv => FreeListLocal
  BY DEF IInv
<1> QED BY <1>1, Invariance, PTL

(***************************************************************************)
(* in_flight() is the number of occupied slots.                            *)
(***************************************************************************)
THEOREM CounterExact == Spec => []InFlightExact
<1>1. IInv => InFlightExact
  BY DEF IInv
<1> QED BY <1>1, Invariance, PTL

(***************************************************************************)
(* Until a slot has been released GenLimit times (2^32 in the code) no     *)
(* late call with an old id reaches another request's entry, and no        *)
(* response holds a chunk of another request.                              *)
(***************************************************************************)
THEOREM Isolation == Spec => []NoCrossTalk
<1>1. IInv => NoCrossTalk
  BY LiveOwner DEF IInv, OwnBodies, NoCrossTalk
<1> QED BY <1>1, Invariance, PTL

(***************************************************************************)
(* Until a slot has been released GenLimit times, insert returns an id     *)
(* that was never handed out before.                                       *)
(***************************************************************************)
THEOREM IdsFresh == Spec => FreshIds
<1> DEFINE Fresh ==
      NoWrap => \A new \in issued' \ issued, old \in issued :
                  new.index # old.index \/ new.generation # old.generation
<1>1. IInv /\ [Next]_vars => [Fresh]_vars
  <2> SUFFICES ASSUME IInv, Next, NoWrap,
                      NEW new \in issued' \ issued, NEW old \in issued,
                      new.index = old.index, new.generation = old.generation
               PROVE  FALSE
    BY DEF Fresh
  <2>1. issued' # issued
    OBVIOUS
  <2>2. PICK r \in Requests : Insert(r)
    BY <2>1 DEF Next, SendHead, SendChunk, SendEnd, SendResponse, FinishError, FailAll, Settle
  <2>3. /\ old.index \in Index
        /\ \/ old.generation < releases[old.index]
           \/ /\ old.generation = releases[old.index]
              /\ slots[old.index].owner = old.owner
        /\ old.owner \in Requests /\ old.generation \in Nat
        /\ \A i \in Index : slots[i].generation = releases[i] /\ releases[i] \in Nat
    BY DEF IInv, IdsKnown, GenerationCounts, TypeOK, RequestId, Generation
  <2>4. CASE Reuse(r)
    <3>1. new = [index |-> free_head, generation |-> slots[free_head].generation, owner |-> r]
      BY <2>4 DEF Reuse
    <3>2. free_head \in Index /\ slots[free_head].owner = NoRequest
      BY <2>4 DEF IInv, FreeListLocal, Reuse, Vacant
    <3> QED BY <2>3, <3>1, <3>2, ConstantsAssumption
  <2>5. CASE Grow(r)
    <3>1. new.index = len
      BY <2>5 DEF Grow
    <3>2. len \notin Index
      BY DEF IInv, TypeOK, Index
    <3> QED BY <2>3, <3>1, <3>2
  <2> QED BY <2>2, <2>4, <2>5 DEF Insert
<1> HIDE DEF Fresh
<1>2. Spec => [][Fresh]_vars
  BY <1>1, Invariance, PTL DEF Spec
<1> QED BY <1>2 DEF FreshIds, Fresh

-----------------------------------------------------------------------------
(***************************************************************************)
(* FreeListExact.  FreeListLocal does not exclude a cycle of vacant slots  *)
(* away from the head; what does is a numbering of the vacant slots along  *)
(* the links, from 1 at the head to their number at the end.               *)
(***************************************************************************)
Numbers(pos, V, h, link) ==
  /\ pos \in [V -> 1..Cardinality(V)]
  /\ \A u, v \in V : pos[u] = pos[v] => u = v
  /\ (V = {} /\ h = None) \/ (h \in V /\ pos[h] = 1)
  /\ \A v \in V : \/ pos[v] = Cardinality(V) /\ link[v] = None
                  \/ link[v] \in V /\ pos[link[v]] = pos[v] + 1

Link == [v \in Vacant |-> slots[v].next_free]

FreeListNumbered == \E pos : Numbers(pos, Vacant, free_head, Link)

LEMMA VacantFinite ==
  ASSUME TypeOK
  PROVE  /\ IsFiniteSet(Vacant) /\ Cardinality(Vacant) \in Nat /\ Cardinality(Vacant) <= len
         /\ Vacant \in SUBSET Nat /\ Vacant \in SUBSET Index
<1>1. IsFiniteSet(0..(len - 1)) /\ Cardinality(0..(len - 1)) = len /\ len \in Nat
  BY FS_Interval DEF TypeOK
<1>2. Vacant \in SUBSET (0..(len - 1))
  BY DEF Vacant, Index
<1>3. IsFiniteSet(Vacant) /\ Cardinality(Vacant) <= Cardinality(0..(len - 1))
  BY <1>1, <1>2, FS_Subset
<1>4. Cardinality(Vacant) \in Nat
  BY <1>3, FS_CardinalityType
<1> QED BY <1>1, <1>2, <1>3, <1>4 DEF Index

(***************************************************************************)
(* insert takes the head: everyone moves up.                               *)
(***************************************************************************)
LEMMA PopNumbers ==
  ASSUME NEW V, IsFiniteSet(V), NEW h \in V, NEW link, NEW pos, Numbers(pos, V, h, link),
         NEW link2, \A v \in V \ {h} : link2[v] = link[v], None \notin V
  PROVE  \E pos2 : Numbers(pos2, V \ {h}, link[h], link2)
<1> DEFINE n == Cardinality(V)
           W == V \ {h}
           pos2 == [v \in W |-> pos[v] - 1]
<1>1. n \in Nat /\ IsFiniteSet(W) /\ Cardinality(W) = n - 1
  BY FS_CardinalityType, FS_RemoveElement
<1>2. /\ pos \in [V -> 1..n] /\ pos[h] = 1
      /\ \A u, v \in V : pos[u] = pos[v] => u = v
      /\ \A v \in V : \/ pos[v] = n /\ link[v] = None
                      \/ link[v] \in V /\ pos[link[v]] = pos[v] + 1
  BY DEF Numbers
<1> HIDE DEF n
<1>3. \A v \in W : pos[v] \in 2..n
  BY <1>1, <1>2
<1>4. pos2 \in [W -> 1..n - 1] /\ \A u, v \in W : pos2[u] = pos2[v] => u = v
  BY <1>1, <1>2, <1>3
<1>5. \A v \in W : \/ pos2[v] = n - 1 /\ link2[v] = None
                   \/ link2[v] \in W /\ pos2[link2[v]] = pos2[v] + 1
  <2> TAKE v \in W
  <2>1. CASE pos[v] = n /\ link[v] = None
    BY <2>1
  <2>2. CASE link[v] \in V /\ pos[link[v]] = pos[v] + 1
    <3>1. link[v] # h /\ pos[v] \in 2..n
      BY <1>1, <1>2, <1>3, <2>2
    <3> QED BY <1>1, <2>2, <3>1
  <2> QED BY <1>2, <2>1, <2>2
<1>6. (W = {} /\ link[h] = None) \/ (link[h] \in W /\ pos2[link[h]] = 1)
  <2>1. CASE link[h] \in V /\ pos[link[h]] = 2
    BY <1>2, <2>1
  <2>2. CASE n = 1 /\ link[h] = None
    <3>1. W = {}
      BY <1>1, <2>2, FS_EmptySet
    <3> QED BY <2>2, <3>1
  <2> QED BY <1>2, <2>1, <2>2
<1>7. Numbers(pos2, W, link[h], link2)
  BY <1>1, <1>4, <1>5, <1>6 DEF Numbers
<1> QED BY <1>7

(***************************************************************************)
(* remove puts a slot in front: everyone moves down.                       *)
(***************************************************************************)
LEMMA PushNumbers ==
  ASSUME NEW V, IsFiniteSet(V), NEW h, NEW link, NEW pos, Numbers(pos, V, h, link),
         NEW i, i \notin V, NEW link2, link2[i] = h, \A v \in V : link2[v] = link[v]
  PROVE  \E pos2 : Numbers(pos2, V \cup {i}, i, link2)
<1> DEFINE n == Cardinality(V)
           W == V \cup {i}
           pos2 == [v \in W |-> IF v = i THEN 1 ELSE pos[v] + 1]
<1>1. n \in Nat /\ IsFiniteSet(W) /\ Cardinality(W) = n + 1
  BY FS_CardinalityType, FS_AddElement
<1>2. /\ pos \in [V -> 1..n]
      /\ \A u, v \in V : pos[u] = pos[v] => u = v
      /\ (V = {} /\ h = None) \/ (h \in V /\ pos[h] = 1)
      /\ \A v \in V : \/ pos[v] = n /\ link[v] = None
                      \/ link[v] \in V /\ pos[link[v]] = pos[v] + 1
  BY DEF Numbers
<1>3. V = {} => n = 0
  BY FS_EmptySet
<1> HIDE DEF n
<1>4. pos2[i] = 1 /\ \A v \in V : pos2[v] = pos[v] + 1 /\ pos[v] \in 1..n /\ v # i
  BY <1>2
<1>5. pos2 \in [W -> 1..n + 1] /\ \A u, v \in W : pos2[u] = pos2[v] => u = v
  BY <1>1, <1>2, <1>4
<1>6. ASSUME NEW v \in W
      PROVE  \/ pos2[v] = n + 1 /\ link2[v] = None
             \/ link2[v] \in W /\ pos2[link2[v]] = pos2[v] + 1
  <2>1. CASE v = i
    BY <1>1, <1>2, <1>3, <1>4, <2>1
  <2>2. CASE v \in V
    BY <1>1, <1>2, <1>4, <2>2
  <2> QED BY <2>1, <2>2
<1>7. Numbers(pos2, W, i, link2)
  BY <1>1, <1>4, <1>5, <1>6 DEF Numbers
<1> QED BY <1>7

(***************************************************************************)
(* The elements of S from i on; by their number they are ordered.          *)
(***************************************************************************)
From(S, i) == {j \in S : i <= j}

LEMMA FromOrder ==
  ASSUME NEW S, \A i \in S : i \in Nat
  PROVE  /\ \A i \in S : From(S, i) \in SUBSET S /\ i \in From(S, i)
         /\ \A i, j \in S : i < j => From(S, j) \in SUBSET From(S, i) /\ i \notin From(S, j)
         /\ \A i \in S : (\A j \in S : j <= i) => From(S, i) = {i}
         /\ \A i \in S : (\A j \in S : ~ (j < i)) => From(S, i) = S
         /\ \A i, k \in S : k < i /\ (\A j \in S : j < i => j <= k)
              => From(S, k) = From(S, i) \cup {k} /\ k \notin From(S, i)
<1>1. \A i \in S : From(S, i) \in SUBSET S /\ i \in From(S, i)
  BY DEF From
<1>2. \A i, j \in S : i < j => From(S, j) \in SUBSET From(S, i) /\ i \notin From(S, j)
  BY DEF From
<1>3. \A i \in S : (\A j \in S : j <= i) => From(S, i) = {i}
  BY DEF From
<1>4. \A i \in S : (\A j \in S : ~ (j < i)) => From(S, i) = S
  BY DEF From
<1>5. \A i, k \in S : k < i /\ (\A j \in S : j < i => j <= k)
        => From(S, k) = From(S, i) \cup {k} /\ k \notin From(S, i)
  BY DEF From
<1> QED BY <1>1, <1>2, <1>3, <1>4, <1>5

(***************************************************************************)
(* fail_all puts all occupied slots in front, the last one first: a slot's *)
(* number is how many of them it has at or above it.                       *)
(***************************************************************************)
LEMMA PushAllNumbers ==
  ASSUME NEW N \in Nat, NEW O \in SUBSET (0..(N - 1)), O # {},
         NEW V, IsFiniteSet(V), V \cap O = {},
         NEW h, NEW link, NEW pos, Numbers(pos, V, h, link),
         NEW link2, \A v \in V : link2[v] = link[v],
         \A i \in O : \/ link2[i] = h /\ \A j \in O : ~ (j < i)
                      \/ /\ link2[i] \in O /\ link2[i] < i
                         /\ \A j \in O : j < i => j <= link2[i]
  PROVE  \E pos2 : Numbers(pos2, V \cup O, Highest(O), link2)
<1> DEFINE n == Cardinality(V)
           c == Cardinality(O)
           W == V \cup O
           pos2 == [v \in W |-> IF v \in O THEN Cardinality(From(O, v)) ELSE pos[v] + c]
<1>0. \A i \in O : i \in Nat
  <2>1. \A i \in O : i \in 0..(N - 1)
    OBVIOUS
  <2> QED BY <2>1
<1>1. IsFiniteSet(O)
  <2>1. IsFiniteSet(0..(N - 1))
    BY FS_Interval
  <2> QED BY <2>1, FS_Subset
<1>2. c \in Nat \ {0} /\ n \in Nat
  BY <1>1, FS_CardinalityType, FS_EmptySet
<1>3. \A i \in O : IsFiniteSet(From(O, i)) /\ Cardinality(From(O, i)) \in 1..c
  <2> TAKE i \in O
  <2>1. From(O, i) \in SUBSET O /\ From(O, i) # {}
    BY <1>0, FromOrder
  <2>2. IsFiniteSet(From(O, i)) /\ Cardinality(From(O, i)) <= c
    BY <1>1, <2>1, FS_Subset
  <2>3. Cardinality(From(O, i)) \in Nat \ {0}
    BY <2>1, <2>2, FS_CardinalityType, FS_EmptySet
  <2> QED BY <1>2, <2>2, <2>3
<1>4. IsFiniteSet(W) /\ Cardinality(W) = n + c
  <2>1. Cardinality(V \cap O) = 0
    BY FS_EmptySet
  <2>2. IsFiniteSet(V \cup O) /\ Cardinality(V \cup O) = n + c - Cardinality(V \cap O)
    BY <1>1, FS_Union
  <2> QED BY <1>2, <2>1, <2>2
<1>5. /\ pos \in [V -> 1..n]
      /\ \A u, v \in V : pos[u] = pos[v] => u = v
      /\ (V = {} /\ h = None) \/ (h \in V /\ pos[h] = 1)
      /\ \A v \in V : \/ pos[v] = n /\ link[v] = None
                      \/ link[v] \in V /\ pos[link[v]] = pos[v] + 1
  BY DEF Numbers
<1>6. V = {} => n = 0
  BY FS_EmptySet
<1>7. Highest(O) \in O /\ \A j \in O : j <= Highest(O)
  BY LastIsGreatest
<1> HIDE DEF n, c
<1>8. \A i, j \in O : i < j => Cardinality(From(O, i)) # Cardinality(From(O, j))
  <2> TAKE i, j \in O
  <2> SUFFICES ASSUME i < j PROVE Cardinality(From(O, i)) # Cardinality(From(O, j))
    OBVIOUS
  <2>1. From(O, j) \in SUBSET From(O, i) /\ i \in From(O, i) /\ i \notin From(O, j)
    BY <1>0, FromOrder
  <2> QED BY <1>3, <2>1, FS_Subset
<1>9. \A i \in O : pos2[i] = Cardinality(From(O, i)) /\ pos2[i] \in 1..c
  BY <1>3
<1>10. \A v \in V : pos2[v] = pos[v] + c /\ pos[v] \in 1..n
  BY <1>5
<1>11. pos2 \in [W -> 1..n + c]
  <2>1. \A v \in O : pos2[v] \in 1..n + c
    BY <1>2, <1>9
  <2>2. \A v \in V : pos2[v] \in 1..n + c
    BY <1>2, <1>10
  <2>3. pos2 = [v \in W |-> pos2[v]]
    OBVIOUS
  <2> HIDE DEF pos2
  <2> QED BY <2>1, <2>2, <2>3
<1>12. \A u, v \in W : pos2[u] = pos2[v] => u = v
  <2> TAKE u, v \in W
  <2> SUFFICES ASSUME pos2[u] = pos2[v] PROVE u = v
    OBVIOUS
  <2>1. CASE u \in O /\ v \in O
    <3>1. ~ (u < v) /\ ~ (v < u)
      BY <1>8, <1>9, <2>1
    <3> QED BY <1>0, <2>1, <3>1
  <2>2. CASE u \in V /\ v \in V
    BY <1>2, <1>5, <1>10, <2>2
  <2>3. CASE u \in O /\ v \in V
    BY <1>2, <1>9, <1>10, <2>3
  <2>4. CASE u \in V /\ v \in O
    BY <1>2, <1>9, <1>10, <2>4
  <2> QED BY <2>1, <2>2, <2>3, <2>4
<1> HIDE DEF pos2
<1>13. pos2[Highest(O)] = 1 /\ Highest(O) \in W
  <2>1. From(O, Highest(O)) = {Highest(O)}
    BY <1>0, <1>7, FromOrder
  <2> QED BY <1>7, <1>9, <2>1, FS_Singleton
<1>14. ASSUME NEW v \in V
       PROVE  \/ pos2[v] = n + c /\ link2[v] = None
              \/ link2[v] \in W /\ pos2[link2[v]] = pos2[v] + 1
  <2>1. CASE pos[v] = n /\ link[v] = None
    BY <1>10, <2>1
  <2>2. CASE link[v] \in V /\ pos[link[v]] = pos[v] + 1
    BY <1>2, <1>10, <2>2
  <2> QED BY <1>5, <2>1, <2>2
<1>15. ASSUME NEW i \in O
       PROVE  \/ pos2[i] = n + c /\ link2[i] = None
              \/ link2[i] \in W /\ pos2[link2[i]] = pos2[i] + 1
  <2>1. CASE link2[i] = h /\ \A j \in O : ~ (j < i)
    <3>1. From(O, i) = O
      BY <1>0, <2>1, FromOrder
    <3>2. pos2[i] = c
      BY <1>9, <3>1 DEF c
    <3> QED BY <1>2, <1>5, <1>6, <1>10, <2>1, <3>2
  <2>2. CASE /\ link2[i] \in O /\ link2[i] < i
             /\ \A j \in O : j < i => j <= link2[i]
    <3>1. From(O, link2[i]) = From(O, i) \cup {link2[i]} /\ link2[i] \notin From(O, i)
      <4> DEFINE k == link2[i]
      <4>1. k \in O /\ k < i /\ \A j \in O : j < i => j <= k
        BY <2>2
      <4> HIDE DEF k
      <4>2. From(O, k) = From(O, i) \cup {k} /\ k \notin From(O, i)
        <5>1. \A a, b \in O : b < a /\ (\A j \in O : j < a => j <= b)
                => From(O, b) = From(O, a) \cup {b} /\ b \notin From(O, a)
          BY ONLY <1>0, FromOrder, ZenonT(30)
        <5> QED BY <4>1, <5>1
      <4> QED BY <4>2 DEF k
    <3>2. Cardinality(From(O, link2[i])) = Cardinality(From(O, i)) + 1
      BY <1>3, <3>1, FS_AddElement
    <3> QED BY <1>9, <2>2, <3>2
  <2> QED BY <2>1, <2>2
<1>16. Numbers(pos2, W, Highest(O), link2)
  <2>1. \A v \in W : \/ pos2[v] = Cardinality(W) /\ link2[v] = None
                     \/ link2[v] \in W /\ pos2[link2[v]] = pos2[v] + 1
    BY <1>4, <1>14, <1>15
  <2>2. pos2 \in [W -> 1..Cardinality(W)]
    BY <1>4, <1>11
  <2> QED BY <1>12, <1>13, <2>1, <2>2 DEF Numbers
<1> QED BY <1>16

(***************************************************************************)
(* The numbering survives every step of the table.                         *)
(***************************************************************************)
LEMMA InitNumbered == Init => FreeListNumbered
<1> SUFFICES ASSUME Init PROVE FreeListNumbered
  OBVIOUS
<1> DEFINE pos == [v \in {} |-> 1]
<1>1. Vacant = {} /\ free_head = None
  BY DEF Init, Vacant, Index
<1>2. Numbers(pos, {}, None, Link)
  BY DEF Numbers
<1> QED BY <1>1, <1>2 DEF FreeListNumbered

LEMMA InsertNumbered ==
  ASSUME IInv, FreeListNumbered, NEW r \in Requests, Insert(r)
  PROVE  FreeListNumbered'
<1> DEFINE h == free_head
<1> USE ConstantsAssumption
<1>1. /\ IsFiniteSet(Vacant) /\ None \notin Vacant /\ Vacant \in SUBSET Index
      /\ len \in Nat /\ \A i \in Index : i \in Nat
  <2>1. IsFiniteSet(Vacant) /\ Vacant \in SUBSET Nat /\ Vacant \in SUBSET Index
    BY VacantFinite DEF IInv
  <2>2. None \notin Nat
    BY DEF None
  <2>3. len \in Nat /\ \A i \in Index : i \in Nat
    BY DEF IInv, TypeOK, Index
  <2> QED BY <2>1, <2>2, <2>3
<1>2. PICK pos : Numbers(pos, Vacant, h, Link)
  BY DEF FreeListNumbered
<1>3. CASE Reuse(r)
  <2>1. h \in Vacant
    BY <1>3 DEF IInv, FreeListLocal, Reuse
  <2>2. /\ slots' = [slots EXCEPT ![h] = NewEntry(r, @.generation)] /\ len' = len
        /\ free_head' = slots[h].next_free
        /\ slots \in [Index -> Slot]
    BY <1>3 DEF Reuse, IInv, TypeOK
  <2>3. /\ slots'[h].owner # NoRequest
        /\ \A i \in Index : i # h => slots'[i] = slots[i]
        /\ Index' = Index
    BY <1>1, <2>1, <2>2 DEF NewEntry, Index
  <2>4. Vacant' = Vacant \ {h}
    BY <2>3 DEF Vacant
  <2>5. \A v \in Vacant \ {h} : Link'[v] = Link[v]
    BY <1>1, <2>3, <2>4 DEF Link
  <2>6. free_head' = Link[h]
    BY <2>1, <2>2 DEF Link
  <2>7. \E pos2 : Numbers(pos2, Vacant \ {h}, Link[h], Link')
    BY <1>1, <1>2, <2>1, <2>5, PopNumbers
  <2> QED BY <2>4, <2>6, <2>7 DEF FreeListNumbered
<1>4. CASE Grow(r)
  <2>1. Vacant = {} /\ h = None
    BY <1>1, <1>2, <1>4 DEF Grow, Numbers
  <2>2. /\ slots' = [i \in 0..len |-> IF i = len THEN NewEntry(r, 0) ELSE slots[i]]
        /\ len' = len + 1 /\ free_head' = free_head
    BY <1>4 DEF Grow
  <2>3. Index' = Index \cup {len} /\ Index' = 0..len
    BY <1>1, <2>2 DEF Index
  <2>4. slots'[len].owner # NoRequest /\ \A i \in Index : slots'[i] = slots[i]
    BY <1>1, <2>2, <2>3 DEF NewEntry, Index
  <2>5. Vacant' = {}
    BY <2>1, <2>3, <2>4 DEF Vacant
  <2> DEFINE none == [v \in {} |-> 1]
  <2>6. Numbers(none, {}, None, Link')
    BY DEF Numbers
  <2>7. Numbers(none, Vacant', free_head', Link')
    BY <2>1, <2>2, <2>5, <2>6
  <2> HIDE DEF none
  <2> QED BY <2>7 DEF FreeListNumbered
<1> QED BY <1>3, <1>4 DEF Insert

LEMMA SettleNumbered ==
  ASSUME IInv, FreeListNumbered, NEW i \in Occupied, NEW result, Settle(i, result)
  PROVE  FreeListNumbered'
<1>1. IsFiniteSet(Vacant) /\ Vacant \in SUBSET Index
  BY VacantFinite DEF IInv
<1>2. PICK pos : Numbers(pos, Vacant, free_head, Link)
  BY DEF FreeListNumbered
<1>3. i \in Index /\ i \notin Vacant /\ slots \in [Index -> Slot]
  BY DEF IInv, TypeOK, Occupied, Vacant
<1>4. /\ slots' = [slots EXCEPT ![i] = Vacated(slots[i], free_head)]
      /\ free_head' = i /\ len' = len
  BY DEF Settle
<1>5. /\ slots'[i] = Vacated(slots[i], free_head)
      /\ \A j \in Index : j # i => slots'[j] = slots[j]
      /\ Index' = Index
  BY <1>3, <1>4 DEF Index
<1>6. slots'[i].owner = NoRequest /\ slots'[i].next_free = free_head
  BY <1>5 DEF Vacated
<1>7. Vacant' = Vacant \cup {i}
  BY <1>3, <1>5, <1>6 DEF Vacant
<1>8. Link'[i] = free_head /\ \A v \in Vacant : Link'[v] = Link[v]
  BY <1>1, <1>3, <1>5, <1>6, <1>7 DEF Link
<1>9. \E pos2 : Numbers(pos2, Vacant \cup {i}, i, Link')
  BY <1>1, <1>2, <1>3, <1>8, PushNumbers
<1> QED BY <1>4, <1>7, <1>9 DEF FreeListNumbered

LEMMA FailAllNumbered ==
  ASSUME IInv, FreeListNumbered, FailAll
  PROVE  FreeListNumbered'
<1>1. /\ IsFiniteSet(Vacant) /\ Vacant \in SUBSET Index
      /\ Occupied \in SUBSET (0..(len - 1)) /\ len \in Nat
      /\ Vacant \cap Occupied = {} /\ Index = Vacant \cup Occupied
      /\ TypeOK /\ FreeListLocal /\ \A j \in Occupied : j \in Nat
  BY VacantFinite DEF IInv, TypeOK, Occupied, Vacant, Index
<1>2. PICK pos : Numbers(pos, Vacant, free_head, Link)
  BY DEF FreeListNumbered
<1>3. /\ slots' = [i \in Index |-> IF i \in Occupied
                                   THEN Vacated(slots[i], PreviousOccupied(i)) ELSE slots[i]]
      /\ free_head' = IF Occupied = {} THEN free_head ELSE Highest(Occupied)
      /\ len' = len
  BY DEF FailAll
<1>4. Index' = Index
  BY <1>3 DEF Index
<1>5. /\ \A i \in Occupied : slots'[i] = Vacated(slots[i], PreviousOccupied(i))
      /\ \A i \in Vacant : slots'[i] = slots[i]
  BY <1>1, <1>3
<1>6. \A i \in Occupied : /\ slots'[i].owner = NoRequest
                          /\ slots'[i].next_free = PreviousOccupied(i)
  <2> TAKE i \in Occupied
  <2> DEFINE p == PreviousOccupied(i)
  <2>1. slots'[i] = Vacated(slots[i], p)
    BY <1>5
  <2> HIDE DEF p
  <2>2. slots'[i].owner = NoRequest /\ slots'[i].next_free = p
    BY <2>1 DEF Vacated
  <2> QED BY <2>2 DEF p
<1>7. Vacant' = Vacant \cup Occupied
  BY <1>1, <1>4, <1>5, <1>6 DEF Vacant
<1>8. /\ \A v \in Vacant : Link'[v] = Link[v]
      /\ \A i \in Occupied : Link'[i] = PreviousOccupied(i)
  BY <1>5, <1>6, <1>7 DEF Link
<1>9. \A i \in Occupied :
        \/ Link'[i] = free_head /\ \A j \in Occupied : ~ (j < i)
        \/ /\ Link'[i] \in Occupied /\ Link'[i] < i
           /\ \A j \in Occupied : j < i => j <= Link'[i]
  <2> TAKE i \in Occupied
  <2> DEFINE p == Link'[i]
  <2>1. p = PreviousOccupied(i)
    BY <1>8
  <2>2. free_head \notin Occupied
    BY <1>1 DEF FreeListLocal, Occupied, Index, None
  <2> HIDE DEF p
  <2>3. /\ (p \in Occupied /\ p < i) \/ p = free_head
        /\ \A j \in Occupied : j < i => p \in Occupied /\ j <= p
    BY <1>1, <2>1, PreviousOccupiedLinks
  <2>4. \/ p = free_head /\ \A j \in Occupied : ~ (j < i)
        \/ /\ p \in Occupied /\ p < i
           /\ \A j \in Occupied : j < i => j <= p
    BY <2>2, <2>3
  <2> QED BY <2>4 DEF p
<1>10. CASE Occupied = {}
  <2>1. Vacant' = Vacant /\ Link' = Link /\ free_head' = free_head
    BY <1>3, <1>5, <1>7, <1>10 DEF Link
  <2> QED BY <1>2, <2>1 DEF FreeListNumbered
<1>11. CASE Occupied # {}
  <2>1. \E pos2 : Numbers(pos2, Vacant \cup Occupied, Highest(Occupied), Link')
    BY <1>1, <1>2, <1>8, <1>9, <1>11, PushAllNumbers
  <2> QED BY <1>3, <1>7, <1>11, <2>1 DEF FreeListNumbered
<1> QED BY <1>10, <1>11

LEMMA NextNumbered == IInv /\ FreeListNumbered /\ [Next]_vars => FreeListNumbered'
<1> SUFFICES ASSUME IInv, FreeListNumbered, [Next]_vars PROVE FreeListNumbered'
  OBVIOUS
<1>1. ASSUME Vacant' = Vacant, Link' = Link, free_head' = free_head
      PROVE  FreeListNumbered'
  BY <1>1 DEF FreeListNumbered
<1>2. ASSUME NEW i \in Index, NEW s, slots' = [slots EXCEPT ![i] = s],
             s.owner = slots[i].owner, s.next_free = slots[i].next_free,
             len' = len, free_head' = free_head
      PROVE  FreeListNumbered'
  <2>1. slots \in [Index -> Slot] /\ Index' = Index
    BY <1>2 DEF IInv, TypeOK, Index
  <2>2. \A j \in Index : /\ slots'[j].owner = slots[j].owner
                         /\ slots'[j].next_free = slots[j].next_free
    BY <1>2, <2>1
  <2>3. Vacant' = Vacant
    BY <2>1, <2>2 DEF Vacant
  <2>4. \A v \in Vacant : slots'[v].next_free = slots[v].next_free
    BY <2>2 DEF Vacant
  <2>5. Link' = Link
    BY <2>3, <2>4 DEF Link
  <2> QED BY <1>1, <1>2, <2>3, <2>5
<1>3. ASSUME NEW id \in issued, Live(id)
      PROVE  id.index \in Occupied /\ id.index \in Index /\ slots[id.index] \in Slot
  BY <1>3, LiveOwner DEF Occupied
<1>4. ASSUME NEW r \in Requests, Insert(r) PROVE FreeListNumbered'
  BY <1>4, InsertNumbered
<1>5. ASSUME NEW id \in issued, SendHead(id) PROVE FreeListNumbered'
  <2> DEFINE s == [slots[id.index] EXCEPT !.head = TRUE]
  <2>1. /\ slots' = [slots EXCEPT ![id.index] = s]
        /\ len' = len /\ free_head' = free_head /\ Live(id)
    BY <1>5 DEF SendHead
  <2>2. id.index \in Index /\ slots[id.index] \in Slot
    BY <1>3, <2>1
  <2>3. s.owner = slots[id.index].owner /\ s.next_free = slots[id.index].next_free
    BY <2>2 DEF Slot
  <2> HIDE DEF s
  <2> QED BY <1>2, <2>1, <2>2, <2>3
<1>6. ASSUME NEW id \in issued, SendChunk(id) PROVE FreeListNumbered'
  <2> DEFINE s == [slots[id.index] EXCEPT !.chunks = Append(@, id.owner)]
  <2>1. /\ slots' = [slots EXCEPT ![id.index] = s]
        /\ len' = len /\ free_head' = free_head /\ Live(id)
    BY <1>6 DEF SendChunk
  <2>2. id.index \in Index /\ slots[id.index] \in Slot
    BY <1>3, <2>1
  <2>3. s.owner = slots[id.index].owner /\ s.next_free = slots[id.index].next_free
    BY <2>2 DEF Slot
  <2> HIDE DEF s
  <2> QED BY <1>2, <2>1, <2>2, <2>3
<1>7. ASSUME NEW id \in issued, SendEnd(id) \/ SendResponse(id) \/ FinishError(id)
      PROVE  FreeListNumbered'
  <2>1. Live(id) /\ \E result : Settle(id.index, result)
    BY <1>7 DEF SendEnd, SendResponse, FinishError
  <2> QED BY <1>3, <2>1, SettleNumbered
<1>8. CASE FailAll
  BY <1>8, FailAllNumbered
<1>9. CASE UNCHANGED vars
  BY <1>1, <1>9 DEF vars, Vacant, Link, Index
<1> QED BY <1>4, <1>5, <1>6, <1>7, <1>8, <1>9 DEF Next

(***************************************************************************)
(* Read backwards, the numbering is the list itself.                       *)
(***************************************************************************)
LEMMA NumbersList ==
  ASSUME NEW V, IsFiniteSet(V), NEW h, NEW link, NEW pos, Numbers(pos, V, h, link),
         NEW n, n = Cardinality(V)
  PROVE  \E at \in [1..n -> V] :
           /\ \A v \in V : \E k \in 1..n : at[k] = v
           /\ IF n = 0 THEN h = None ELSE at[1] = h
           /\ \A k \in 1..n : link[at[k]] = IF k = n THEN None ELSE at[k + 1]
<1>1. /\ pos \in [V -> 1..n]
      /\ \A u, v \in V : pos[u] = pos[v] => u = v
      /\ (V = {} /\ h = None) \/ (h \in V /\ pos[h] = 1)
      /\ \A v \in V : \/ pos[v] = n /\ link[v] = None
                      \/ link[v] \in V /\ pos[link[v]] = pos[v] + 1
  BY DEF Numbers
<1>2. n \in Nat /\ (V = {} <=> n = 0)
  BY FS_CardinalityType, FS_EmptySet
<1>3. IsFiniteSet(1..n) /\ Cardinality(1..n) = n
  BY <1>2, FS_Interval
<1>4. pos \in Injection(V, 1..n)
  BY <1>1, Fun_IsInj
<1>5. pos \in Surjection(V, 1..n)
  BY <1>3, <1>4, FS_Injection
<1>6. \A k \in 1..n : \E v \in V : pos[v] = k
  BY <1>5 DEF Surjection
<1> DEFINE at == [k \in 1..n |-> CHOOSE v \in V : pos[v] = k]
<1>7. \A k \in 1..n : at[k] \in V /\ pos[at[k]] = k
  BY <1>6
<1>8. at \in [1..n -> V]
  BY <1>7
<1> HIDE DEF at
<1>9. \A v \in V : at[pos[v]] = v /\ pos[v] \in 1..n
  BY <1>1, <1>7
<1>10. IF n = 0 THEN h = None ELSE at[1] = h
  BY <1>1, <1>2, <1>9
<1>11. \A k \in 1..n : link[at[k]] = IF k = n THEN None ELSE at[k + 1]
  <2> TAKE k \in 1..n
  <2>1. CASE k = n
    BY <1>1, <1>2, <1>7, <2>1
  <2>2. CASE k # n
    <3>1. link[at[k]] \in V /\ pos[link[at[k]]] = k + 1
      BY <1>1, <1>7, <2>2
    <3> QED BY <1>9, <2>2, <3>1
  <2> QED BY <2>1, <2>2
<1> QED BY <1>8, <1>9, <1>10, <1>11

(***************************************************************************)
(* The prefixes of a function on an interval of naturals are sequences.    *)
(***************************************************************************)
LEMMA PrefixIsSeq ==
  ASSUME NEW g, NEW m \in Nat, NEW p, p = [j \in 1..m |-> g[j]]
  PROVE  /\ Len(p) = m /\ \A j \in 1..m : p[j] = g[j]
         /\ Append(p, g[m + 1]) = [j \in 1..(m + 1) |-> g[j]]
<1> DEFINE S == {g[j] : j \in 1..(m + 1)}
<1>1. p \in [1..m -> S]
  OBVIOUS
<1>2. p \in Seq(S) /\ g[m + 1] \in S /\ Len(p) = m
  BY <1>1
<1> HIDE DEF S
<1> DEFINE q == Append(p, g[m + 1])
<1>3. q \in Seq(S) /\ Len(q) = m + 1 /\ q[m + 1] = g[m + 1] /\ \A j \in 1..m : q[j] = p[j]
  BY <1>2
<1>4. q = [j \in 1..(m + 1) |-> q[j]]
  BY <1>2
<1>5. \A j \in 1..(m + 1) : q[j] = g[j]
  BY <1>3
<1> HIDE DEF q
<1>6. q = [j \in 1..(m + 1) |-> g[j]]
  BY <1>4, <1>5
<1> QED BY <1>2, <1>6 DEF q

(***************************************************************************)
(* The walk of FreeListFrom follows it to its end.                         *)
(***************************************************************************)
LEMMA WalkIsTheList ==
  ASSUME TypeOK, FreeListNumbered
  PROVE  FreeListExact
<1> DEFINE n == Cardinality(Vacant)
<1>1. IsFiniteSet(Vacant) /\ n \in Nat /\ n <= len /\ len \in Nat
      /\ Vacant \in SUBSET Index
  BY VacantFinite DEF TypeOK
<1>2. PICK pos : Numbers(pos, Vacant, free_head, Link)
  BY DEF FreeListNumbered
<1>3. PICK at \in [1..n -> Vacant] :
        /\ \A v \in Vacant : \E k \in 1..n : at[k] = v
        /\ IF n = 0 THEN free_head = None ELSE at[1] = free_head
        /\ \A k \in 1..n : Link[at[k]] = IF k = n THEN None ELSE at[k + 1]
  BY <1>1, <1>2, NumbersList
<1>4. None \notin Index
  BY DEF None, Index
<1> HIDE DEF n
<1> DEFINE full == [k \in 1..(n + 1) |-> IF k = n + 1 THEN None ELSE at[k]]
           upto(k) == IF k <= n THEN k + 1 ELSE n + 1
           G == [k \in 0..len |-> [j \in 1..upto(k) |-> full[j]]]
           Body(f) == [k \in 0..len |->
             IF k = 0 THEN <<free_head>>
             ELSE LET w == f[k - 1] IN
                  IF w[Len(w)] \in Index THEN Append(w, slots[w[Len(w)]].next_free) ELSE w]
<1>5. /\ full[1] = free_head /\ full[n + 1] = None
      /\ \A k \in 1..n : full[k] \in Vacant /\ slots[full[k]].next_free = full[k + 1]
  <2>1. full[1] = free_head /\ full[n + 1] = None
    BY <1>1, <1>3
  <2>2. \A k \in 1..n : full[k] = at[k] /\ at[k] \in Vacant
    BY <1>1, <1>3
  <2>3. \A k \in 1..n : full[k + 1] = IF k = n THEN None ELSE at[k + 1]
    BY <1>1
  <2>4. \A v \in Vacant : Link[v] = slots[v].next_free
    BY DEF Link
  <2> HIDE DEF full
  <2> QED BY <1>3, <2>1, <2>2, <2>3, <2>4
<1> HIDE DEF full
<1>6. /\ \A k \in 0..n : upto(k) = k + 1
      /\ \A k \in 0..len : k >= n => upto(k) = n + 1
  BY <1>1
<1>7. \A k \in 0..len : G[k] = [j \in 1..upto(k) |-> full[j]]
  OBVIOUS
<1>8. \A k \in 0..len : upto(k) \in 1..(n + 1) /\ DOMAIN G[k] = 1..upto(k)
  BY <1>1, <1>7
<1>9. G[0] = <<free_head>>
  <2>1. G[0] = [j \in 1..1 |-> full[j]]
    BY <1>1, <1>7
  <2>2. G[0] = [j \in 1..1 |-> free_head]
    BY <1>5, <2>1
  <2> DEFINE q == <<free_head>>
  <2>3. q \in Seq({free_head}) /\ Len(q) = 1 /\ q[1] = free_head
    OBVIOUS
  <2> HIDE DEF q
  <2>4. q = [j \in 1..1 |-> q[j]]
    BY <2>3
  <2>5. q = [j \in 1..1 |-> free_head]
    BY <2>3, <2>4
  <2> QED BY <2>2, <2>5 DEF q
<1> HIDE DEF G
<1>10. ASSUME NEW k \in 1..len, NEW w, w = G[k - 1]
       PROVE  G[k] = IF w[Len(w)] \in Index THEN Append(w, slots[w[Len(w)]].next_free) ELSE w
  <2>1. k \in 0..len /\ k - 1 \in 0..len
    BY <1>1
  <2>2. CASE k <= n
    <3>1. upto(k - 1) = k /\ upto(k) = k + 1
      BY <1>1, <2>1, <2>2
    <3>2. w = [j \in 1..k |-> full[j]] /\ G[k] = [j \in 1..(k + 1) |-> full[j]]
      BY <1>7, <1>10, <2>1, <3>1
    <3>3. Len(w) = k /\ w[k] = full[k] /\ Append(w, full[k + 1]) = G[k]
      BY <3>2, PrefixIsSeq
    <3>4. full[k] \in Index /\ slots[full[k]].next_free = full[k + 1]
      BY <1>1, <1>5, <2>2
    <3> QED BY <3>3, <3>4
  <2>3. CASE n < k
    <3>1. upto(k - 1) = n + 1 /\ upto(k) = n + 1
      BY <1>1, <2>1, <2>3
    <3>2. w = [j \in 1..(n + 1) |-> full[j]] /\ G[k] = w
      BY <1>7, <1>10, <2>1, <3>1
    <3>3. Len(w) = n + 1 /\ w[n + 1] = full[n + 1]
      BY <1>1, <3>2, PrefixIsSeq
    <3> QED BY <1>4, <1>5, <3>2, <3>3
  <2> QED BY <1>1, <2>2, <2>3
<1>11. G = Body(G)
  <2>1. G = [k \in 0..len |-> G[k]]
    BY DEF G
  <2>2. \A k \in 0..len : G[k] = Body(G)[k]
    <3> TAKE k \in 0..len
    <3>1. CASE k = 0
      BY <1>9, <3>1
    <3>2. CASE k \in 1..len
      BY <1>10, <3>2
    <3> QED BY <3>1, <3>2
  <2> QED BY <2>1, <2>2
<1>12. FreeListFrom(len) = (CHOOSE f : f = Body(f))[len]
  BY DEF FreeListFrom
<1>13. PICK f : f = Body(f) /\ FreeListFrom(len) = f[len]
  BY <1>11, <1>12
<1>14. \A k \in 0..len : f[k] = G[k]
  <2> DEFINE Bad == {k \in 0..len : f[k] # G[k]}
  <2> SUFFICES ASSUME Bad # {} PROVE FALSE
    OBVIOUS
  <2>1. Bad \in SUBSET Nat
    OBVIOUS
  <2>2. PICK k \in Bad : \A j \in Bad : k <= j
    BY <2>1, LeastNatural
  <2>3. CASE k = 0
    BY <1>9, <1>13, <2>2, <2>3
  <2>4. CASE k # 0
    <3> DEFINE w == f[k - 1]
    <3>1. k \in 1..len /\ w = G[k - 1] /\ f[k] # G[k]
      BY <1>1, <2>2, <2>4
    <3>2. f[k] = IF w[Len(w)] \in Index THEN Append(w, slots[w[Len(w)]].next_free) ELSE w
      <4>1. k \in 0..len /\ k # 0
        BY <1>1, <3>1
      <4>2. Body(f)[k] = IF w[Len(w)] \in Index
                         THEN Append(w, slots[w[Len(w)]].next_free) ELSE w
        BY <4>1
      <4> HIDE DEF Body
      <4>3. f[k] = Body(f)[k]
        BY <1>13
      <4> QED BY <4>2, <4>3
    <3> HIDE DEF w
    <3> QED BY <1>10, <3>1, <3>2
  <2> QED BY <2>3, <2>4
<1> HIDE DEF Body
<1> DEFINE path == FreeListFrom(len)
<1>15. path = [j \in 1..(n + 1) |-> full[j]]
  <2>1. upto(len) = n + 1 /\ len \in 0..len
    BY <1>1
  <2> HIDE DEF upto
  <2>2. path = G[len]
    BY <1>13, <1>14, <2>1
  <2> QED BY <1>7, <2>1, <2>2
<1> HIDE DEF path
<1>16. Len(path) = n + 1 /\ \A j \in 1..(n + 1) : path[j] = full[j]
  BY <1>1, <1>15, PrefixIsSeq
<1>17. path[Len(path)] = None
  BY <1>1, <1>5, <1>16
<1>18. {path[k] : k \in 1..(Len(path) - 1)} = Vacant
  <2>1. Len(path) - 1 = n /\ \A k \in 1..n : path[k] = at[k]
    BY <1>1, <1>16 DEF full
  <2> QED BY <1>3, <2>1
<1> QED BY <1>16, <1>17, <1>18 DEF FreeListExact, path, n

(***************************************************************************)
(* The free list runs through every vacant slot exactly once and ends: no  *)
(* slot leaks and insert, remove and fail_all never close the list into a  *)
(* cycle, for any number of slots and requests.                            *)
(***************************************************************************)
THEOREM FreeListComplete == Spec => []FreeListExact
<1>1. Init => FreeListNumbered
  BY InitNumbered
<1>2. IInv /\ FreeListNumbered /\ [Next]_vars => FreeListNumbered'
  BY NextNumbered
<1>3. IInv /\ FreeListNumbered => FreeListExact
  BY WalkIsTheList DEF IInv
<1> QED BY <1>1, <1>2, <1>3, Invariance, PTL DEF Spec

-----------------------------------------------------------------------------
(***************************************************************************)
(* The refinement.  A step that delivers nothing and issues nothing leaves *)
(* the view of the channels alone.                                         *)
(***************************************************************************)
LEMMA ViewStays ==
  ASSUME outcome' = outcome, issued' = issued
  PROVE  View' = View
BY DEF View, Verdict, Inserted

(***************************************************************************)
(* Settling an occupied slot answers or fails its owner, who was waiting.  *)
(***************************************************************************)
LEMMA SettleRefines ==
  ASSUME IInv, NEW i \in Occupied, NEW result \in Result, Settle(i, result)
  PROVE  Lifecycle!Next
<1> DEFINE verdict == IF result.kind = "ok" THEN "answered" ELSE "failed"
<1>1. PICK r : r = slots[i].owner
  OBVIOUS
<1>2. TypeOK /\ r \in Requests
  BY <1>1 DEF IInv, TypeOK, Occupied, Slot
<1>3. slots[i].completion /\ r \in Inserted /\ outcome[r] = <<>>
  <2>1. ~ HoldsNoSlot(r)
    BY <1>1 DEF HoldsNoSlot
  <2>2. r \in Inserted /\ outcome[r] = <<>> /\ HoldsOneSlot(r)
    BY <1>2, <2>1 DEF IInv, Conservation
  <2> QED BY <1>1, <2>2 DEF HoldsOneSlot
<1>4. outcome' = [outcome EXCEPT ![r] = Append(outcome[r], result)] /\ issued' = issued
  BY <1>1, <1>3 DEF Settle, Deliver
<1>5. outcome \in [Requests -> Seq(Result)] /\ Inserted' = Inserted
  BY <1>2, <1>4 DEF TypeOK, Inserted
<1>6. /\ outcome'[r] # <<>> /\ outcome'[r][Len(outcome'[r])] = result
      /\ \A q \in Requests : q # r => outcome'[q] = outcome[q]
  <2>1. outcome'[r] = Append(<<>>, result)
    BY <1>2, <1>3, <1>4, <1>5
  <2>2. Append(<<>>, result) # <<>> /\ Len(Append(<<>>, result)) = 1
        /\ Append(<<>>, result)[1] = result
    OBVIOUS
  <2>3. \A q \in Requests : q # r => outcome'[q] = outcome[q]
    BY <1>4, <1>5
  <2> QED BY <2>1, <2>2, <2>3
<1>7. Verdict(r) = "waiting" /\ Verdict(r)' = verdict
  BY <1>3, <1>5, <1>6 DEF Verdict
<1>8. \A q \in Requests : q # r => Verdict(q)' = Verdict(q)
  BY <1>5, <1>6 DEF Verdict
<1>9. View' = [View EXCEPT ![r] = verdict] /\ View[r] = "waiting"
  <2>1. View' = [q \in Requests |-> IF q = r THEN verdict ELSE Verdict(q)]
    BY <1>7, <1>8 DEF View
  <2> QED BY <1>2, <1>7, <2>1 DEF View
<1>10. CASE result.kind = "ok"
  <2>1. Lifecycle!Answer(r)
    BY <1>9, <1>10 DEF Lifecycle!Answer
  <2> QED BY <1>2, <2>1 DEF Lifecycle!Next
<1>11. CASE result.kind # "ok"
  <2>1. View' = [q \in Requests |-> IF q \in {r} THEN "failed" ELSE View[q]]
    BY <1>2, <1>9, <1>11 DEF View
  <2>2. Lifecycle!Fail({r})
    BY <1>9, <2>1 DEF Lifecycle!Fail
  <2> QED BY <1>2, <2>2 DEF Lifecycle!Next
<1> QED BY <1>10, <1>11

(***************************************************************************)
(* fail_all fails every request that holds a slot, in one step.            *)
(***************************************************************************)
LEMMA FailAllRefines ==
  ASSUME IInv, FailAll
  PROVE  Lifecycle!Next
<1> DEFINE S == {r \in Requests : ~ HoldsNoSlot(r)}
<1>1. Inserted' = Inserted
  BY DEF FailAll, Inserted
<1>2. ASSUME NEW r \in S
      PROVE  Verdict(r) = "waiting" /\ Verdict(r)' = "failed"
  <2>1. r \in Inserted /\ outcome[r] = <<>> /\ HoldsOneSlot(r)
    BY <1>2 DEF IInv, Conservation
  <2>2. PICK i \in Occupied : /\ slots[i].owner = r
                              /\ slots[i].completion
                              /\ \A j \in Occupied : slots[j].owner = r => j = i
    BY <2>1 DEF HoldsOneSlot
  <2>3. (CHOOSE j \in Occupied : slots[j].owner = r) = i
    BY <2>2
  <2>4. outcome'[r] = Deliver(slots[i], PumpDied)
    BY <1>2, <2>2, <2>3 DEF FailAll
  <2>5. outcome'[r] = Append(<<>>, PumpDied)
    BY <2>1, <2>2, <2>4 DEF Deliver
  <2>6. /\ Append(<<>>, PumpDied) # <<>> /\ Len(Append(<<>>, PumpDied)) = 1
        /\ Append(<<>>, PumpDied)[1] = PumpDied /\ PumpDied.kind # "ok"
    BY DEF PumpDied
  <2> QED BY <1>1, <2>1, <2>5, <2>6 DEF Verdict
<1>3. ASSUME NEW r \in Requests, r \notin S
      PROVE  Verdict(r)' = Verdict(r)
  <2>1. ~ \E i \in Occupied : slots[i].owner = r
    BY <1>3 DEF HoldsNoSlot
  <2>2. outcome'[r] = outcome[r]
    BY <2>1 DEF FailAll
  <2> QED BY <1>1, <2>2 DEF Verdict
<1>4. /\ S \in SUBSET Requests
      /\ \A r \in S : View[r] = "waiting"
      /\ View' = [r \in Requests |-> IF r \in S THEN "failed" ELSE View[r]]
  <2>1. S \in SUBSET Requests
    OBVIOUS
  <2> HIDE DEF S
  <2> QED BY <1>2, <1>3, <2>1 DEF View
<1> HIDE DEF S
<1>5. Lifecycle!Fail(S)
  BY <1>4 DEF Lifecycle!Fail
<1> QED BY <1>4, <1>5 DEF Lifecycle!Next

(***************************************************************************)
(* insert submits its request.                                             *)
(***************************************************************************)
LEMMA InsertRefines ==
  ASSUME IInv, NEW r \in Requests, Insert(r)
  PROVE  Lifecycle!Next
<1>1. PICK new : new.owner = r /\ issued' = issued \cup {new}
  <2>1. CASE Reuse(r)
    <3> DEFINE id == [index |-> free_head, generation |-> slots[free_head].generation, owner |-> r]
    <3>1. id.owner = r /\ issued' = issued \cup {id}
      BY <2>1 DEF Reuse
    <3> QED BY <3>1
  <2>2. CASE Grow(r)
    <3> DEFINE id == [index |-> len, generation |-> 0, owner |-> r]
    <3>1. id.owner = r /\ issued' = issued \cup {id}
      BY <2>2 DEF Grow
    <3> QED BY <3>1
  <2> QED BY <2>1, <2>2 DEF Insert
<1>2. Inserted' = Inserted \cup {r} /\ r \notin Inserted /\ outcome' = outcome
  BY <1>1, InsertedGrows DEF Insert
<1>3. outcome[r] = <<>>
  BY <1>2 DEF IInv, Conservation
<1>4. /\ Verdict(r) = "idle" /\ Verdict(r)' = "waiting"
      /\ \A q \in Requests : q # r => Verdict(q)' = Verdict(q)
  BY <1>2, <1>3 DEF Verdict
<1>5. View[r] = "idle" /\ View' = [View EXCEPT ![r] = "waiting"]
  BY <1>4 DEF View
<1>6. Lifecycle!Submit(r)
  BY <1>5 DEF Lifecycle!Submit
<1> QED BY <1>6 DEF Lifecycle!Next

(***************************************************************************)
(* The table keeps the safety of RequestLifecycle for any requests and any *)
(* number of generations, wrapped or not: once a channel has delivered,    *)
(* no op with an old id and no fail_all changes what the caller was told.  *)
(***************************************************************************)
THEOREM SafelyImplements == Spec => ImplementsLifecycle
<1>1. Init => Lifecycle!Init
  BY DEF Init, Lifecycle!Init, View, Verdict, Inserted
<1>2. IInv /\ [Next]_vars => [Lifecycle!Next]_View
  <2> SUFFICES ASSUME IInv, [Next]_vars PROVE [Lifecycle!Next]_View
    OBVIOUS
  <2>1. ASSUME NEW r \in Requests, Insert(r) PROVE Lifecycle!Next
    BY <2>1, InsertRefines
  <2>2. ASSUME NEW id \in issued, SendHead(id) \/ SendChunk(id) PROVE View' = View
    BY <2>2, ViewStays DEF SendHead, SendChunk
  <2>3. ASSUME NEW id \in issued, SendEnd(id) \/ SendResponse(id) \/ FinishError(id)
        PROVE  Lifecycle!Next
    <3>1. Live(id)
      BY <2>3 DEF SendEnd, SendResponse, FinishError
    <3>2. /\ id.index \in Occupied /\ id.owner \in Requests
          /\ slots[id.index].chunks \in Seq(Requests)
      BY <3>1, LiveOwner DEF IInv, TypeOK, RequestId, Slot, Occupied
    <3>3. \E result \in Result : Settle(id.index, result)
      <4>1. CASE SendEnd(id)
        BY <3>2, <4>1 DEF SendEnd, Result
      <4>2. CASE SendResponse(id)
        <5>1. PICK body \in {<<>>, <<id.owner>>} :
                Settle(id.index, [kind |-> "ok", body |-> slots[id.index].chunks \o body])
          BY <4>2 DEF SendResponse
        <5>2. body \in Seq(Requests)
          <6>1. <<>> \in Seq(Requests) /\ <<id.owner>> \in Seq(Requests)
            BY <3>2
          <6> QED BY <5>1, <6>1
        <5>3. slots[id.index].chunks \o body \in Seq(Requests)
          BY <3>2, <5>2
        <5> QED BY <5>1, <5>3 DEF Result
      <4>3. CASE FinishError(id)
        <5>1. <<>> \in Seq(Requests)
          OBVIOUS
        <5>2. Settle(id.index, [kind |-> "handler", body |-> <<>>])
          BY <4>3 DEF FinishError
        <5> QED BY <5>1, <5>2 DEF Result
      <4> QED BY <2>3, <4>1, <4>2, <4>3
    <3> QED BY <3>2, <3>3, SettleRefines
  <2>4. CASE FailAll
    BY <2>4, FailAllRefines
  <2>5. CASE UNCHANGED vars
    BY <2>5, ViewStays DEF vars
  <2> QED BY <2>1, <2>2, <2>3, <2>4, <2>5 DEF Next
<1> QED BY <1>1, <1>2, Invariance, PTL DEF Spec, ImplementsLifecycle, Lifecycle!SafeSpec

=============================================================================
