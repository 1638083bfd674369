----------------------------- MODULE HostProofs -----------------------------
(***************************************************************************)
(* Proofs about what JavaScript reaches outside V8: addons called on its   *)
(* thread (NapiCall), whatever they call and raise; addons at work on any  *)
(* number of other threads (NapiWork); the operations behind handles       *)
(* (HostHandles), for any number of resources and calls; the timers        *)
(* (Timers), wherever their numbers wrap; the files it requires            *)
(* (CommonJs), for any file trees; and, from these, about the host they    *)
(* make up (Host).                                                         *)
(***************************************************************************)
EXTENDS Host, FiniteSetTheorems, FunctionTheorems, SequenceTheorems,
        WellFoundedInduction, TLAPS

-----------------------------------------------------------------------------
(***************************************************************************)
(* How often elements of K occur in a sequence, when it grows at the end   *)
(* and shrinks at the front.                                               *)
(***************************************************************************)
Positions(s, K) == {i \in DOMAIN s : s[i] \in K}

LEMMA AppendedItem ==
  ASSUME NEW S, NEW s \in Seq(S), NEW e \in S, NEW q, q = Append(s, e)
  PROVE  /\ q \in Seq(S) /\ Len(q) = Len(s) + 1 /\ q[Len(s) + 1] = e
         /\ Len(s) \in Nat /\ DOMAIN s = 1..Len(s) /\ DOMAIN q = 1..(Len(s) + 1)
         /\ \A i \in 1..Len(s) : q[i] = s[i]
OBVIOUS

LEMMA TailItems ==
  ASSUME NEW S, NEW s \in Seq(S), s # <<>>, NEW q, q = Tail(s)
  PROVE  /\ q \in Seq(S) /\ Len(q) = Len(s) - 1 /\ Head(s) = s[1] /\ Head(s) \in S
         /\ Len(s) \in Nat \ {0} /\ DOMAIN s = 1..Len(s) /\ DOMAIN q = 1..(Len(s) - 1)
         /\ \A i \in 1..(Len(s) - 1) : q[i] = s[i + 1]
OBVIOUS

LEMMA PositionsFinite ==
  ASSUME NEW S, NEW s \in Seq(S), NEW K
  PROVE  IsFiniteSet(Positions(s, K)) /\ Cardinality(Positions(s, K)) \in Nat
<1>1. Positions(s, K) \in SUBSET (1..Len(s)) /\ Len(s) \in Nat
  BY DEF Positions
<1>2. IsFiniteSet(1..Len(s))
  BY <1>1, FS_Interval
<1> QED BY <1>1, <1>2, FS_Subset, FS_CardinalityType

LEMMA PositionsAppend ==
  ASSUME NEW S, NEW s \in Seq(S), NEW e \in S, NEW K
  PROVE  Cardinality(Positions(Append(s, e), K)) =
           IF e \in K THEN Cardinality(Positions(s, K)) + 1 ELSE Cardinality(Positions(s, K))
<1> DEFINE q == Append(s, e)
<1>1. /\ q[Len(s) + 1] = e /\ Len(s) \in Nat
      /\ DOMAIN s = 1..Len(s) /\ DOMAIN q = 1..(Len(s) + 1)
      /\ \A i \in 1..Len(s) : q[i] = s[i]
  BY AppendedItem
<1> HIDE DEF q
<1>2. CASE e \in K
  <2>1. Positions(q, K) = Positions(s, K) \cup {Len(s) + 1} /\ Len(s) + 1 \notin Positions(s, K)
    BY <1>1, <1>2 DEF Positions
  <2> QED BY <1>2, <2>1, PositionsFinite, FS_AddElement DEF q
<1>3. CASE e \notin K
  <2>1. Positions(q, K) = Positions(s, K)
    BY <1>1, <1>3 DEF Positions
  <2> QED BY <1>3, <2>1 DEF q
<1> QED BY <1>2, <1>3

LEMMA PositionsTail ==
  ASSUME NEW S, NEW s \in Seq(S), s # <<>>, NEW K
  PROVE  Cardinality(Positions(Tail(s), K)) =
           IF Head(s) \in K THEN Cardinality(Positions(s, K)) - 1 ELSE Cardinality(Positions(s, K))
<1> DEFINE q == Tail(s)
           P == Positions(s, K) \ {1}
           Q == Positions(q, K)
<1>1. /\ Head(s) = s[1] /\ Len(s) \in Nat \ {0} /\ q \in Seq(S)
      /\ DOMAIN s = 1..Len(s) /\ DOMAIN q = 1..(Len(s) - 1)
      /\ \A i \in 1..(Len(s) - 1) : q[i] = s[i + 1]
  BY TailItems
<1> HIDE DEF q
<1>2. IsFiniteSet(Positions(s, K)) /\ Cardinality(Positions(s, K)) \in Nat
  BY PositionsFinite
<1>3. /\ IsFiniteSet(P)
      /\ Cardinality(P) = IF Head(s) \in K THEN Cardinality(Positions(s, K)) - 1
                          ELSE Cardinality(Positions(s, K))
  <2>1. CASE Head(s) \in K
    <3>1. 1 \in Positions(s, K)
      BY <1>1, <2>1 DEF Positions
    <3> QED BY <1>2, <2>1, <3>1, FS_RemoveElement
  <2>2. CASE Head(s) \notin K
    <3>1. P = Positions(s, K)
      BY <1>1, <2>2 DEF Positions
    <3> HIDE DEF P
    <3> QED BY <1>2, <2>2, <3>1
  <2> QED BY <2>1, <2>2
<1> DEFINE f == [i \in P |-> i - 1]
<1>4. \A i \in P : i \in 2..Len(s) /\ s[i] \in K
  BY <1>1 DEF Positions
<1>5. \A j \in Q : j \in 1..(Len(s) - 1) /\ s[j + 1] \in K /\ j + 1 \in P
  BY <1>1 DEF Positions
<1>6. \A i \in P : i - 1 \in Q
  BY <1>1, <1>4 DEF Positions
<1> HIDE DEF P, Q
<1>7. f \in [P -> Q] /\ (\A a, b \in P : f[a] = f[b] => a = b)
  BY <1>4, <1>6
<1>8. \A j \in Q : \E i \in P : f[i] = j
  BY <1>5
<1>9. ExistsBijection(P, Q)
  BY <1>7, <1>8, Fun_IsBij DEF ExistsBijection
<1>10. Cardinality(Q) = Cardinality(P)
  BY <1>3, <1>9, FS_Bijection
<1> QED BY <1>3, <1>10 DEF Q, q

(***************************************************************************)
(* A sequence without its last element.                                    *)
(***************************************************************************)
LEMMA FrontItems ==
  ASSUME NEW S, NEW s \in Seq(S), s # <<>>
  PROVE  /\ Front(s) \in Seq(S) /\ Len(Front(s)) = Len(s) - 1
         /\ \A k \in 1..(Len(s) - 1) : Front(s)[k] = s[k]
<1> DEFINE n == Len(s) - 1
           q == Front(s)
<1>1. n \in Nat /\ \A i \in 1..n : s[i] \in S
  OBVIOUS
<1>2. n \in Int /\ q = SubSeq(s, 1, n)
  BY <1>1 DEF Front
<1> HIDE DEF n, q
<1>3. /\ q \in Seq(S) /\ Len(q) = IF 1 <= n THEN n - 1 + 1 ELSE 0
      /\ \A k \in 1..(n - 1 + 1) : q[k] = s[1 + k - 1]
  BY <1>1, <1>2, SubSeqProperties
<1>4. ASSUME NEW k \in 1..n PROVE q[k] = s[k]
  <2>1. k \in 1..(n - 1 + 1) /\ 1 + k - 1 = k
    BY <1>1
  <2> QED BY <1>3, <2>1
<1>5. Len(q) = n
  BY <1>1, <1>3
<1> QED BY <1>3, <1>4, <1>5 DEF n, q

-----------------------------------------------------------------------------
(***************************************************************************)
(* The Node-API on the isolate's thread.  Sequences of whatever there is;  *)
(* environments and objects keep their fields; and no call is on record    *)
(* while JavaScript runs.                                                  *)
(***************************************************************************)
IsSeq(s) == s \in Seq(Range(s))

IsEnv(e) == DOMAIN e = {"handles", "pending", "init"}

IsObj(obj) == DOMAIN obj = {"kind", "props", "wrap", "detached", "buffer", "data"}

NapiShape ==
  /\ IsSeq(frames) /\ IsSeq(heap) /\ IsSeq(deferreds)
  /\ \A i \in DOMAIN frames : IsEnv(frames[i])
  /\ \A o \in DOMAIN heap : IsObj(heap[o])

NoneOnRecord == running = "js" => last = "none"

NapiInv == NapiShape /\ NoneOnRecord /\ ExceptionsSurface

LEMMA SeqAppend ==
  ASSUME NEW s, IsSeq(s), NEW e
  PROVE  /\ IsSeq(Append(s, e)) /\ Len(s) \in Nat /\ DOMAIN s = 1..Len(s)
         /\ Len(Append(s, e)) = Len(s) + 1 /\ DOMAIN Append(s, e) = 1..(Len(s) + 1)
         /\ \A i \in DOMAIN s : Append(s, e)[i] = s[i]
         /\ Append(s, e)[Len(s) + 1] = e
<1> DEFINE S == Range(s) \cup {e}
           q == Append(s, e)
<1>1. s \in Seq(S) /\ e \in S
  BY DEF IsSeq
<1> HIDE DEF S
<1>2. /\ q \in Seq(S) /\ Len(s) \in Nat /\ DOMAIN s = 1..Len(s)
      /\ Len(q) = Len(s) + 1 /\ DOMAIN q = 1..(Len(s) + 1)
      /\ \A i \in DOMAIN s : q[i] = s[i]
      /\ q[Len(s) + 1] = e
  BY <1>1
<1> HIDE DEF q
<1>3. \A i \in DOMAIN q : q[i] \in Range(q)
  BY DEF Range
<1>4. q \in Seq(Range(q))
  BY <1>2, <1>3
<1> QED BY <1>2, <1>4 DEF IsSeq, q

LEMMA SeqFront ==
  ASSUME NEW s, IsSeq(s), s # <<>>
  PROVE  LET q == Front(s)
         IN  /\ IsSeq(q) /\ Len(q) = Len(s) - 1 /\ DOMAIN q = 1..(Len(s) - 1)
             /\ Len(s) \in Nat \ {0} /\ DOMAIN s = 1..Len(s)
             /\ \A i \in DOMAIN q : q[i] = s[i]
<1> DEFINE q == Front(s)
<1>1. s \in Seq(Range(s))
  BY DEF IsSeq
<1>2. q \in Seq(Range(s)) /\ Len(q) = Len(s) - 1 /\ \A k \in 1..(Len(s) - 1) : q[k] = s[k]
  BY <1>1, FrontItems
<1> HIDE DEF q
<1>3. \A i \in DOMAIN q : q[i] \in Range(q)
  BY DEF Range
<1>4. q \in Seq(Range(q))
  BY <1>2, <1>3
<1> QED BY <1>1, <1>2, <1>4 DEF IsSeq, q

Overwrites(q, s, n, e) == q = [s EXCEPT ![n] = e]

LEMMA SeqExcept ==
  ASSUME NEW s, IsSeq(s), NEW n, NEW e, NEW q, Overwrites(q, s, n, e)
  PROVE  /\ IsSeq(q) /\ Len(q) = Len(s) /\ DOMAIN q = DOMAIN s
         /\ n \in DOMAIN s => q[n] = e
         /\ \A i \in DOMAIN s : i # n => q[i] = s[i]
<1>1. /\ s \in Seq(Range(s)) /\ Len(s) \in Nat /\ DOMAIN s = 1..Len(s)
  BY DEF IsSeq
<1>2. /\ DOMAIN q = 1..Len(s) /\ (n \in DOMAIN s => q[n] = e)
      /\ \A i \in DOMAIN s : i # n => q[i] = s[i]
      /\ q = [i \in 1..Len(s) |-> q[i]]
  BY <1>1 DEF Overwrites
<1>3. \A i \in DOMAIN q : q[i] \in Range(q)
  BY DEF Range
<1>4. q \in [1..Len(s) -> Range(q)]
  BY <1>2, <1>3
<1>5. q \in Seq(Range(q)) /\ Len(q) = Len(s)
  BY <1>1, <1>4
<1> QED BY <1>1, <1>2, <1>5 DEF IsSeq

(***************************************************************************)
(* What most calls do: hand out a value or nothing, let V8 throw or not,   *)
(* make an object or change one, and consume nothing when they refuse or   *)
(* fail.                                                                   *)
(***************************************************************************)
Consumes == KeepsAll /\ UNCHANGED deferreds

Handed == frames' = frames \/ \E v : frames' = SetEnv(intern(env, v))

Objects == IsSeq(heap)' /\ IsSeq(deferreds)' /\ \A o \in DOMAIN heap' : IsObj(heap'[o])

OldDeferreds == \A i \in DOMAIN deferreds \cap DOMAIN deferreds' : deferreds'[i] = deferreds[i]

Quiet == running' = running /\ exc' \in {exc, TRUE} /\ Handed /\ Objects

Mild == (last' \in {"refused", "failed"} => Consumes) /\ OldDeferreds

Usual == Quiet /\ Mild

(***************************************************************************)
(* What RefusalsConsumeNothing says of a step.                             *)
(***************************************************************************)
Honest ==
  /\ last' = "refused" => KeepsAll /\ UNCHANGED deferreds
  /\ last' = "failed" =>
       /\ KeepsAll
       /\ \A i \in DOMAIN deferreds : deferreds[i]' \in {deferreds[i], Lost(deferreds[i])}
  /\ \A i \in DOMAIN deferreds \cap DOMAIN deferreds' :
       deferreds[i].boxed /\ ~ deferreds[i]'.boxed => deferreds[i]'.settled \/ last' = "failed"

LEMMA MildIsHonest == Mild => Honest
BY DEF Mild, Honest, Consumes, OldDeferreds

LEMMA SuccessIsHonest ==
  ASSUME OldDeferreds, last' \notin {"refused", "failed"}
  PROVE  Honest
BY DEF Honest, OldDeferreds

LEMMA StillIsHonest ==
  ASSUME UNCHANGED dataVars
  PROVE  Honest
BY DEF Honest, dataVars, KeepsAll, Kept

LEMMA ReturnUsual ==
  ASSUME NapiShape, NEW status, Return(status)
  PROVE  Usual
BY DEF Return, Usual, Quiet, Mild, OldDeferreds, Handed, Objects, Consumes, KeepsAll,
   fixedVars, dataVars, NapiShape, Kept

LEMMA ThrewUsual ==
  ASSUME NapiShape, NEW status, Threw(status)
  PROVE  Usual
BY DEF Threw, Usual, Quiet, Mild, OldDeferreds, Handed, Objects, Consumes, KeepsAll,
   fixedVars, dataVars, NapiShape, Kept

LEMMA AnswerUsual ==
  ASSUME NapiShape, NEW v, Answer(v), Objects, OldDeferreds
  PROVE  Usual
BY DEF Answer, Ended, Usual, Quiet, Mild, Handed, fixedVars

LEMMA WriteUsual ==
  ASSUME NapiShape, NEW v, write_value_out(v)
  PROVE  Usual
<1>1. ASSUME UNCHANGED dataVars PROVE Objects /\ OldDeferreds
  BY <1>1 DEF NapiShape, Objects, OldDeferreds, dataVars
<1> QED BY <1>1, ReturnUsual, AnswerUsual DEF write_value_out

LEMMA MoreObjects ==
  ASSUME NapiShape, NEW obj, IsObj(obj), heap' = Append(heap, obj), IsSeq(deferreds)'
  PROVE  Objects /\ \A o \in DOMAIN heap : heap'[o] = heap[o]
<1>1. /\ IsSeq(heap)' /\ DOMAIN heap = 1..Len(heap) /\ DOMAIN heap' = 1..(Len(heap) + 1)
      /\ Len(heap) \in Nat
      /\ \A i \in DOMAIN heap : heap'[i] = heap[i]
      /\ heap'[Len(heap) + 1] = obj
  BY SeqAppend DEF NapiShape
<1>2. \A i \in DOMAIN heap' : i \in DOMAIN heap \/ i = Len(heap) + 1
  BY <1>1
<1> QED BY <1>1, <1>2 DEF NapiShape, Objects

LEMMA MadeUsual ==
  ASSUME NapiShape, NEW obj, IsObj(obj), Made(obj)
  PROVE  Usual
<1>1. CASE Return("InvalidArg")
  BY <1>1, ReturnUsual
<1>2. CASE /\ heap' = Append(heap, obj) /\ Answer([kind |-> obj.kind, id |-> Len(heap) + 1])
           /\ UNCHANGED <<refs, deferreds>>
  <2>1. IsSeq(deferreds)' /\ OldDeferreds
    BY <1>2 DEF NapiShape, OldDeferreds
  <2> QED BY <1>2, <2>1, MoreObjects, AnswerUsual
<1> QED BY <1>1, <1>2 DEF Made

LEMMA ObjectIs ==
  ASSUME NEW kind, NEW buffer, NEW owned
  PROVE  IsObj(Object(kind, buffer, owned))
BY DEF IsObj, Object

LEMMA TakesOverUsual ==
  ASSUME NapiShape, NEW kind, TakesOver(kind)
  PROVE  Usual
<1>1. CASE Return("InvalidArg")
  BY <1>1, ReturnUsual
<1>2. CASE /\ heap' = Append(heap, Object(kind, 0, TRUE))
           /\ \/ Answer([kind |-> kind, id |-> Len(heap) + 1])
              \/ last' \in {"refused", "failed"} /\ UNCHANGED <<fixedVars, frames, exc>>
           /\ UNCHANGED <<refs, deferreds>>
  <2>1. IsSeq(deferreds)' /\ OldDeferreds
    BY <1>2 DEF NapiShape, OldDeferreds
  <2>2. Objects /\ \A o \in DOMAIN heap : heap'[o] = heap[o]
    BY <1>2, <2>1, ObjectIs, MoreObjects
  <2>3. CASE Answer([kind |-> kind, id |-> Len(heap) + 1])
    BY <2>1, <2>2, <2>3, AnswerUsual
  <2>4. CASE last' \in {"refused", "failed"} /\ UNCHANGED <<fixedVars, frames, exc>>
    BY <1>2, <2>1, <2>2, <2>4 DEF Usual, Quiet, Mild, Handed, Consumes, KeepsAll, Kept, fixedVars
  <2> QED BY <1>2, <2>3, <2>4
<1> QED BY <1>1, <1>2 DEF TakesOver

LEMMA ChangeUsual ==
  ASSUME NapiShape, NEW o, NEW field, NEW value, NEW status, Change(o, field, value, status),
         field = "props" \/ status = "Ok"
  PROVE  Usual
<1> DEFINE rec == [heap[o] EXCEPT ![field] = value]
<1>1. /\ Overwrites(heap', heap, o, rec) /\ Ended(status)
      /\ UNCHANGED <<fixedVars, frames, exc, refs, deferreds>>
  BY DEF Change, Overwrites
<1>2. /\ DOMAIN rec = DOMAIN heap[o]
      /\ \A f \in DOMAIN heap[o] : f # field => rec[f] = heap[o][f]
  OBVIOUS
<1> HIDE DEF rec
<1>3. /\ IsSeq(heap)' /\ DOMAIN heap' = DOMAIN heap
      /\ (o \in DOMAIN heap => heap'[o] = rec)
      /\ \A i \in DOMAIN heap : i # o => heap'[i] = heap[i]
  BY <1>1, SeqExcept DEF NapiShape
<1>4. Objects
  BY <1>1, <1>2, <1>3 DEF Objects, NapiShape, IsObj
<1>5. ASSUME field = "props", NEW i \in DOMAIN heap PROVE Kept(i)' = Kept(i)
  <2>1. IsObj(heap[i])
    BY DEF NapiShape
  <2>2. heap'[i]["wrap"] = heap[i]["wrap"] /\ heap'[i]["detached"] = heap[i]["detached"]
        /\ heap'[i]["data"] = heap[i]["data"]
    BY <1>2, <1>3, <1>5, <2>1 DEF IsObj
  <2> QED BY <2>2 DEF Kept
<1>6. OldDeferreds
  BY <1>1 DEF OldDeferreds
<1> QED BY <1>1, <1>4, <1>5, <1>6
        DEF Usual, Quiet, Mild, Handed, Consumes, KeepsAll, Ended, fixedVars

LEMMA MakingUsual ==
  ASSUME NapiShape,
         \/ MakePrimitive \/ napi_create_string_utf8 \/ MakeBigint \/ MakeObject
         \/ napi_create_array_with_length \/ napi_create_function \/ create_error
         \/ napi_create_arraybuffer \/ napi_create_external_arraybuffer
         \/ napi_create_external_buffer \/ MakeBuffer \/ napi_create_external
  PROVE  Usual
<1>1. CASE MakePrimitive \/ napi_create_string_utf8 \/ MakeBigint
  BY <1>1, ReturnUsual, WriteUsual DEF MakePrimitive, napi_create_string_utf8, MakeBigint
<1>2. CASE MakeObject \/ napi_create_array_with_length \/ napi_create_function
           \/ napi_create_arraybuffer \/ napi_create_external
  BY <1>2, ObjectIs, MadeUsual DEF MakeObject, napi_create_array_with_length,
     napi_create_function, napi_create_arraybuffer, napi_create_external
<1>3. CASE create_error \/ MakeBuffer
  BY <1>3, ObjectIs, MadeUsual, ReturnUsual DEF create_error, MakeBuffer
<1>4. CASE napi_create_external_arraybuffer \/ napi_create_external_buffer
  BY <1>4, TakesOverUsual DEF napi_create_external_arraybuffer, napi_create_external_buffer
<1> QED BY <1>1, <1>2, <1>3, <1>4

LEMMA ViewsUsual ==
  ASSUME NapiShape, napi_create_typedarray \/ napi_create_dataview
  PROVE  Usual
<1>1. ASSUME NEW tok, NEW kinds, ViewOn(tok, kinds) PROVE Usual
  BY <1>1, ObjectIs, MadeUsual, ReturnUsual DEF ViewOn
<1> QED BY <1>1, ReturnUsual DEF napi_create_typedarray, napi_create_dataview

LEMMA ReadingUsual ==
  ASSUME NapiShape, Read \/ ReadBufferOf \/ IntegerValue \/ Coerce
  PROVE  Usual
<1>1. CASE Read
  BY <1>1, ReturnUsual DEF Read
<1>2. CASE ReadBufferOf
  <2>1. PICK tok \in Tokens : Answer(Ref(heap[resolve(tok).id].buffer)) /\ UNCHANGED dataVars
    BY <1>2 DEF ReadBufferOf
  <2>2. Objects /\ OldDeferreds
    BY <2>1 DEF NapiShape, Objects, OldDeferreds, dataVars
  <2> QED BY <2>1, <2>2, AnswerUsual
<1>3. CASE IntegerValue
  BY <1>3, ReturnUsual, ThrewUsual DEF IntegerValue
<1>4. CASE Coerce
  BY <1>4, ThrewUsual, WriteUsual, MadeUsual, ObjectIs DEF Coerce
<1> QED BY <1>1, <1>2, <1>3, <1>4

(***************************************************************************)
(* Properties, wraps, references, promises.                                *)
(***************************************************************************)
MayThrow(s) == "exc" \in DOMAIN s /\ s.exc \in {exc, TRUE}

LEMMA DescriptorThrows ==
  ASSUME NEW s, MayThrow(s), NEW d, NEW t \in apply_descriptor(s, d)
  PROVE  MayThrow(t)
BY DEF apply_descriptor, MayThrow

LEMMA DefiningThrows ==
  ASSUME NEW props, NEW ds, NEW x \in Applied(props, ds)
  PROVE  x.exc \in {exc, TRUE}
<1> DEFINE first == [props |-> props, exc |-> exc]
<1>1. MayThrow(first)
  BY DEF MayThrow
<1>2. PICK s \in apply_descriptor(first, ds[1]) : x \in apply_descriptor(s, ds[2])
  BY DEF Applied
<1> HIDE DEF first
<1>3. MayThrow(s)
  BY <1>1, DescriptorThrows
<1>4. MayThrow(x)
  BY <1>2, <1>3, DescriptorThrows
<1> QED BY <1>4 DEF MayThrow

LEMMA PropsUsual ==
  ASSUME NapiShape, NEW o, NEW props, heap' = [heap EXCEPT ![o].props = props],
         exc' \in {exc, TRUE}, UNCHANGED <<fixedVars, frames, refs, deferreds>>
  PROVE  Usual
<1> DEFINE rec == [heap[o] EXCEPT !.props = props]
<1>1. Overwrites(heap', heap, o, rec)
  BY DEF Overwrites
<1>2. /\ DOMAIN rec = DOMAIN heap[o]
      /\ \A f \in DOMAIN heap[o] : f # "props" => rec[f] = heap[o][f]
  OBVIOUS
<1> HIDE DEF rec
<1>3. /\ IsSeq(heap)' /\ DOMAIN heap' = DOMAIN heap
      /\ (o \in DOMAIN heap => heap'[o] = rec)
      /\ \A i \in DOMAIN heap : i # o => heap'[i] = heap[i]
  BY <1>1, SeqExcept DEF NapiShape
<1>4. Objects
  BY <1>2, <1>3 DEF Objects, NapiShape, IsObj
<1>5. ASSUME NEW i \in DOMAIN heap PROVE Kept(i)' = Kept(i)
  <2>1. IsObj(heap[i])
    BY DEF NapiShape
  <2>2. heap'[i]["wrap"] = heap[i]["wrap"] /\ heap'[i]["detached"] = heap[i]["detached"]
        /\ heap'[i]["data"] = heap[i]["data"]
    BY <1>2, <1>3, <2>1 DEF IsObj
  <2> QED BY <2>2 DEF Kept
<1> QED BY <1>4, <1>5
        DEF Usual, Quiet, Mild, OldDeferreds, Handed, Consumes, KeepsAll, fixedVars

LEMMA PropertiesUsual ==
  ASSUME NapiShape,
         \/ napi_set_named_property \/ napi_set_element \/ napi_define_properties
         \/ napi_get_named_property \/ napi_get_element \/ napi_get_property
         \/ napi_has_named_property \/ napi_get_property_names
         \/ napi_define_class \/ napi_detach_arraybuffer
  PROVE  Usual
<1>1. ASSUME BadName PROVE Usual
  BY <1>1, ReturnUsual DEF BadName
<1>2. ASSUME NEW n, SetProperty(n) PROVE Usual
  BY <1>2, ReturnUsual, ThrewUsual, ChangeUsual DEF SetProperty, OnObject
<1>3. ASSUME GetProperty PROVE Usual
  BY <1>3, ReturnUsual, ThrewUsual, WriteUsual DEF GetProperty, OnObject
<1>4. CASE napi_set_named_property \/ napi_set_element
  BY <1>1, <1>2, <1>4 DEF napi_set_named_property, napi_set_element
<1>5. CASE napi_get_named_property \/ napi_get_element \/ napi_get_property
  BY <1>1, <1>3, <1>5, ReturnUsual DEF napi_get_named_property, napi_get_element, napi_get_property
<1>6. CASE napi_define_properties
  <2>1. ASSUME NEW o, NEW ds, NEW x \in Applied(heap[o].props, ds),
               heap' = [heap EXCEPT ![o].props = x.props], exc' = x.exc,
               Ended(DefinedStatus(ds)), UNCHANGED <<fixedVars, frames, refs, deferreds>>
        PROVE  Usual
    <3>1. exc' \in {exc, TRUE}
      BY <2>1, DefiningThrows
    <3> QED BY <2>1, <3>1, PropsUsual
  <2> QED BY <1>6, <2>1, ReturnUsual DEF napi_define_properties, OnObject
<1>7. CASE napi_has_named_property
  BY <1>1, <1>7, ReturnUsual, ThrewUsual DEF napi_has_named_property, OnObject
<1>8. CASE napi_get_property_names
  BY <1>8, ReturnUsual, ThrewUsual, MadeUsual, ObjectIs DEF napi_get_property_names, OnObject
<1>9. CASE napi_define_class
  <2>1. ASSUME NEW props PROVE IsObj([Object("function", 0, FALSE) EXCEPT !.props = props])
    BY ObjectIs DEF IsObj
  <2>2. ASSUME NEW ds, NEW x \in Applied({}, ds),
               exc' = x.exc, Ended(DefinedStatus(ds)), UNCHANGED <<fixedVars, refs, deferreds>>,
               IF ds[2] = "bad" THEN UNCHANGED <<frames, heap>>
               ELSE /\ heap' = Append(heap, [Object("function", 0, FALSE) EXCEPT !.props = x.props])
                    /\ frames' = SetEnv(intern(env, [kind |-> "function", id |-> Len(heap) + 1]))
        PROVE  Usual
    <3>1. exc' \in {exc, TRUE}
      BY <2>2, DefiningThrows
    <3>2. Handed /\ running' = running /\ OldDeferreds /\ IsSeq(deferreds)'
      BY <2>2 DEF Handed, OldDeferreds, NapiShape, fixedVars
    <3>3. Objects
      BY <2>1, <2>2, <3>2, MoreObjects DEF Objects, NapiShape
    <3>4. last' \in {"refused", "failed"} => UNCHANGED <<heap, refs, deferreds>>
      BY <2>2 DEF Ended, DefinedStatus
    <3>5. last' \in {"refused", "failed"} => Consumes
      BY <3>4 DEF Consumes, KeepsAll, Kept
    <3> QED BY <3>1, <3>2, <3>3, <3>5 DEF Usual, Quiet, Mild
  <2> QED BY <1>9, <2>2, ReturnUsual DEF napi_define_class
<1>10. CASE napi_detach_arraybuffer
  BY <1>10, ReturnUsual, ThrewUsual, ChangeUsual DEF napi_detach_arraybuffer
<1> QED BY <1>4, <1>5, <1>6, <1>7, <1>8, <1>9, <1>10

LEMMA WrapsUsual ==
  ASSUME NapiShape, napi_wrap \/ napi_unwrap \/ napi_remove_wrap
  PROVE  Usual
<1>1. CASE napi_unwrap \/ napi_remove_wrap
  BY <1>1, ReturnUsual, ThrewUsual, ChangeUsual DEF napi_unwrap, napi_remove_wrap, OnObject
<1>2. CASE napi_wrap
  <2>1. ASSUME NEW o, heap' = [heap EXCEPT ![o].wrap = TRUE], Ended("Ok"),
               UNCHANGED <<fixedVars, frames, exc, deferreds>>
        PROVE  Usual
    <3> DEFINE rec == [heap[o] EXCEPT !.wrap = TRUE]
    <3>1. Overwrites(heap', heap, o, rec)
      BY <2>1 DEF Overwrites
    <3>2. DOMAIN rec = DOMAIN heap[o]
      OBVIOUS
    <3> HIDE DEF rec
    <3>3. /\ IsSeq(heap)' /\ DOMAIN heap' = DOMAIN heap
          /\ (o \in DOMAIN heap => heap'[o] = rec)
          /\ \A i \in DOMAIN heap : i # o => heap'[i] = heap[i]
      BY <3>1, SeqExcept DEF NapiShape
    <3>4. Objects
      BY <2>1, <3>2, <3>3 DEF Objects, NapiShape, IsObj
    <3> QED BY <2>1, <3>4 DEF Usual, Quiet, Mild, OldDeferreds, Handed, Ended, fixedVars
  <2>2. ASSUME Ended("Ok"), UNCHANGED <<fixedVars, frames, exc, heap, deferreds>> PROVE Usual
    BY <2>2 DEF Usual, Quiet, Mild, OldDeferreds, Handed, Objects, Ended, NapiShape, fixedVars
  <2> QED BY <1>2, <2>1, <2>2, ReturnUsual, ThrewUsual DEF napi_wrap, OnObject
<1> QED BY <1>1, <1>2

LEMMA ReferencesUsual ==
  ASSUME NapiShape, napi_create_reference \/ Reference
  PROVE  Usual
<1>1. ASSUME UNCHANGED <<fixedVars, frames, exc, heap, deferreds>>, Ended("Ok") PROVE Usual
  BY <1>1 DEF Usual, Quiet, Mild, OldDeferreds, Handed, Objects, NapiShape, Ended, fixedVars
<1>2. CASE napi_create_reference
  BY <1>1, <1>2, ReturnUsual DEF napi_create_reference
<1>3. CASE Reference
  <2>1. ASSUME NEW v, Answer(v), UNCHANGED dataVars PROVE Usual
    BY <2>1, WriteUsual DEF write_value_out
  <2>2. ASSUME NEW i, NEW r, SetRef(i, r, "Ok") PROVE Usual
    BY <1>1, <2>2 DEF SetRef
  <2> QED BY <1>3, <2>1, <2>2, ReturnUsual DEF Reference
<1> QED BY <1>2, <1>3

LEMMA PromiseUsual ==
  ASSUME NapiShape, napi_create_promise
  PROVE  Usual
<1>1. CASE Return("InvalidArg")
  BY <1>1, ReturnUsual
<1>2. CASE /\ heap' = Append(heap, Object("promise", 0, FALSE))
           /\ deferreds' = Append(deferreds, [promise |-> Len(heap) + 1, boxed |-> TRUE,
                                              settled |-> FALSE])
           /\ Answer([kind |-> "promise", id |-> Len(heap) + 1])
  <2>1. IsSeq(deferreds)' /\ \A i \in DOMAIN deferreds : deferreds'[i] = deferreds[i]
    BY <1>2, SeqAppend DEF NapiShape
  <2>2. OldDeferreds
    BY <2>1 DEF OldDeferreds
  <2>3. Objects
    BY <1>2, <2>1, ObjectIs, MoreObjects
  <2> QED BY <1>2, <2>2, <2>3, AnswerUsual
<1> QED BY <1>1, <1>2 DEF napi_create_promise

(***************************************************************************)
(* Settling a promise spends the deferred, and says GenericFailure when    *)
(* that was in vain.                                                       *)
(***************************************************************************)
LEMMA SettleHonest ==
  ASSUME NapiShape, Settle
  PROVE  Quiet /\ Honest
<1>0. PICK i \in DOMAIN deferreds, tok \in Tokens :
        \E out \in settle_deferred(deferreds[i], tok) :
          /\ deferreds' = [deferreds EXCEPT ![i] = out.deferred]
          /\ Ended(out.status) /\ exc' \in {exc, TRUE}
          /\ UNCHANGED <<fixedVars, frames, heap, refs>>
  BY DEF Settle
<1>1. PICK out \in settle_deferred(deferreds[i], tok) :
        /\ deferreds' = [deferreds EXCEPT ![i] = out.deferred]
        /\ Ended(out.status) /\ exc' \in {exc, TRUE}
        /\ UNCHANGED <<fixedVars, frames, heap, refs>>
  BY <1>0
<1>2. PICK d : d = out.deferred
  OBVIOUS
<1>3. \/ d = deferreds[i] /\ last' = "refused"
      \/ d.settled /\ last' = "ok"
      \/ d = Lost(deferreds[i]) /\ last' = "failed"
  <2>1. CASE out = [deferred |-> deferreds[i], status |-> "InvalidArg"]
    BY <1>1, <1>2, <2>1 DEF Ended
  <2>2. CASE out = Settling(deferreds[i], "Ok") /\ out.status = "Ok"
    BY <1>1, <1>2, <2>2 DEF Ended, Settling, Spent
  <2>3. CASE out = Settling(deferreds[i], "GenericFailure") /\ out.status = "GenericFailure"
    BY <1>1, <1>2, <2>3 DEF Ended, Settling, Lost
  <2> QED BY <1>1, <2>1, <2>2, <2>3 DEF settle_deferred, Settling
<1>4. Overwrites(deferreds', deferreds, i, d)
  BY <1>1, <1>2 DEF Overwrites
<1>5. /\ IsSeq(deferreds)' /\ DOMAIN deferreds' = DOMAIN deferreds /\ deferreds'[i] = d
      /\ \A j \in DOMAIN deferreds : j # i => deferreds'[j] = deferreds[j]
  BY <1>4, SeqExcept DEF NapiShape
<1>6. KeepsAll
  BY <1>1 DEF KeepsAll, Kept
<1>7. last' = "refused" => deferreds' = deferreds
  BY <1>3, <1>4 DEF NapiShape, IsSeq, Overwrites
<1>8. Quiet
  BY <1>1, <1>5 DEF Quiet, Handed, Objects, NapiShape, fixedVars
<1>9. Honest
  BY <1>3, <1>5, <1>6, <1>7 DEF Honest
<1> QED BY <1>8, <1>9

(***************************************************************************)
(* Exceptions are noted, or forgotten, in the innermost environment.       *)
(***************************************************************************)
Forgotten ==
  \E v : /\ frames' = SetEnv([intern(env, v) EXCEPT !.pending = FALSE]) /\ Ended("Ok")
         /\ UNCHANGED <<fixedVars, exc, dataVars>>

LEMMA NativeCalls ==
  ASSUME NapiShape, NapiCalls
  PROVE  (Quiet /\ Honest) \/ Throw \/ Forgotten \/ CallFunction
<1>0. Usual => Quiet /\ Honest
  BY MildIsHonest DEF Usual
<1>1. CASE napi_throw \/ throw_named
  BY <1>0, <1>1, ReturnUsual DEF napi_throw, throw_named
<1>2. CASE napi_get_and_clear_last_exception
  BY <1>0, <1>2, ReturnUsual DEF napi_get_and_clear_last_exception, Forgotten
<1>3. CASE napi_get_cb_info \/ napi_get_new_target
  <2>1. ASSUME NEW v, Answer(v), UNCHANGED dataVars PROVE Usual
    BY <2>1, WriteUsual DEF write_value_out
  <2> QED BY <1>0, <1>3, <2>1, ReturnUsual DEF napi_get_cb_info, napi_get_new_target
<1> QED BY <1>0, <1>1, <1>2, <1>3, MakingUsual, ViewsUsual, ReadingUsual, PropertiesUsual,
           WrapsUsual, ReferencesUsual, PromiseUsual, SettleHonest DEF NapiCalls

(***************************************************************************)
(* The innermost environment is replaced by one with the same fields.      *)
(***************************************************************************)
LEMMA EnvSet ==
  ASSUME NapiShape, NEW e, IsEnv(e) \/ frames = <<>>, frames' = SetEnv(e)
  PROVE  /\ IsSeq(frames)' /\ DOMAIN frames' = DOMAIN frames /\ Len(frames') = Len(frames)
         /\ DOMAIN frames = 1..Len(frames) /\ Len(frames) \in Nat
         /\ (Len(frames) \in DOMAIN frames => frames'[Len(frames)] = e)
         /\ \A i \in DOMAIN frames : i # Len(frames) => frames'[i] = frames[i]
         /\ \A i \in DOMAIN frames' : IsEnv(frames'[i])
<1> DEFINE n == Len(frames)
<1>0. Overwrites(frames', frames, n, e) /\ IsSeq(frames)
  BY DEF NapiShape, SetEnv, Overwrites
<1> HIDE DEF n
<1>1. /\ IsSeq(frames') /\ DOMAIN frames' = DOMAIN frames /\ Len(frames') = Len(frames)
      /\ (n \in DOMAIN frames => frames'[n] = e)
      /\ \A i \in DOMAIN frames : i # n => frames'[i] = frames[i]
  BY <1>0, SeqExcept
<1>2. DOMAIN frames = 1..Len(frames) /\ Len(frames) \in Nat
  BY DEF NapiShape, IsSeq
<1>3. ASSUME NEW i \in DOMAIN frames' PROVE IsEnv(frames'[i])
  <2>1. frames # <<>>
    BY <1>1, <1>3
  <2> QED BY <1>1, <1>3, <2>1 DEF NapiShape
<1> QED BY <1>1, <1>2, <1>3 DEF n

LEMMA EnvIs ==
  ASSUME NapiShape, frames # <<>>
  PROVE  IsEnv(env) /\ Len(frames) \in DOMAIN frames
<1>1. Len(frames) \in DOMAIN frames
  BY DEF NapiShape, IsSeq
<1> QED BY <1>1 DEF NapiShape, env

LEMMA Interned ==
  ASSUME NEW e, NEW v, IsEnv(e)
  PROVE  IsEnv(intern(e, v)) /\ intern(e, v).pending = e.pending
BY DEF IsEnv, intern

LEMMA HandedKeeps ==
  ASSUME NapiShape, Handed
  PROVE  /\ IsSeq(frames)' /\ DOMAIN frames' = DOMAIN frames /\ Len(frames') = Len(frames)
         /\ \A i \in DOMAIN frames' : IsEnv(frames'[i]) /\ frames'[i].pending = frames[i].pending
<1>1. CASE frames' = frames
  BY <1>1 DEF NapiShape
<1>2. ASSUME NEW v, frames' = SetEnv(intern(env, v))
      PROVE  /\ IsSeq(frames)' /\ DOMAIN frames' = DOMAIN frames /\ Len(frames') = Len(frames)
             /\ \A i \in DOMAIN frames' : IsEnv(frames'[i]) /\ frames'[i].pending = frames[i].pending
  <2>1. IsEnv(intern(env, v)) \/ frames = <<>>
    BY EnvIs, Interned
  <2>2. frames # <<>> => intern(env, v).pending = frames[Len(frames)].pending
    BY EnvIs, Interned DEF env
  <2>3. /\ IsSeq(frames)' /\ DOMAIN frames' = DOMAIN frames /\ Len(frames') = Len(frames)
        /\ (Len(frames) \in DOMAIN frames => frames'[Len(frames)] = intern(env, v))
        /\ \A i \in DOMAIN frames : i # Len(frames) => frames'[i] = frames[i]
        /\ \A i \in DOMAIN frames' : IsEnv(frames'[i])
    BY <1>2, <2>1, EnvSet
  <2>4. DOMAIN frames # {} => frames # <<>>
    OBVIOUS
  <2> QED BY <2>2, <2>3, <2>4
<1> QED BY <1>1, <1>2 DEF Handed

LEMMA QuietKeepsInv ==
  ASSUME NapiInv, Native, Quiet
  PROVE  NapiInv'
<1>1. /\ running' = running /\ exc' \in {exc, TRUE} /\ running = "native"
      /\ IsSeq(heap)' /\ IsSeq(deferreds)' /\ \A o \in DOMAIN heap' : IsObj(heap'[o])
  BY DEF Quiet, Objects, Native
<1>2. /\ IsSeq(frames)' /\ DOMAIN frames' = DOMAIN frames /\ Len(frames') = Len(frames)
      /\ \A i \in DOMAIN frames' : IsEnv(frames'[i]) /\ frames'[i].pending = frames[i].pending
  BY HandedKeeps DEF NapiInv, Quiet
<1>3. \A i \in DOMAIN frames : frames[i].pending => i = Len(frames) /\ exc
  BY DEF NapiInv, ExceptionsSurface
<1>4. ASSUME NEW i \in DOMAIN frames', frames'[i].pending
      PROVE  i = Len(frames') /\ exc'
  <2>1. i \in DOMAIN frames /\ frames[i].pending
    BY <1>2, <1>4
  <2>2. exc
    BY <1>3, <2>1
  <2> QED BY <1>1, <1>2, <1>3, <2>1, <2>2
<1>5. ExceptionsSurface'
  BY <1>1, <1>4 DEF ExceptionsSurface, Native
<1> QED BY <1>1, <1>2, <1>5 DEF NapiInv, NapiShape, NoneOnRecord

LEMMA ThrowKeepsInv ==
  ASSUME NapiInv, Native, Throw
  PROVE  NapiInv' /\ last' = "ok"
<1> DEFINE e == [env EXCEPT !.pending = TRUE]
<1>1. /\ frames' = SetEnv(e) /\ exc' = TRUE /\ UNCHANGED <<fixedVars, dataVars>>
      /\ last' = "ok"
  BY DEF Throw, Ended
<1>2. IsEnv(e) \/ frames = <<>>
  BY EnvIs DEF NapiInv, IsEnv
<1> HIDE DEF e
<1>3. /\ IsSeq(frames)' /\ DOMAIN frames' = DOMAIN frames /\ Len(frames') = Len(frames)
      /\ \A i \in DOMAIN frames : i # Len(frames) => frames'[i] = frames[i]
      /\ \A i \in DOMAIN frames' : IsEnv(frames'[i])
  BY <1>1, <1>2, EnvSet DEF NapiInv
<1> QED BY <1>1, <1>3 DEF NapiInv, NapiShape, NoneOnRecord, ExceptionsSurface, Native,
           fixedVars, dataVars

LEMMA ForgottenKeepsInv ==
  ASSUME NapiInv, Native, Forgotten
  PROVE  NapiInv' /\ last' = "ok"
<1>1. PICK v : /\ frames' = SetEnv([intern(env, v) EXCEPT !.pending = FALSE])
               /\ UNCHANGED <<fixedVars, exc, dataVars>> /\ last' = "ok"
  BY DEF Forgotten, Ended
<1> DEFINE e == [intern(env, v) EXCEPT !.pending = FALSE]
<1>2. (IsEnv(e) /\ e.pending = FALSE) \/ frames = <<>>
  <2>1. ASSUME frames # <<>> PROVE IsEnv(intern(env, v))
    BY <2>1, EnvIs, Interned DEF NapiInv
  <2> QED BY <2>1 DEF IsEnv
<1>3. frames' = SetEnv(e)
  BY <1>1
<1> HIDE DEF e
<1>4. /\ IsSeq(frames)' /\ DOMAIN frames' = DOMAIN frames /\ Len(frames') = Len(frames)
      /\ (Len(frames) \in DOMAIN frames => frames'[Len(frames)] = e)
      /\ \A i \in DOMAIN frames : i # Len(frames) => frames'[i] = frames[i]
      /\ \A i \in DOMAIN frames' : IsEnv(frames'[i])
  BY <1>2, <1>3, EnvSet DEF NapiInv
<1>5. \A i \in DOMAIN frames' : ~ frames'[i].pending
  <2>1. DOMAIN frames # {} => frames # <<>>
    OBVIOUS
  <2> QED BY <1>2, <1>4, <2>1 DEF NapiInv, ExceptionsSurface
<1> QED BY <1>1, <1>4, <1>5 DEF NapiInv, NapiShape, NoneOnRecord, ExceptionsSurface, Native,
           fixedVars, dataVars

LEMMA CallFunctionKeepsInv ==
  ASSUME NapiInv, Native, CallFunction
  PROVE  NapiInv' /\ Honest
<1>0. Honest
  BY StillIsHonest DEF CallFunction, Return, dataVars
<1>1. CASE \E status : Return(status)
  <2>1. Usual
    BY <1>1, ReturnUsual DEF NapiInv
  <2> QED BY <1>0, <2>1, QuietKeepsInv DEF Usual
<1>2. CASE /\ running' = "js" /\ last' = "none"
           /\ UNCHANGED <<menu, frames, dataVars, libs, isolate>>
  <2>1. ASSUME NEW i \in DOMAIN frames PROVE ~ frames[i].pending
    <3>1. frames[i].pending => i = Len(frames)
      BY DEF NapiInv, ExceptionsSurface
    <3> QED BY <3>1 DEF CallFunction, napi_is_exception_pending, env
  <2> QED BY <1>0, <1>2, <2>1 DEF NapiInv, NapiShape, NoneOnRecord, ExceptionsSurface, dataVars
<1> QED BY <1>1, <1>2 DEF CallFunction

(***************************************************************************)
(* While JavaScript runs no environment notes an exception: calls start    *)
(* and end.                                                                *)
(***************************************************************************)
LEMMA PushKeepsInv ==
  ASSUME NapiInv, running = "js", NEW e, IsEnv(e), e.pending = FALSE, Push(e), UNCHANGED dataVars
  PROVE  NapiInv'
<1>1. frames' = Append(frames, e) /\ running' = "native" /\ last' = "none"
  BY DEF Push
<1>2. /\ IsSeq(frames)' /\ Len(frames) \in Nat /\ DOMAIN frames = 1..Len(frames)
      /\ DOMAIN frames' = 1..(Len(frames) + 1)
      /\ \A i \in DOMAIN frames : frames'[i] = frames[i]
      /\ frames'[Len(frames) + 1] = e
  BY <1>1, SeqAppend DEF NapiInv, NapiShape
<1>3. \A i \in DOMAIN frames' : i \in DOMAIN frames \/ i = Len(frames) + 1
  BY <1>2
<1>4. \A i \in DOMAIN frames' : IsEnv(frames'[i]) /\ ~ frames'[i].pending
  BY <1>2, <1>3 DEF NapiInv, NapiShape, ExceptionsSurface, Native
<1> QED BY <1>1, <1>2, <1>4 DEF NapiInv, NapiShape, NoneOnRecord, ExceptionsSurface, dataVars

LEMMA PopKeepsInv ==
  ASSUME NapiInv, NativeReturns
  PROVE  NapiInv' /\ last' = "none"
<1>1. /\ frames' = Front(frames) /\ running' = "js" /\ last' = "none"
      /\ UNCHANGED dataVars
  BY DEF NativeReturns, Front
<1>2. CASE frames = <<>>
  <2>1. frames' = <<>> /\ DOMAIN frames' = {} /\ IsSeq(frames')
    BY <1>1, <1>2 DEF IsSeq, Front
  <2> QED BY <1>1, <2>1 DEF NapiInv, NapiShape, NoneOnRecord, ExceptionsSurface, dataVars
<1>3. CASE frames # <<>>
  <2>1. /\ IsSeq(frames)' /\ DOMAIN frames' = 1..(Len(frames) - 1)
        /\ Len(frames) \in Nat \ {0} /\ DOMAIN frames = 1..Len(frames)
        /\ \A i \in DOMAIN frames' : frames'[i] = frames[i]
    BY <1>1, <1>3, SeqFront DEF NapiInv, NapiShape
  <2>2. \A i \in DOMAIN frames' : i \in DOMAIN frames /\ i # Len(frames)
    BY <2>1
  <2>3. \A i \in DOMAIN frames' : IsEnv(frames'[i]) /\ ~ frames'[i].pending
    BY <2>1, <2>2 DEF NapiInv, NapiShape, ExceptionsSurface
  <2> QED BY <1>1, <2>1, <2>3 DEF NapiInv, NapiShape, NoneOnRecord, ExceptionsSurface, dataVars
<1> QED BY <1>1, <1>2, <1>3

LEMMA CallReturnsKeepsInv ==
  ASSUME NapiInv, CallReturns
  PROVE  NapiInv' /\ last' \in {"ok", "pending"}
<1>1. /\ running = "js" /\ running' = "native" /\ UNCHANGED dataVars
  BY DEF CallReturns
<1>2. \A i \in DOMAIN frames : ~ frames[i].pending
  BY <1>1 DEF NapiInv, ExceptionsSurface, Native
<1>3. CASE exc /\ Rethrow
  <2> DEFINE e == [env EXCEPT !.pending = TRUE]
  <2>1. frames' = SetEnv(e) /\ exc' = exc /\ exc /\ last' = "pending"
    BY <1>3 DEF Rethrow
  <2>2. IsEnv(e) \/ frames = <<>>
    BY EnvIs DEF NapiInv, IsEnv
  <2> HIDE DEF e
  <2>3. /\ IsSeq(frames)' /\ DOMAIN frames' = DOMAIN frames /\ Len(frames') = Len(frames)
        /\ \A i \in DOMAIN frames : i # Len(frames) => frames'[i] = frames[i]
        /\ \A i \in DOMAIN frames' : IsEnv(frames'[i])
    BY <2>1, <2>2, EnvSet DEF NapiInv
  <2> QED BY <1>1, <1>2, <2>1, <2>3 DEF NapiInv, NapiShape, NoneOnRecord, ExceptionsSurface,
             Native, dataVars
<1>4. CASE Handed /\ last' = "ok"
  <2>1. /\ IsSeq(frames)' /\ DOMAIN frames' = DOMAIN frames
        /\ \A i \in DOMAIN frames' : IsEnv(frames'[i]) /\ frames'[i].pending = frames[i].pending
    BY <1>4, HandedKeeps DEF NapiInv
  <2> QED BY <1>1, <1>2, <1>4, <2>1 DEF NapiInv, NapiShape, NoneOnRecord, ExceptionsSurface, dataVars
<1> QED BY <1>3, <1>4 DEF CallReturns, Rethrow, Handed, Ended

LEMMA FinalizedKeepsInv ==
  ASSUME NapiInv, external_data_deleter
  PROVE  NapiInv' /\ last' = "none"
<1>1. PICK o \in DOMAIN heap :
        /\ running = "js" /\ heap' = [heap EXCEPT ![o].data = "finalized"]
        /\ UNCHANGED <<fixedVars, frames, exc, refs, deferreds, last>>
  BY DEF external_data_deleter
<1> DEFINE rec == [heap[o] EXCEPT !.data = "finalized"]
<1>2. Overwrites(heap', heap, o, rec) /\ DOMAIN rec = DOMAIN heap[o]
  BY <1>1 DEF Overwrites
<1> HIDE DEF rec
<1>3. /\ IsSeq(heap)' /\ DOMAIN heap' = DOMAIN heap /\ (o \in DOMAIN heap => heap'[o] = rec)
      /\ \A i \in DOMAIN heap : i # o => heap'[i] = heap[i]
  BY <1>1, <1>2, SeqExcept DEF NapiInv, NapiShape
<1> QED BY <1>1, <1>2, <1>3 DEF NapiInv, NapiShape, IsObj, NoneOnRecord, ExceptionsSurface,
           Native, fixedVars

LEMMA NapiInitInv == NapiInit => NapiInv
BY DEF NapiInit, NapiInv, NapiShape, NoneOnRecord, ExceptionsSurface, IsSeq

LEMMA NapiStep ==
  ASSUME NapiInv, [NapiNext]_napiVars
  PROVE  NapiInv' /\ Honest
<1>3. ASSUME UNCHANGED dataVars PROVE Honest
  BY <1>3, StillIsHonest
<1>1. CASE Native /\ NapiCalls
  <2>1. CASE Quiet /\ Honest
    BY <1>1, <2>1, QuietKeepsInv
  <2>2. CASE Throw
    BY <1>1, <1>3, <2>2, ThrowKeepsInv DEF Throw
  <2>3. CASE Forgotten
    BY <1>1, <1>3, <2>3, ForgottenKeepsInv DEF Forgotten
  <2>4. CASE CallFunction
    BY <1>1, <2>4, CallFunctionKeepsInv
  <2> QED BY <1>1, <2>1, <2>2, <2>3, <2>4, NativeCalls DEF NapiInv
<1> DEFINE fresh == [NewEnv EXCEPT !.init = TRUE]
<1>2. IsEnv(NewEnv) /\ NewEnv.pending = FALSE /\ IsEnv(fresh) /\ fresh.pending = FALSE
  BY DEF IsEnv, NewEnv
<1>4. ASSUME running = "js", UNCHANGED <<frames, running, last, dataVars>> PROVE NapiInv'
  <2>1. \A i \in DOMAIN frames : ~ frames[i].pending
    BY <1>4 DEF NapiInv, ExceptionsSurface, Native
  <2> QED BY <1>4, <2>1 DEF NapiInv, NapiShape, NoneOnRecord, ExceptionsSurface, dataVars
<1>5. CASE trampoline
  <2>1. running = "js" /\ Push(NewEnv) /\ UNCHANGED dataVars
    BY <1>5 DEF trampoline
  <2> QED BY <1>2, <1>3, <2>1, PushKeepsInv
<1>6. CASE NativeReturns
  BY <1>3, <1>6, PopKeepsInv DEF NativeReturns
<1>7. CASE CallReturns
  BY <1>3, <1>7, CallReturnsKeepsInv DEF CallReturns
<1>8. CASE JsThrows \/ JsCatches
  <2>1. running = "js" /\ UNCHANGED <<frames, running, last, dataVars>>
    BY <1>8 DEF JsThrows, JsCatches, fixedVars
  <2> QED BY <1>3, <1>4, <2>1 DEF dataVars
<1>9. CASE external_data_deleter
  <2>1. OldDeferreds
    BY <1>9 DEF external_data_deleter, OldDeferreds
  <2> QED BY <1>9, <2>1, FinalizedKeepsInv, SuccessIsHonest
<1>10. CASE load_native_module
  <2>1. /\ running = "js" /\ UNCHANGED dataVars
        /\ Push(fresh) \/ UNCHANGED <<frames, running, last>>
    BY <1>10 DEF load_native_module, LoadFails
  <2> HIDE DEF fresh
  <2> QED BY <1>2, <1>3, <1>4, <2>1, PushKeepsInv DEF dataVars
<1>11. CASE NewIsolate
  <2>1. /\ running = "js" /\ running' = "js" /\ frames = <<>> /\ frames' = <<>>
        /\ heap' = <<>> /\ deferreds' = <<>> /\ last' = last /\ last = "none"
    BY <1>11 DEF NewIsolate, NapiInv, NoneOnRecord
  <2>2. OldDeferreds
    BY <2>1 DEF OldDeferreds
  <2> QED BY <2>1, <2>2, SuccessIsHonest DEF NapiInv, NapiShape, NoneOnRecord, ExceptionsSurface, IsSeq
<1>12. CASE UNCHANGED napiVars
  <2>1. UNCHANGED dataVars
    BY <1>12 DEF napiVars, dataVars
  <2> QED BY <1>3, <1>12, <2>1 DEF napiVars, NapiInv, NapiShape, NoneOnRecord, ExceptionsSurface,
             Native, dataVars
<1> QED BY <1>1, <1>5, <1>6, <1>7, <1>8, <1>9, <1>10, <1>11, <1>12 DEF NapiNext

NapiSpec == NapiInit /\ [][NapiNext]_napiVars

(***************************************************************************)
(* Environments keep their shape, no call is on record while JavaScript    *)
(* runs, and what the API told the addon of is being thrown (env.rs).      *)
(***************************************************************************)
THEOREM NapiInvariance == NapiSpec => []NapiInv
<1>1. NapiInv /\ [NapiNext]_napiVars => NapiInv'
  BY NapiStep
<1> QED BY <1>1, NapiInitInv, PTL DEF NapiSpec

(***************************************************************************)
(* However deep native calls and JavaScript are nested, an exception that  *)
(* the API told the addon of reaches the caller of the native function     *)
(* (trampoline, napi_call_function).                                       *)
(***************************************************************************)
THEOREM ExceptionsReachTheirCaller == NapiSpec => []ExceptionsSurface
<1>1. NapiInv => ExceptionsSurface
  BY DEF NapiInv
<1> QED BY <1>1, NapiInvariance, PTL

(***************************************************************************)
(* Whichever call is refused, it may be made again, and one that V8 fails  *)
(* costs no more than a deferred that was to be settled (settle_deferred,  *)
(* and everything else in bindings.rs and references.rs).                  *)
(***************************************************************************)
THEOREM RefusalsMayBeRepeated == NapiSpec => RefusalsConsumeNothing
<1>1. NapiInv /\ [NapiNext]_napiVars => [Honest]_napiVars
  BY NapiStep
<1> QED BY <1>1, NapiInvariance, PTL DEF NapiSpec, RefusalsConsumeNothing, Honest

-----------------------------------------------------------------------------
(***************************************************************************)
(* NapiWork.  Types of what the invariant speaks of.                       *)
(***************************************************************************)
CallClosure == [kind |-> "call"]
FinalizeClosure == [kind |-> "finalize"]
CompleteClosures == [kind : {"complete"}, work : Works, status : {"Ok", "Cancelled"}]
Closures == CompleteClosures \cup {CallClosure, FinalizeClosure}

WorkRecord ==
  [pc : {"new", "spawned", "executing", "skipped", "executed", "sent", "notified"},
   cancelled : BOOLEAN, queued : BOOLEAN, executed : BOOLEAN, completed : Nat, freed : BOOLEAN]

ThreadRecord ==
  [holds : BOOLEAN,
   pc : {"idle", "call_count", "call_send", "call_notify", "release_sub", "release_send"}]

TsfnRecord == [live : BOOLEAN, aborted : BOOLEAN, thread_count : Int, queued : Int]

WorkTypes ==
  /\ work \in [Works -> WorkRecord]
  /\ thread \in [Threads -> ThreadRecord]
  /\ tsfn \in TsfnRecord
  /\ chan \in Seq(Closures)
  /\ js \in {"draining", "parked", "gone"}

(***************************************************************************)
(* A piece of work: its closure is in the channel at most once, after the  *)
(* task has sent it and until it has run, and says whether it executed.    *)
(***************************************************************************)
Sent(w) == {i \in 1..Len(chan) : chan[i].kind = "complete" /\ chan[i].work = w}

Unsent == {"new", "spawned", "executing", "skipped", "executed"}

Job(w) ==
  /\ work[w].queued <=> work[w].pc # "new"
  /\ work[w].pc \in {"new", "spawned", "executing", "skipped"} => ~ work[w].executed
  /\ work[w].pc = "executed" => work[w].executed
  /\ work[w].pc \in Unsent => Sent(w) = {} /\ work[w].completed = 0
  /\ work[w].completed \in {0, 1}
  /\ work[w].completed = 1 => Sent(w) = {}
  /\ \A i, j \in Sent(w) : i = j
  /\ \A i \in Sent(w) : (chan[i].status = "Ok") = work[w].executed
  /\ work[w].freed => work[w].completed = 1 \/ work[w].pc = "new"

(***************************************************************************)
(* The threadsafe function.  Its counters count: the holders, and the      *)
(* calls that are on their way or in the channel.                          *)
(***************************************************************************)
Holders == {t \in Threads : thread[t].holds}
Senders == {t \in Threads : thread[t].pc = "call_send"}

Counts ==
  /\ tsfn.thread_count = Cardinality(Holders)
  /\ js # "gone" =>
       tsfn.queued = Cardinality(Senders) + Cardinality(Positions(chan, {CallClosure}))
  /\ js = "gone" => chan = <<>>

(***************************************************************************)
(* Whoever is inside a call or a release holds the function, except the    *)
(* last one, about to send the finalizer; the finalizer is under way once, *)
(* when nobody holds the function, and behind every call.                  *)
(***************************************************************************)
Finalizers == {i \in 1..Len(chan) : chan[i].kind = "finalize"}
Closing == {t \in Threads : thread[t].pc = "release_send"}

Ownership ==
  /\ \A t \in Threads :
       /\ thread[t].pc \in {"call_count", "call_send", "call_notify", "release_sub"} => thread[t].holds
       /\ thread[t].pc = "release_send" => ~ thread[t].holds
  /\ Holders # {} => tsfn.live /\ Finalizers = {} /\ Closing = {}
  /\ Closing # {} => tsfn.live /\ Finalizers = {}
  /\ \A t, u \in Closing : t = u
  /\ \A i \in Finalizers :
       /\ tsfn.live
       /\ \A j \in 1..Len(chan) : ReadsFunction(chan[j]) => j <= i
  /\ ~ tsfn.live =>
       /\ tsfn.queued = 0
       /\ \A j \in 1..Len(chan) : ~ ReadsFunction(chan[j])

WorkInv ==
  /\ WorkTypes
  /\ \A w \in Works : Job(w)
  /\ Counts
  /\ Ownership

(***************************************************************************)
(* What the channel's growth and shrinking mean for a piece of work.       *)
(***************************************************************************)
LEMMA JobUnchanged ==
  ASSUME NEW w \in Works, Job(w), work'[w] = work[w], chan' = chan
  PROVE  Job(w)'
BY DEF Job, Sent

LEMMA JobAppend ==
  ASSUME WorkTypes, NEW w \in Works, Job(w), work'[w] = work[w],
         NEW e \in Closures, chan' = Append(chan, e), ~ (e.kind = "complete" /\ e.work = w)
  PROVE  Job(w)'
<1>1. /\ chan \in Seq(Closures) /\ Len(chan) \in Nat
      /\ Len(chan') = Len(chan) + 1 /\ chan'[Len(chan) + 1] = e
      /\ \A i \in 1..Len(chan) : chan'[i] = chan[i]
  BY AppendedItem DEF WorkTypes
<1>2. Sent(w)' = Sent(w)
  BY <1>1 DEF Sent
<1>3. \A i \in Sent(w) : chan'[i] = chan[i]
  BY <1>1 DEF Sent
<1>4. \A i, j \in Sent(w)' : i = j
  BY <1>2 DEF Job
<1>5. ASSUME NEW i \in Sent(w)' PROVE (chan'[i].status = "Ok") = work'[w].executed
  <2>1. i \in Sent(w)
    BY <1>2
  <2>2. chan'[i] = chan[i]
    BY <1>3, <2>1
  <2>3. (chan[i].status = "Ok") = work[w].executed
    BY <2>1 DEF Job
  <2> QED BY <2>2, <2>3
<1> QED BY <1>2, <1>4, <1>5 DEF Job

LEMMA JobTail ==
  ASSUME WorkTypes, NEW w \in Works, Job(w), chan # <<>>, chan' = Tail(chan),
         IF Head(chan).kind = "complete" /\ Head(chan).work = w
         THEN work'[w] = [work[w] EXCEPT !.completed = @ + 1] ELSE work'[w] = work[w]
  PROVE  Job(w)'
<1>1. /\ Head(chan) = chan[1] /\ Len(chan) \in Nat \ {0}
      /\ Len(chan') = Len(chan) - 1
      /\ \A i \in 1..(Len(chan) - 1) : chan'[i] = chan[i + 1]
  BY TailItems DEF WorkTypes
<1>2. \A i \in Sent(w)' : i + 1 \in Sent(w) /\ i + 1 # 1 /\ chan'[i] = chan[i + 1] /\ i \in Nat
  BY <1>1 DEF Sent
<1>3. work[w] \in WorkRecord
  BY DEF WorkTypes
<1>4. ASSUME NEW i \in Sent(w)', NEW j \in Sent(w)' PROVE i = j
  <2>1. i + 1 = j + 1 /\ i \in Nat /\ j \in Nat
    BY <1>2 DEF Job
  <2> QED BY <2>1
<1>5. ASSUME NEW i \in Sent(w)' PROVE (chan'[i].status = "Ok") = work[w].executed
  <2>1. \A k \in Sent(w) : (chan[k].status = "Ok") = work[w].executed
    BY DEF Job
  <2>2. i + 1 \in Sent(w) /\ chan'[i] = chan[i + 1]
    BY <1>2
  <2> QED BY <2>1, <2>2, Zenon
<1>6. Sent(w) = {} => Sent(w)' = {}
  BY <1>2
<1>7. CASE ~ (Head(chan).kind = "complete" /\ Head(chan).work = w)
  BY <1>4, <1>5, <1>6, <1>7 DEF Job
<1>8. CASE Head(chan).kind = "complete" /\ Head(chan).work = w
  <2>1. 1 \in Sent(w)
    BY <1>1, <1>8 DEF Sent
  <2>2. Sent(w)' = {}
    BY <1>2, <2>1 DEF Job
  <2>3. work[w].completed = 0 /\ work[w].pc \notin Unsent
    BY <2>1 DEF Job
  <2>4. /\ work'[w].completed = 1 /\ work'[w].pc = work[w].pc
        /\ work'[w].queued = work[w].queued /\ work'[w].executed = work[w].executed
        /\ work'[w].freed = work[w].freed
    BY <1>3, <1>8, <2>3 DEF WorkRecord
  <2> QED BY <2>2, <2>3, <2>4 DEF Job, Unsent
<1> QED BY <1>7, <1>8

(***************************************************************************)
(* The function's part of the invariant speaks of chan, thread, tsfn and   *)
(* js alone.                                                               *)
(***************************************************************************)
LEMMA FunctionUnchanged ==
  ASSUME Counts, Ownership, UNCHANGED <<chan, thread, tsfn, js>>
  PROVE  Counts' /\ Ownership'
<1>1. Holders' = Holders /\ Senders' = Senders /\ Closing' = Closing /\ Finalizers' = Finalizers
  BY DEF Holders, Senders, Closing, Finalizers
<1>2. Counts'
  BY <1>1 DEF Counts
<1>3. Ownership'
  BY <1>1 DEF Ownership
<1> QED BY <1>2, <1>3

(***************************************************************************)
(* The record of one piece of work changes, and nothing else.              *)
(***************************************************************************)
LEMMA WorkStep ==
  ASSUME WorkInv, NEW w \in Works, NEW rec \in WorkRecord, SetWork(w, rec),
         UNCHANGED <<chan, thread, tsfn, js>>, Job(w)'
  PROVE  WorkInv'
<1>1. /\ work' = [work EXCEPT ![w] = rec] /\ work \in [Works -> WorkRecord]
  BY DEF SetWork, WorkInv, WorkTypes
<1>2. WorkTypes'
  BY <1>1 DEF WorkInv, WorkTypes
<1>3. ASSUME NEW v \in Works PROVE Job(v)'
  <2>1. CASE v # w
    BY <1>1, <2>1, JobUnchanged DEF WorkInv
  <2> QED BY <2>1
<1> QED BY <1>2, <1>3, FunctionUnchanged DEF WorkInv

LEMMA WorkInitInv == WorkInit => WorkInv
<1> SUFFICES ASSUME WorkInit PROVE WorkInv
  OBVIOUS
<1> USE DEF WorkInit
<1>1. chan \in Seq(Closures) /\ Len(chan) = 0
  OBVIOUS
<1>2. boxed \in WorkRecord
  BY DEF boxed, WorkRecord
<1>3. Holders = Initial /\ Senders = {} /\ Closing = {} /\ Finalizers = {}
  <2>1. \A t \in Threads : thread[t] = [holds |-> t \in Initial, pc |-> "idle"]
    OBVIOUS
  <2>2. \A t \in Threads : (thread[t].holds <=> t \in Initial) /\ thread[t].pc = "idle"
    BY <2>1
  <2>3. Holders = Initial
    BY <2>2, WorkAssumption DEF Holders
  <2> QED BY <1>1, <2>2, <2>3 DEF Senders, Closing, Finalizers
<1>4. IsFiniteSet(Initial) /\ Cardinality(Initial) \in Nat
  BY WorkAssumption, FS_Subset, FS_CardinalityType
<1>5. WorkTypes
  BY <1>1, <1>2, <1>4 DEF WorkTypes, ThreadRecord, TsfnRecord, napi_create_threadsafe_function
<1>6. \A w \in Works : Job(w)
  BY <1>1 DEF Job, Sent, boxed, Unsent
<1>7. Counts
  <2>1. Positions(chan, {CallClosure}) = {}
    BY <1>1 DEF Positions
  <2>2. Cardinality(Senders) = 0 /\ Cardinality(Positions(chan, {CallClosure})) = 0
    BY <1>3, <2>1, FS_EmptySet
  <2> QED BY <1>3, <2>2 DEF Counts, napi_create_threadsafe_function
<1>8. Ownership
  BY <1>1, <1>3 DEF Ownership, napi_create_threadsafe_function
<1> QED BY <1>5, <1>6, <1>7, <1>8 DEF WorkInv

(***************************************************************************)
(* The steps of a piece of work (async_work.rs).                           *)
(***************************************************************************)
LEMMA JobSteps ==
  ASSUME WorkInv, NEW w \in Works,
         \/ napi_queue_async_work(w) \/ cancel(w) \/ drop_raw(w)
         \/ TaskReads(w) \/ TaskExecutes(w) \/ TaskNotifies(w)
  PROVE  WorkInv'
<1>1. work \in [Works -> WorkRecord] /\ work[w] \in WorkRecord /\ Job(w)
  BY DEF WorkInv, WorkTypes
<1>2. UNCHANGED <<chan, thread, tsfn, js>> /\ Sent(w)' = Sent(w)
  BY DEF napi_queue_async_work, cancel, drop_raw, TaskReads, TaskExecutes, TaskNotifies,
         tsfnVars, Sent
<1>3. ASSUME NEW rec \in WorkRecord, SetWork(w, rec),
             rec.queued <=> rec.pc # "new",
             rec.pc \in {"new", "spawned", "executing", "skipped"} => ~ rec.executed,
             rec.pc = "executed" => rec.executed,
             rec.pc \in Unsent => work[w].pc \in Unsent,
             rec.completed = work[w].completed,
             rec.executed = work[w].executed \/ work[w].pc \in Unsent,
             rec.freed => rec.completed = 1 \/ rec.pc = "new"
      PROVE  WorkInv'
  <2>1. work'[w] = rec
    BY <1>1, <1>3 DEF SetWork
  <2>2. \A i \in Sent(w) : chan[i].status = "Ok" <=> rec.executed
    BY <1>1, <1>3 DEF Job
  <2>3. Job(w)'
    BY <1>1, <1>2, <1>3, <2>1, <2>2 DEF Job
  <2> QED BY <1>2, <1>3, <2>3, WorkStep
<1>4. CASE napi_queue_async_work(w)
  <2> DEFINE rec == [work[w] EXCEPT !.queued = TRUE, !.pc = "spawned"]
  <2>1. SetWork(w, rec) /\ ~ work[w].freed /\ work[w].pc = "new"
    BY <1>1, <1>4 DEF napi_queue_async_work, Job
  <2>2. /\ rec \in WorkRecord /\ rec.queued /\ rec.pc = "spawned" /\ ~ rec.executed
        /\ rec.completed = work[w].completed /\ ~ rec.freed
    BY <1>1, <2>1 DEF WorkRecord, Job
  <2> HIDE DEF rec
  <2> QED BY <1>3, <2>1, <2>2 DEF Unsent
<1>5. CASE cancel(w)
  <2> DEFINE rec == [work[w] EXCEPT !.cancelled = TRUE]
  <2>1. SetWork(w, rec)
    BY <1>5 DEF cancel
  <2>2. /\ rec \in WorkRecord /\ rec.queued = work[w].queued /\ rec.pc = work[w].pc
        /\ rec.executed = work[w].executed
        /\ rec.completed = work[w].completed /\ rec.freed = work[w].freed
    BY <1>1 DEF WorkRecord
  <2> HIDE DEF rec
  <2> QED BY <1>1, <1>3, <2>1, <2>2 DEF Job
<1>6. CASE drop_raw(w)
  <2> DEFINE rec == [work[w] EXCEPT !.freed = TRUE]
  <2>1. SetWork(w, rec) /\ (work[w].completed = 1 \/ work[w].pc = "new")
    BY <1>1, <1>6 DEF drop_raw, Job
  <2>2. /\ rec \in WorkRecord /\ rec.queued = work[w].queued /\ rec.pc = work[w].pc
        /\ rec.executed = work[w].executed /\ rec.completed = work[w].completed
    BY <1>1 DEF WorkRecord
  <2> HIDE DEF rec
  <2> QED BY <1>1, <1>3, <2>1, <2>2 DEF Job
<1>7. CASE TaskReads(w)
  <2> DEFINE rec == [work[w] EXCEPT !.pc = IF work[w].cancelled THEN "skipped" ELSE "executing"]
  <2>1. SetWork(w, rec) /\ work[w].pc = "spawned"
    BY <1>7 DEF TaskReads
  <2>2. /\ rec \in WorkRecord /\ rec.queued = work[w].queued /\ rec.pc \in {"skipped", "executing"}
        /\ rec.executed = work[w].executed /\ rec.completed = work[w].completed
        /\ rec.freed = work[w].freed
    BY <1>1 DEF WorkRecord
  <2> HIDE DEF rec
  <2> QED BY <1>1, <1>3, <2>1, <2>2 DEF Job, Unsent
<1>8. CASE TaskExecutes(w)
  <2> DEFINE rec == [work[w] EXCEPT !.pc = "executed", !.executed = TRUE]
  <2>1. SetWork(w, rec) /\ work[w].pc = "executing"
    BY <1>8 DEF TaskExecutes
  <2>2. /\ rec \in WorkRecord /\ rec.queued = work[w].queued /\ rec.pc = "executed"
        /\ rec.executed /\ rec.completed = work[w].completed /\ rec.freed = work[w].freed
    BY <1>1 DEF WorkRecord
  <2> HIDE DEF rec
  <2> QED BY <1>1, <1>3, <2>1, <2>2 DEF Job, Unsent
<1>9. CASE TaskNotifies(w)
  <2> DEFINE rec == [work[w] EXCEPT !.pc = "notified"]
  <2>1. SetWork(w, rec) /\ work[w].pc = "sent"
    BY <1>9 DEF TaskNotifies
  <2>2. /\ rec \in WorkRecord /\ rec.queued = work[w].queued /\ rec.pc = "notified"
        /\ rec.executed = work[w].executed /\ rec.completed = work[w].completed
        /\ rec.freed = work[w].freed
    BY <1>1 DEF WorkRecord
  <2> HIDE DEF rec
  <2> QED BY <1>1, <1>3, <2>1, <2>2 DEF Job, Unsent
<1> QED BY <1>4, <1>5, <1>6, <1>7, <1>8, <1>9

(***************************************************************************)
(* A closure sent to the isolate's thread, or lost with it.                *)
(***************************************************************************)
LEMMA SendCases ==
  ASSUME WorkTypes, NEW e \in Closures, Send(e)
  PROVE  /\ chan' \in Seq(Closures)
         /\ js = "gone" => chan' = chan
         /\ js # "gone" => chan' = Append(chan, e)
BY DEF Send, WorkTypes

(***************************************************************************)
(* A completion leaves the function's part of the invariant alone.         *)
(***************************************************************************)
LEMMA CompletionSent ==
  ASSUME WorkInv, NEW e \in CompleteClosures, Send(e), UNCHANGED <<thread, tsfn, js>>
  PROVE  Counts' /\ Ownership'
<1>1. e \in Closures /\ e # CallClosure /\ e.kind = "complete"
  BY DEF Closures, CompleteClosures, CallClosure
<1>2. CASE js = "gone"
  BY <1>1, <1>2, SendCases, FunctionUnchanged DEF WorkInv
<1>3. CASE js # "gone"
  <2>1. chan' = Append(chan, e) /\ chan \in Seq(Closures)
    BY <1>1, <1>3, SendCases DEF WorkInv, WorkTypes
  <2>2. /\ Len(chan) \in Nat /\ Len(chan') = Len(chan) + 1 /\ chan'[Len(chan) + 1] = e
        /\ \A i \in 1..Len(chan) : chan'[i] = chan[i]
    BY <1>1, <2>1, AppendedItem
  <2>3. Holders' = Holders /\ Senders' = Senders /\ Closing' = Closing
    BY DEF Holders, Senders, Closing
  <2>4. Finalizers' = Finalizers
    BY <1>1, <2>2 DEF Finalizers
  <2>5. Counts'
    <3>1. Cardinality(Positions(chan', {CallClosure})) = Cardinality(Positions(chan, {CallClosure}))
      BY <1>1, <2>1, PositionsAppend
    <3> QED BY <1>3, <2>3, <3>1 DEF WorkInv, Counts
  <2>6. \A j \in 1..Len(chan') : ReadsFunction(chan'[j]) => j \in 1..Len(chan) /\ ReadsFunction(chan[j])
    BY <1>1, <2>2 DEF ReadsFunction
  <2>7. Ownership'
    BY <2>3, <2>4, <2>6 DEF WorkInv, Ownership
  <2> QED BY <2>5, <2>7
<1> QED BY <1>2, <1>3

LEMMA TaskSendsStep ==
  ASSUME WorkInv, NEW w \in Works, TaskSends(w)
  PROVE  WorkInv'
<1> DEFINE status == IF work[w].pc = "executed" THEN "Ok" ELSE "Cancelled"
           e == [kind |-> "complete", work |-> w, status |-> status]
           rec == [work[w] EXCEPT !.pc = "sent"]
<1>1. work \in [Works -> WorkRecord] /\ work[w] \in WorkRecord /\ Job(w) /\ WorkTypes
  BY DEF WorkInv, WorkTypes
<1>2. /\ work[w].pc \in {"skipped", "executed"} /\ Send(e) /\ work' = [work EXCEPT ![w] = rec]
      /\ UNCHANGED <<thread, tsfn, js>>
  BY DEF TaskSends, SetWork, tsfnVars
<1>3. e \in CompleteClosures /\ e.kind = "complete" /\ e.work = w /\ (e.status = "Ok" <=> work[w].executed)
  BY <1>1, <1>2 DEF CompleteClosures, Job
<1>4. /\ rec \in WorkRecord /\ rec.queued = work[w].queued /\ rec.pc = "sent"
      /\ rec.executed = work[w].executed /\ rec.completed = work[w].completed
      /\ rec.freed = work[w].freed
  BY <1>1 DEF WorkRecord
<1>5. Sent(w) = {} /\ work[w].completed = 0 /\ work[w].queued /\ ~ work[w].freed
  BY <1>1, <1>2 DEF Job, Unsent
<1> HIDE DEF e, rec
<1>6. e \in Closures
  BY <1>3 DEF Closures
<1>7. /\ work' \in [Works -> WorkRecord] /\ work'[w] = rec
      /\ \A v \in Works : v # w => work'[v] = work[v]
  BY <1>1, <1>2, <1>4
<1>8. WorkTypes'
  BY <1>1, <1>2, <1>6, <1>7, SendCases DEF WorkTypes
<1>9. ASSUME NEW v \in Works, v # w PROVE Job(v)'
  <2>1. CASE js = "gone"
    BY <1>1, <1>2, <1>6, <1>7, <1>9, <2>1, SendCases, JobUnchanged DEF WorkInv
  <2>2. CASE js # "gone"
    BY <1>1, <1>2, <1>3, <1>6, <1>7, <1>9, <2>2, SendCases, JobAppend DEF WorkInv
  <2> QED BY <2>1, <2>2
<1>10. Job(w)'
  <2>1. /\ \A i \in Sent(w)' : chan'[i] = e
        /\ \A i, j \in Sent(w)' : i = j
    <3>1. CASE js = "gone"
      BY <1>1, <1>2, <1>5, <1>6, <3>1, SendCases DEF Sent
    <3>2. CASE js # "gone"
      <4>1. chan' = Append(chan, e) /\ chan \in Seq(Closures)
        BY <1>1, <1>2, <1>6, <3>2, SendCases DEF WorkTypes
      <4>2. /\ Len(chan) \in Nat /\ Len(chan') = Len(chan) + 1 /\ chan'[Len(chan) + 1] = e
            /\ \A i \in 1..Len(chan) : chan'[i] = chan[i]
        BY <1>6, <4>1, AppendedItem
      <4>3. \A i \in Sent(w)' : i = Len(chan) + 1
        BY <1>5, <4>2 DEF Sent
      <4> QED BY <4>2, <4>3
    <3> QED BY <3>1, <3>2
  <2>2. ASSUME NEW i \in Sent(w)' PROVE (chan'[i].status = "Ok") = work'[w].executed
    <3>1. chan'[i].status = "Ok" <=> work'[w].executed
      BY <1>3, <1>4, <1>7, <2>1
    <3>2. work'[w].executed \in BOOLEAN
      BY <1>4, <1>7 DEF WorkRecord
    <3> QED BY <3>1, <3>2
  <2>3. /\ work'[w].queued /\ work'[w].pc = "sent" /\ work'[w].completed = 0 /\ ~ work'[w].freed
    BY <1>4, <1>5, <1>7
  <2> QED BY <2>1, <2>2, <2>3 DEF Job, Unsent
<1>11. Counts' /\ Ownership'
  BY <1>2, <1>3, CompletionSent
<1> QED BY <1>8, <1>9, <1>10, <1>11 DEF WorkInv

(***************************************************************************)
(* The steps of a thread.  The first fact: what a change of one thread's   *)
(* record does to the sets that are counted.                               *)
(***************************************************************************)
LEMMA ThreadFinite ==
  /\ IsFiniteSet(Holders) /\ IsFiniteSet(Senders)
  /\ Cardinality(Holders) \in Nat /\ Cardinality(Senders) \in Nat
<1>1. Holders \in SUBSET Threads /\ Senders \in SUBSET Threads
  BY DEF Holders, Senders
<1> QED BY <1>1, WorkAssumption, FS_Subset, FS_CardinalityType

LEMMA AtStep ==
  ASSUME WorkTypes, NEW t \in Threads, NEW pc, At(t, pc),
         pc \in {"idle", "call_count", "call_send", "call_notify", "release_sub", "release_send"}
  PROVE  /\ thread' \in [Threads -> ThreadRecord]
         /\ Holders' = Holders
         /\ Senders' = IF pc = "call_send" THEN Senders \cup {t} ELSE Senders \ {t}
         /\ Closing' = IF pc = "release_send" THEN Closing \cup {t} ELSE Closing \ {t}
         /\ thread'[t].pc = pc /\ thread'[t].holds = thread[t].holds
         /\ \A u \in Threads : u # t => thread'[u] = thread[u]
<1>1. /\ thread' = [thread EXCEPT ![t].pc = pc]
      /\ thread \in [Threads -> ThreadRecord] /\ thread[t] \in ThreadRecord
  BY DEF At, WorkTypes
<1>2. /\ thread' \in [Threads -> ThreadRecord]
      /\ thread'[t].pc = pc /\ thread'[t].holds = thread[t].holds
      /\ \A u \in Threads : u # t => thread'[u] = thread[u]
  BY <1>1 DEF ThreadRecord
<1>3. \A u \in Threads : thread'[u].holds = thread[u].holds
  BY <1>2
<1>4. Holders' = Holders
  BY <1>3 DEF Holders
<1>5. Senders' = IF pc = "call_send" THEN Senders \cup {t} ELSE Senders \ {t}
  BY <1>2 DEF Senders
<1>6. Closing' = IF pc = "release_send" THEN Closing \cup {t} ELSE Closing \ {t}
  BY <1>2 DEF Closing
<1> QED BY <1>2, <1>4, <1>5, <1>6

LEMMA AcquireStep ==
  ASSUME WorkInv, NEW t \in Threads, NEW other \in Threads \ {t},
         napi_acquire_threadsafe_function(t, other)
  PROVE  WorkInv'
<1> USE DEF napi_acquire_threadsafe_function, othersVars
<1>1. /\ thread \in [Threads -> ThreadRecord] /\ thread[other] \in ThreadRecord
      /\ tsfn \in TsfnRecord /\ tsfn.thread_count \in Int
  BY DEF WorkInv, WorkTypes, TsfnRecord
<1>2. /\ thread' \in [Threads -> ThreadRecord]
      /\ thread'[other].holds /\ thread'[other].pc = "idle"
      /\ \A u \in Threads : u # other => thread'[u] = thread[u]
  BY <1>1 DEF ThreadRecord
<1>3. /\ tsfn' \in TsfnRecord /\ tsfn'.thread_count = tsfn.thread_count + 1
      /\ tsfn'.queued = tsfn.queued /\ tsfn'.live = tsfn.live
  BY <1>1 DEF TsfnRecord
<1>4. WorkTypes'
  BY <1>2, <1>3 DEF WorkInv, WorkTypes
<1>5. \A w \in Works : Job(w)'
  BY JobUnchanged DEF WorkInv
<1>6. /\ Holders' = Holders \cup {other} /\ other \notin Holders /\ t \in Holders
      /\ Senders' = Senders /\ Closing' = Closing /\ Finalizers' = Finalizers
  <2>1. \A u \in Threads : u \in Holders' <=> u \in Holders \/ u = other
    BY <1>2 DEF Holders
  <2>2. Holders' = Holders \cup {other}
    BY <2>1 DEF Holders
  <2>3. other \notin Holders /\ t \in Holders
    BY DEF Holders, Free
  <2>4. Senders' = Senders /\ Closing' = Closing
    BY <1>2 DEF Senders, Closing
  <2> QED BY <2>2, <2>3, <2>4 DEF Finalizers
<1>7. Counts'
  <2>1. Cardinality(Holders') = Cardinality(Holders) + 1
    BY <1>6, ThreadFinite, FS_AddElement
  <2> QED BY <1>3, <1>6, <2>1 DEF WorkInv, Counts
<1>8. Ownership'
  BY <1>2, <1>3, <1>6 DEF WorkInv, Ownership
<1> QED BY <1>4, <1>5, <1>7, <1>8 DEF WorkInv

(***************************************************************************)
(* The steps of a call and a release that move one thread and send nothing.*)
(***************************************************************************)
LEMMA MoveStep ==
  ASSUME WorkInv, NEW t \in Threads, thread[t].holds, thread[t].pc # "call_send",
         NEW pc \in {"idle", "call_count", "release_sub"}, At(t, pc),
         tsfn' \in TsfnRecord, tsfn'.thread_count = tsfn.thread_count,
         tsfn'.queued = tsfn.queued, tsfn'.live = tsfn.live,
         UNCHANGED <<work, chan, js>>
  PROVE  WorkInv'
<1>1. /\ thread' \in [Threads -> ThreadRecord]
      /\ Holders' = Holders /\ Senders' = Senders \ {t} /\ Closing' = Closing \ {t}
      /\ thread'[t].pc = pc /\ thread'[t].holds = thread[t].holds
      /\ \A u \in Threads : u # t => thread'[u] = thread[u]
  BY AtStep DEF WorkInv
<1>2. WorkTypes'
  BY <1>1 DEF WorkInv, WorkTypes
<1>3. \A w \in Works : Job(w)'
  BY JobUnchanged DEF WorkInv
<1>4. t \notin Senders /\ Closing = {} /\ Finalizers' = Finalizers /\ t \in Holders
  BY DEF Senders, Finalizers, Holders, WorkInv, Ownership
<1>5. Senders' = Senders /\ Closing' = Closing
  BY <1>1, <1>4
<1>6. Counts'
  BY <1>1, <1>5 DEF WorkInv, Counts
<1>7. Ownership'
  BY <1>1, <1>4, <1>5 DEF WorkInv, Ownership
<1> QED BY <1>2, <1>3, <1>6, <1>7 DEF WorkInv

LEMMA CallChecksStep ==
  ASSUME WorkInv, NEW t \in Threads,
         CallChecks(t) \/ CallNotifies(t) \/ ReleaseAborts(t)
  PROVE  WorkInv'
<1>1. tsfn \in TsfnRecord
  BY DEF WorkInv, WorkTypes
<1>2. CASE CallChecks(t)
  BY <1>1, <1>2, MoveStep DEF CallChecks, Free, othersVars
<1>3. CASE CallNotifies(t)
  <2>1. thread[t].holds
    BY <1>3 DEF CallNotifies, WorkInv, Ownership
  <2> QED BY <1>1, <1>3, <2>1, MoveStep DEF CallNotifies
<1>4. CASE ReleaseAborts(t)
  <2>1. /\ tsfn' \in TsfnRecord /\ tsfn'.thread_count = tsfn.thread_count
        /\ tsfn'.queued = tsfn.queued /\ tsfn'.live = tsfn.live
    BY <1>1, <1>4 DEF ReleaseAborts, TsfnRecord
  <2> QED BY <1>4, <2>1, MoveStep DEF ReleaseAborts, Free, othersVars
<1> QED BY <1>2, <1>3, <1>4

LEMMA CallCountsStep ==
  ASSUME WorkInv, NEW t \in Threads, CallCounts(t)
  PROVE  WorkInv'
<1> USE DEF CallCounts, othersVars
<1>1. /\ thread' \in [Threads -> ThreadRecord]
      /\ Holders' = Holders /\ Senders' = Senders \cup {t} /\ Closing' = Closing \ {t}
      /\ thread'[t].pc = "call_send" /\ thread'[t].holds = thread[t].holds
      /\ \A u \in Threads : u # t => thread'[u] = thread[u]
  BY AtStep DEF WorkInv
<1>2. /\ tsfn' \in TsfnRecord /\ tsfn'.thread_count = tsfn.thread_count
      /\ tsfn'.queued = tsfn.queued + 1 /\ tsfn'.live = tsfn.live
  BY DEF WorkInv, WorkTypes, TsfnRecord
<1>3. WorkTypes'
  BY <1>1, <1>2 DEF WorkInv, WorkTypes
<1>4. \A w \in Works : Job(w)'
  BY JobUnchanged DEF WorkInv
<1>5. thread[t].holds /\ t \in Holders /\ t \notin Senders /\ Finalizers' = Finalizers
  BY DEF Senders, Finalizers, Holders, WorkInv, Ownership
<1>6. Closing = {} /\ Closing' = {} /\ tsfn.live /\ Finalizers = {}
  BY <1>1, <1>5 DEF WorkInv, Ownership
<1>7. Counts'
  <2>1. Cardinality(Senders') = Cardinality(Senders) + 1
    BY <1>1, <1>5, ThreadFinite, FS_AddElement
  <2>2. Cardinality(Senders) \in Nat /\ Cardinality(Positions(chan, {CallClosure})) \in Nat
    BY ThreadFinite, PositionsFinite DEF WorkInv, WorkTypes
  <2> QED BY <1>1, <1>2, <2>1, <2>2 DEF WorkInv, Counts
<1>8. Ownership'
  BY <1>1, <1>2, <1>5, <1>6 DEF WorkInv, Ownership
<1> QED BY <1>3, <1>4, <1>7, <1>8 DEF WorkInv

(***************************************************************************)
(* A release counts: the last holder goes on to send the finalizer.        *)
(***************************************************************************)
LEMMA ReleaseCountsStep ==
  ASSUME WorkInv, NEW t \in Threads, ReleaseCounts(t)
  PROVE  WorkInv'
<1> DEFINE final == tsfn.thread_count = 1
           rec == [holds |-> FALSE, pc |-> IF final THEN "release_send" ELSE "idle"]
<1>1. /\ thread \in [Threads -> ThreadRecord] /\ thread' = [thread EXCEPT ![t] = rec]
      /\ tsfn' = [tsfn EXCEPT !.thread_count = @ - 1] /\ tsfn \in TsfnRecord
      /\ UNCHANGED <<work, chan, js>>
      /\ thread[t].pc \in {"idle", "release_sub"} /\ thread[t].holds
  BY DEF ReleaseCounts, Free, othersVars, WorkInv, WorkTypes, Ownership
<1>2. rec \in ThreadRecord /\ rec.holds = FALSE /\ rec.pc = IF final THEN "release_send" ELSE "idle"
  BY DEF ThreadRecord
<1> HIDE DEF rec
<1>3. /\ thread' \in [Threads -> ThreadRecord] /\ thread'[t] = rec
      /\ \A u \in Threads : u # t => thread'[u] = thread[u]
  BY <1>1, <1>2
<1>4. /\ tsfn' \in TsfnRecord /\ tsfn'.thread_count = tsfn.thread_count - 1
      /\ tsfn'.queued = tsfn.queued /\ tsfn'.live = tsfn.live
      /\ tsfn.thread_count \in Int
  BY <1>1 DEF TsfnRecord
<1>5. WorkTypes'
  BY <1>1, <1>3, <1>4 DEF WorkInv, WorkTypes
<1>6. \A w \in Works : Job(w)'
  BY <1>1, JobUnchanged DEF WorkInv
<1>7. /\ t \in Holders /\ tsfn.live /\ Finalizers = {} /\ Closing = {}
      /\ Finalizers' = {}
  BY <1>1 DEF Holders, Finalizers, WorkInv, Ownership
<1>8. Holders' = Holders \ {t}
  <2>1. \A u \in Threads : u \in Holders' <=> u \in Holders /\ u # t
    BY <1>2, <1>3 DEF Holders
  <2> QED BY <2>1 DEF Holders
<1>9. Senders' = Senders
  <2>1. \A u \in Threads : u \in Senders' <=> u \in Senders
    BY <1>1, <1>2, <1>3 DEF Senders
  <2> QED BY <2>1 DEF Senders
<1>10. Closing' = IF final THEN {t} ELSE {}
  <2>1. \A u \in Threads : u \in Closing' <=> u = t /\ final
    BY <1>2, <1>3, <1>7 DEF Closing
  <2> QED BY <2>1 DEF Closing
<1>11. Cardinality(Holders') = Cardinality(Holders) - 1 /\ IsFiniteSet(Holders')
  BY <1>7, <1>8, ThreadFinite, FS_RemoveElement
<1>12. Counts'
  BY <1>1, <1>4, <1>9, <1>11 DEF WorkInv, Counts
<1>13. final => Holders' = {}
  BY <1>11, ThreadFinite, FS_EmptySet DEF WorkInv, Counts
<1>14. Ownership'
  <2>1. ASSUME NEW u \in Threads
        PROVE  /\ thread'[u].pc \in {"call_count", "call_send", "call_notify", "release_sub"}
                    => thread'[u].holds
               /\ thread'[u].pc = "release_send" => ~ thread'[u].holds
    BY <1>2, <1>3 DEF WorkInv, Ownership
  <2>2. tsfn'.live
    BY <1>4, <1>7
  <2> QED BY <1>7, <1>10, <1>13, <2>1, <2>2 DEF Ownership
<1> QED BY <1>5, <1>6, <1>12, <1>14 DEF WorkInv

(***************************************************************************)
(* A call's closure is sent, behind nothing that frees the function.       *)
(***************************************************************************)
LEMMA CallSendsStep ==
  ASSUME WorkInv, NEW t \in Threads, CallSends(t)
  PROVE  WorkInv'
<1> DEFINE pc == IF js = "gone" THEN "idle" ELSE "call_notify"
<1>1. /\ thread[t].pc = "call_send" /\ Send(CallClosure) /\ At(t, pc)
      /\ UNCHANGED <<work, permit, js, tsfn>> /\ WorkTypes
  BY DEF CallSends, othersVars, CallClosure, WorkInv
<1>2. CallClosure \in Closures /\ CallClosure.kind = "call"
  BY DEF Closures, CallClosure
<1>3. /\ thread' \in [Threads -> ThreadRecord]
      /\ Holders' = Holders /\ Senders' = Senders \ {t} /\ Closing' = Closing \ {t}
      /\ thread'[t].pc = pc /\ thread'[t].holds = thread[t].holds
      /\ \A u \in Threads : u # t => thread'[u] = thread[u]
  BY <1>1, AtStep
<1>4. /\ thread[t].holds /\ t \in Holders /\ t \in Senders
      /\ Closing = {} /\ Finalizers = {} /\ tsfn.live
  BY <1>1 DEF WorkInv, Ownership, Holders, Senders
<1>5. WorkTypes'
  BY <1>1, <1>2, <1>3, SendCases DEF WorkTypes
<1>6. \A w \in Works : Job(w)'
  <2>1. CASE js = "gone"
    BY <1>1, <1>2, <2>1, SendCases, JobUnchanged DEF WorkInv
  <2>2. CASE js # "gone"
    BY <1>1, <1>2, <2>2, SendCases, JobAppend DEF WorkInv
  <2> QED BY <2>1, <2>2
<1>7. Finalizers' = {}
  <2>1. CASE js = "gone"
    BY <1>1, <1>2, <1>4, <2>1, SendCases DEF Finalizers
  <2>2. CASE js # "gone"
    <3>1. chan' = Append(chan, CallClosure) /\ chan \in Seq(Closures)
      BY <1>1, <1>2, <2>2, SendCases DEF WorkTypes
    <3>2. /\ Len(chan) \in Nat /\ Len(chan') = Len(chan) + 1 /\ chan'[Len(chan) + 1] = CallClosure
          /\ \A i \in 1..Len(chan) : chan'[i] = chan[i]
      BY <1>2, <3>1, AppendedItem
    <3> QED BY <1>2, <1>4, <3>2 DEF Finalizers
  <2> QED BY <2>1, <2>2
<1>8. Counts'
  <2>1. CASE js = "gone"
    BY <1>1, <1>2, <1>3, <2>1, SendCases DEF WorkInv, Counts
  <2>2. CASE js # "gone"
    <3>1. chan' = Append(chan, CallClosure) /\ chan \in Seq(Closures)
      BY <1>1, <1>2, <2>2, SendCases DEF WorkTypes
    <3>2. Cardinality(Positions(chan', {CallClosure})) = Cardinality(Positions(chan, {CallClosure})) + 1
      BY <1>2, <3>1, PositionsAppend
    <3>3. Cardinality(Senders') = Cardinality(Senders) - 1 /\ Cardinality(Senders) \in Nat
      BY <1>3, <1>4, ThreadFinite, FS_RemoveElement
    <3>4. Cardinality(Positions(chan, {CallClosure})) \in Nat
      BY <3>1, PositionsFinite
    <3> QED BY <1>1, <1>3, <2>2, <3>2, <3>3, <3>4 DEF WorkInv, Counts
  <2> QED BY <2>1, <2>2
<1>9. Ownership'
  <2>1. ASSUME NEW u \in Threads
        PROVE  /\ thread'[u].pc \in {"call_count", "call_send", "call_notify", "release_sub"}
                    => thread'[u].holds
               /\ thread'[u].pc = "release_send" => ~ thread'[u].holds
    BY <1>3, <1>4 DEF WorkInv, Ownership
  <2>2. Closing' = {} /\ tsfn'.live
    BY <1>1, <1>3, <1>4
  <2> QED BY <1>7, <2>1, <2>2 DEF Ownership
<1> QED BY <1>5, <1>6, <1>8, <1>9 DEF WorkInv

(***************************************************************************)
(* The finalizer is sent by the last holder, behind every call.            *)
(***************************************************************************)
LEMMA ReleaseSendsStep ==
  ASSUME WorkInv, NEW t \in Threads, ReleaseSends(t)
  PROVE  WorkInv'
<1>1. /\ thread[t].pc = "release_send" /\ Send(FinalizeClosure) /\ At(t, "idle")
      /\ UNCHANGED <<work, permit, js, tsfn>> /\ WorkTypes
  BY DEF ReleaseSends, othersVars, FinalizeClosure, WorkInv
<1>2. FinalizeClosure \in Closures /\ FinalizeClosure.kind = "finalize" /\ FinalizeClosure # CallClosure
  BY DEF Closures, FinalizeClosure, CallClosure
<1>3. /\ thread' \in [Threads -> ThreadRecord]
      /\ Holders' = Holders /\ Senders' = Senders \ {t} /\ Closing' = Closing \ {t}
      /\ thread'[t].pc = "idle" /\ thread'[t].holds = thread[t].holds
      /\ \A u \in Threads : u # t => thread'[u] = thread[u]
  BY <1>1, AtStep
<1>4. /\ t \in Closing /\ t \notin Senders /\ Holders = {}
      /\ Closing = {t} /\ Finalizers = {} /\ tsfn.live
  BY <1>1 DEF WorkInv, Ownership, Closing, Senders
<1>5. WorkTypes'
  BY <1>1, <1>2, <1>3, SendCases DEF WorkTypes
<1>6. \A w \in Works : Job(w)'
  <2>1. CASE js = "gone"
    BY <1>1, <1>2, <2>1, SendCases, JobUnchanged DEF WorkInv
  <2>2. CASE js # "gone"
    BY <1>1, <1>2, <2>2, SendCases, JobAppend DEF WorkInv
  <2> QED BY <2>1, <2>2
<1>7. Holders' = {} /\ Closing' = {} /\ Senders' = Senders
  BY <1>3, <1>4
<1>8. ASSUME NEW u \in Threads
      PROVE  /\ thread'[u].pc \in {"call_count", "call_send", "call_notify", "release_sub"}
                  => thread'[u].holds
             /\ thread'[u].pc = "release_send" => ~ thread'[u].holds
  BY <1>3 DEF WorkInv, Ownership
<1>9. CASE js = "gone"
  <2>1. chan' = chan /\ Finalizers' = {}
    BY <1>1, <1>2, <1>4, <1>9, SendCases DEF Finalizers
  <2>2. Counts'
    BY <1>1, <1>3, <1>7, <1>9, <2>1 DEF WorkInv, Counts
  <2>3. Ownership'
    BY <1>1, <1>4, <1>7, <1>8, <2>1 DEF Ownership
  <2> QED BY <1>5, <1>6, <2>2, <2>3 DEF WorkInv
<1>10. CASE js # "gone"
  <2>1. chan' = Append(chan, FinalizeClosure) /\ chan \in Seq(Closures)
    BY <1>1, <1>2, <1>10, SendCases DEF WorkTypes
  <2>2. /\ Len(chan) \in Nat /\ Len(chan') = Len(chan) + 1 /\ chan'[Len(chan) + 1] = FinalizeClosure
        /\ \A i \in 1..Len(chan) : chan'[i] = chan[i]
    BY <1>2, <2>1, AppendedItem
  <2>3. Finalizers' = {Len(chan) + 1}
    BY <1>2, <1>4, <2>2 DEF Finalizers
  <2>4. Counts'
    <3>1. Cardinality(Positions(chan', {CallClosure})) = Cardinality(Positions(chan, {CallClosure}))
      BY <1>2, <2>1, PositionsAppend
    <3> QED BY <1>1, <1>3, <1>7, <1>10, <3>1 DEF WorkInv, Counts
  <2>5. Ownership'
    <3>1. tsfn'.live /\ \A j \in 1..Len(chan') : j <= Len(chan) + 1
      BY <1>1, <1>4, <2>2
    <3> QED BY <1>7, <1>8, <2>3, <3>1 DEF Ownership
  <2> QED BY <1>5, <1>6, <2>4, <2>5 DEF WorkInv
<1> QED BY <1>9, <1>10

(***************************************************************************)
(* The isolate's thread runs the first closure.                            *)
(***************************************************************************)
LEMMA DrainStep ==
  ASSUME WorkInv, drain_napi_work
  PROVE  WorkInv'
<1> DEFINE h == Head(chan)
           n == Len(chan)
<1>1. /\ js = "draining" /\ chan # <<>> /\ chan' = Tail(chan)
      /\ UNCHANGED <<thread, permit, js, calls>> /\ WorkTypes
  BY DEF drain_napi_work, WorkInv
<1>2. /\ chan \in Seq(Closures) /\ chan' \in Seq(Closures) /\ h = chan[1] /\ h \in Closures
      /\ n \in Nat \ {0} /\ Len(chan') = n - 1
      /\ \A i \in 1..(n - 1) : chan'[i] = chan[i + 1]
  BY <1>1, TailItems DEF WorkTypes
<1>3. Cardinality(Positions(chan', {CallClosure})) =
        IF h = CallClosure THEN Cardinality(Positions(chan, {CallClosure})) - 1
        ELSE Cardinality(Positions(chan, {CallClosure}))
  BY <1>1, <1>2, PositionsTail
<1>4. Holders' = Holders /\ Senders' = Senders /\ Closing' = Closing
  BY <1>1 DEF Holders, Senders, Closing
<1>5. \A i \in 1..Len(chan') : i + 1 \in 1..n /\ chan'[i] = chan[i + 1] /\ i \in Nat
  BY <1>2
<1>6. /\ \A i \in Finalizers' : i + 1 \in Finalizers /\ i \in Nat
      /\ Finalizers = {} => Finalizers' = {}
  BY <1>5 DEF Finalizers
<1>7. \/ h.kind = "complete" /\ h.work \in Works /\ h # CallClosure
      \/ h = CallClosure /\ h.kind = "call"
      \/ h = FinalizeClosure /\ h.kind = "finalize" /\ h # CallClosure
  BY <1>2 DEF Closures, CompleteClosures, CallClosure, FinalizeClosure
<1> HIDE DEF h, n
<1>8. ASSUME NEW i \in Finalizers', NEW j \in 1..Len(chan'), ReadsFunction(chan'[j]) PROVE j <= i
  <2>1. i + 1 \in Finalizers /\ i \in Nat
    BY <1>6
  <2>2. j + 1 \in 1..n /\ ReadsFunction(chan[j + 1]) /\ j \in Nat
    BY <1>5, <1>8 DEF ReadsFunction
  <2>3. j + 1 <= i + 1
    BY <2>1, <2>2 DEF WorkInv, Ownership, n
  <2> QED BY <2>1, <2>2, <2>3
<1>9. CASE h.kind = "complete"
  <2> DEFINE v == h.work
  <2>1. /\ v \in Works /\ h # CallClosure /\ UNCHANGED tsfn
        /\ work' = [work EXCEPT ![v] = [work[v] EXCEPT !.completed = @ + 1]]
    BY <1>7, <1>9 DEF drain_napi_work, RunComplete, SetWork, h, CallClosure
  <2>2. work \in [Works -> WorkRecord] /\ work[v] \in WorkRecord
    BY <1>1, <2>1 DEF WorkTypes
  <2>3. /\ work' \in [Works -> WorkRecord]
        /\ work'[v] = [work[v] EXCEPT !.completed = @ + 1]
        /\ \A w \in Works : w # v => work'[w] = work[w]
    BY <2>1, <2>2 DEF WorkRecord
  <2>4. WorkTypes'
    BY <1>1, <1>2, <2>1, <2>3 DEF WorkTypes
  <2>5. ASSUME NEW w \in Works PROVE Job(w)'
    <3>1. CASE w = v
      BY <1>1, <1>9, <2>1, <2>3, <3>1, JobTail DEF WorkInv, h
    <3>2. CASE w # v
      BY <1>1, <1>9, <2>1, <2>3, <3>2, JobTail DEF WorkInv, h
    <3> QED BY <3>1, <3>2
  <2>6. Counts'
    BY <1>1, <1>3, <1>4, <2>1 DEF WorkInv, Counts
  <2>7. \A j \in 1..Len(chan') : ReadsFunction(chan'[j]) => j + 1 \in 1..n /\ ReadsFunction(chan[j + 1])
    BY <1>5 DEF ReadsFunction
  <2>8. Ownership'
    BY <1>1, <1>4, <1>6, <1>8, <2>1, <2>7 DEF WorkInv, Ownership, n
  <2> QED BY <2>4, <2>5, <2>6, <2>8 DEF WorkInv
<1>10. CASE h = CallClosure
  <2>1. h.kind = "call" /\ work' = work /\ tsfn' = [tsfn EXCEPT !.queued = @ - 1] /\ tsfn \in TsfnRecord
    <3>1. h.kind = "call"
      BY <1>10 DEF CallClosure
    <3>2. RunCall
      BY <3>1 DEF drain_napi_work, h
    <3> QED BY <1>1, <3>1, <3>2 DEF RunCall, WorkTypes
  <2>2. /\ tsfn' \in TsfnRecord /\ tsfn'.thread_count = tsfn.thread_count
        /\ tsfn'.queued = tsfn.queued - 1 /\ tsfn'.live = tsfn.live
    BY <2>1 DEF TsfnRecord
  <2>3. WorkTypes'
    BY <1>1, <1>2, <2>1, <2>2 DEF WorkTypes
  <2>4. \A w \in Works : Job(w)'
    BY <1>1, <2>1, JobTail DEF WorkInv, h
  <2>5. tsfn.live
    <3>1. 1 \in 1..Len(chan) /\ ReadsFunction(chan[1])
      BY <1>2, <2>1 DEF ReadsFunction, n
    <3> QED BY <3>1 DEF WorkInv, Ownership
  <2>6. Counts'
    <3>1. Cardinality(Senders) \in Nat /\ Cardinality(Positions(chan, {CallClosure})) \in Nat
      BY <1>2, ThreadFinite, PositionsFinite
    <3> QED BY <1>1, <1>3, <1>4, <1>10, <2>2, <3>1 DEF WorkInv, Counts
  <2>7. Ownership'
    BY <1>1, <1>4, <1>6, <1>8, <2>2, <2>5 DEF WorkInv, Ownership
  <2> QED BY <2>3, <2>4, <2>6, <2>7 DEF WorkInv
<1>11. CASE h = FinalizeClosure
  <2>1. /\ h.kind = "finalize" /\ h # CallClosure /\ work' = work
        /\ tsfn' = [tsfn EXCEPT !.live = FALSE] /\ tsfn \in TsfnRecord
    <3>1. h.kind = "finalize" /\ h # CallClosure
      BY <1>11 DEF FinalizeClosure, CallClosure
    <3>2. RunFinalize
      BY <3>1 DEF drain_napi_work, h
    <3> QED BY <1>1, <3>1, <3>2 DEF RunFinalize, WorkTypes
  <2>2. /\ tsfn' \in TsfnRecord /\ tsfn'.thread_count = tsfn.thread_count
        /\ tsfn'.queued = tsfn.queued /\ tsfn'.live = FALSE
    BY <2>1 DEF TsfnRecord
  <2>3. WorkTypes'
    BY <1>1, <1>2, <2>1, <2>2 DEF WorkTypes
  <2>4. \A w \in Works : Job(w)'
    BY <1>1, <2>1, JobTail DEF WorkInv, h
  <2>5. 1 \in Finalizers
    BY <1>2, <2>1 DEF Finalizers, n
  <2>6. \A j \in 1..n : ReadsFunction(chan[j]) => j <= 1
    BY <2>5 DEF WorkInv, Ownership, n
  <2>7. Holders = {} /\ Closing = {} /\ Senders = {}
    BY <2>5 DEF WorkInv, Ownership, Holders, Senders
  <2>8. \A j \in 1..Len(chan') : ~ ReadsFunction(chan'[j])
    <3> SUFFICES ASSUME NEW j \in 1..Len(chan'), ReadsFunction(chan'[j]) PROVE FALSE
      OBVIOUS
    <3>1. j + 1 \in 1..n /\ ReadsFunction(chan[j + 1]) /\ j \in Nat /\ j >= 1
      BY <1>2, <1>5 DEF ReadsFunction
    <3> QED BY <2>6, <3>1
  <2>9. Finalizers' = {}
    BY <2>8 DEF Finalizers, ReadsFunction
  <2>10. Positions(chan, {CallClosure}) = {}
    <3> SUFFICES ASSUME NEW j \in 1..n, chan[j] = CallClosure PROVE FALSE
      BY <1>2 DEF Positions, n
    <3>1. ReadsFunction(chan[j]) /\ j \in Nat
      BY <1>2 DEF ReadsFunction, CallClosure
    <3>2. j = 1
      BY <1>2, <2>6, <3>1
    <3> QED BY <1>2, <2>1, <3>2
  <2>11. tsfn.queued = 0
    <3>1. tsfn.queued = Cardinality(Senders) + Cardinality(Positions(chan, {CallClosure}))
      BY <1>1 DEF WorkInv, Counts
    <3>2. Cardinality(Senders) = 0 /\ Cardinality(Positions(chan, {CallClosure})) = 0
      BY <2>7, <2>10, FS_EmptySet
    <3> QED BY <3>1, <3>2
  <2>12. Counts'
    BY <1>1, <1>3, <1>4, <2>1, <2>2 DEF WorkInv, Counts
  <2>13. \A t \in Threads : /\ thread[t].pc \in {"call_count", "call_send", "call_notify", "release_sub"}
                                 => thread[t].holds
                            /\ thread[t].pc = "release_send" => ~ thread[t].holds
    BY DEF WorkInv, Ownership
  <2>14. Ownership'
    BY <1>1, <1>4, <2>2, <2>7, <2>8, <2>9, <2>11, <2>13 DEF Ownership
  <2> QED BY <2>3, <2>4, <2>12, <2>14 DEF WorkInv
<1> QED BY <1>7, <1>9, <1>10, <1>11

(***************************************************************************)
(* The isolate parks, is woken, and is dropped with its channel.           *)
(***************************************************************************)
LEMMA ParkStep ==
  ASSUME WorkInv, WorkPark \/ WorkWake
  PROVE  WorkInv'
<1>1. /\ UNCHANGED <<work, tsfn, thread, chan>>
      /\ js # "gone" /\ js' # "gone" /\ js' \in {"draining", "parked", "gone"}
  BY DEF WorkPark, WorkWake, tsfnVars
<1>2. WorkTypes'
  BY <1>1 DEF WorkInv, WorkTypes
<1>3. \A w \in Works : Job(w)'
  BY <1>1, JobUnchanged DEF WorkInv
<1>4. Holders' = Holders /\ Senders' = Senders /\ Closing' = Closing /\ Finalizers' = Finalizers
  BY <1>1 DEF Holders, Senders, Closing, Finalizers
<1>5. Counts'
  BY <1>1, <1>4 DEF WorkInv, Counts
<1>6. Ownership'
  BY <1>1, <1>4 DEF WorkInv, Ownership
<1> QED BY <1>2, <1>3, <1>5, <1>6 DEF WorkInv

LEMMA DropStep ==
  ASSUME WorkInv, EngineDrops
  PROVE  WorkInv'
<1>1. UNCHANGED <<work, tsfn, thread>> /\ js' = "gone" /\ chan' = <<>>
  BY DEF EngineDrops, tsfnVars
<1>2. chan' \in Seq(Closures) /\ Len(chan') = 0
  BY <1>1
<1>3. WorkTypes'
  BY <1>1, <1>2 DEF WorkInv, WorkTypes
<1>4. ASSUME NEW w \in Works PROVE Job(w)'
  <2>1. Sent(w)' = {}
    BY <1>2 DEF Sent
  <2> QED BY <1>1, <2>1 DEF WorkInv, Job
<1>5. Holders' = Holders /\ Senders' = Senders /\ Closing' = Closing /\ Finalizers' = {}
  BY <1>1, <1>2 DEF Holders, Senders, Closing, Finalizers
<1>6. Counts'
  BY <1>1, <1>5 DEF WorkInv, Counts
<1>7. Ownership'
  BY <1>1, <1>2, <1>5 DEF WorkInv, Ownership
<1> QED BY <1>3, <1>4, <1>6, <1>7 DEF WorkInv

LEMMA WorkStepInv == WorkInv /\ [WorkNext]_workVars => WorkInv'
<1> SUFFICES ASSUME WorkInv, [WorkNext]_workVars PROVE WorkInv'
  OBVIOUS
<1>1. CASE UNCHANGED workVars
  <2>1. UNCHANGED <<work, tsfn, thread, chan, js>>
    BY <1>1 DEF workVars
  <2>2. WorkTypes'
    BY <2>1 DEF WorkInv, WorkTypes
  <2>3. \A w \in Works : Job(w)'
    BY <2>1, JobUnchanged DEF WorkInv
  <2> QED BY <2>1, <2>2, <2>3, FunctionUnchanged DEF WorkInv
<1>2. ASSUME NEW w \in Works,
             \/ napi_queue_async_work(w) \/ cancel(w) \/ drop_raw(w)
             \/ TaskReads(w) \/ TaskExecutes(w) \/ TaskSends(w) \/ TaskNotifies(w)
      PROVE  WorkInv'
  BY <1>2, JobSteps, TaskSendsStep
<1>3. ASSUME NEW t \in Threads,
             \/ \E other \in Threads \ {t} : napi_acquire_threadsafe_function(t, other)
             \/ CallChecks(t) \/ CallCounts(t) \/ CallSends(t) \/ CallNotifies(t)
             \/ ReleaseAborts(t) \/ ReleaseCounts(t) \/ ReleaseSends(t)
      PROVE  WorkInv'
  BY <1>3, AcquireStep, CallChecksStep, CallCountsStep, CallSendsStep, ReleaseCountsStep,
     ReleaseSendsStep
<1>4. CASE drain_napi_work \/ WorkPark \/ WorkWake \/ EngineDrops
  BY <1>4, DrainStep, ParkStep, DropStep
<1> QED BY <1>1, <1>2, <1>3, <1>4 DEF WorkNext

(***************************************************************************)
(* The invariant says what TsfnSafe asks.                                  *)
(***************************************************************************)
LEMMA WorkInvSafe == WorkInv => TsfnSafe
<1> SUFFICES ASSUME WorkInv PROVE TsfnSafe
  OBVIOUS
<1>1. chan \in Seq(Closures) /\ DOMAIN chan = 1..Len(chan)
  BY DEF WorkInv, WorkTypes
<1>2. ASSUME ~ tsfn.live
      PROVE  /\ \A i \in DOMAIN chan : ~ ReadsFunction(chan[i])
             /\ \A t \in Threads : ~ Inside(t)
             /\ tsfn.queued = 0
  <2>1. Holders = {} /\ Closing = {}
    BY <1>2 DEF WorkInv, Ownership
  <2>2. ASSUME NEW t \in Threads PROVE ~ thread[t].holds /\ thread[t].pc = "idle"
    <3>1. thread[t] \in ThreadRecord /\ ~ thread[t].holds /\ thread[t].pc # "release_send"
      BY <2>1 DEF WorkInv, WorkTypes, Holders, Closing
    <3> QED BY <3>1 DEF WorkInv, Ownership, ThreadRecord
  <2> QED BY <1>1, <1>2, <2>2 DEF WorkInv, Ownership, Inside
<1>3. ASSUME NEW w \in Works
      PROVE  /\ Cardinality(Completions(w)) + work[w].completed <= 1
             /\ work[w].freed => /\ Completions(w) = {}
                                 /\ work[w].pc \in {"new", "sent", "notified"}
             /\ \A i \in Completions(w) : (chan[i].status = "Ok") = work[w].executed
  <2>1. Completions(w) = Sent(w)
    BY <1>1 DEF Completions, Sent
  <2>2. Job(w) /\ work[w] \in WorkRecord
    BY DEF WorkInv, WorkTypes
  <2>3. Cardinality(Sent(w)) + work[w].completed <= 1
    <3>1. CASE Sent(w) = {}
      <4>1. Cardinality(Sent(w)) = 0
        BY <3>1, FS_EmptySet
      <4>2. work[w].completed \in {0, 1}
        BY <2>2 DEF Job
      <4> QED BY <4>1, <4>2
    <3>2. CASE Sent(w) # {}
      <4>1. PICK i \in Sent(w) : TRUE
        BY <3>2
      <4>2. Sent(w) = {i}
        BY <2>2, <4>1 DEF Job
      <4>3. Cardinality(Sent(w)) = 1
        BY <4>2, FS_Singleton
      <4>4. work[w].completed = 0
        BY <2>2, <3>2 DEF Job
      <4> QED BY <4>3, <4>4
    <3> QED BY <3>1, <3>2
  <2>4. work[w].freed => Sent(w) = {} /\ work[w].pc \in {"new", "sent", "notified"}
    BY <2>2 DEF Job, Unsent, WorkRecord
  <2>5. \A i \in Sent(w) : (chan[i].status = "Ok") = work[w].executed
    BY <2>2 DEF Job
  <2> QED BY <2>1, <2>3, <2>4, <2>5
<1> QED BY <1>2, <1>3 DEF TsfnSafe

WorkSpec == WorkInit /\ [][WorkNext]_workVars

(***************************************************************************)
(* Each piece of work and the function stand as the isolate, the pool and  *)
(* the addon's threads left them (async_work.rs, threadsafe.rs).           *)
(***************************************************************************)
THEOREM WorkInvariance == WorkSpec => []WorkInv
<1> QED BY WorkInitInv, WorkStepInv, PTL DEF WorkSpec

(***************************************************************************)
(* Whatever the addon's threads, the blocking pool and the isolate do, in  *)
(* whatever order: the box of a threadsafe function is freed with nothing  *)
(* left that reads it, and asynchronous work completes once.               *)
(***************************************************************************)
THEOREM PointersHold == WorkSpec => []TsfnSafe
<1> QED BY WorkInvSafe, WorkInvariance, PTL

-----------------------------------------------------------------------------
(***************************************************************************)
(* HostHandles.  Types of what the invariant speaks of.                    *)
(***************************************************************************)
ResourceRecord ==
  [table : Tables, id : 1..IdMax, known : BOOLEAN, nth : Nat, wire : Seq(Nat), chunks : Nat,
   taken : Nat, got : Seq(Nat), over : BOOLEAN, ended : BOOLEAN, broken : BOOLEAN,
   signalled : BOOLEAN, reaped : BOOLEAN]

TaskRecord ==
  [op : {"open", "accept", "shutdown", "write", "end", "read", "wait"}, table : Tables, res : Nat,
   pc : {"spawned", "locked", "sent", "settled"}, chunk : Nat, left : Nat]

HandleTypes ==
  /\ next_id \in [Tables -> 1..IdMax]
  /\ table \in [Tables -> [1..IdMax -> Nat]]
  /\ res \in Seq(ResourceRecord)
  /\ task \in Seq(TaskRecord)
  /\ done \in Seq(Nat)

(***************************************************************************)
(* A slot holds a resource of its table, under the id it was inserted with;*)
(* so a resource is in one slot at most.                                   *)
(***************************************************************************)
Slots ==
  \A tb \in Tables, id \in 1..IdMax : table[tb][id] # 0 =>
    /\ table[tb][id] \in 1..Len(res)
    /\ res[table[tb][id]].table = tb
    /\ res[table[tb][id]].id = id

Unslotted(r) == \A tb \in Tables, id \in 1..IdMax : table[tb][id] # r

(***************************************************************************)
(* Ids go round: the next one is as far ahead of an earlier one as there   *)
(* were insertions since, as long as those are fewer than IdMax.           *)
(***************************************************************************)
Inserted(tb) == {r \in 1..Len(res) : res[r].table = tb}

Since(r) == Cardinality(Inserted(res[r].table)) + 1 - res[r].nth

Rounds ==
  \A r \in 1..Len(res) :
    /\ Since(r) >= 1
    /\ Since(r) < IdMax => next_id[res[r].table] \in {res[r].id + Since(r), res[r].id + Since(r) - IdMax}
    /\ Entry(r) \notin {0, r} => res[Entry(r)].nth - res[r].nth >= IdMax

(***************************************************************************)
(* A task works on a resource of the table its call named; one that shuts  *)
(* a TLS stream down has it out of the table.                              *)
(***************************************************************************)
Owned ==
  \A t \in 1..Len(task) : task[t].op # "open" =>
    /\ task[t].res \in 1..Len(res)
    /\ task[t].table = res[task[t].res].table
    /\ task[t].op = "write" => task[t].table # "zlib"
    /\ task[t].op = "shutdown" => Unslotted(task[t].res)

(***************************************************************************)
(* Who has had the lock finds those before it through.                     *)
(***************************************************************************)
Turns ==
  \A t \in 1..Len(task) : task[t].pc # "spawned" =>
    \A u \in 1..(t - 1) : SameLock(u, t) => ~ Running(u)

(***************************************************************************)
(* What is on the wire are the pieces of writes: what a write has left is  *)
(* what is not there, and a write that is through left some only on a      *)
(* resource that is broken.                                                *)
(***************************************************************************)
Writes(t) ==
  /\ Pieces(task[t].res, t) = WriteLen - task[t].left
  /\ Running(t) => task[t].left >= 1
  /\ ~ Running(t) => task[t].left = 0 \/ res[task[t].res].broken

Wires(r) ==
  LET w == res[r].wire
  IN  /\ \A i \in 1..Len(w) : /\ w[i] \in 1..Len(task)
                              /\ task[w[i]].op = "write" /\ task[w[i]].res = r
                              /\ task[w[i]].pc # "spawned"
      /\ \A i, j \in 1..Len(w) : i < j =>
           w[i] <= w[j] /\ (w[i] < w[j] => task[w[i]].left = 0)

Written ==
  /\ \A t \in 1..Len(task) : task[t].op = "write" => Writes(t)
  /\ \A r \in 1..Len(res) : res[r].table # "zlib" => Wires(r)

(***************************************************************************)
(* An input that is closed has no call to come, or one that was called to  *)
(* close it.                                                               *)
(***************************************************************************)
EndsWell(r) ==
  /\ \A t \in 1..Len(task) : task[t].res = r /\ task[t].op = "write" /\ Running(t) =>
       \E u \in 1..(t - 1) : task[u].res = r /\ task[u].op = "end"
  /\ \/ \E u \in 1..Len(task) : task[u].res = r /\ task[u].op = "end"
     \/ Unslotted(r)

EndedWell == \A r \in 1..Len(res) : res[r].table # "zlib" /\ res[r].ended => EndsWell(r)

(***************************************************************************)
(* The completions of reads that wait to be settled bring, in order, the   *)
(* chunks that were taken and that JavaScript has not been given.          *)
(***************************************************************************)
Bringing(r) ==
  {i \in 1..Len(done) :
     task[done[i]].op = "read" /\ task[done[i]].res = r /\ task[done[i]].chunk # 0}

Brought(i) == task[done[i]].chunk

ReadsOf(r) ==
  /\ \A i \in 1..Len(res[r].got) : res[r].got[i] = i
  /\ Len(res[r].got) <= res[r].taken
  /\ \A i \in Bringing(r) : Brought(i) > Len(res[r].got) /\ Brought(i) <= res[r].taken
  /\ \A i, j \in Bringing(r) : i < j => Brought(i) < Brought(j)
  /\ \A c \in (Len(res[r].got) + 1)..res[r].taken : \E i \in Bringing(r) : Brought(i) = c

Through ==
  /\ \A i \in 1..Len(done) : done[i] \in 1..Len(task) /\ ~ Running(done[i])
  /\ \A t \in 1..Len(task) : Running(t) => task[t].chunk = 0

HandleInv ==
  /\ HandleTypes /\ Slots /\ Rounds /\ Owned /\ Turns /\ Written /\ EndedWell /\ Through
  /\ \A r \in 1..Len(res) : ReadsOf(r)

(***************************************************************************)
(* One item of a sequence changes.                                         *)
(***************************************************************************)
LEMMA ChangedItem ==
  ASSUME NEW S, NEW s \in Seq(S), NEW k, NEW e, k \in 1..Len(s) => e \in S,
         NEW q, q = [s EXCEPT ![k] = e]
  PROVE  /\ q \in Seq(S) /\ Len(q) = Len(s) /\ Len(s) \in Nat
         /\ k \in 1..Len(s) => q[k] = e
         /\ \A j \in 1..Len(s) : j # k => q[j] = s[j]
<1>1. Len(s) \in Nat /\ DOMAIN s = 1..Len(s)
  OBVIOUS
<1>2. CASE k \in 1..Len(s)
  BY <1>1, <1>2, ExceptSeq
<1>3. CASE k \notin 1..Len(s)
  <2>1. q = s
    BY <1>1, <1>3
  <2> QED BY <1>1, <1>3, <2>1
<1> QED BY <1>2, <1>3

LEMMA HandleInitInv == HandleInit => HandleInv
<1> SUFFICES ASSUME HandleInit PROVE HandleInv
  OBVIOUS
<1>1. /\ Len(res) = 0 /\ Len(task) = 0 /\ Len(done) = 0
      /\ res \in Seq(ResourceRecord) /\ task \in Seq(TaskRecord) /\ done \in Seq(Nat)
      /\ \A tb \in Tables, id \in 1..IdMax : table[tb][id] = 0
  BY DEF HandleInit
<1>2. HandleTypes
  BY <1>1, HandleAssumption DEF HandleInit, HandleTypes
<1>3. \A i \in 1..0 : FALSE
  OBVIOUS
<1> QED BY <1>1, <1>2, <1>3 DEF HandleInv, Slots, Rounds, Owned, Turns, Written, EndedWell, Through

(***************************************************************************)
(* What a step leaves of the resources and of the tasks.                   *)
(***************************************************************************)
KeptResource(r) ==
  /\ res'[r].table = res[r].table /\ res'[r].id = res[r].id /\ res'[r].nth = res[r].nth
  /\ Unslotted(r) => Unslotted(r)'

FreshResource(r) ==
  /\ res'[r].wire = <<>> /\ res'[r].got = <<>> /\ res'[r].taken = 0 /\ ~ res'[r].ended

KeptTask(t) ==
  /\ task'[t].op = task[t].op /\ task'[t].table = task[t].table /\ task'[t].res = task[t].res
  /\ Running(t)' => Running(t)
  /\ task'[t].pc = "spawned" => task[t].pc = "spawned"
  /\ task[t].pc = "spawned" /\ task'[t].pc # "spawned" => Lane(t) = "none" \/ Turn(t)
  /\ IF Running(t)' THEN task'[t].chunk = 0
     ELSE Running(t) \/ task'[t].chunk = task[t].chunk

FreshTask(t) ==
  /\ task'[t].pc = "spawned" /\ task'[t].chunk = 0
  /\ task'[t].op = "write" => task'[t].left = WriteLen
  /\ task'[t].op # "open" =>
       /\ task'[t].res \in 1..Len(res) /\ task'[t].table = res[task'[t].res].table
       /\ task'[t].op = "write" => task'[t].table # "zlib"
       /\ task'[t].op = "shutdown" => Unslotted(task[t].res)'
       /\ ~ Unslotted(task'[t].res)

KeptAll ==
  /\ Len(res') \in Nat /\ Len(res') >= Len(res) /\ Len(task') \in Nat /\ Len(task') >= Len(task)
  /\ \A r \in 1..Len(res) : KeptResource(r)
  /\ \A r \in 1..Len(res') : r \notin 1..Len(res) => FreshResource(r)
  /\ \A t \in 1..Len(task) : KeptTask(t)
  /\ \A t \in 1..Len(task') : t \notin 1..Len(task) => FreshTask(t)

LEMMA Lengths ==
  ASSUME HandleTypes
  PROVE  /\ Len(res) \in Nat /\ Len(task) \in Nat /\ Len(done) \in Nat
         /\ DOMAIN res = 1..Len(res) /\ DOMAIN task = 1..Len(task) /\ DOMAIN done = 1..Len(done)
         /\ \A r \in 1..Len(res) : res[r] \in ResourceRecord
         /\ \A t \in 1..Len(task) : task[t] \in TaskRecord
BY DEF HandleTypes

LEMMA TurnsKept ==
  ASSUME HandleInv, KeptAll
  PROVE  Turns'
<1>1. Len(task) \in Nat /\ Len(task') \in Nat
  BY Lengths DEF HandleInv, KeptAll
<1>2. \A t \in 1..Len(task) : Lane(t)' = Lane(t) /\ task'[t].res = task[t].res
  <2> TAKE t \in 1..Len(task)
  <2>1. /\ task'[t].op = task[t].op /\ task'[t].table = task[t].table
        /\ task'[t].res = task[t].res
    BY DEF KeptAll, KeptTask
  <2>2. Lane(t)' = Lane(t)
    <3>1. task[t].op \in {"open", "accept", "shutdown", "write", "end", "read", "wait"}
      BY Lengths DEF HandleInv, TaskRecord
    <3>2. CASE task[t].op \in {"open", "accept", "shutdown"}
      BY <2>1, <3>2 DEF Lane
    <3>3. CASE task[t].op \in {"write", "end"}
      BY <2>1, <3>3 DEF Lane
    <3>4. CASE task[t].op = "read"
      BY <2>1, <3>4 DEF Lane
    <3>5. CASE task[t].op = "wait"
      BY <2>1, <3>5 DEF Lane
    <3> QED BY <3>1, <3>2, <3>3, <3>4, <3>5
  <2> QED BY <2>1, <2>2
<1>3. \A t, u \in 1..Len(task) : SameLock(u, t)' => SameLock(u, t) /\ Lane(t) # "none"
  BY <1>2 DEF SameLock
<1> SUFFICES ASSUME NEW t \in 1..Len(task'), task'[t].pc # "spawned",
                    NEW u \in 1..(t - 1), SameLock(u, t)', Running(u)'
             PROVE  FALSE
  BY DEF Turns
<1>4. t \in 1..Len(task) /\ u \in 1..Len(task)
  BY <1>1 DEF KeptAll, FreshTask
<1>5. SameLock(u, t) /\ Lane(t) # "none" /\ Running(u)
  BY <1>3, <1>4 DEF KeptAll, KeptTask
<1>6. CASE task[t].pc # "spawned"
  BY <1>4, <1>5, <1>6 DEF HandleInv, Turns
<1>7. CASE task[t].pc = "spawned"
  BY <1>4, <1>5, <1>7 DEF KeptAll, KeptTask, Turn
<1> QED BY <1>6, <1>7

LEMMA OwnedKept ==
  ASSUME HandleInv, KeptAll
  PROVE  Owned'
<1>1. Len(res) \in Nat /\ Len(res') \in Nat /\ Len(res') >= Len(res)
  BY Lengths DEF HandleInv, KeptAll
<1> SUFFICES ASSUME NEW t \in 1..Len(task'), task'[t].op # "open"
             PROVE  /\ task'[t].res \in 1..Len(res')
                    /\ task'[t].table = res'[task'[t].res].table
                    /\ task'[t].op = "write" => task'[t].table # "zlib"
                    /\ task'[t].op = "shutdown" => Unslotted(task[t].res)'
  BY DEF Owned
<1>2. CASE t \in 1..Len(task)
  <2>1. task'[t].op = task[t].op /\ task'[t].table = task[t].table /\ task'[t].res = task[t].res
    BY <1>2 DEF KeptAll, KeptTask
  <2>2. /\ task[t].res \in 1..Len(res)
        /\ task[t].table = res[task[t].res].table
        /\ task[t].op = "write" => task[t].table # "zlib"
        /\ task[t].op = "shutdown" => Unslotted(task[t].res)
    BY <1>2, <2>1 DEF HandleInv, Owned
  <2>3. KeptResource(task[t].res)
    BY <2>2 DEF KeptAll
  <2> QED BY <1>1, <2>1, <2>2, <2>3 DEF KeptResource
<1>3. CASE t \notin 1..Len(task)
  <2>1. FreshTask(t)
    BY <1>3 DEF KeptAll
  <2>2. \A r \in 1..Len(res) : res'[r].table = res[r].table
    BY DEF KeptAll, KeptResource
  <2> QED BY <1>1, <2>1, <2>2 DEF FreshTask
<1> QED BY <1>2, <1>3

(***************************************************************************)
(* A step that adds nothing to a wire.                                     *)
(***************************************************************************)
LEMMA WrittenKept ==
  ASSUME HandleInv, KeptAll,
         \A r \in 1..Len(res) : res[r].table # "zlib" =>
           res'[r].wire = res[r].wire /\ (res[r].broken => res'[r].broken),
         \A t \in 1..Len(task) : task[t].op = "write" =>
           /\ task'[t].left = task[t].left
           /\ Running(t) /\ ~ Running(t)' => res'[task[t].res].broken
  PROVE  Written'
<1>1. /\ Len(res) \in Nat /\ Len(task) \in Nat /\ Len(res') \in Nat /\ Len(task') \in Nat
      /\ Len(res') >= Len(res) /\ Len(task') >= Len(task)
      /\ \A r \in 1..Len(res) : res[r] \in ResourceRecord
  BY Lengths DEF HandleInv, KeptAll
<1>2. ASSUME NEW r \in 1..Len(res'), res'[r].table # "zlib" PROVE Wires(r)'
  <2>1. CASE r \in 1..Len(res)
    <3>1. res'[r].wire = res[r].wire /\ res[r].table # "zlib"
      BY <1>2, <2>1 DEF KeptAll, KeptResource
    <3> DEFINE w == res[r].wire
    <3>2. /\ \A i \in 1..Len(w) : /\ w[i] \in 1..Len(task)
                                  /\ task[w[i]].op = "write" /\ task[w[i]].res = r
                                  /\ task[w[i]].pc # "spawned"
          /\ \A i, j \in 1..Len(w) : i < j =>
               w[i] <= w[j] /\ (w[i] < w[j] => task[w[i]].left = 0)
      BY <2>1, <3>1 DEF HandleInv, Written, Wires
    <3>3. ASSUME NEW i \in 1..Len(w)
          PROVE  /\ w[i] \in 1..Len(task')
                 /\ task'[w[i]].op = "write" /\ task'[w[i]].res = r
                 /\ task'[w[i]].pc # "spawned" /\ task'[w[i]].left = task[w[i]].left
      <4> DEFINE t == w[i]
      <4>1. t \in 1..Len(task) /\ task[t].op = "write" /\ task[t].res = r /\ task[t].pc # "spawned"
        BY <3>2
      <4> HIDE DEF t
      <4>2. KeptTask(t) /\ task'[t].left = task[t].left
        BY <4>1 DEF KeptAll
      <4>3. /\ t \in 1..Len(task') /\ task'[t].op = "write" /\ task'[t].res = r
            /\ task'[t].pc # "spawned"
        BY <1>1, <4>1, <4>2 DEF KeptTask
      <4> QED BY <4>2, <4>3 DEF t
    <3> HIDE DEF w
    <3>4. \A i, j \in 1..Len(w) : i < j =>
            w[i] <= w[j] /\ (w[i] < w[j] => task'[w[i]].left = 0)
      BY <3>2, <3>3
    <3>5. res'[r].wire = w
      BY <3>1 DEF w
    <3> QED BY <3>3, <3>4, <3>5 DEF Wires
  <2>2. CASE r \notin 1..Len(res)
    <3>1. Len(res'[r].wire) = 0
      BY <2>2 DEF KeptAll, FreshResource
    <3> QED BY <3>1 DEF Wires
  <2> QED BY <2>1, <2>2
<1>3. ASSUME NEW t \in 1..Len(task'), task'[t].op = "write" PROVE Writes(t)'
  <2>1. CASE t \in 1..Len(task)
    <3> DEFINE r == task[t].res
    <3>1. /\ task'[t].res = r /\ task[t].op = "write" /\ task'[t].left = task[t].left
          /\ Running(t)' => Running(t)
      BY <1>3, <2>1 DEF KeptAll, KeptTask
    <3>2. r \in 1..Len(res) /\ res[r].table # "zlib"
      BY <2>1, <3>1 DEF HandleInv, Owned
    <3>3. /\ Pieces(r, t) = WriteLen - task[t].left
          /\ Running(t) => task[t].left >= 1
          /\ ~ Running(t) => task[t].left = 0 \/ res[r].broken
      BY <2>1, <3>1 DEF HandleInv, Written, Writes
    <3>4. res'[r].wire = res[r].wire /\ (res[r].broken => res'[r].broken)
      BY <3>2
    <3>5. Pieces(task[t].res, t)' = Pieces(r, t)
      BY <3>1, <3>2, <3>4 DEF Pieces
    <3>6. Running(t) /\ ~ Running(t)' => res'[r].broken
      BY <2>1, <3>1
    <3>7. Pieces(task[t].res, t)' = WriteLen - task'[t].left
      BY <3>1, <3>3, <3>5
    <3> HIDE DEF r
    <3>8. Running(t)' => task'[t].left >= 1
      BY <3>1, <3>3
    <3>9. ~ Running(t)' => task'[t].left = 0 \/ res'[r].broken
      BY <3>1, <3>3, <3>4, <3>6
    <3> QED BY <3>1, <3>7, <3>8, <3>9 DEF Writes
  <2>2. CASE t \notin 1..Len(task)
    <3> DEFINE r == task'[t].res
    <3>1. /\ task'[t].left = WriteLen /\ Running(t)'
          /\ r \in 1..Len(res) /\ res[r].table # "zlib"
      BY <1>3, <2>2 DEF KeptAll, FreshTask, Running
    <3>2. res'[r].wire = res[r].wire
      BY <3>1
    <3>3. \A i \in DOMAIN res[r].wire : res[r].wire[i] \in 1..Len(task)
      <4>1. res[r].wire \in Seq(Nat)
        BY <1>1, <3>1 DEF ResourceRecord
      <4>2. DOMAIN res[r].wire = 1..Len(res[r].wire)
        BY <4>1
      <4>3. Wires(r)
        BY <3>1 DEF HandleInv, Written
      <4> QED BY <4>2, <4>3 DEF Wires
    <3>4. {i \in DOMAIN res[r].wire : res[r].wire[i] = t} = {}
      BY <2>2, <3>3
    <3>5. Pieces(task[t].res, t)' = 0
      <4>1. {i \in DOMAIN res'[r].wire : res'[r].wire[i] = t} = {}
        BY <3>2, <3>4
      <4> QED BY <4>1, FS_EmptySet DEF Pieces
    <3> HIDE DEF r
    <3> QED BY <3>1, <3>5, HandleAssumption DEF Writes
  <2> QED BY <2>1, <2>2
<1> QED BY <1>2, <1>3 DEF Written

(***************************************************************************)
(* An input that was closed before, and a step that closes none.           *)
(***************************************************************************)
LEMMA EndsKept ==
  ASSUME HandleInv, KeptAll, NEW r \in 1..Len(res), res[r].table # "zlib", res[r].ended
  PROVE  EndsWell(r)'
<1>1. /\ Len(task) \in Nat /\ Len(task') \in Nat /\ Len(task') >= Len(task)
  BY Lengths DEF HandleInv, KeptAll
<1>3. /\ \A t \in 1..Len(task) : task[t].res = r /\ task[t].op = "write" /\ Running(t) =>
           \E u \in 1..(t - 1) : task[u].res = r /\ task[u].op = "end"
      /\ \/ \E u \in 1..Len(task) : task[u].res = r /\ task[u].op = "end"
         \/ Unslotted(r)
  BY DEF HandleInv, EndedWell, EndsWell
<1>4. \A t \in 1..Len(task) : task'[t].res = task[t].res /\ task'[t].op = task[t].op
  BY DEF KeptAll, KeptTask
<1>5. ASSUME NEW t \in 1..Len(task'), task'[t].res = r, task'[t].op = "write", Running(t)'
      PROVE  \E u \in 1..(t - 1) : task'[u].res = r /\ task'[u].op = "end"
  <2>1. CASE t \in 1..Len(task)
    <3>1. task[t].res = r /\ task[t].op = "write" /\ Running(t)
      BY <1>4, <1>5, <2>1 DEF KeptAll, KeptTask
    <3>2. PICK u \in 1..(t - 1) : task[u].res = r /\ task[u].op = "end"
      BY <1>3, <2>1, <3>1
    <3>3. u \in 1..Len(task)
      BY <1>1, <2>1
    <3> QED BY <1>4, <3>2, <3>3
  <2>2. CASE t \notin 1..Len(task)
    <3>1. ~ Unslotted(r)
      BY <1>5, <2>2 DEF KeptAll, FreshTask
    <3>2. PICK u \in 1..Len(task) : task[u].res = r /\ task[u].op = "end"
      BY <1>3, <3>1
    <3>3. u \in 1..(t - 1)
      BY <1>1, <2>2
    <3> QED BY <1>4, <3>2, <3>3
  <2> QED BY <2>1, <2>2
<1>6. CASE Unslotted(r)
  BY <1>5, <1>6 DEF KeptAll, KeptResource, EndsWell
<1>7. CASE \E u \in 1..Len(task) : task[u].res = r /\ task[u].op = "end"
  <2>1. \E u \in 1..Len(task') : task'[u].res = r /\ task'[u].op = "end"
    BY <1>1, <1>4, <1>7
  <2> QED BY <1>5, <2>1 DEF EndsWell
<1> QED BY <1>3, <1>6, <1>7

LEMMA EndedKept ==
  ASSUME HandleInv, KeptAll,
         \A r \in 1..Len(res) : res[r].table # "zlib" /\ res'[r].ended => res[r].ended
  PROVE  EndedWell'
<1> SUFFICES ASSUME NEW r \in 1..Len(res'), res'[r].table # "zlib", res'[r].ended
             PROVE  EndsWell(r)'
  BY DEF EndedWell
<1>1. r \in 1..Len(res) /\ res[r].table # "zlib" /\ res[r].ended
  BY DEF KeptAll, KeptResource, FreshResource
<1> QED BY <1>1, EndsKept

(***************************************************************************)
(* A step that sends at most a completion that brings no chunk.            *)
(***************************************************************************)
LEMMA ReadsKept ==
  ASSUME HandleInv, KeptAll,
         \A r \in 1..Len(res) : res'[r].got = res[r].got /\ res'[r].taken = res[r].taken,
         \/ done' = done
         \/ \E t \in 1..Len(task) :
              /\ done' = Append(done, t) /\ ~ Running(t)'
              /\ task[t].op # "read" \/ task'[t].chunk = 0
  PROVE  Through' /\ \A r \in 1..Len(res') : ReadsOf(r)'
<1>1. /\ Len(task) \in Nat /\ Len(task') \in Nat /\ Len(task') >= Len(task)
      /\ Len(done) \in Nat /\ done \in Seq(Nat)
  BY Lengths DEF HandleInv, KeptAll, HandleTypes
<1>2. \A t \in 1..Len(task) : task'[t].res = task[t].res /\ task'[t].op = task[t].op
  BY DEF KeptAll, KeptTask
<1> DEFINE Ready(t) == task'[t].pc \notin {"spawned", "locked"}
<1>3. \A i \in 1..Len(done) : /\ done[i] \in 1..Len(task) /\ Ready(done[i])
                              /\ task'[done[i]].chunk = task[done[i]].chunk
  <2> TAKE i \in 1..Len(done)
  <2>1. done[i] \in 1..Len(task) /\ ~ Running(done[i])
    BY DEF HandleInv, Through
  <2>2. KeptTask(done[i])
    BY <2>1 DEF KeptAll
  <2> QED BY <2>1, <2>2 DEF KeptTask, Running
<1>4. /\ Len(done') \in Nat /\ Len(done') >= Len(done)
      /\ \A i \in 1..Len(done) : done'[i] = done[i]
      /\ \A i \in 1..Len(done') : i \notin 1..Len(done) =>
           /\ done'[i] \in 1..Len(task) /\ Ready(done'[i])
           /\ task[done'[i]].op # "read" \/ task'[done'[i]].chunk = 0
  <2>1. CASE done' = done
    BY <1>1, <2>1
  <2>2. CASE done' # done
    <3>1. PICK t \in 1..Len(task) :
            /\ done' = Append(done, t) /\ ~ Running(t)'
            /\ task[t].op # "read" \/ task'[t].chunk = 0
      BY <2>2
    <3>2. t \in Nat /\ Ready(t)
      BY <1>1, <3>1 DEF Running
    <3>3. /\ Len(done') = Len(done) + 1 /\ done'[Len(done) + 1] = t
          /\ \A i \in 1..Len(done) : done'[i] = done[i]
      BY <1>1, <3>1, <3>2, AppendedItem
    <3>4. \A i \in 1..Len(done') : i \notin 1..Len(done) => i = Len(done) + 1
      BY <1>1, <3>3
    <3> HIDE DEF Ready
    <3> QED BY <1>1, <3>1, <3>2, <3>3, <3>4
  <2> QED BY <2>1, <2>2
<1>5. Through'
  <2>1. ASSUME NEW t \in 1..Len(task'), Running(t)' PROVE task'[t].chunk = 0
    BY <2>1 DEF KeptAll, KeptTask, FreshTask
  <2>2. ASSUME NEW i \in 1..Len(done') PROVE done'[i] \in 1..Len(task') /\ Ready(done'[i])
    <3> HIDE DEF Ready
    <3>1. done'[i] \in 1..Len(task) /\ Ready(done'[i])
      <4>1. CASE i \in 1..Len(done)
        <5>1. done'[i] = done[i]
          BY <1>4, <4>1
        <5> QED BY <1>3, <4>1, <5>1
      <4>2. CASE i \notin 1..Len(done)
        BY <1>4, <4>2
      <4> QED BY <4>1, <4>2
    <3> QED BY <1>1, <3>1
  <2>3. \A i \in 1..Len(done') : done'[i] \in 1..Len(task') /\ ~ Running(done[i])'
    BY <2>2 DEF Running
  <2> QED BY <2>1, <2>3 DEF Through
<1>6. ASSUME NEW r \in 1..Len(res') PROVE ReadsOf(r)'
  <2>1. Bringing(r)' = Bringing(r) /\ \A i \in Bringing(r) : Brought(i)' = Brought(i)
    <3>1. ASSUME NEW i \in 1..Len(done)
          PROVE  /\ task'[done'[i]].op = task[done[i]].op /\ task'[done'[i]].res = task[done[i]].res
                 /\ task'[done'[i]].chunk = task[done[i]].chunk
      BY <1>2, <1>3, <1>4
    <3>2. ASSUME NEW i \in 1..Len(done'), i \notin 1..Len(done)
          PROVE  task'[done'[i]].op # "read" \/ task'[done'[i]].chunk = 0
      BY <1>2, <1>4, <3>2
    <3>3. \A i \in 1..Len(done) : i \in 1..Len(done')
      BY <1>1, <1>4
    <3> QED BY <3>1, <3>2, <3>3 DEF Bringing, Brought
  <2>2. CASE r \in 1..Len(res)
    <3>1. res'[r].got = res[r].got /\ res'[r].taken = res[r].taken /\ ReadsOf(r)
      BY <2>2 DEF HandleInv
    <3> QED BY <2>1, <3>1 DEF ReadsOf
  <2>3. CASE r \notin 1..Len(res)
    <3>1. res'[r].got = <<>> /\ res'[r].taken = 0
      BY <2>3 DEF KeptAll, FreshResource
    <3>2. Bringing(r) = {}
      <4> SUFFICES ASSUME NEW i \in Bringing(r) PROVE FALSE
        OBVIOUS
      <4>1. done[i] \in 1..Len(task) /\ task[done[i]].op = "read" /\ task[done[i]].res = r
        BY <1>3 DEF Bringing
      <4> QED BY <2>3, <4>1 DEF HandleInv, Owned
    <3>3. Len(res'[r].got) = 0 /\ \A c \in 1..0 : FALSE
      BY <3>1
    <3> QED BY <2>1, <3>1, <3>2, <3>3 DEF ReadsOf
  <2> QED BY <2>2, <2>3
<1> QED BY <1>5, <1>6

(***************************************************************************)
(* A step that inserts nothing.                                            *)
(***************************************************************************)
SameResource(r) ==
  res'[r].table = res[r].table /\ res'[r].id = res[r].id /\ res'[r].nth = res[r].nth

LEMMA SlotsKept ==
  ASSUME HandleInv, Len(res') = Len(res), next_id' = next_id,
         \A r \in 1..Len(res) : SameResource(r),
         \A tb \in Tables, id \in 1..IdMax : table'[tb][id] \in {0, table[tb][id]}
  PROVE  /\ Slots' /\ Rounds'
         /\ \A r \in 1..Len(res) : KeptResource(r)
<1>1. \A r \in 1..Len(res) : res[r].table \in Tables /\ res[r].id \in 1..IdMax /\ r \in Nat \ {0}
  BY Lengths DEF HandleInv, ResourceRecord
<1>2. Slots'
  <2> SUFFICES ASSUME NEW tb \in Tables, NEW id \in 1..IdMax, table'[tb][id] # 0
               PROVE  /\ table'[tb][id] \in 1..Len(res')
                      /\ res'[table'[tb][id]].table = tb
                      /\ res'[table'[tb][id]].id = id
    BY DEF Slots
  <2>1. table'[tb][id] = table[tb][id]
    OBVIOUS
  <2>2. /\ table[tb][id] \in 1..Len(res)
        /\ res[table[tb][id]].table = tb
        /\ res[table[tb][id]].id = id
    BY <2>1 DEF HandleInv, Slots
  <2> QED BY <2>1, <2>2 DEF SameResource
<1>3. \A tb \in Tables : Inserted(tb)' = Inserted(tb)
  BY DEF Inserted, SameResource
<1>4. \A r \in 1..Len(res) : Since(r)' = Since(r)
  BY <1>1, <1>3 DEF Since, SameResource
<1>5. ASSUME NEW r \in 1..Len(res)
      PROVE  /\ Since(r)' >= 1
             /\ Since(r)' < IdMax =>
                  next_id'[res'[r].table] \in {res'[r].id + Since(r)', res'[r].id + Since(r)' - IdMax}
             /\ Entry(r)' \notin {0, r} => res'[Entry(r)'].nth - res'[r].nth >= IdMax
  <2>1. /\ Since(r) >= 1
        /\ Since(r) < IdMax => next_id[res[r].table] \in {res[r].id + Since(r), res[r].id + Since(r) - IdMax}
        /\ Entry(r) \notin {0, r} => res[Entry(r)].nth - res[r].nth >= IdMax
    BY DEF HandleInv, Rounds
  <2>2. Entry(r)' \in {0, Entry(r)}
    BY <1>1 DEF Entry, SameResource
  <2>3. Entry(r) # 0 => Entry(r) \in 1..Len(res)
    BY <1>1 DEF HandleInv, Slots, Entry
  <2> QED BY <1>4, <2>1, <2>2, <2>3 DEF SameResource
<1>6. Rounds'
  BY <1>5 DEF Rounds
<1>7. ASSUME NEW r \in 1..Len(res), Unslotted(r) PROVE Unslotted(r)'
  BY <1>1, <1>7 DEF Unslotted
<1> QED BY <1>2, <1>6, <1>7 DEF KeptResource, SameResource

(***************************************************************************)
(* HandleTable::insert: the new resource is in its slot; whatever was      *)
(* there, or has been, came IdMax insertions before it.                    *)
(***************************************************************************)
LEMMA InsertStep ==
  ASSUME HandleInv, NEW tb \in Tables, NEW known \in BOOLEAN, insert(tb, known)
  PROVE  /\ next_id' \in [Tables -> 1..IdMax] /\ table' \in [Tables -> [1..IdMax -> Nat]]
         /\ res' \in Seq(ResourceRecord) /\ Slots' /\ Rounds'
         /\ Len(res') = Len(res) + 1 /\ \A r \in 1..Len(res) : res'[r] = res[r]
         /\ \A r \in 1..Len(res) : KeptResource(r)
         /\ FreshResource(Len(res) + 1)
<1> DEFINE n == Len(res) + 1
           at == next_id[tb]
           e == NewResource(tb, at, known)
           c == Cardinality(Inserted(tb))
<1>1. /\ Len(res) \in Nat /\ res \in Seq(ResourceRecord) /\ at \in 1..IdMax /\ IdMax \in Nat \ {0}
      /\ next_id \in [Tables -> 1..IdMax] /\ table \in [Tables -> [1..IdMax -> Nat]]
      /\ DOMAIN res = 1..Len(res)
      /\ \A r \in 1..Len(res) : res[r].table \in Tables /\ res[r].id \in 1..IdMax /\ res[r].nth \in Nat
  BY Lengths, HandleAssumption DEF HandleInv, HandleTypes, ResourceRecord
<1>2. /\ next_id' = [next_id EXCEPT ![tb] = IF at = IdMax THEN 1 ELSE at + 1]
      /\ table' = [table EXCEPT ![tb][at] = n]
      /\ res' = Append(res, e)
  BY DEF insert
<1>3. \A k \in Tables : IsFiniteSet(Inserted(k)) /\ Cardinality(Inserted(k)) \in Nat
  <2> TAKE k \in Tables
  <2>1. Inserted(k) \in SUBSET (1..Len(res))
    BY DEF Inserted
  <2>2. IsFiniteSet(1..Len(res))
    BY <1>1, FS_Interval
  <2> QED BY <2>1, <2>2, FS_Subset, FS_CardinalityType
<1>4. /\ e \in ResourceRecord /\ e.table = tb /\ e.id = at /\ e.nth = c + 1
      /\ e.wire = <<>> /\ e.got = <<>> /\ e.taken = 0 /\ e.ended = FALSE
  <2>1. e.nth = c + 1 /\ c \in Nat
    BY <1>1, <1>3 DEF NewResource, Inserted
  <2> QED BY <1>1, <2>1 DEF NewResource, ResourceRecord
<1> HIDE DEF e, c, at
<1>5. /\ res' \in Seq(ResourceRecord) /\ Len(res') = n /\ res'[n] = e
      /\ \A r \in 1..Len(res) : res'[r] = res[r]
  BY <1>1, <1>2, <1>4, AppendedItem
<1>6. /\ next_id' \in [Tables -> 1..IdMax]
      /\ next_id'[tb] = IF at = IdMax THEN 1 ELSE at + 1
      /\ \A k \in Tables : k # tb => next_id'[k] = next_id[k]
  BY <1>1, <1>2
<1>7. /\ table' \in [Tables -> [1..IdMax -> Nat]]
      /\ \A k \in Tables, id \in 1..IdMax :
           table'[k][id] = IF k = tb /\ id = at THEN n ELSE table[k][id]
  <2> DEFINE row == [table[tb] EXCEPT ![at] = n]
  <2>1. /\ row \in [1..IdMax -> Nat]
        /\ \A id \in 1..IdMax : row[id] = IF id = at THEN n ELSE table[tb][id]
    BY <1>1
  <2>2. table' = [table EXCEPT ![tb] = row]
    BY <1>2
  <2> HIDE DEF row, n
  <2>3. table' \in [Tables -> [1..IdMax -> Nat]] /\ table'[tb] = row
        /\ \A k \in Tables : k # tb => table'[k] = table[k]
    BY <1>1, <2>1, <2>2
  <2> QED BY <2>1, <2>3
<1>8. Slots'
  <2> SUFFICES ASSUME NEW k \in Tables, NEW id \in 1..IdMax, table'[k][id] # 0
               PROVE  /\ table'[k][id] \in 1..Len(res')
                      /\ res'[table'[k][id]].table = k
                      /\ res'[table'[k][id]].id = id
    BY DEF Slots
  <2>1. CASE k = tb /\ id = at
    BY <1>1, <1>4, <1>5, <1>7, <2>1
  <2>2. CASE ~ (k = tb /\ id = at)
    <3>1. table'[k][id] = table[k][id]
      BY <1>7, <2>2
    <3>2. /\ table[k][id] \in 1..Len(res)
          /\ res[table[k][id]].table = k
          /\ res[table[k][id]].id = id
      BY <3>1 DEF HandleInv, Slots
    <3> DEFINE v == table[k][id]
    <3> HIDE DEF v
    <3>3. v \in 1..Len(res) /\ res[v].table = k /\ res[v].id = id
      BY <3>2 DEF v
    <3>4. v \in 1..Len(res') /\ res'[v].table = k /\ res'[v].id = id
      BY <1>1, <1>5, <3>3, SMTT(30)
    <3> QED BY <3>1, <3>4 DEF v
  <2> QED BY <2>1, <2>2
<1>9. /\ Cardinality(Inserted(tb)') = c + 1 /\ c \in Nat
      /\ \A k \in Tables : k # tb => Inserted(k)' = Inserted(k)
  <2>1. \A k \in Tables : Inserted(k)' = IF k = tb THEN Inserted(k) \cup {n} ELSE Inserted(k)
    BY <1>1, <1>4, <1>5, SMTT(30) DEF Inserted
  <2>2. n \notin Inserted(tb)
    BY <1>1 DEF Inserted
  <2>3. Inserted(tb)' = Inserted(tb) \cup {n}
    BY <2>1
  <2> QED BY <1>3, <2>1, <2>2, <2>3, FS_AddElement DEF c
<1>10. ASSUME NEW r \in 1..Len(res)
       PROVE  /\ Since(r) >= 1 /\ Since(r) \in Int
              /\ Since(r) < IdMax => next_id[res[r].table] \in {res[r].id + Since(r), res[r].id + Since(r) - IdMax}
              /\ Entry(r) \notin {0, r} => res[Entry(r)].nth - res[r].nth >= IdMax
              /\ Since(r)' = IF res[r].table = tb THEN Since(r) + 1 ELSE Since(r)
  <2>1. Since(r) \in Int
    <3>1. res[r].table \in Tables /\ res[r].nth \in Nat
      BY <1>1
    <3>2. Cardinality(Inserted(res[r].table)) \in Nat
      BY <1>3, <3>1
    <3> QED BY <3>1, <3>2 DEF Since
  <2>2. Since(r)' = IF res[r].table = tb THEN Since(r) + 1 ELSE Since(r)
    <3>1. res'[r] = res[r]
      BY <1>5
    <3>2. CASE res[r].table = tb
      <4>1. Since(r)' = Cardinality(Inserted(tb)') + 1 - res[r].nth
        BY <3>1, <3>2 DEF Since, Inserted
      <4>2. Since(r) = c + 1 - res[r].nth
        BY <3>2 DEF Since, c
      <4>3. res[r].nth \in Nat
        BY <1>1
      <4> QED BY <1>9, <3>2, <4>1, <4>2, <4>3
    <3>3. CASE res[r].table # tb
      BY <1>1, <1>9, <3>1, <3>3 DEF Since
    <3> QED BY <3>2, <3>3
  <2> QED BY <2>1, <2>2 DEF HandleInv, Rounds
<1>11. ASSUME NEW r \in 1..Len(res')
       PROVE  /\ Since(r)' >= 1
              /\ Since(r)' < IdMax =>
                   next_id'[res'[r].table] \in {res'[r].id + Since(r)', res'[r].id + Since(r)' - IdMax}
              /\ Entry(r)' \notin {0, r} => res'[Entry(r)'].nth - res'[r].nth >= IdMax
  <2>1. CASE r = n
    <3>1. Since(r)' = 1
      BY <1>4, <1>5, <1>9, <2>1 DEF Since
    <3>2. Entry(r)' = r
      BY <1>1, <1>4, <1>5, <1>7, <2>1 DEF Entry
    <3>3. next_id'[tb] \in {at + 1, at + 1 - IdMax}
      BY <1>1, <1>6
    <3> QED BY <1>4, <1>5, <2>1, <3>1, <3>2, <3>3
  <2>2. CASE r # n /\ res[r].table # tb
    <3>1. r \in 1..Len(res) /\ res'[r] = res[r]
      BY <1>1, <1>5, <2>2
    <3>2. Entry(r)' = Entry(r)
      BY <1>1, <1>7, <2>2, <3>1, ZenonT(40) DEF Entry
    <3>3. Entry(r) # 0 => Entry(r) \in 1..Len(res)
      BY <1>1, <3>1 DEF HandleInv, Slots, Entry
    <3>4. Since(r)' = Since(r) /\ next_id'[res[r].table] = next_id[res[r].table]
      BY <1>1, <1>6, <1>10, <2>2, <3>1
    <3>5. Entry(r)' \notin {0, r} => res'[Entry(r)'] = res[Entry(r)]
      BY <1>5, <3>2, <3>3
    <3>6. /\ Since(r)' >= 1
          /\ Since(r)' < IdMax =>
               next_id'[res'[r].table] \in {res'[r].id + Since(r)', res'[r].id + Since(r)' - IdMax}
      BY <1>10, <3>1, <3>4
    <3>7. Entry(r)' \notin {0, r} => res'[Entry(r)'].nth - res'[r].nth >= IdMax
      BY <1>10, <3>1, <3>2, <3>5
    <3> QED BY <3>6, <3>7
  <2>3. CASE r # n /\ res[r].table = tb
    <3>1. r \in 1..Len(res) /\ res'[r] = res[r]
      BY <1>1, <1>5, <2>3
    <3> DEFINE d == Since(r)
               i == res[r].id
    <3>2. /\ d >= 1 /\ d \in Int /\ Since(r)' = d + 1 /\ i \in 1..IdMax
          /\ d < IdMax => at \in {i + d, i + d - IdMax}
      BY <1>1, <1>10, <2>3, <3>1 DEF at
    <3>3. d = c + 1 - res[r].nth
      BY <2>3 DEF Since, c
    <3> HIDE DEF d, i
    <3>4. d + 1 < IdMax => next_id'[tb] \in {i + (d + 1), i + (d + 1) - IdMax}
      <4> SUFFICES ASSUME d + 1 < IdMax PROVE next_id'[tb] \in {i + (d + 1), i + (d + 1) - IdMax}
        OBVIOUS
      <4>1. IdMax \in Nat \ {0} /\ at \in Int /\ i \in Int /\ i >= 1 /\ i <= IdMax /\ at <= IdMax
        BY <1>1, <3>2
      <4>2. at = i + d \/ at = i + d - IdMax
        BY <3>2, <4>1
      <4>3. CASE at = IdMax
        BY <1>6, <3>2, <4>1, <4>2, <4>3
      <4>4. CASE at # IdMax
        BY <1>6, <3>2, <4>1, <4>2, <4>4
      <4> QED BY <4>3, <4>4
    <3>5. Entry(r)' \notin {0, r} => res'[Entry(r)'].nth - res'[r].nth >= IdMax
      <4>1. CASE i = at
        <5>1. Entry(r)' = n
          BY <1>1, <1>7, <2>3, <3>1, <4>1 DEF Entry, i
        <5>2. d >= IdMax
          BY <1>1, <3>2, <4>1
        <5>3. /\ res'[n].nth = c + 1 /\ res'[r].nth = res[r].nth
              /\ c \in Nat /\ res[r].nth \in Nat
          BY <1>1, <1>4, <1>5, <1>9, <3>1
        <5> QED BY <1>1, <3>3, <5>1, <5>2, <5>3, SMTT(30)
      <4>2. CASE i # at
        <5>1. Entry(r)' = Entry(r)
          <6>1. /\ res[r].table \in Tables /\ res[r].id \in 1..IdMax /\ res[r].id # at
                /\ res'[r] = res[r]
            BY <1>1, <3>1, <4>2 DEF i
          <6>2. table'[res[r].table][res[r].id] = table[res[r].table][res[r].id]
            BY <1>7, <6>1
          <6> QED BY <6>1, <6>2, Zenon DEF Entry
        <5>2. Entry(r) # 0 => Entry(r) \in 1..Len(res)
          BY <1>1, <3>1 DEF HandleInv, Slots, Entry
        <5>3. Entry(r)' \notin {0, r} => res'[Entry(r)'] = res[Entry(r)]
          BY <1>5, <5>1, <5>2
        <5> QED BY <1>10, <3>1, <5>1, <5>3
      <4> QED BY <4>1, <4>2
    <3>6. res'[r].table = tb /\ res'[r].id = i
      BY <2>3, <3>1 DEF i
    <3> QED BY <1>1, <3>2, <3>4, <3>5, <3>6
  <2> QED BY <2>1, <2>2, <2>3
<1>12. Rounds'
  BY <1>11 DEF Rounds
<1>13. ASSUME NEW r \in 1..Len(res) PROVE KeptResource(r)
  <2>1. n # r
    BY <1>1
  <2>2. Unslotted(r) => Unslotted(r)'
    BY <1>7, <2>1 DEF Unslotted
  <2> QED BY <1>5, <2>2 DEF KeptResource
<1>14. FreshResource(Len(res) + 1)
  BY <1>4, <1>5 DEF FreshResource
<1> QED BY <1>1, <1>5, <1>6, <1>7, <1>8, <1>12, <1>13, <1>14

(***************************************************************************)
(* A step that leaves the streams as they are: nothing on a wire, no input *)
(* closed, no chunk taken or given.                                        *)
(***************************************************************************)
CalmResource(r) ==
  /\ SameResource(r) /\ res'[r].got = res[r].got /\ res'[r].taken = res[r].taken
  /\ res[r].table # "zlib" =>
       /\ res'[r].wire = res[r].wire
       /\ res[r].broken => res'[r].broken
       /\ res'[r].ended => res[r].ended

CalmTask(t) ==
  task[t].op = "write" =>
    /\ task'[t].left = task[t].left
    /\ Running(t) /\ ~ Running(t)' => res'[task[t].res].broken

CalmDone ==
  \/ done' = done
  \/ \E t \in 1..Len(task) :
       /\ done' = Append(done, t) /\ ~ Running(t)'
       /\ task[t].op # "read" \/ task'[t].chunk = 0

LEMMA CalmStep ==
  ASSUME HandleInv, HandleTypes', Slots', Rounds', KeptAll,
         \A r \in 1..Len(res) : CalmResource(r),
         \A t \in 1..Len(task) : CalmTask(t),
         CalmDone
  PROVE  HandleInv'
<1>1. Turns' /\ Owned'
  BY TurnsKept, OwnedKept
<1>2. Written'
  BY WrittenKept DEF CalmResource, CalmTask
<1>3. EndedWell'
  BY EndedKept DEF CalmResource
<1>4. Through' /\ \A r \in 1..Len(res') : ReadsOf(r)'
  BY ReadsKept DEF CalmResource, CalmDone
<1> QED BY <1>1, <1>2, <1>3, <1>4 DEF HandleInv

(***************************************************************************)
(* Tasks and resources that are left alone.                                *)
(***************************************************************************)
LEMMA TasksAlone ==
  ASSUME HandleInv, task' = task
  PROVE  \A t \in 1..Len(task) : KeptTask(t) /\ CalmTask(t)
<1> TAKE t \in 1..Len(task)
<1>1. Running(t)' = Running(t)
  BY DEF Running
<1>2. Running(t) => task[t].chunk = 0
  BY DEF HandleInv, Through
<1>3. KeptTask(t)
  BY <1>1, <1>2 DEF KeptTask
<1>4. CalmTask(t)
  BY <1>1 DEF CalmTask
<1> QED BY <1>3, <1>4

LEMMA CalmInsert ==
  ASSUME HandleInv, NEW tb \in Tables, NEW known \in BOOLEAN, insert(tb, known)
  PROVE  /\ \A r \in 1..Len(res) : CalmResource(r) /\ KeptResource(r)
         /\ Len(res') \in Nat /\ Len(res') >= Len(res)
         /\ \A r \in 1..Len(res') : r \notin 1..Len(res) => FreshResource(r)
<1>1. /\ Len(res) \in Nat /\ Len(res') = Len(res) + 1 /\ \A r \in 1..Len(res) : res'[r] = res[r]
      /\ \A r \in 1..Len(res) : KeptResource(r)
      /\ FreshResource(Len(res) + 1)
  BY InsertStep, Lengths DEF HandleInv
<1>2. \A r \in 1..Len(res) : CalmResource(r)
  BY <1>1 DEF CalmResource, SameResource
<1>3. \A r \in 1..Len(res') : r \notin 1..Len(res) => r = Len(res) + 1
  BY <1>1
<1> QED BY <1>1, <1>2, <1>3

(***************************************************************************)
(* A step that changes resources, and may empty slots.                     *)
(***************************************************************************)
LEMMA ResourceStep ==
  ASSUME HandleInv, res' \in Seq(ResourceRecord), Len(res') = Len(res),
         \A r \in 1..Len(res) : CalmResource(r),
         table' \in [Tables -> [1..IdMax -> Nat]],
         \A tb \in Tables, id \in 1..IdMax : table'[tb][id] \in {0, table[tb][id]},
         UNCHANGED <<next_id, task, done>>
  PROVE  HandleInv'
<1>1. HandleTypes'
  BY DEF HandleInv, HandleTypes
<1>2. \A r \in 1..Len(res) : SameResource(r)
  BY DEF CalmResource
<1>3. Slots' /\ Rounds' /\ \A r \in 1..Len(res) : KeptResource(r)
  BY <1>2, SlotsKept
<1>4. Len(res) \in Nat /\ Len(task) \in Nat
  BY Lengths DEF HandleInv
<1>5. KeptAll
  BY <1>3, <1>4, TasksAlone DEF KeptAll
<1>6. CalmDone
  BY DEF CalmDone
<1> QED BY <1>1, <1>3, <1>5, <1>6, TasksAlone, CalmStep

LEMMA OneResourceStep ==
  ASSUME HandleInv, NEW k \in 1..Len(res), NEW rec \in ResourceRecord,
         res' = [res EXCEPT ![k] = rec],
         rec.table = res[k].table, rec.id = res[k].id, rec.nth = res[k].nth,
         rec.got = res[k].got, rec.taken = res[k].taken,
         res[k].table # "zlib" =>
           rec.wire = res[k].wire /\ rec.broken = res[k].broken /\ rec.ended = res[k].ended
  PROVE  /\ res' \in Seq(ResourceRecord) /\ Len(res') = Len(res)
         /\ \A r \in 1..Len(res) : CalmResource(r)
<1>1. /\ res' \in Seq(ResourceRecord) /\ Len(res') = Len(res) /\ res'[k] = rec
      /\ \A r \in 1..Len(res) : r # k => res'[r] = res[r]
  BY ChangedItem DEF HandleInv, HandleTypes
<1>2. ASSUME NEW r \in 1..Len(res) PROVE CalmResource(r)
  <2>1. CASE r = k
    BY <1>1, <2>1 DEF CalmResource, SameResource
  <2>2. CASE r # k
    BY <1>1, <2>2 DEF CalmResource, SameResource
  <2> QED BY <2>1, <2>2
<1> QED BY <1>1, <1>2

(***************************************************************************)
(* The resource behind the id that JavaScript uses.                        *)
(***************************************************************************)
LEMMA Named ==
  ASSUME HandleInv, NEW r \in 1..Len(res), NEW tb \in Tables, Names(r, tb)
  PROVE  /\ Entry(r) \in 1..Len(res) /\ res[Entry(r)].table = tb
         /\ ~ Unslotted(Entry(r))
         /\ res[Entry(r)] \in ResourceRecord
<1>1. res[r].table = tb /\ res[r].id \in 1..IdMax
  BY Lengths DEF HandleInv, Names, ResourceRecord
<1>2. Entry(r) = table[tb][res[r].id] /\ Entry(r) # 0
  BY <1>1 DEF Names, Entry
<1>3. Entry(r) \in 1..Len(res) /\ res[Entry(r)].table = tb
  BY <1>1, <1>2 DEF HandleInv, Slots
<1> QED BY <1>1, <1>2, <1>3, Lengths DEF Unslotted, HandleInv

LEMMA Emptied ==
  ASSUME HandleInv, NEW r \in 1..Len(res), NEW tb \in Tables, Names(r, tb), table' = NoEntry(r)
  PROVE  /\ table' \in [Tables -> [1..IdMax -> Nat]]
         /\ \A k \in Tables, id \in 1..IdMax : table'[k][id] \in {0, table[k][id]}
         /\ \A k \in Tables, id \in 1..IdMax : table'[k][id] # Entry(r)
<1> DEFINE i == res[r].id
           row == [table[tb] EXCEPT ![i] = 0]
           e == Entry(r)
<1>1. /\ res[r].table = tb /\ i \in 1..IdMax /\ table \in [Tables -> [1..IdMax -> Nat]]
      /\ e \in 1..Len(res) /\ res[e].table = tb /\ Len(res) \in Nat
  BY Lengths, Named DEF HandleInv, HandleTypes, Names, ResourceRecord
<1>2. /\ row \in [1..IdMax -> Nat]
      /\ \A id \in 1..IdMax : row[id] = IF id = i THEN 0 ELSE table[tb][id]
  BY <1>1
<1>3. table' = [table EXCEPT ![tb] = row] /\ e = table[tb][i]
  BY <1>1 DEF NoEntry, Entry
<1>4. e = table[tb][i] /\ res[e].id = i /\ e \in Nat \ {0}
  BY <1>1, <1>3 DEF HandleInv, Slots
<1> HIDE DEF row, i, e
<1>5. /\ table' \in [Tables -> [1..IdMax -> Nat]]
      /\ \A k \in Tables, id \in 1..IdMax :
           table'[k][id] = IF k = tb /\ id = i THEN 0 ELSE table[k][id]
  <2>1. table' \in [Tables -> [1..IdMax -> Nat]] /\ table'[tb] = row
        /\ \A k \in Tables : k # tb => table'[k] = table[k]
    BY <1>1, <1>2, <1>3
  <2> QED BY <1>2, <2>1
<1>6. ASSUME NEW k \in Tables, NEW id \in 1..IdMax PROVE table'[k][id] # e
  <2> SUFFICES ASSUME table'[k][id] = e PROVE FALSE
    OBVIOUS
  <2>1. table[k][id] = e /\ ~ (k = tb /\ id = i)
    BY <1>4, <1>5
  <2>2. res[e].table = k /\ res[e].id = id
    BY <1>4, <2>1 DEF HandleInv, Slots
  <2> QED BY <1>1, <1>4, <2>1, <2>2
<1> QED BY <1>5, <1>6 DEF e

(***************************************************************************)
(* The steps on resources.                                                 *)
(***************************************************************************)
LEMMA RemoveStep ==
  ASSUME HandleInv, NEW r \in 1..Len(res), NEW tb \in Tables, RemoveHandle(r, tb)
  PROVE  HandleInv'
<1>1. /\ table' = NoEntry(r) /\ Names(r, tb) /\ UNCHANGED <<next_id, res, task, done>>
  BY DEF RemoveHandle
<1>2. /\ table' \in [Tables -> [1..IdMax -> Nat]]
      /\ \A k \in Tables, id \in 1..IdMax : table'[k][id] \in {0, table[k][id]}
  BY <1>1, Emptied
<1>3. \A k \in 1..Len(res) : CalmResource(k)
  BY <1>1 DEF CalmResource, SameResource
<1>4. res' \in Seq(ResourceRecord) /\ Len(res') = Len(res)
  BY <1>1 DEF HandleInv, HandleTypes
<1> QED BY <1>1, <1>2, <1>3, <1>4, ResourceStep

LEMMA SlotsAlone ==
  ASSUME HandleInv, table' = table
  PROVE  /\ table' \in [Tables -> [1..IdMax -> Nat]]
         /\ \A k \in Tables, id \in 1..IdMax : table'[k][id] \in {0, table[k][id]}
BY DEF HandleInv, HandleTypes

LEMMA KillStep ==
  ASSUME HandleInv, NEW r \in 1..Len(res), proc_kill(r)
  PROVE  HandleInv'
<1> DEFINE e == Entry(r)
           rec == [res[e] EXCEPT !.signalled = TRUE]
<1>1. res' = [res EXCEPT ![e] = rec] /\ Names(r, "child") /\ UNCHANGED <<next_id, table, task, done>>
  BY DEF proc_kill
<1>2. e \in 1..Len(res) /\ res[e] \in ResourceRecord
  BY <1>1, Named DEF Tables
<1>3. /\ rec \in ResourceRecord
      /\ rec.table = res[e].table /\ rec.id = res[e].id /\ rec.nth = res[e].nth
      /\ rec.got = res[e].got /\ rec.taken = res[e].taken
      /\ rec.wire = res[e].wire /\ rec.broken = res[e].broken /\ rec.ended = res[e].ended
  BY <1>2 DEF ResourceRecord
<1> HIDE DEF e, rec
<1> QED BY <1>1, <1>2, <1>3, OneResourceStep, SlotsAlone, ResourceStep

LEMMA ZlibStep ==
  ASSUME HandleInv, NEW r \in 1..Len(res), zlib_feed(r) \/ zlib_finish(r)
  PROVE  HandleInv'
<1> DEFINE e == Entry(r)
<1>1. Names(r, "zlib") /\ UNCHANGED <<next_id, table, task, done>>
  BY DEF zlib_feed, zlib_finish
<1>2. e \in 1..Len(res) /\ res[e] \in ResourceRecord /\ res[e].table = "zlib"
  BY <1>1, Named DEF Tables
<1>3. PICK rec \in ResourceRecord :
        /\ res' = [res EXCEPT ![e] = rec]
        /\ rec.table = res[e].table /\ rec.id = res[e].id /\ rec.nth = res[e].nth
        /\ rec.got = res[e].got /\ rec.taken = res[e].taken
  <2>1. CASE zlib_feed(r)
    <3> DEFINE w == res[e].wire
               rec == [res[e] EXCEPT !.wire = Append(w, Len(w) + 1)]
    <3>1. w \in Seq(Nat) /\ Append(w, Len(w) + 1) \in Seq(Nat)
      BY <1>2 DEF ResourceRecord
    <3>2. /\ rec \in ResourceRecord
          /\ rec.table = res[e].table /\ rec.id = res[e].id /\ rec.nth = res[e].nth
          /\ rec.got = res[e].got /\ rec.taken = res[e].taken
      BY <1>2, <3>1 DEF ResourceRecord
    <3>3. res' = [res EXCEPT ![e] = rec]
      BY <2>1 DEF zlib_feed
    <3> QED BY <3>2, <3>3
  <2>2. CASE zlib_finish(r)
    <3> DEFINE rec == [res[e] EXCEPT !.ended = TRUE]
    <3>1. /\ rec \in ResourceRecord
          /\ rec.table = res[e].table /\ rec.id = res[e].id /\ rec.nth = res[e].nth
          /\ rec.got = res[e].got /\ rec.taken = res[e].taken
      BY <1>2 DEF ResourceRecord
    <3>2. res' = [res EXCEPT ![e] = rec]
      BY <2>2 DEF zlib_finish
    <3> QED BY <3>1, <3>2
  <2> QED BY <2>1, <2>2
<1> HIDE DEF e
<1> QED BY <1>1, <1>2, <1>3, OneResourceStep, SlotsAlone, ResourceStep

LEMMA OutsideStep ==
  ASSUME HandleInv, NEW r \in 1..Len(res), Outside(r)
  PROVE  HandleInv'
<1>1. res[r] \in ResourceRecord /\ UNCHANGED <<next_id, table, task, done>>
  BY Lengths DEF HandleInv, Outside
<1>2. PICK rec \in ResourceRecord :
        /\ res' = [res EXCEPT ![r] = rec]
        /\ rec.table = res[r].table /\ rec.id = res[r].id /\ rec.nth = res[r].nth
        /\ rec.got = res[r].got /\ rec.taken = res[r].taken
        /\ rec.wire = res[r].wire /\ rec.broken = res[r].broken /\ rec.ended = res[r].ended
  <2> DEFINE more == [res[r] EXCEPT !.chunks = @ + 1]
             over == [res[r] EXCEPT !.over = TRUE]
  <2>1. res' = [res EXCEPT ![r] = more] \/ res' = [res EXCEPT ![r] = over]
    BY DEF Outside
  <2>2. /\ more \in ResourceRecord
        /\ more.table = res[r].table /\ more.id = res[r].id /\ more.nth = res[r].nth
        /\ more.got = res[r].got /\ more.taken = res[r].taken
        /\ more.wire = res[r].wire /\ more.broken = res[r].broken /\ more.ended = res[r].ended
    <3>1. res[r].chunks + 1 \in Nat
      BY <1>1 DEF ResourceRecord
    <3> QED BY <1>1, <3>1 DEF ResourceRecord
  <2>3. /\ over \in ResourceRecord
        /\ over.table = res[r].table /\ over.id = res[r].id /\ over.nth = res[r].nth
        /\ over.got = res[r].got /\ over.taken = res[r].taken
        /\ over.wire = res[r].wire /\ over.broken = res[r].broken /\ over.ended = res[r].ended
    BY <1>1 DEF ResourceRecord
  <2> HIDE DEF more, over
  <2> QED BY <2>1, <2>2, <2>3
<1> QED BY <1>1, <1>2, OneResourceStep, SlotsAlone, ResourceStep

(***************************************************************************)
(* A call spawns a task that has a share of the resource.                  *)
(***************************************************************************)
LEMMA SpawnStep ==
  ASSUME HandleInv, NEW tb \in Tables, NEW e \in Nat,
         NEW op \in {"open", "accept", "shutdown", "write", "end", "read", "wait"},
         op # "open" =>
           /\ e \in 1..Len(res) /\ tb = res[e].table /\ ~ Unslotted(e)
           /\ op = "write" => tb # "zlib"
           /\ op = "shutdown" => \A k \in Tables, id \in 1..IdMax : table'[k][id] # e,
         task' = Append(task, NewTask(op, tb, e)),
         table' \in [Tables -> [1..IdMax -> Nat]],
         \A k \in Tables, id \in 1..IdMax : table'[k][id] \in {0, table[k][id]},
         UNCHANGED <<next_id, res, done>>
  PROVE  HandleInv'
<1>0. PICK n : n = Len(task) + 1
  OBVIOUS
<1> DEFINE rec == NewTask(op, tb, e)
<1>1. /\ rec \in TaskRecord /\ rec.op = op /\ rec.table = tb /\ rec.res = e
      /\ rec.pc = "spawned" /\ rec.chunk = 0 /\ (op = "write" => rec.left = WriteLen)
  BY HandleAssumption DEF NewTask, TaskRecord
<1> HIDE DEF rec
<1>2. /\ Len(task) \in Nat /\ Len(res) \in Nat /\ task \in Seq(TaskRecord)
  BY Lengths DEF HandleInv, HandleTypes
<1>3. /\ task' \in Seq(TaskRecord) /\ Len(task') = n /\ task'[n] = rec
      /\ \A t \in 1..Len(task) : task'[t] = task[t]
  BY <1>0, <1>1, <1>2, AppendedItem DEF rec
<1>4. HandleTypes'
  BY <1>3 DEF HandleInv, HandleTypes
<1>5. Slots' /\ Rounds' /\ \A r \in 1..Len(res) : KeptResource(r)
  BY SlotsKept DEF SameResource
<1>6. ASSUME NEW t \in 1..Len(task) PROVE KeptTask(t) /\ CalmTask(t)
  <2>1. task'[t] = task[t] /\ (Running(t) => task[t].chunk = 0)
    BY <1>3 DEF HandleInv, Through
  <2>2. Running(t)' <=> Running(t)
    BY <2>1 DEF Running
  <2>3. KeptTask(t)
    BY <2>1, <2>2 DEF KeptTask
  <2>4. CalmTask(t)
    BY <2>1, <2>2 DEF CalmTask
  <2> QED BY <2>3, <2>4
<1>7. FreshTask(n)
  <2>1. /\ task'[n].op = op /\ task'[n].table = tb /\ task'[n].res = e
        /\ task'[n].pc = "spawned" /\ task'[n].chunk = 0 /\ (op = "write" => task'[n].left = WriteLen)
    BY <1>1, <1>3
  <2>2. op = "shutdown" => Unslotted(task[n].res)'
    BY <2>1 DEF Unslotted
  <2> QED BY <2>1, <2>2 DEF FreshTask
<1>8. \A t \in 1..Len(task') : t \notin 1..Len(task) => t = n
  BY <1>0, <1>2, <1>3
<1>9. KeptAll
  <2>1. Len(task') \in Nat /\ Len(task') >= Len(task) /\ Len(res') = Len(res)
    BY <1>0, <1>2, <1>3
  <2> QED BY <1>2, <1>5, <1>6, <1>7, <1>8, <2>1 DEF KeptAll
<1>10. \A r \in 1..Len(res) : CalmResource(r)
  BY DEF CalmResource, SameResource
<1>11. CalmDone
  BY DEF CalmDone
<1> QED BY <1>4, <1>5, <1>6, <1>9, <1>10, <1>11, CalmStep

LEMMA CallStep ==
  ASSUME HandleInv, NEW r \in 1..Len(res), NEW tb \in Tables,
         NEW op \in {"accept", "write", "end", "read", "wait"}, op = "write" => tb # "zlib",
         Call(r, tb, op)
  PROVE  HandleInv'
<1>1. /\ Names(r, tb) /\ task' = Append(task, NewTask(op, tb, Entry(r)))
      /\ UNCHANGED <<next_id, table, res, done>>
  BY DEF Call
<1>2. /\ Entry(r) \in 1..Len(res) /\ tb = res[Entry(r)].table /\ ~ Unslotted(Entry(r))
      /\ Entry(r) \in Nat
  BY <1>1, Named, Lengths DEF HandleInv
<1> QED BY <1>1, <1>2, SlotsAlone, SpawnStep

LEMMA TlsCloseStep ==
  ASSUME HandleInv, NEW r \in 1..Len(res), tls_close(r)
  PROVE  HandleInv'
<1>1. /\ Names(r, "tls") /\ task' = Append(task, NewTask("shutdown", "tls", Entry(r)))
      /\ table' = NoEntry(r) /\ UNCHANGED <<next_id, res, done>> /\ "tls" \in Tables
  BY DEF tls_close, Tables
<1>2. /\ Entry(r) \in 1..Len(res) /\ "tls" = res[Entry(r)].table /\ ~ Unslotted(Entry(r))
      /\ Entry(r) \in Nat
  BY <1>1, Named, Lengths DEF HandleInv
<1>3. /\ table' \in [Tables -> [1..IdMax -> Nat]]
      /\ \A k \in Tables, id \in 1..IdMax : table'[k][id] \in {0, table[k][id]}
      /\ \A k \in Tables, id \in 1..IdMax : table'[k][id] # Entry(r)
  BY <1>1, Emptied
<1> QED BY <1>1, <1>2, <1>3, SpawnStep

LEMMA OpenAsyncStep ==
  ASSUME HandleInv, NEW tb \in Tables, OpenAsync(tb)
  PROVE  HandleInv'
<1>1. /\ task' = Append(task, NewTask("open", tb, 0))
      /\ UNCHANGED <<next_id, table, res, done>>
  BY DEF OpenAsync
<1> QED BY <1>1, SlotsAlone, SpawnStep

LEMMA OpenNowStep ==
  ASSUME HandleInv, NEW tb \in Tables, OpenNow(tb)
  PROVE  HandleInv'
<1>1. insert(tb, TRUE) /\ UNCHANGED <<task, done>>
  BY DEF OpenNow
<1>2. HandleTypes' /\ Slots' /\ Rounds'
  BY <1>1, InsertStep DEF HandleInv, HandleTypes
<1>3. KeptAll
  <2>1. Len(task) \in Nat /\ Len(task') = Len(task)
    BY <1>1, Lengths DEF HandleInv
  <2>2. /\ \A r \in 1..Len(res) : KeptResource(r)
        /\ Len(res') \in Nat /\ Len(res') >= Len(res)
        /\ \A r \in 1..Len(res') : r \notin 1..Len(res) => FreshResource(r)
    BY <1>1, CalmInsert
  <2>3. \A t \in 1..Len(task) : KeptTask(t)
    BY <1>1, TasksAlone
  <2>4. \A t \in 1..Len(task') : t \in 1..Len(task)
    BY <2>1
  <2> QED BY <2>1, <2>2, <2>3, <2>4 DEF KeptAll
<1>4. CalmDone
  BY <1>1 DEF CalmDone
<1> QED BY <1>1, <1>2, <1>3, <1>4, CalmInsert, TasksAlone, CalmStep

(***************************************************************************)
(* The steps of a task: it goes on, keeping what it works on.              *)
(***************************************************************************)
GoesOn(t, rec) ==
  /\ rec.op = task[t].op /\ rec.table = task[t].table /\ rec.res = task[t].res
  /\ rec.pc # "spawned"
  /\ rec.pc = "locked" => Running(t) /\ rec.chunk = 0
  /\ Running(t) \/ rec.chunk = task[t].chunk
  /\ task[t].pc = "spawned" => Lane(t) = "none" \/ Turn(t)

LEMMA OneTask ==
  ASSUME HandleInv, NEW t \in 1..Len(task), NEW rec \in TaskRecord, SetTask(t, rec), GoesOn(t, rec)
  PROVE  /\ task' \in Seq(TaskRecord) /\ Len(task') = Len(task) /\ task'[t] = rec
         /\ \A u \in 1..Len(task) : u # t => task'[u] = task[u]
         /\ Running(t)' <=> rec.pc = "locked"
         /\ \A u \in 1..Len(task) : KeptTask(u)
         /\ \A u \in 1..Len(task) : u # t => CalmTask(u)
<1>1. /\ task' \in Seq(TaskRecord) /\ Len(task') = Len(task) /\ task'[t] = rec
      /\ \A u \in 1..Len(task) : u # t => task'[u] = task[u]
  BY ChangedItem DEF SetTask, HandleInv, HandleTypes
<1>2. Running(t)' <=> rec.pc = "locked"
  BY <1>1 DEF Running, GoesOn
<1>3. ASSUME NEW u \in 1..Len(task), u # t PROVE KeptTask(u) /\ CalmTask(u)
  <2>1. task'[u] = task[u] /\ (Running(u) => task[u].chunk = 0)
    BY <1>1, <1>3 DEF HandleInv, Through
  <2>2. Running(u)' <=> Running(u)
    BY <2>1 DEF Running
  <2>3. KeptTask(u)
    BY <2>1, <2>2 DEF KeptTask
  <2>4. CalmTask(u)
    BY <2>1, <2>2 DEF CalmTask
  <2> QED BY <2>3, <2>4
<1>4. KeptTask(t)
  BY <1>1, <1>2 DEF KeptTask, GoesOn
<1> QED BY <1>1, <1>2, <1>3, <1>4

LEMMA TaskKept ==
  ASSUME HandleInv, NEW t \in 1..Len(task), NEW rec \in TaskRecord, SetTask(t, rec), GoesOn(t, rec),
         Len(res') \in Nat, Len(res') >= Len(res),
         \A r \in 1..Len(res) : KeptResource(r),
         \A r \in 1..Len(res') : r \notin 1..Len(res) => FreshResource(r)
  PROVE  KeptAll
<1>1. Len(task') = Len(task) /\ Len(task) \in Nat /\ \A u \in 1..Len(task) : KeptTask(u)
  BY OneTask, Lengths DEF HandleInv
<1>2. \A u \in 1..Len(task') : u \in 1..Len(task)
  BY <1>1
<1> QED BY <1>1, <1>2 DEF KeptAll

LEMMA NoneInserted ==
  ASSUME HandleInv, res' \in Seq(ResourceRecord), Len(res') = Len(res),
         \A r \in 1..Len(res) : SameResource(r), UNCHANGED <<next_id, table>>
  PROVE  /\ Slots' /\ Rounds' /\ Len(res') \in Nat /\ Len(res') >= Len(res)
         /\ \A r \in 1..Len(res) : KeptResource(r)
         /\ \A r \in 1..Len(res') : r \notin 1..Len(res) => FreshResource(r)
<1>1. Len(res) \in Nat /\ \A r \in 1..Len(res') : r \in 1..Len(res)
  BY Lengths DEF HandleInv
<1> QED BY <1>1, SlotsAlone, SlotsKept

LEMMA LockStep ==
  ASSUME HandleInv, NEW t \in 1..Len(task), Lock(t)
  PROVE  HandleInv'
<1> DEFINE rec == [task[t] EXCEPT !.pc = "locked"]
<1>1. /\ task[t].pc = "spawned" /\ Turn(t) /\ SetTask(t, rec) /\ UNCHANGED <<next_id, table, res, done>>
      /\ task[t] \in TaskRecord /\ Running(t) /\ task[t].chunk = 0
  BY Lengths DEF Lock, HandleInv, Through, Running
<1>2. /\ rec \in TaskRecord /\ rec.pc = "locked" /\ rec.chunk = 0 /\ rec.left = task[t].left
      /\ GoesOn(t, rec)
  BY <1>1 DEF TaskRecord, GoesOn
<1> HIDE DEF rec
<1>3. /\ task' \in Seq(TaskRecord) /\ task'[t] = rec /\ Running(t)'
      /\ \A u \in 1..Len(task) : u # t => CalmTask(u)
  BY <1>1, <1>2, OneTask
<1>4. CalmTask(t)
  BY <1>2, <1>3 DEF CalmTask
<1>5. res' \in Seq(ResourceRecord) /\ \A r \in 1..Len(res) : CalmResource(r) /\ SameResource(r)
  BY <1>1 DEF HandleInv, HandleTypes, CalmResource, SameResource
<1>6. HandleTypes'
  BY <1>1, <1>3 DEF HandleInv, HandleTypes
<1>7. Slots' /\ Rounds' /\ KeptAll
  BY <1>1, <1>2, <1>5, NoneInserted, TaskKept
<1>8. CalmDone
  BY <1>1 DEF CalmDone
<1> QED BY <1>3, <1>4, <1>5, <1>6, <1>7, <1>8, CalmStep

(***************************************************************************)
(* A task is through, and sends a completion.                              *)
(***************************************************************************)
LEMMA DoneTypes ==
  ASSUME HandleInv, NEW t \in 1..Len(task), Sends(t)
  PROVE  done' \in Seq(Nat)
<1>1. t \in Nat /\ done \in Seq(Nat)
  BY Lengths DEF HandleInv, HandleTypes
<1> QED BY <1>1 DEF Sends

LEMMA OpenedStep ==
  ASSUME HandleInv, NEW t \in 1..Len(task), Opened(t)
  PROVE  HandleInv'
<1> DEFINE tb == IF task[t].op = "accept" THEN "net" ELSE task[t].table
           rec == [task[t] EXCEPT !.pc = "sent", !.chunk = Len(res) + 1]
<1>1. /\ task[t].op \in {"open", "accept"} /\ task[t].pc = "spawned"
      /\ insert(tb, FALSE) /\ SetTask(t, rec) /\ Sends(t)
      /\ task[t] \in TaskRecord /\ Len(res) \in Nat
  BY Lengths DEF Opened, HandleInv
<1>2. tb \in Tables
  BY <1>1 DEF TaskRecord, Tables
<1>3. /\ rec \in TaskRecord /\ rec.pc = "sent" /\ rec.left = task[t].left
      /\ GoesOn(t, rec)
  <2>1. Lane(t) = "none" /\ Running(t)
    BY <1>1 DEF Lane, Running
  <2>2. Len(res) + 1 \in Nat
    BY <1>1
  <2>3. /\ rec \in TaskRecord /\ rec.pc = "sent" /\ rec.left = task[t].left
        /\ rec.op = task[t].op /\ rec.table = task[t].table /\ rec.res = task[t].res
    BY <1>1, <2>2 DEF TaskRecord
  <2> HIDE DEF rec
  <2> QED BY <1>1, <2>1, <2>3 DEF GoesOn
<1> HIDE DEF rec, tb
<1>4. /\ task' \in Seq(TaskRecord) /\ task'[t] = rec /\ ~ Running(t)'
      /\ \A u \in 1..Len(task) : u # t => CalmTask(u)
  BY <1>1, <1>3, OneTask
<1>5. CalmTask(t)
  BY <1>1 DEF CalmTask
<1>6. HandleTypes' /\ Slots' /\ Rounds'
  BY <1>1, <1>2, <1>4, InsertStep, DoneTypes DEF HandleTypes
<1>7. KeptAll /\ \A r \in 1..Len(res) : CalmResource(r)
  BY <1>1, <1>2, <1>3, CalmInsert, TaskKept
<1>8. CalmDone
  BY <1>1, <1>4 DEF CalmDone, Sends
<1> QED BY <1>4, <1>5, <1>6, <1>7, <1>8, CalmStep

(***************************************************************************)
(* What a task that has the lock works on.                                 *)
(***************************************************************************)
LEMMA WorkedOn ==
  ASSUME HandleInv, NEW t \in 1..Len(task), task[t].op # "open", NEW r, r = task[t].res
  PROVE  /\ r \in 1..Len(res) /\ res[r] \in ResourceRecord /\ task[t] \in TaskRecord
         /\ task[t].table = res[r].table /\ (task[t].op = "write" => res[r].table # "zlib")
BY Lengths DEF HandleInv, Owned

LEMMA AwaitExitStep ==
  ASSUME HandleInv, NEW t \in 1..Len(task), AwaitExit(t)
  PROVE  HandleInv'
<1> DEFINE rec == [task[t] EXCEPT !.pc = "sent"]
<1>1. /\ task[t].pc = "locked" /\ task[t].op = "wait" /\ SetTask(t, rec) /\ Sends(t)
      /\ UNCHANGED <<next_id, table>> /\ task[t] \in TaskRecord
  BY Lengths DEF AwaitExit, Working, HandleInv
<1>2. rec \in TaskRecord /\ rec.pc = "sent" /\ GoesOn(t, rec)
  BY <1>1 DEF TaskRecord, GoesOn
<1> HIDE DEF rec
<1>3. /\ task' \in Seq(TaskRecord) /\ ~ Running(t)'
      /\ \A u \in 1..Len(task) : u # t => CalmTask(u)
  BY <1>1, <1>2, OneTask
<1>4. CalmTask(t)
  BY <1>1 DEF CalmTask
<1>5. /\ res' \in Seq(ResourceRecord) /\ Len(res') = Len(res)
      /\ \A r \in 1..Len(res) : CalmResource(r) /\ SameResource(r)
  <2>1. PICK r : r = task[t].res
    OBVIOUS
  <2> DEFINE new == [res[r] EXCEPT !.reaped = TRUE]
  <2>2. r \in 1..Len(res) /\ res[r] \in ResourceRecord /\ res' = [res EXCEPT ![r] = new]
    BY <1>1, <2>1, WorkedOn DEF AwaitExit
  <2>3. /\ new \in ResourceRecord
        /\ new.table = res[r].table /\ new.id = res[r].id /\ new.nth = res[r].nth
        /\ new.got = res[r].got /\ new.taken = res[r].taken
        /\ new.wire = res[r].wire /\ new.broken = res[r].broken /\ new.ended = res[r].ended
    BY <2>2 DEF ResourceRecord
  <2> HIDE DEF new
  <2> QED BY <2>2, <2>3, OneResourceStep DEF CalmResource
<1>6. HandleTypes'
  BY <1>1, <1>3, <1>5, DoneTypes DEF HandleInv, HandleTypes
<1>7. Slots' /\ Rounds' /\ KeptAll
  BY <1>1, <1>2, <1>5, NoneInserted, TaskKept
<1>8. CalmDone
  BY <1>1, <1>3 DEF CalmDone, Sends
<1> QED BY <1>3, <1>4, <1>5, <1>6, <1>7, <1>8, CalmStep

LEMMA FailStep ==
  ASSUME HandleInv, NEW t \in 1..Len(task), Fail(t)
  PROVE  HandleInv'
<1> DEFINE rec == [task[t] EXCEPT !.pc = "sent"]
<1>1. /\ SetTask(t, rec) /\ Sends(t) /\ UNCHANGED <<next_id, table>> /\ task[t] \in TaskRecord
      /\ task[t].pc \in {"spawned", "locked"} /\ Running(t)
      /\ task[t].pc = "spawned" => Lane(t) = "none"
  <2>1. SetTask(t, rec) /\ Sends(t) /\ UNCHANGED <<next_id, table>> /\ task[t] \in TaskRecord
    BY Lengths DEF Fail, HandleInv
  <2>2. \/ task[t].op \in {"open", "accept"} /\ task[t].pc = "spawned"
        \/ task[t].pc = "locked"
    BY DEF Fail, Working
  <2>3. task[t].op \in {"open", "accept"} => Lane(t) = "none"
    BY DEF Lane
  <2> QED BY <2>1, <2>2, <2>3 DEF Running
<1>2. /\ rec \in TaskRecord /\ rec.pc = "sent" /\ GoesOn(t, rec) /\ rec.chunk = task[t].chunk
      /\ rec.left = task[t].left
  BY <1>1 DEF TaskRecord, GoesOn
<1> HIDE DEF rec
<1>3. /\ task' \in Seq(TaskRecord) /\ task'[t] = rec /\ ~ Running(t)'
      /\ \A u \in 1..Len(task) : u # t => CalmTask(u)
  BY <1>1, <1>2, OneTask
<1>4. /\ res' \in Seq(ResourceRecord) /\ Len(res') = Len(res)
      /\ \A r \in 1..Len(res) : CalmResource(r) /\ SameResource(r)
      /\ CalmTask(t)
  <2>1. CASE task[t].op \in {"open", "accept", "read", "wait"} /\ UNCHANGED res
    BY <2>1 DEF HandleInv, HandleTypes, CalmResource, SameResource, CalmTask
  <2>2. CASE /\ task[t].op = "write"
             /\ res' = [res EXCEPT ![task[t].res].broken = TRUE]
    <3>1. PICK r : r = task[t].res
      OBVIOUS
    <3> DEFINE new == [res[r] EXCEPT !.broken = TRUE]
    <3>2. r \in 1..Len(res) /\ res[r] \in ResourceRecord /\ res' = [res EXCEPT ![r] = new]
      BY <2>2, <3>1, WorkedOn
    <3>3. /\ new \in ResourceRecord /\ new.broken = TRUE
          /\ new.table = res[r].table /\ new.id = res[r].id /\ new.nth = res[r].nth
          /\ new.got = res[r].got /\ new.taken = res[r].taken
          /\ new.wire = res[r].wire /\ new.ended = res[r].ended
      BY <3>2 DEF ResourceRecord
    <3> HIDE DEF new
    <3>4. /\ res' \in Seq(ResourceRecord) /\ Len(res') = Len(res) /\ res'[r] = new
          /\ \A k \in 1..Len(res) : k # r => res'[k] = res[k]
      BY <3>2, <3>3, ChangedItem DEF HandleInv, HandleTypes
    <3>5. ASSUME NEW k \in 1..Len(res) PROVE CalmResource(k) /\ SameResource(k)
      <4>1. CASE k = r
        BY <3>3, <3>4, <4>1 DEF CalmResource, SameResource
      <4>2. CASE k # r
        BY <3>4, <4>2 DEF CalmResource, SameResource
      <4> QED BY <4>1, <4>2
    <3>6. CalmTask(t)
      BY <1>2, <1>3, <3>1, <3>3, <3>4 DEF CalmTask
    <3> QED BY <3>4, <3>5, <3>6
  <2> QED BY <2>1, <2>2 DEF Fail, Working
<1>5. HandleTypes'
  BY <1>1, <1>3, <1>4, DoneTypes DEF HandleInv, HandleTypes
<1>6. Slots' /\ Rounds' /\ KeptAll
  BY <1>1, <1>2, <1>4, NoneInserted, TaskKept
<1>7. CalmDone
  <2>1. task[t].chunk = 0
    BY <1>1 DEF HandleInv, Through
  <2> QED BY <1>1, <1>2, <1>3, <2>1 DEF CalmDone, Sends
<1> QED BY <1>3, <1>4, <1>5, <1>6, <1>7, CalmStep

(***************************************************************************)
(* Writes and closings of one input have the same lock.                    *)
(***************************************************************************)
LEMMA OneLane ==
  ASSUME HandleInv, NEW t \in 1..Len(task), NEW u \in 1..Len(task), task[u].res = task[t].res,
         \/ task[t].op \in {"write", "end"} /\ task[u].op \in {"write", "end"}
         \/ task[t].op = "read" /\ task[u].op = "read"
  PROVE  SameLock(u, t) /\ SameLock(t, u)
<1>1. task[t].table = task[u].table
  BY DEF HandleInv, Owned
<1>2. Lane(u) = Lane(t) /\ Lane(t) # "none"
  <2>1. CASE task[t].op \in {"write", "end"} /\ task[u].op \in {"write", "end"}
    BY <1>1, <2>1 DEF Lane
  <2>2. CASE task[t].op = "read" /\ task[u].op = "read"
    BY <1>1, <2>2 DEF Lane
  <2> QED BY <2>1, <2>2
<1> QED BY <1>2 DEF SameLock

(***************************************************************************)
(* An input is closed: stdin is taken, a TLS stream shut down.             *)
(***************************************************************************)
LEMMA ClosingStep ==
  ASSUME HandleInv, NEW t \in 1..Len(task), TakeStdin(t) \/ tls_shutdown(t)
  PROVE  HandleInv'
<1> DEFINE rec == [task[t] EXCEPT !.pc = "settled"]
<1>1. PICK r : r = task[t].res
  OBVIOUS
<1>2. PICK closed \in BOOLEAN : res' = [res EXCEPT ![r].ended = closed]
  BY <1>1 DEF TakeStdin, tls_shutdown
<1>3. /\ task[t].op \in {"end", "shutdown"} /\ Running(t) /\ SetTask(t, rec)
      /\ UNCHANGED <<next_id, table, done>>
      /\ task[t].op = "shutdown" => Lane(t) = "none"
      /\ task[t].op = "end" => task[t].pc = "locked"
  <2>1. CASE TakeStdin(t)
    BY <2>1 DEF TakeStdin, Working, Running
  <2>2. CASE tls_shutdown(t)
    BY <2>2 DEF tls_shutdown, Running, Lane
  <2> QED BY <2>1, <2>2
<1>4. /\ r \in 1..Len(res) /\ res[r] \in ResourceRecord /\ task[t] \in TaskRecord
  BY <1>1, <1>3, WorkedOn
<1>5. rec \in TaskRecord /\ rec.pc = "settled" /\ GoesOn(t, rec)
  BY <1>3, <1>4 DEF TaskRecord, GoesOn, Running
<1> HIDE DEF rec
<1>6. /\ task' \in Seq(TaskRecord) /\ Len(task') = Len(task) /\ task'[t] = rec /\ ~ Running(t)'
      /\ \A u \in 1..Len(task) : u # t => CalmTask(u) /\ task'[u] = task[u]
      /\ \A u \in 1..Len(task) : KeptTask(u)
  BY <1>3, <1>5, OneTask
<1>7. CalmTask(t)
  BY <1>3 DEF CalmTask
<1> DEFINE new == [res[r] EXCEPT !.ended = closed]
<1>8. /\ new \in ResourceRecord /\ new.ended = closed
      /\ new.table = res[r].table /\ new.id = res[r].id /\ new.nth = res[r].nth
      /\ new.got = res[r].got /\ new.taken = res[r].taken
      /\ new.wire = res[r].wire /\ new.broken = res[r].broken
  BY <1>4 DEF ResourceRecord
<1>9. res' = [res EXCEPT ![r] = new]
  BY <1>2
<1> HIDE DEF new
<1>10. /\ res' \in Seq(ResourceRecord) /\ Len(res') = Len(res) /\ res'[r] = new
       /\ \A k \in 1..Len(res) : k # r => res'[k] = res[k]
  BY <1>4, <1>8, <1>9, ChangedItem DEF HandleInv, HandleTypes
<1>11. \A k \in 1..Len(res) :
         /\ SameResource(k) /\ res'[k].got = res[k].got /\ res'[k].taken = res[k].taken
         /\ res'[k].wire = res[k].wire /\ res'[k].broken = res[k].broken
  BY <1>8, <1>10 DEF SameResource
<1>12. HandleTypes'
  BY <1>3, <1>6, <1>10 DEF HandleInv, HandleTypes
<1>13. Slots' /\ Rounds' /\ KeptAll
  BY <1>3, <1>5, <1>10, <1>11, NoneInserted, TaskKept
<1>14. Turns' /\ Owned'
  BY <1>13, TurnsKept, OwnedKept
<1>15. Written'
  BY <1>6, <1>7, <1>11, <1>13, WrittenKept DEF CalmTask
<1>16. Through' /\ \A k \in 1..Len(res') : ReadsOf(k)'
  BY <1>3, <1>11, <1>13, ReadsKept
<1>17. ASSUME NEW k \in 1..Len(res'), res'[k].table # "zlib", res'[k].ended PROVE EndsWell(k)'
  <2>1. k \in 1..Len(res) /\ res[k].table # "zlib"
    BY <1>10, <1>11, <1>17 DEF SameResource
  <2>2. CASE res[k].ended
    BY <1>13, <2>1, <2>2, EndsKept
  <2>3. CASE ~ res[k].ended
    <3>1. k = r /\ closed
      BY <1>8, <1>10, <1>17, <2>1, <2>3
    <3>2. CASE TakeStdin(t)
      <4>1. task[t].op = "end" /\ task[t].pc = "locked"
        BY <3>2 DEF TakeStdin, Working
      <4>2. task'[t].op = "end" /\ task'[t].res = r
        BY <1>1, <1>6, <4>1 DEF KeptTask
      <4>3. ASSUME NEW u \in 1..Len(task'), task'[u].res = r, task'[u].op = "write", Running(u)'
            PROVE  t \in 1..(u - 1)
        <5>1. u \in 1..Len(task) /\ task[u].res = r /\ task[u].op = "write" /\ Running(u)
          BY <1>6, <4>3 DEF KeptTask
        <5>2. SameLock(u, t)
          BY <1>1, <4>1, <5>1, OneLane
        <5>3. u \notin 1..(t - 1)
          BY <4>1, <5>1, <5>2 DEF HandleInv, Turns
        <5>4. u # t
          BY <4>1, <5>1
        <5>5. t \in Nat /\ u \in Nat /\ t >= 1 /\ u >= 1
          BY <5>1, Lengths DEF HandleInv
        <5> QED BY <5>3, <5>4, <5>5
      <4>4. t \in 1..Len(task')
        BY <1>6
      <4> QED BY <3>1, <4>2, <4>3, <4>4 DEF EndsWell
    <3>3. CASE tls_shutdown(t)
      <4>1. /\ task[t].op = "shutdown"
            /\ res' = [res EXCEPT ![r].ended =
                         ~ \E u \in DOMAIN task \ {t} : task[u].res = r /\ Running(u)]
        BY <1>1, <3>3 DEF tls_shutdown
      <4>2. res'[r].ended = ~ \E u \in DOMAIN task \ {t} : task[u].res = r /\ Running(u)
        <5> DEFINE b == ~ \E u \in DOMAIN task \ {t} : task[u].res = r /\ Running(u)
                   v == [res[r] EXCEPT !.ended = b]
        <5>1. v.ended = b
          BY <1>4 DEF ResourceRecord
        <5>2. res' = [res EXCEPT ![r] = v]
          BY <4>1
        <5> HIDE DEF v, b
        <5>3. DOMAIN res = 1..Len(res)
          BY Lengths DEF HandleInv
        <5>4. res'[r] = v
          BY <1>4, <5>2, <5>3
        <5> QED BY <5>1, <5>4 DEF b
      <4>3. \A u \in DOMAIN task : u # t /\ task[u].res = r => ~ Running(u)
        BY <1>17, <3>1, <4>2
      <4>4. \A u \in 1..Len(task') : task'[u].res = r => ~ Running(u)'
        <5> TAKE u \in 1..Len(task')
        <5>1. u \in DOMAIN task /\ u \in 1..Len(task)
          BY <1>6, Lengths DEF HandleInv
        <5>2. CASE u = t
          BY <1>6, <5>2
        <5>3. CASE u # t
          BY <1>6, <4>3, <5>1, <5>3 DEF KeptTask
        <5> QED BY <5>2, <5>3
      <4>5. Unslotted(r)
        BY <1>1, <4>1 DEF HandleInv, Owned
      <4>6. Unslotted(r)'
        BY <1>3, <4>5 DEF Unslotted
      <4> QED BY <3>1, <4>4, <4>6 DEF EndsWell
    <3> QED BY <3>2, <3>3
  <2> QED BY <2>2, <2>3
<1> QED BY <1>12, <1>13, <1>14, <1>15, <1>16, <1>17 DEF HandleInv, EndedWell

(***************************************************************************)
(* The outside takes a piece of a write: those before it are whole.        *)
(***************************************************************************)
LEMMA WritePieceStep ==
  ASSUME HandleInv, NEW t \in 1..Len(task), WritePiece(t)
  PROVE  HandleInv'
<1> DEFINE left == task[t].left
           rec == [task[t] EXCEPT !.left = @ - 1, !.pc = IF task[t].left = 1 THEN "sent" ELSE @]
<1>1. PICK r : r = task[t].res
  OBVIOUS
<1>2. /\ task[t].pc = "locked" /\ task[t].op = "write" /\ SetTask(t, rec) /\ Running(t)
      /\ ~ res[r].broken /\ ~ res[r].ended
      /\ res' = [res EXCEPT ![r].wire = Append(@, t)]
      /\ UNCHANGED <<next_id, table>>
      /\ IF left = 1 THEN Sends(t) ELSE UNCHANGED done
  BY <1>1 DEF WritePiece, Working, Of, Running
<1>3. /\ r \in 1..Len(res) /\ res[r] \in ResourceRecord /\ task[t] \in TaskRecord
      /\ res[r].table # "zlib" /\ t \in Nat /\ Len(res) \in Nat /\ Len(task) \in Nat
  BY <1>1, <1>2, WorkedOn, Lengths DEF HandleInv
<1>4. left \in Nat /\ left >= 1 /\ Pieces(r, t) = WriteLen - left /\ task[t].chunk = 0
  BY <1>1, <1>2, <1>3 DEF HandleInv, Written, Writes, Through, TaskRecord
<1>5. /\ rec \in TaskRecord /\ rec.pc = (IF left = 1 THEN "sent" ELSE "locked")
      /\ rec.left = left - 1 /\ rec.chunk = task[t].chunk
      /\ rec.op = "write" /\ rec.res = r
  <2>1. PICK pc : pc = IF left = 1 THEN "sent" ELSE "locked"
    OBVIOUS
  <2>2. PICK rest \in Nat : rest = left - 1
    BY <1>4
  <2>3. rec = [task[t] EXCEPT !.left = rest, !.pc = pc]
    BY <1>2, <2>1, <2>2
  <2>4. pc \in {"sent", "locked"}
    BY <2>1
  <2> HIDE DEF rec, left
  <2> QED BY <1>1, <1>2, <1>3, <2>1, <2>2, <2>3, <2>4 DEF TaskRecord
<1>6. GoesOn(t, rec)
  <2>1. rec.table = task[t].table
    BY <1>3 DEF TaskRecord
  <2> HIDE DEF rec
  <2> QED BY <1>1, <1>2, <1>4, <1>5, <2>1 DEF GoesOn
<1> HIDE DEF rec, left
<1>7. /\ task' \in Seq(TaskRecord) /\ Len(task') = Len(task) /\ task'[t] = rec
      /\ Running(t)' <=> left # 1
      /\ \A u \in 1..Len(task) : u # t => CalmTask(u) /\ task'[u] = task[u]
      /\ \A u \in 1..Len(task) : KeptTask(u)
  BY <1>2, <1>5, <1>6, OneTask
<1> DEFINE w == res[r].wire
           w2 == Append(w, t)
           new == [res[r] EXCEPT !.wire = w2]
<1>8. w \in Seq(Nat) /\ w2 \in Seq(Nat)
  BY <1>3 DEF ResourceRecord
<1>9. /\ new \in ResourceRecord /\ new.wire = w2
      /\ new.table = res[r].table /\ new.id = res[r].id /\ new.nth = res[r].nth
      /\ new.got = res[r].got /\ new.taken = res[r].taken
      /\ new.ended = res[r].ended /\ new.broken = res[r].broken
  <2> HIDE DEF w2
  <2> QED BY <1>3, <1>8 DEF ResourceRecord
<1>10. res' = [res EXCEPT ![r] = new]
  BY <1>2
<1> HIDE DEF new
<1>11. /\ res' \in Seq(ResourceRecord) /\ Len(res') = Len(res) /\ res'[r] = new
       /\ \A k \in 1..Len(res) : k # r => res'[k] = res[k]
  BY <1>3, <1>9, <1>10, ChangedItem DEF HandleInv, HandleTypes
<1>12. \A k \in 1..Len(res) :
         /\ SameResource(k) /\ res'[k].got = res[k].got /\ res'[k].taken = res[k].taken
         /\ res'[k].ended = res[k].ended /\ res'[k].broken = res[k].broken
  BY <1>9, <1>11 DEF SameResource
<1>13. HandleTypes'
  <2>1. done' \in Seq(Nat)
    BY <1>2, DoneTypes DEF HandleInv, HandleTypes
  <2> QED BY <1>2, <1>7, <1>11, <2>1 DEF HandleInv, HandleTypes
<1>14. Slots' /\ Rounds' /\ KeptAll
  BY <1>2, <1>5, <1>6, <1>11, <1>12, NoneInserted, TaskKept
<1>15. Turns' /\ Owned' /\ EndedWell'
  BY <1>12, <1>14, TurnsKept, OwnedKept, EndedKept
<1>16. Through' /\ \A k \in 1..Len(res') : ReadsOf(k)'
  <2>1. CASE left = 1
    BY <1>2, <1>7, <1>12, <1>14, <2>1, ReadsKept DEF Sends
  <2>2. CASE left # 1
    BY <1>2, <1>12, <1>14, <2>2, ReadsKept
  <2> QED BY <2>1, <2>2
<1>17. /\ Len(w) \in Nat /\ Len(w2) = Len(w) + 1 /\ w2[Len(w) + 1] = t
       /\ \A i \in 1..Len(w) : w2[i] = w[i]
       /\ DOMAIN w = 1..Len(w) /\ DOMAIN w2 = 1..(Len(w) + 1)
  BY <1>3, <1>8, AppendedItem
<1>18. /\ \A i \in 1..Len(w) : /\ w[i] \in 1..Len(task)
                               /\ task[w[i]].op = "write" /\ task[w[i]].res = r
                               /\ task[w[i]].pc # "spawned"
       /\ \A i, j \in 1..Len(w) : i < j =>
            w[i] <= w[j] /\ (w[i] < w[j] => task[w[i]].left = 0)
  BY <1>3 DEF HandleInv, Written, Wires
<1>19. ASSUME NEW u \in 1..Len(task), task[u].op = "write", task[u].res = r, task[u].pc # "spawned"
       PROVE  u <= t /\ (u < t => task'[u].left = 0)
  <2>1. SameLock(u, t) /\ SameLock(t, u)
    BY <1>1, <1>2, <1>19, OneLane
  <2>2. u \in Nat /\ u >= 1 /\ t >= 1
    BY <1>3
  <2>3. u <= t
    <3> SUFFICES ASSUME t < u PROVE FALSE
      BY <1>3, <2>2
    <3>1. t \in 1..(u - 1)
      BY <1>3, <2>2
    <3> QED BY <1>2, <1>19, <2>1, <3>1 DEF HandleInv, Turns
  <2>4. ASSUME u < t PROVE task'[u].left = 0
    <3>1. u \in 1..(t - 1)
      BY <1>3, <2>2, <2>4
    <3>2. ~ Running(u)
      BY <1>2, <2>1, <3>1 DEF HandleInv, Turns
    <3>3. task[u].left = 0
      BY <1>2, <1>19, <3>2 DEF HandleInv, Written, Writes
    <3> QED BY <1>3, <1>7, <2>2, <2>4, <3>3
  <2> QED BY <2>3, <2>4
<1>20. ASSUME NEW k \in 1..Len(res'), res'[k].table # "zlib" PROVE Wires(k)'
  <2>1. k \in 1..Len(res) /\ res[k].table # "zlib"
    BY <1>11, <1>12, <1>20 DEF SameResource
  <2>2. CASE k # r
    <3> DEFINE v == res[k].wire
    <3>1. /\ \A i \in 1..Len(v) : /\ v[i] \in 1..Len(task)
                                  /\ task[v[i]].op = "write" /\ task[v[i]].res = k
                                  /\ task[v[i]].pc # "spawned"
          /\ \A i, j \in 1..Len(v) : i < j =>
               v[i] <= v[j] /\ (v[i] < v[j] => task[v[i]].left = 0)
      BY <2>1 DEF HandleInv, Written, Wires
    <3>2. res'[k].wire = v
      BY <1>11, <2>1, <2>2
    <3> HIDE DEF v
    <3>3. \A i \in 1..Len(v) : task'[v[i]] = task[v[i]]
      BY <1>1, <1>7, <2>2, <3>1
    <3> QED BY <1>7, <3>1, <3>2, <3>3 DEF Wires
  <2>3. CASE k = r
    <3>1. res'[k].wire = w2
      BY <1>9, <1>11, <2>3
    <3> HIDE DEF w, w2
    <3>2. ASSUME NEW i \in 1..(Len(w) + 1)
          PROVE  /\ w2[i] \in 1..Len(task)
                 /\ task[w2[i]].op = "write" /\ task[w2[i]].res = r
                 /\ task[w2[i]].pc # "spawned"
                 /\ task'[w2[i]].op = "write" /\ task'[w2[i]].res = r
                 /\ task'[w2[i]].pc # "spawned"
      <4>1. CASE i = Len(w) + 1
        BY <1>1, <1>2, <1>5, <1>7, <1>17, <4>1
      <4>2. CASE i \in 1..Len(w)
        <5>1. PICK u : u = w[i]
          OBVIOUS
        <5>2. u \in 1..Len(task) /\ task[u].op = "write" /\ task[u].res = r /\ task[u].pc # "spawned"
          BY <1>18, <4>2, <5>1
        <5>3. KeptTask(u)
          BY <1>7, <5>2
        <5> QED BY <1>17, <4>2, <5>1, <5>2, <5>3 DEF KeptTask
      <4> QED BY <1>17, <4>1, <4>2
    <3>3. ASSUME NEW i \in 1..(Len(w) + 1), NEW j \in 1..(Len(w) + 1), i < j
          PROVE  w2[i] <= w2[j] /\ (w2[i] < w2[j] => task'[w2[i]].left = 0)
      <4>1. i \in 1..Len(w)
        BY <1>17, <3>3
      <4>2. CASE j = Len(w) + 1
        BY <1>17, <1>19, <3>2, <4>2
      <4>3. CASE j \in 1..Len(w)
        <5>1. w2[i] = w[i] /\ w2[j] = w[j]
          BY <1>17, <4>1, <4>3
        <5>2. PICK u : u = w[i]
          OBVIOUS
        <5>3. u <= w[j] /\ (u < w[j] => task[u].left = 0) /\ u \in 1..Len(task)
          BY <1>18, <3>3, <4>1, <4>3, <5>2
        <5>4. u # t => task'[u] = task[u]
          BY <1>7, <5>3
        <5>5. u < w[j] => task'[u].left = 0
          <6>1. task[u].left = 0 => u # t
            BY <1>4 DEF left
          <6> QED BY <5>3, <5>4, <6>1
        <5> QED BY <5>1, <5>2, <5>3, <5>5
      <4> QED BY <1>17, <4>2, <4>3
    <3>4. Len(w2) = Len(w) + 1
      BY <1>17
    <3> QED BY <1>7, <2>3, <3>1, <3>2, <3>3, <3>4 DEF Wires
  <2> QED BY <2>2, <2>3
<1>21. \A u : Pieces(r, u) = Cardinality(Positions(w, {u}))
  <2> TAKE u
  <2>1. {i \in DOMAIN w : w[i] = u} = Positions(w, {u})
    BY DEF Positions
  <2> QED BY <2>1 DEF Pieces
<1>22. \A u : Cardinality({i \in DOMAIN w2 : w2[i] = u}) = IF u = t THEN Pieces(r, u) + 1 ELSE Pieces(r, u)
  <2> TAKE u
  <2>1. {i \in DOMAIN w2 : w2[i] = u} = Positions(w2, {u})
    BY DEF Positions
  <2>2. Cardinality(Positions(w2, {u})) =
          IF t \in {u} THEN Cardinality(Positions(w, {u})) + 1 ELSE Cardinality(Positions(w, {u}))
    BY <1>3, <1>8, PositionsAppend
  <2> HIDE DEF w2, w
  <2> QED BY <1>21, <2>1, <2>2
<1>23. ASSUME NEW u \in 1..Len(task'), task'[u].op = "write" PROVE Writes(u)'
  <2>1. u \in 1..Len(task) /\ task[u].op = "write" /\ task'[u].res = task[u].res
    BY <1>7, <1>23 DEF KeptTask
  <2>2. /\ Pieces(task[u].res, u) = WriteLen - task[u].left
        /\ Running(u) => task[u].left >= 1
        /\ ~ Running(u) => task[u].left = 0 \/ res[task[u].res].broken
    BY <2>1 DEF HandleInv, Written, Writes
  <2>3. PICK k : k = task[u].res
    OBVIOUS
  <2>4. k \in 1..Len(res)
    BY <2>1, <2>3, WorkedOn
  <2>5. Pieces(task[u].res, u)' = Cardinality({i \in DOMAIN res'[k].wire : res'[k].wire[i] = u})
    BY <2>1, <2>3 DEF Pieces
  <2>6. CASE u = t
    <3>1. Pieces(task[u].res, u)' = Pieces(r, t) + 1
      BY <1>1, <1>9, <1>11, <1>22, <2>3, <2>5, <2>6
    <3>2. task'[u].left = left - 1 /\ (Running(u)' <=> left # 1)
      BY <1>5, <1>7, <2>6
    <3>3. Pieces(task[u].res, u)' = WriteLen - task'[u].left
      BY <1>4, <3>1, <3>2, HandleAssumption
    <3>4. Running(u)' => task'[u].left >= 1
      BY <1>4, <3>2
    <3>5. ~ Running(u)' => task'[u].left = 0
      BY <1>4, <3>2
    <3> QED BY <3>3, <3>4, <3>5 DEF Writes
  <2>7. CASE u # t
    <3>1. task'[u] = task[u] /\ (Running(u)' <=> Running(u))
      BY <1>7, <2>1, <2>7 DEF Running
    <3>2. Pieces(task[u].res, u)' = Pieces(k, u)
      <4>1. CASE k = r
        BY <1>9, <1>11, <1>22, <2>5, <2>7, <4>1
      <4>2. CASE k # r
        BY <1>11, <2>4, <2>5, <4>2 DEF Pieces
      <4> QED BY <4>1, <4>2
    <3>3. res'[k].broken = res[k].broken
      BY <1>12, <2>4
    <3> QED BY <2>2, <2>3, <3>1, <3>2, <3>3 DEF Writes
  <2> QED BY <2>6, <2>7
<1> QED BY <1>13, <1>14, <1>15, <1>16, <1>20, <1>23 DEF HandleInv, Written

(***************************************************************************)
(* A read takes the next chunk, and its completion brings it behind those  *)
(* that were sent before; or it finds the end.                             *)
(***************************************************************************)
LEMMA ReadChunkStep ==
  ASSUME HandleInv, NEW t \in 1..Len(task), ReadChunk(t)
  PROVE  HandleInv'
<1>1. PICK r : r = task[t].res
  OBVIOUS
<1>2. /\ task[t].pc = "locked" /\ task[t].op = "read" /\ Running(t) /\ task[t].chunk = 0
      /\ UNCHANGED <<next_id, table>> /\ Sends(t)
  BY DEF ReadChunk, Working, Running, HandleInv, Through
<1>3. /\ r \in 1..Len(res) /\ res[r] \in ResourceRecord /\ task[t] \in TaskRecord
      /\ t \in Nat /\ Len(res) \in Nat /\ Len(task) \in Nat /\ Len(done) \in Nat
      /\ done \in Seq(Nat)
  BY <1>1, <1>2, WorkedOn, Lengths DEF HandleInv, HandleTypes
<1>4. done' \in Seq(Nat)
  BY <1>2, DoneTypes
<1>5. CASE SetTask(t, [task[t] EXCEPT !.pc = "sent"]) /\ UNCHANGED res
  <2> DEFINE rec == [task[t] EXCEPT !.pc = "sent"]
  <2>1. rec \in TaskRecord /\ rec.pc = "sent" /\ rec.chunk = 0 /\ GoesOn(t, rec)
    BY <1>2, <1>3 DEF TaskRecord, GoesOn
  <2>2. SetTask(t, rec)
    BY <1>5
  <2> HIDE DEF rec
  <2>3. /\ task' \in Seq(TaskRecord) /\ task'[t] = rec /\ ~ Running(t)'
        /\ \A u \in 1..Len(task) : u # t => CalmTask(u)
    BY <2>1, <2>2, OneTask
  <2>4. CalmTask(t)
    BY <1>2 DEF CalmTask
  <2>5. res' \in Seq(ResourceRecord) /\ \A k \in 1..Len(res) : CalmResource(k) /\ SameResource(k)
    BY <1>5 DEF HandleInv, HandleTypes, CalmResource, SameResource
  <2>6. HandleTypes'
    BY <1>2, <1>4, <2>3, <2>5 DEF HandleInv, HandleTypes
  <2>7. Slots' /\ Rounds' /\ KeptAll
    BY <1>2, <1>5, <2>1, <2>2, <2>5, NoneInserted, TaskKept
  <2>8. CalmDone
    BY <1>2, <2>1, <2>3 DEF CalmDone, Sends
  <2> QED BY <2>3, <2>4, <2>5, <2>6, <2>7, <2>8, CalmStep
<1>6. CASE /\ res[r].taken < res[r].chunks
           /\ res' = [res EXCEPT ![r].taken = @ + 1]
           /\ SetTask(t, [task[t] EXCEPT !.pc = "sent", !.chunk = res[r].taken + 1])
  <2>1. PICK c \in Nat \ {0} : c = res[r].taken + 1
    BY <1>3 DEF ResourceRecord
  <2> DEFINE rec == [task[t] EXCEPT !.pc = "sent", !.chunk = c]
             new == [res[r] EXCEPT !.taken = c]
  <2>2. /\ rec \in TaskRecord /\ rec.pc = "sent" /\ rec.chunk = c /\ rec.op = "read" /\ rec.res = r
        /\ GoesOn(t, rec)
    BY <1>1, <1>2, <1>3 DEF TaskRecord, GoesOn
  <2>3. /\ new \in ResourceRecord /\ new.taken = c
        /\ new.table = res[r].table /\ new.id = res[r].id /\ new.nth = res[r].nth
        /\ new.got = res[r].got /\ new.wire = res[r].wire
        /\ new.ended = res[r].ended /\ new.broken = res[r].broken
    BY <1>3 DEF ResourceRecord
  <2>4. SetTask(t, rec) /\ res' = [res EXCEPT ![r] = new]
    BY <1>6, <2>1
  <2> HIDE DEF rec, new
  <2>5. /\ task' \in Seq(TaskRecord) /\ Len(task') = Len(task) /\ task'[t] = rec /\ ~ Running(t)'
        /\ \A u \in 1..Len(task) : u # t => CalmTask(u) /\ task'[u] = task[u]
        /\ \A u \in 1..Len(task) : KeptTask(u)
    BY <2>2, <2>4, OneTask
  <2>6. /\ res' \in Seq(ResourceRecord) /\ Len(res') = Len(res) /\ res'[r] = new
        /\ \A k \in 1..Len(res) : k # r => res'[k] = res[k]
    BY <1>3, <2>3, <2>4, ChangedItem DEF HandleInv, HandleTypes
  <2>7. \A k \in 1..Len(res) :
          /\ SameResource(k) /\ res'[k].got = res[k].got /\ res'[k].wire = res[k].wire
          /\ res'[k].ended = res[k].ended /\ res'[k].broken = res[k].broken
    BY <2>3, <2>6 DEF SameResource
  <2>8. HandleTypes'
    BY <1>2, <1>4, <2>5, <2>6 DEF HandleInv, HandleTypes
  <2>9. Slots' /\ Rounds' /\ KeptAll
    BY <1>2, <2>2, <2>4, <2>6, <2>7, NoneInserted, TaskKept
  <2>10. \A u \in 1..Len(task) : CalmTask(u)
    BY <1>2, <2>5 DEF CalmTask
  <2>11. Turns' /\ Owned' /\ EndedWell' /\ Written'
    BY <2>7, <2>9, <2>10, TurnsKept, OwnedKept, EndedKept, WrittenKept DEF CalmTask
  <2>12. /\ Len(done') = Len(done) + 1 /\ done'[Len(done) + 1] = t
         /\ \A i \in 1..Len(done) : done'[i] = done[i]
    BY <1>2, <1>3, AppendedItem DEF Sends
  <2>13. \A i \in 1..Len(done) :
           /\ done[i] \in 1..Len(task) /\ done[i] # t /\ task'[done[i]] = task[done[i]]
           /\ task[done[i]].pc \notin {"spawned", "locked"}
    BY <1>2, <2>5 DEF HandleInv, Through, Running
  <2>14. Through'
    <3>1. ASSUME NEW u \in 1..Len(task'), Running(u)' PROVE task'[u].chunk = 0
      BY <2>5, <3>1 DEF KeptTask
    <3>2. ASSUME NEW i \in 1..Len(done')
          PROVE  done'[i] \in 1..Len(task') /\ task'[done'[i]].pc \notin {"spawned", "locked"}
      <4>1. CASE i \in 1..Len(done)
        BY <2>5, <2>12, <2>13, <4>1
      <4>2. CASE i = Len(done) + 1
        BY <2>2, <2>5, <2>12, <4>2
      <4> QED BY <1>3, <2>12, <4>1, <4>2
    <3>3. \A i \in 1..Len(done') : done'[i] \in 1..Len(task') /\ ~ Running(done[i])'
      BY <3>2 DEF Running
    <3> QED BY <3>1, <3>3 DEF Through
  <2>15. ASSUME NEW k \in 1..Len(res') PROVE ReadsOf(k)'
    <3>0. PICK m \in Nat : m = Len(done) + 1
      BY <1>3
    <3>1. /\ \A i \in 1..Len(res[k].got) : res[k].got[i] = i
          /\ Len(res[k].got) <= res[k].taken
          /\ \A i \in Bringing(k) : Brought(i) > Len(res[k].got) /\ Brought(i) <= res[k].taken
          /\ \A i, j \in Bringing(k) : i < j => Brought(i) < Brought(j)
          /\ \A n \in (Len(res[k].got) + 1)..res[k].taken : \E i \in Bringing(k) : Brought(i) = n
      BY <2>6 DEF HandleInv, ReadsOf
    <3>2. \A i \in Bringing(k) : i \in 1..Len(done) /\ Brought(i)' = Brought(i)
      BY <2>12, <2>13 DEF Bringing, Brought
    <3>3. Brought(m)' = c
      BY <2>2, <2>5, <2>12, <3>0 DEF Brought
    <3>4. CASE k # r
      <4>1. Bringing(k)' = Bringing(k)
        BY <1>3, <2>2, <2>5, <2>12, <2>13, <3>4, SMTT(30) DEF Bringing
      <4>2. res'[k] = res[k]
        BY <2>6, <3>4
      <4> QED BY <3>1, <3>2, <4>1, <4>2 DEF ReadsOf
    <3>5. CASE k = r
      <4>1. Bringing(k)' = Bringing(k) \cup {m}
        BY <1>3, <3>0, <2>2, <2>5, <2>12, <2>13, <3>5, SMTT(30) DEF Bringing
      <4>2. res'[k].got = res[k].got /\ res'[k].taken = c /\ c = res[k].taken + 1
        BY <2>1, <2>3, <2>6, <3>5
      <4>3. Len(res[k].got) \in Nat /\ res[k].taken \in Nat
        BY <1>3, <3>5 DEF ResourceRecord
      <4>4. \A i \in Bringing(k) : Brought(i) \in Nat
        <5> TAKE i \in Bringing(k)
        <5>1. task[done[i]] \in TaskRecord
          BY <2>13, Lengths DEF Bringing, HandleInv
        <5> QED BY <5>1 DEF Brought, TaskRecord
      <4>5. ASSUME NEW i \in Bringing(k)'
            PROVE  /\ Brought(i)' > Len(res[k].got) /\ Brought(i)' <= c
                   /\ i # m => Brought(i)' < c
        <5>1. CASE i = m
          BY <3>1, <3>3, <4>2, <4>3, <5>1
        <5>2. CASE i \in Bringing(k)
          <6>1. /\ Brought(i)' = Brought(i) /\ Brought(i) \in Nat
                /\ Brought(i) > Len(res[k].got) /\ Brought(i) <= res[k].taken
            BY <3>1, <3>2, <4>4, <5>2
          <6> QED BY <4>2, <4>3, <6>1
        <5> QED BY <4>1, <5>1, <5>2
      <4>6. ASSUME NEW i \in Bringing(k)', NEW j \in Bringing(k)', i < j
            PROVE  Brought(i)' < Brought(j)'
        <5>1. i \in Bringing(k) /\ i # m
          <6>1. \A x \in Bringing(k) : x \in 1..Len(done)
            BY <3>2
          <6> QED BY <1>3, <3>0, <4>1, <4>6, <6>1
        <5>2. CASE j = m
          BY <3>3, <4>5, <5>1, <5>2
        <5>3. CASE j \in Bringing(k)
          BY <3>1, <3>2, <4>6, <5>1, <5>3
        <5> QED BY <4>1, <5>2, <5>3
      <4>7. ASSUME NEW n \in (Len(res[k].got) + 1)..c PROVE \E i \in Bringing(k)' : Brought(i)' = n
        <5>1. CASE n = c
          <6>1. m \in Bringing(k)'
            BY <4>1
          <6> QED BY <3>3, <5>1, <6>1
        <5>2. CASE n # c
          <6>1. n \in (Len(res[k].got) + 1)..res[k].taken
            BY <4>2, <4>3, <5>2
          <6> QED BY <3>1, <3>2, <4>1, <6>1
        <5> QED BY <5>1, <5>2
      <4>8. Len(res[k].got) <= c
        BY <3>1, <4>2, <4>3
      <4> QED BY <3>1, <4>2, <4>5, <4>6, <4>7, <4>8 DEF ReadsOf
    <3> QED BY <3>4, <3>5
  <2> QED BY <2>8, <2>9, <2>11, <2>14, <2>15 DEF HandleInv
<1> QED BY <1>1, <1>5, <1>6 DEF ReadChunk, Of

(***************************************************************************)
(* The pump settles the oldest completion.  One that brings a chunk brings *)
(* the one JavaScript is to have next.                                     *)
(***************************************************************************)
LEMMA SettleStep ==
  ASSUME HandleInv, Drain
  PROVE  HandleInv'
<1>1. /\ Len(res) \in Nat /\ Len(task) \in Nat /\ Len(done) \in Nat \ {0} /\ done \in Seq(Nat)
      /\ UNCHANGED <<next_id, table>> /\ done' = Tail(done)
  <2>1. Len(res) \in Nat /\ Len(task) \in Nat /\ Len(done) \in Nat /\ done \in Seq(Nat) /\ done # <<>>
    BY Lengths DEF HandleInv, HandleTypes, Drain
  <2> QED BY <2>1 DEF Drain
<1>2. PICK h : h = done[1]
  OBVIOUS
<1>3. /\ h = Head(done) /\ h \in 1..Len(task) /\ ~ Running(h) /\ task[h] \in TaskRecord
      /\ \A i \in 1..Len(done) : done[i] \in 1..Len(task) /\ ~ Running(done[i])
      /\ \A u \in 1..Len(task) : Running(u) => task[u].chunk = 0
  BY <1>1, <1>2, Lengths DEF HandleInv, Through
<1> DEFINE rec == [task[h] EXCEPT !.pc = "settled"]
<1>4. SetTask(h, rec)
  BY <1>3 DEF Drain
<1>5. /\ rec \in TaskRecord /\ rec.pc = "settled" /\ rec.chunk = task[h].chunk
      /\ rec.left = task[h].left /\ rec.op = task[h].op /\ rec.res = task[h].res
      /\ GoesOn(h, rec)
  BY <1>3 DEF TaskRecord, GoesOn, Running
<1> HIDE DEF rec
<1>6. /\ task' \in Seq(TaskRecord) /\ Len(task') = Len(task) /\ task'[h] = rec /\ ~ Running(h)'
      /\ \A u \in 1..Len(task) : u # h => CalmTask(u) /\ task'[u] = task[u]
      /\ \A u \in 1..Len(task) : KeptTask(u)
  BY <1>3, <1>4, <1>5, OneTask
<1>7. \A u \in 1..Len(task) : CalmTask(u)
  BY <1>3, <1>5, <1>6 DEF CalmTask
<1>8. \A u \in 1..Len(task) :
        task'[u].op = task[u].op /\ task'[u].res = task[u].res /\ task'[u].chunk = task[u].chunk
  BY <1>5, <1>6
<1> DEFINE Brings(k) == task[h].op = "read" /\ task[h].chunk # 0 /\ task[h].res = k
<1>9. /\ res' \in Seq(ResourceRecord) /\ Len(res') = Len(res)
      /\ \A k \in 1..Len(res) :
           /\ SameResource(k) /\ res'[k].wire = res[k].wire /\ res'[k].taken = res[k].taken
           /\ res'[k].ended = res[k].ended /\ res'[k].broken = res[k].broken
           /\ res'[k].got = IF Brings(k) THEN Append(res[k].got, task[h].chunk) ELSE res[k].got
  <2>1. CASE task[h].chunk = 0
    <3>1. res' = res
      BY <1>3, <2>1 DEF Drain
    <3> QED BY <2>1, <3>1 DEF HandleInv, HandleTypes, SameResource
  <2>2. CASE task[h].chunk # 0 /\ task[h].op = "read"
    <3>1. PICK r : r = task[h].res
      OBVIOUS
    <3>2. r \in 1..Len(res) /\ res[r] \in ResourceRecord
      BY <1>3, <2>2, <3>1, WorkedOn
    <3> DEFINE got == Append(res[r].got, task[h].chunk)
               new == [res[r] EXCEPT !.got = got]
    <3>3. got \in Seq(Nat)
      <4>1. res[r].got \in Seq(Nat)
        BY <3>2 DEF ResourceRecord
      <4>2. task[h].chunk \in Nat
        BY <1>3 DEF TaskRecord
      <4> QED BY <4>1, <4>2
    <3> HIDE DEF got
    <3>4. /\ new \in ResourceRecord /\ new.got = got
          /\ new.table = res[r].table /\ new.id = res[r].id /\ new.nth = res[r].nth
          /\ new.taken = res[r].taken /\ new.wire = res[r].wire
          /\ new.ended = res[r].ended /\ new.broken = res[r].broken
      BY <3>2, <3>3 DEF ResourceRecord
    <3>5. res' = [res EXCEPT ![r] = new]
      BY <1>3, <2>2, <3>1 DEF Drain, got
    <3> HIDE DEF new
    <3>6. /\ res' \in Seq(ResourceRecord) /\ Len(res') = Len(res) /\ res'[r] = new
          /\ \A k \in 1..Len(res) : k # r => res'[k] = res[k]
      BY <3>2, <3>4, <3>5, ChangedItem DEF HandleInv, HandleTypes
    <3>7. \A k \in 1..Len(res) : Brings(k) <=> k = r
      BY <2>2, <3>1
    <3> USE DEF got
    <3> HIDE DEF Brings
    <3> QED BY <3>4, <3>6, <3>7 DEF SameResource
  <2>3. CASE task[h].chunk # 0 /\ task[h].op # "read"
    <3>1. PICK r : r = task[h].chunk
      OBVIOUS
    <3> DEFINE new == [res[r] EXCEPT !.known = TRUE]
    <3>2. res' = [res EXCEPT ![r] = new]
      BY <1>3, <2>3, <3>1 DEF Drain
    <3>3. ASSUME r \in 1..Len(res)
          PROVE  /\ new \in ResourceRecord /\ new.got = res[r].got
                 /\ new.table = res[r].table /\ new.id = res[r].id /\ new.nth = res[r].nth
                 /\ new.taken = res[r].taken /\ new.wire = res[r].wire
                 /\ new.ended = res[r].ended /\ new.broken = res[r].broken
      <4>1. res[r] \in ResourceRecord
        BY <3>3, Lengths DEF HandleInv
      <4> QED BY <4>1 DEF ResourceRecord
    <3> HIDE DEF new
    <3>4. /\ res' \in Seq(ResourceRecord) /\ Len(res') = Len(res)
          /\ r \in 1..Len(res) => res'[r] = new
          /\ \A k \in 1..Len(res) : k # r => res'[k] = res[k]
      <4>1. res \in Seq(ResourceRecord) /\ DOMAIN res = 1..Len(res)
        BY DEF HandleInv, HandleTypes
      <4>2. CASE r \in 1..Len(res)
        BY <3>2, <3>3, <4>1, <4>2, ChangedItem
      <4>3. CASE r \notin 1..Len(res)
        <5>1. res' = res
          BY <3>2, <4>1, <4>3
        <5> QED BY <4>1, <4>3, <5>1
      <4> QED BY <4>2, <4>3
    <3>5. \A k \in 1..Len(res) : ~ Brings(k)
      BY <2>3
    <3> HIDE DEF Brings
    <3> QED BY <3>3, <3>4, <3>5 DEF SameResource
  <2> QED BY <2>1, <2>2, <2>3
<1> HIDE DEF Brings
<1>10. HandleTypes'
  BY <1>1, <1>6, <1>9, TailItems DEF HandleInv, HandleTypes
<1>11. Slots' /\ Rounds' /\ KeptAll
  BY <1>1, <1>3, <1>4, <1>5, <1>9, NoneInserted, TaskKept
<1>12. Turns' /\ Owned' /\ EndedWell' /\ Written'
  BY <1>7, <1>9, <1>11, TurnsKept, OwnedKept, EndedKept, WrittenKept DEF CalmTask
<1>13. /\ Len(done') = Len(done) - 1
       /\ \A i \in 1..Len(done') : done'[i] = done[i + 1] /\ i + 1 \in 1..Len(done)
  BY <1>1, TailItems
<1>14. Through'
  <2>1. ASSUME NEW u \in 1..Len(task'), Running(u)' PROVE task'[u].chunk = 0
    BY <1>3, <1>6, <1>8, <2>1 DEF KeptTask
  <2>2. ASSUME NEW i \in 1..Len(done')
        PROVE  done'[i] \in 1..Len(task') /\ task'[done'[i]].pc \notin {"spawned", "locked"}
    <3>1. PICK u : u = done'[i]
      OBVIOUS
    <3>2. u \in 1..Len(task) /\ ~ Running(u)
      BY <1>3, <1>13, <3>1
    <3>3. ~ Running(u)'
      BY <1>6, <3>2 DEF KeptTask
    <3> QED BY <1>6, <3>1, <3>2, <3>3 DEF Running
  <2>3. \A i \in 1..Len(done') : done'[i] \in 1..Len(task') /\ ~ Running(done[i])'
    BY <2>2 DEF Running
  <2> QED BY <2>1, <2>3 DEF Through
<1>15. ASSUME NEW k \in 1..Len(res) PROVE ReadsOf(k)'
  <2> DEFINE got == res[k].got
             taken == res[k].taken
  <2>1. /\ \A i \in 1..Len(got) : got[i] = i
        /\ Len(got) <= taken
        /\ \A i \in Bringing(k) : Brought(i) > Len(got) /\ Brought(i) <= taken
        /\ \A i, j \in Bringing(k) : i < j => Brought(i) < Brought(j)
        /\ \A n \in (Len(got) + 1)..taken : \E i \in Bringing(k) : Brought(i) = n
    BY DEF HandleInv, ReadsOf
  <2>2. got \in Seq(Nat) /\ Len(got) \in Nat /\ taken \in Nat /\ res'[k].taken = taken
        /\ res'[k].got = IF Brings(k) THEN Append(got, task[h].chunk) ELSE got
    <3>1. res[k] \in ResourceRecord
      BY Lengths DEF HandleInv
    <3>2. got \in Seq(Nat) /\ Len(got) \in Nat /\ taken \in Nat
      BY <3>1 DEF ResourceRecord
    <3> QED BY <1>9, <3>2
  <2> HIDE DEF got, taken
  <2>3. \A i \in Bringing(k) : i \in 1..Len(done) /\ i \in Nat /\ Brought(i) \in Nat
    <3> TAKE i \in Bringing(k)
    <3>1. i \in 1..Len(done) /\ task[done[i]] \in TaskRecord
      BY <1>3, Lengths DEF Bringing, HandleInv
    <3> QED BY <1>1, <3>1 DEF Brought, TaskRecord
  <2>4. ASSUME NEW i \in Nat
        PROVE  /\ i \in Bringing(k)' <=> i >= 1 /\ i + 1 \in Bringing(k)
               /\ i \in Bringing(k)' => Brought(i)' = Brought(i + 1)
    <3>1. i \in 1..Len(done') <=> i >= 1 /\ i + 1 \in 1..Len(done)
      BY <1>1, <1>13
    <3>2. CASE i \in 1..Len(done')
      <4>1. PICK u : u = done'[i]
        OBVIOUS
      <4>2. u = done[i + 1] /\ u \in 1..Len(task)
        BY <1>3, <1>13, <3>2, <4>1
      <4> QED BY <1>8, <3>1, <3>2, <4>1, <4>2 DEF Bringing, Brought
    <3>3. CASE i \notin 1..Len(done')
      BY <3>1, <3>3 DEF Bringing
    <3> QED BY <3>2, <3>3
  <2>5. \A i \in Bringing(k)' : i \in Nat
    BY <1>1, <1>13 DEF Bringing
  <2>6. 1 \in Bringing(k) <=> Brings(k)
    BY <1>1, <1>2 DEF Bringing, Brings
  <2>7. ASSUME NEW i \in Bringing(k)', NEW j \in Bringing(k)', i < j
        PROVE  Brought(i)' < Brought(j)'
    <3>1. i \in Nat /\ j \in Nat /\ i + 1 < j + 1 /\ i + 1 \in Bringing(k) /\ j + 1 \in Bringing(k)
      BY <2>4, <2>5, <2>7
    <3> QED BY <2>1, <2>4, <3>1
  <2>8. CASE ~ Brings(k)
    <3>1. res'[k].got = got
      BY <2>2, <2>8
    <3>2. ASSUME NEW i \in Bringing(k)' PROVE Brought(i)' > Len(got) /\ Brought(i)' <= taken
      BY <2>1, <2>4, <2>5
    <3>3. ASSUME NEW n \in (Len(got) + 1)..taken PROVE \E i \in Bringing(k)' : Brought(i)' = n
      <4>1. PICK j \in Bringing(k) : Brought(j) = n
        BY <2>1
      <4>2. j # 1 /\ j \in 1..Len(done)
        BY <2>3, <2>6, <2>8
      <4>3. PICK i \in Nat : i + 1 = j /\ i >= 1
        <5>1. j - 1 \in Nat /\ (j - 1) + 1 = j /\ j - 1 >= 1
          BY <1>1, <4>2
        <5> QED BY <5>1
      <4> QED BY <2>4, <4>1, <4>3
    <3> QED BY <2>1, <2>2, <2>7, <3>1, <3>2, <3>3 DEF ReadsOf
  <2>9. CASE Brings(k)
    <3>1. 1 \in Bringing(k) /\ Brought(1) = task[h].chunk
      BY <1>2, <2>6, <2>9 DEF Brought
    <3>2. Brought(1) = Len(got) + 1
      <4>1. Brought(1) \in Nat /\ Brought(1) > Len(got) /\ Brought(1) <= taken
        BY <2>1, <2>3, <3>1
      <4>2. PICK i \in Bringing(k) : Brought(i) = Len(got) + 1
        <5>1. Len(got) + 1 \in (Len(got) + 1)..taken
          BY <2>2, <4>1
        <5> QED BY <2>1, <5>1
      <4>3. i = 1 \/ 1 < i
        BY <1>1, <2>3
      <4>4. ~ 1 < i
        BY <2>1, <2>2, <3>1, <4>1, <4>2
      <4> QED BY <4>2, <4>3, <4>4
    <3> DEFINE now == Append(got, Len(got) + 1)
    <3>3. res'[k].got = now
      BY <2>2, <2>9, <3>1, <3>2
    <3>4. /\ Len(now) = Len(got) + 1
          /\ \A i \in 1..Len(now) : now[i] = i
      <4>1. /\ Len(now) = Len(got) + 1 /\ now[Len(got) + 1] = Len(got) + 1
            /\ \A i \in 1..Len(got) : now[i] = got[i]
        BY <2>2, AppendedItem
      <4> HIDE DEF now
      <4>2. \A i \in 1..Len(now) : i = Len(got) + 1 \/ i \in 1..Len(got)
        BY <2>2, <4>1
      <4> QED BY <2>1, <4>1, <4>2
    <3> HIDE DEF now
    <3>5. Len(now) <= taken
      BY <2>1, <2>2, <3>1, <3>2, <3>4
    <3>6. ASSUME NEW i \in Bringing(k)' PROVE Brought(i)' > Len(now) /\ Brought(i)' <= taken
      <4>1. i \in Nat /\ i + 1 > 1 /\ i + 1 \in Bringing(k) /\ Brought(i)' = Brought(i + 1)
        BY <2>4, <2>5
      <4>2. Brought(1) < Brought(i + 1) /\ Brought(i + 1) <= taken
        BY <2>1, <3>1, <4>1
      <4> QED BY <3>2, <3>4, <4>1, <4>2
    <3>7. ASSUME NEW n \in (Len(now) + 1)..taken PROVE \E i \in Bringing(k)' : Brought(i)' = n
      <4>1. n \in (Len(got) + 1)..taken /\ n # Len(got) + 1
        BY <2>2, <3>4
      <4>2. PICK j \in Bringing(k) : Brought(j) = n
        BY <2>1, <4>1
      <4>3. j # 1 /\ j \in 1..Len(done)
        BY <2>3, <3>2, <4>1, <4>2
      <4>4. PICK i \in Nat : i + 1 = j /\ i >= 1
        <5>1. j - 1 \in Nat /\ (j - 1) + 1 = j /\ j - 1 >= 1
          BY <1>1, <4>3
        <5> QED BY <5>1
      <4> QED BY <2>4, <4>2, <4>4
    <3> QED BY <2>2, <2>7, <3>3, <3>4, <3>5, <3>6, <3>7 DEF ReadsOf
  <2> QED BY <2>8, <2>9
<1> QED BY <1>9, <1>10, <1>11, <1>12, <1>14, <1>15 DEF HandleInv

-----------------------------------------------------------------------------
(***************************************************************************)
(* Every operation keeps the invariant.                                    *)
(***************************************************************************)
LEMMA OnResourceStep ==
  ASSUME HandleInv, NEW r \in 1..Len(res), OnResource(r)
  PROVE  HandleInv'
<1>1. Tables = {"net", "listener", "tls", "response", "child", "zlib"}
  BY DEF Tables
<1>2. CASE \/ net_close_stream(r) \/ net_close_listener(r) \/ http_response_close(r)
           \/ proc_close(r) \/ zlib_close(r)
  <2>1. \E tb \in Tables : RemoveHandle(r, tb)
    BY <1>1, <1>2 DEF net_close_stream, net_close_listener, http_response_close, proc_close, zlib_close
  <2> QED BY <2>1, RemoveStep
<1>3. CASE \/ net_accept(r) \/ net_read(r) \/ net_write(r) \/ tls_read(r) \/ tls_write(r)
           \/ http_response_read(r) \/ proc_wait(r) \/ proc_stdin_write(r)
           \/ proc_stdin_close(r) \/ proc_pipe_read(r)
  <2>1. \E tb \in Tables, op \in {"accept", "write", "end", "read", "wait"} :
          (op = "write" => tb # "zlib") /\ Call(r, tb, op)
    BY <1>1, <1>3 DEF net_accept, net_read, net_write, tls_read, tls_write, http_response_read,
       proc_wait, proc_stdin_write, proc_stdin_close, proc_pipe_read
  <2> QED BY <2>1, CallStep
<1>4. CASE tls_close(r)
  BY <1>4, TlsCloseStep
<1>5. CASE proc_kill(r)
  BY <1>5, KillStep
<1>6. CASE zlib_feed(r) \/ zlib_finish(r)
  BY <1>6, ZlibStep
<1>7. CASE Outside(r)
  BY <1>7, OutsideStep
<1> QED BY <1>2, <1>3, <1>4, <1>5, <1>6, <1>7 DEF OnResource

LEMMA HandleStepInv == HandleInv /\ [HandleNext]_handleVars => HandleInv'
<1> SUFFICES ASSUME HandleInv, [HandleNext]_handleVars PROVE HandleInv'
  OBVIOUS
<1>1. Tables = {"net", "listener", "tls", "response", "child", "zlib"}
  BY DEF Tables
<1>2. DOMAIN res = 1..Len(res) /\ DOMAIN task = 1..Len(task)
  BY Lengths DEF HandleInv
<1>3. CASE net_connect \/ net_listen \/ tls_connect \/ http_request
  <2>1. \E tb \in Tables : OpenAsync(tb)
    BY <1>1, <1>3 DEF net_connect, net_listen, tls_connect, http_request
  <2> QED BY <2>1, OpenAsyncStep
<1>4. CASE proc_spawn \/ zlib_create
  <2>1. \E tb \in Tables : OpenNow(tb)
    BY <1>1, <1>4 DEF proc_spawn, zlib_create
  <2> QED BY <2>1, OpenNowStep
<1>5. CASE \E r \in DOMAIN res : OnResource(r)
  BY <1>2, <1>5, OnResourceStep
<1>6. ASSUME NEW t \in 1..Len(task), OnTask(t) PROVE HandleInv'
  <2>1. CASE Lock(t)
    BY <2>1, LockStep
  <2>2. CASE Opened(t)
    BY <2>2, OpenedStep
  <2>3. CASE WritePiece(t)
    BY <2>3, WritePieceStep
  <2>4. CASE ReadChunk(t)
    BY <2>4, ReadChunkStep
  <2>5. CASE AwaitExit(t)
    BY <2>5, AwaitExitStep
  <2>6. CASE TakeStdin(t) \/ tls_shutdown(t)
    BY <2>6, ClosingStep
  <2>7. CASE Fail(t)
    BY <2>7, FailStep
  <2> QED BY <1>6, <2>1, <2>2, <2>3, <2>4, <2>5, <2>6, <2>7 DEF OnTask
<1>7. CASE Drain
  BY <1>7, SettleStep
<1>8. CASE UNCHANGED handleVars
  <2>1. UNCHANGED <<next_id, table, res, task, done>>
    BY <1>8 DEF handleVars
  <2>2. res' \in Seq(ResourceRecord) /\ \A r \in 1..Len(res) : CalmResource(r)
    BY <2>1 DEF HandleInv, HandleTypes, CalmResource, SameResource
  <2> QED BY <2>1, <2>2, SlotsAlone, ResourceStep
<1> QED BY <1>2, <1>3, <1>4, <1>5, <1>6, <1>7, <1>8 DEF HandleNext

(***************************************************************************)
(* What the invariant says of ids and of streams.                          *)
(***************************************************************************)
LEMMA HandleInvReuse == HandleInv => NoEarlyReuse
BY Lengths DEF HandleInv, Rounds, NoEarlyReuse

LEMMA HandleInvOrder == HandleInv => StreamOrder
<1> SUFFICES ASSUME HandleInv, NEW r \in DOMAIN res, res[r].table # "zlib"
             PROVE  WritesInOrder(r) /\ EndsAfterWrites(r) /\ ReadsInOrder(r)
  BY DEF StreamOrder
<1>1. /\ r \in 1..Len(res) /\ DOMAIN task = 1..Len(task)
      /\ res[r] \in ResourceRecord
  BY Lengths DEF HandleInv
<1> DEFINE w == res[r].wire
<1>2. DOMAIN w = 1..Len(w) /\ DOMAIN res[r].got = 1..Len(res[r].got)
  BY <1>1 DEF ResourceRecord
<1>3. WritesInOrder(r)
  <2>1. /\ \A i \in 1..Len(w) : /\ w[i] \in 1..Len(task)
                                /\ task[w[i]].op = "write" /\ task[w[i]].res = r
                                /\ task[w[i]].pc # "spawned"
        /\ \A i, j \in 1..Len(w) : i < j =>
             w[i] <= w[j] /\ (w[i] < w[j] => task[w[i]].left = 0)
    BY <1>1 DEF HandleInv, Written, Wires
  <2> SUFFICES ASSUME NEW i \in 1..Len(w), NEW j \in 1..Len(w), i < j
               PROVE  w[i] <= w[j] /\ (w[i] < w[j] => Pieces(r, w[i]) = WriteLen)
    BY <1>2 DEF WritesInOrder
  <2>2. ASSUME w[i] < w[j] PROVE Pieces(r, w[i]) = WriteLen
    <3>1. PICK u : u = w[i]
      OBVIOUS
    <3>2. u \in 1..Len(task) /\ task[u].op = "write" /\ task[u].res = r /\ task[u].left = 0
      BY <2>1, <2>2, <3>1
    <3>3. Pieces(r, u) = WriteLen - 0
      BY <3>2 DEF HandleInv, Written, Writes
    <3> QED BY <3>1, <3>3, HandleAssumption
  <2> QED BY <2>1, <2>2
<1>4. EndsAfterWrites(r)
  BY <1>1 DEF HandleInv, EndedWell, EndsWell, EndsAfterWrites
<1>5. ReadsInOrder(r)
  BY <1>1, <1>2 DEF HandleInv, ReadsOf, ReadsInOrder
<1> QED BY <1>3, <1>4, <1>5

-----------------------------------------------------------------------------
(***************************************************************************)
(* The handles alone: HandleNext in any order.                             *)
(***************************************************************************)
HandleSpec == HandleInit /\ [][HandleNext]_handleVars

(***************************************************************************)
(* The slots, locks, wires and completions of handle_table.rs and of the   *)
(* net, tls, http, proc and zlib operations of ops_bridge.rs are as the    *)
(* invariant says, for any ids, resources and tasks.                       *)
(***************************************************************************)
THEOREM HandleInvariance == HandleSpec => []HandleInv
<1>1. HandleInit => HandleInv
  BY HandleInitInv
<1>2. HandleInv /\ [HandleNext]_handleVars => HandleInv'
  BY HandleStepInv
<1> QED BY <1>1, <1>2, PTL DEF HandleSpec

(***************************************************************************)
(* HandleTable::insert of handle_table.rs: an id that JavaScript holds,    *)
(* closed or not, stands for its own resource or for none until IdMax      *)
(* further ones were inserted into the table.                              *)
(***************************************************************************)
THEOREM IdsKeepTheirMeaning == HandleSpec => []NoEarlyReuse
<1> QED BY HandleInvariance, HandleInvReuse, PTL

(***************************************************************************)
(* The operations of ops_bridge.rs on one stream, none of which JavaScript *)
(* waits for: writes reach the outside whole and in the order of the       *)
(* calls, an input is closed behind the writes called before, and chunks   *)
(* are given to JavaScript in order, each once.                            *)
(***************************************************************************)
THEOREM StreamsKeepOrder == HandleSpec => []StreamOrder
<1> QED BY HandleInvariance, HandleInvOrder, PTL

-----------------------------------------------------------------------------
(***************************************************************************)
(* Timers.  Types of what the invariant speaks of.                         *)
(***************************************************************************)
TimersSpec == TimersInit /\ [][TimersNext]_timerVars

Numbers == 1..TimerIdMax

Timer ==
  [id : Numbers, repeats : BOOLEAN, state : {"asleep", "elapsed", "running", "over"},
   cleared : BOOLEAN, runs : Nat, late : BOOLEAN]

TimersTypeOK ==
  /\ nextId \in Numbers
  /\ cancelled \subseteq Numbers
  /\ timers \in Seq(Timer)
  /\ ticking \in 0..Len(timers)

(***************************************************************************)
(* Until the counter wraps, a timer's number is its place in the order.    *)
(***************************************************************************)
Numbered ==
  /\ Len(timers) < TimerIdMax => nextId = Len(timers) + 1
  /\ Len(timers) <= TimerIdMax => \A i \in Indices : timers[i].id = i

(***************************************************************************)
(* The set holds no number that no timer was given: what makes a new timer *)
(* with a new number start uncleared.                                      *)
(***************************************************************************)
Given == \A n \in cancelled : \E i \in Indices : timers[i].id = n

TickingRuns == ticking # 0 => timers[ticking].state = "running"

(***************************************************************************)
(* The set says of a timer that is not over whether it was cleared.        *)
(***************************************************************************)
Told(i) ==
  /\ ~ timers[i].late
  /\ timers[i].state # "over" => (timers[i].cleared <=> timers[i].id \in cancelled)
  /\ timers[i].state = "over" /\ (timers[i].repeats \/ timers[i].runs = 0) => timers[i].cleared

TimersInv ==
  /\ TimersTypeOK
  /\ Numbered
  /\ Given
  /\ TickingRuns
  /\ \A i \in Indices : Unshared(i) => Told(i)

-----------------------------------------------------------------------------
(***************************************************************************)
(* A step that neither sets a timer nor renumbers one keeps the numbering, *)
(* and timers share a number after it if they did before.                  *)
(***************************************************************************)
SameNumbers ==
  /\ nextId' = nextId
  /\ Len(timers') = Len(timers)
  /\ \A i \in Indices : timers'[i].id = timers[i].id

LEMMA KeptNumbers ==
  ASSUME TimersTypeOK, TimersTypeOK', Numbered, SameNumbers
  PROVE  /\ Indices' = Indices
         /\ Numbered'
         /\ \A i \in Indices : Unshared(i)' <=> Unshared(i)
<1>1. Indices = 1..Len(timers) /\ Indices' = 1..Len(timers')
  BY DEF Indices, TimersTypeOK
<1>2. Indices' = Indices
  BY <1>1 DEF SameNumbers
<1>3. Numbered'
  BY <1>2 DEF Numbered, SameNumbers
<1>4. \A i \in Indices : Unshared(i)' <=> Unshared(i)
  BY <1>2 DEF Unshared, SameNumbers
<1> QED  BY <1>2, <1>3, <1>4

LEMMA InvInit == TimersInit => TimersInv
<1> SUFFICES ASSUME TimersInit PROVE TimersInv
  OBVIOUS
<1>1. Indices = {}
  BY DEF TimersInit, Indices
<1>2. TimersTypeOK
  BY TimersAssumption DEF TimersInit, TimersTypeOK, Numbers
<1>3. Numbered /\ Given /\ TickingRuns
  BY <1>1 DEF TimersInit, Numbered, Given, TickingRuns
<1> QED  BY <1>1, <1>2, <1>3 DEF TimersInv

(***************************************************************************)
(* A timer that is replaced in the sequence by one of the same number.     *)
(***************************************************************************)
LEMMA Replacing ==
  ASSUME TimersTypeOK, NEW i \in Indices, NEW t \in Timer, t.id = timers[i].id,
         timers' = [timers EXCEPT ![i] = t], nextId' = nextId,
         cancelled' \subseteq Numbers, ticking' \in 0..Len(timers), Numbered
  PROVE  /\ TimersTypeOK'
         /\ Indices' = Indices
         /\ Numbered'
         /\ timers'[i] = t
         /\ \A j \in Indices : j # i => timers'[j] = timers[j]
         /\ \A j \in Indices : timers'[j].id = timers[j].id
         /\ \A j \in Indices : Unshared(j)' <=> Unshared(j)
<1>1. timers' \in Seq(Timer) /\ Len(timers') = Len(timers) /\ Indices = 1..Len(timers)
  BY DEF TimersTypeOK, Indices
<1>2. /\ timers'[i] = t
      /\ \A j \in Indices : j # i => timers'[j] = timers[j]
  BY DEF TimersTypeOK, Indices
<1>3. TimersTypeOK'
  BY <1>1 DEF TimersTypeOK
<1>4. SameNumbers
  BY <1>1, <1>2 DEF SameNumbers
<1> QED  BY <1>2, <1>3, <1>4, KeptNumbers DEF SameNumbers

LEMMA InvNext == TimersInv /\ [TimersNext]_timerVars => TimersInv'
<1> SUFFICES ASSUME TimersInv, [TimersNext]_timerVars PROVE TimersInv'
  OBVIOUS
<1> USE DEF TimersInv
<1>0. Indices = 1..Len(timers) /\ \A i \in Indices : timers[i] \in Timer
  BY DEF Indices, TimersTypeOK
<1>1. ASSUME NEW repeats \in BOOLEAN, SetTimer(repeats) PROVE TimersInv'
  <2> DEFINE new == [id |-> nextId, repeats |-> repeats, state |-> "asleep",
                     cleared |-> FALSE, runs |-> 0, late |-> FALSE]
             n == Len(timers) + 1
  <2>1. new \in Timer
    BY DEF Timer, TimersTypeOK
  <2>2. timers' = Append(timers, new) /\ UNCHANGED <<cancelled, ticking>>
    BY <1>1 DEF SetTimer
  <2>3. /\ timers' \in Seq(Timer) /\ Len(timers') = n /\ Indices' = 1..n
        /\ timers'[n] = new /\ \A i \in Indices : timers'[i] = timers[i]
    BY <2>1, <2>2, <1>0 DEF TimersTypeOK, Indices
  <2>4. nextId' \in Numbers
    BY <1>1, TimersAssumption DEF SetTimer, nextTimerId, Numbers, TimersTypeOK
  <2>5. TimersTypeOK'
    BY <2>2, <2>3, <2>4 DEF TimersTypeOK
  <2>6. Numbered'
    <3>1. Len(timers') < TimerIdMax => nextId' = Len(timers') + 1
      BY <1>1, <2>3, TimersAssumption DEF SetTimer, nextTimerId, Numbered, TimersTypeOK
    <3>2. ASSUME Len(timers') <= TimerIdMax, NEW i \in Indices' PROVE timers'[i].id = i
      <4>1. Len(timers) < TimerIdMax /\ Len(timers) \in Nat
        BY <3>2, <2>3, TimersAssumption DEF TimersTypeOK
      <4>2. CASE i = n
        BY <4>1, <4>2, <2>3, TimersAssumption DEF Numbered
      <4>3. CASE i # n
        BY <4>1, <4>3, <2>3, <1>0, TimersAssumption DEF Numbered
      <4> QED  BY <4>2, <4>3
    <3> QED  BY <3>1, <3>2 DEF Numbered
  <2>7. Given'
    BY <2>2, <2>3, <1>0 DEF Given
  <2>8. TickingRuns'
    BY <2>2, <2>3, <1>0 DEF TickingRuns, TimersTypeOK
  <2>9. ASSUME NEW i \in Indices', Unshared(i)' PROVE Told(i)'
    <3>1. CASE i = n
      <4>1. \A j \in Indices : timers[j].id # nextId
        BY <2>9, <3>1, <2>3, <1>0 DEF Unshared, TimersTypeOK
      <4>2. nextId \notin cancelled
        BY <4>1 DEF Given
      <4> QED  BY <4>2, <3>1, <2>2, <2>3 DEF Told
    <3>2. CASE i # n
      <4>1. i \in Indices
        BY <3>2, <2>3, <1>0, <2>9 DEF TimersTypeOK
      <4>2. Unshared(i)
        BY <4>1, <2>9, <2>3, <1>0 DEF Unshared
      <4> QED  BY <4>1, <4>2, <2>2, <2>3 DEF Told
    <3> QED  BY <3>1, <3>2
  <2> QED  BY <2>5, <2>6, <2>7, <2>8, <2>9
<1>2. ASSUME NEW i \in Indices, Clear(i) PROVE TimersInv'
  <2> DEFINE t == [timers[i] EXCEPT !.cleared = @ \/ timers[i].state # "over"]
  <2>1. t \in Timer /\ t.id = timers[i].id /\ t.state = timers[i].state /\ t.late = timers[i].late
        /\ t.repeats = timers[i].repeats /\ t.runs = timers[i].runs
        /\ (t.cleared <=> timers[i].cleared \/ timers[i].state # "over")
    BY <1>0 DEF Timer
  <2>2. /\ timers' = [timers EXCEPT ![i] = t] /\ UNCHANGED <<nextId, ticking>>
        /\ cancelled' = cancelled \cup {timers[i].id}
    BY <1>2 DEF Clear
  <2>3. /\ TimersTypeOK' /\ Indices' = Indices /\ Numbered' /\ timers'[i] = t
        /\ \A j \in Indices : j # i => timers'[j] = timers[j]
        /\ \A j \in Indices : timers'[j].id = timers[j].id
        /\ \A j \in Indices : Unshared(j)' <=> Unshared(j)
    <3>1. cancelled' \subseteq Numbers /\ ticking' \in 0..Len(timers)
      BY <2>2, <1>0 DEF TimersTypeOK, Timer
    <3> QED  BY <3>1, <2>1, <2>2, Replacing
  <2>4. Given'
    BY <2>2, <2>3 DEF Given
  <2>5. TickingRuns'
    BY <2>1, <2>2, <2>3, <1>0 DEF TickingRuns, TimersTypeOK
  <2>6. ASSUME NEW j \in Indices, Unshared(j) PROVE Told(j)'
    <3>1. CASE j = i
      <4>1. Told(i) /\ timers'[i] = t /\ timers[i].id \in cancelled'
        BY <3>1, <2>6, <2>2, <2>3
      <4> HIDE DEF t
      <4>2. t.state # "over" => t.cleared /\ t.id \in cancelled'
        BY <4>1, <2>1
      <4>3. t.state = "over" => (t.repeats \/ t.runs = 0 => t.cleared)
        BY <4>1, <2>1 DEF Told
      <4>4. ~ t.late
        BY <4>1, <2>1 DEF Told
      <4> QED  BY <4>1, <4>2, <4>3, <4>4, <3>1 DEF Told
    <3>2. CASE j # i
      BY <3>2, <2>6, <2>2, <2>3 DEF Told, Unshared
    <3> QED  BY <3>1, <3>2
  <2> QED  BY <2>3, <2>4, <2>5, <2>6
<1>3. ASSUME NEW i \in Indices, Elapse(i) PROVE TimersInv'
  <2> DEFINE t == [timers[i] EXCEPT !.state = "elapsed"]
  <2>1. t \in Timer /\ t.id = timers[i].id /\ t.state = "elapsed" /\ t.late = timers[i].late
        /\ t.repeats = timers[i].repeats /\ t.runs = timers[i].runs /\ t.cleared = timers[i].cleared
    BY <1>0 DEF Timer
  <2>2. /\ timers' = [timers EXCEPT ![i] = t] /\ UNCHANGED <<nextId, cancelled, ticking>>
        /\ timers[i].state = "asleep"
    BY <1>3 DEF Elapse
  <2>3. /\ TimersTypeOK' /\ Indices' = Indices /\ Numbered' /\ timers'[i] = t
        /\ \A j \in Indices : j # i => timers'[j] = timers[j]
        /\ \A j \in Indices : timers'[j].id = timers[j].id
        /\ \A j \in Indices : Unshared(j)' <=> Unshared(j)
    <3>1. cancelled' \subseteq Numbers /\ ticking' \in 0..Len(timers)
      BY <2>2 DEF TimersTypeOK
    <3> QED  BY <3>1, <2>1, <2>2, Replacing
  <2>4. Given'
    BY <2>2, <2>3 DEF Given
  <2>5. TickingRuns'
    BY <2>1, <2>2, <2>3, <1>0 DEF TickingRuns, TimersTypeOK
  <2>6. ASSUME NEW j \in Indices, Unshared(j) PROVE Told(j)'
    <3>1. CASE j = i
      BY <3>1, <2>6, <2>1, <2>2, <2>3 DEF Told
    <3>2. CASE j # i
      BY <3>2, <2>6, <2>2, <2>3 DEF Told
    <3> QED  BY <3>1, <3>2
  <2> QED  BY <2>3, <2>4, <2>5, <2>6
<1>4. ASSUME NEW i \in Indices, runOnce(i) PROVE TimersInv'
  <2>1. CASE Dropped(i)
    <3> DEFINE t == [timers[i] EXCEPT !.state = "over"]
    <3>1. t \in Timer /\ t.id = timers[i].id /\ t.state = "over" /\ t.late = timers[i].late
          /\ t.repeats = timers[i].repeats /\ t.runs = timers[i].runs /\ t.cleared = timers[i].cleared
      BY <1>0 DEF Timer
    <3>2. /\ timers' = [timers EXCEPT ![i] = t] /\ UNCHANGED <<nextId, ticking>> /\ ticking = 0
          /\ timers[i].state = "elapsed" /\ timers[i].id \in cancelled
          /\ cancelled' = cancelled \ {timers[i].id}
      BY <1>4, <2>1 DEF runOnce, Dropped
    <3>3. /\ TimersTypeOK' /\ Indices' = Indices /\ Numbered' /\ timers'[i] = t
          /\ \A j \in Indices : j # i => timers'[j] = timers[j]
          /\ \A j \in Indices : timers'[j].id = timers[j].id
          /\ \A j \in Indices : Unshared(j)' <=> Unshared(j)
      <4>1. cancelled' \subseteq Numbers /\ ticking' \in 0..Len(timers)
        BY <3>2 DEF TimersTypeOK
      <4> QED  BY <4>1, <3>1, <3>2, Replacing
    <3>4. Given' /\ TickingRuns'
      BY <3>2, <3>3 DEF Given, TickingRuns
    <3>5. ASSUME NEW j \in Indices, Unshared(j) PROVE Told(j)'
      <4>1. CASE j = i
        BY <4>1, <3>5, <3>1, <3>2, <3>3 DEF Told
      <4>2. CASE j # i
        BY <4>2, <3>5, <3>2, <3>3 DEF Told, Unshared
      <4> QED  BY <4>1, <4>2
    <3> QED  BY <3>3, <3>4, <3>5
  <2>2. CASE Called(i)
    <3> DEFINE t == [timers[i] EXCEPT !.state = IF timers[i].repeats THEN "running" ELSE "over",
                                      !.runs = @ + 1, !.late = @ \/ timers[i].cleared]
    <3>1. /\ t \in Timer /\ t.id = timers[i].id
          /\ t.state = IF timers[i].repeats THEN "running" ELSE "over"
          /\ t.repeats = timers[i].repeats /\ t.runs = timers[i].runs + 1
          /\ t.cleared = timers[i].cleared
          /\ (t.late <=> timers[i].late \/ timers[i].cleared)
      <4> DEFINE st == IF timers[i].repeats THEN "running" ELSE "over"
                 lt == timers[i].late \/ timers[i].cleared
      <4>1. st \in {"running", "over"} /\ lt \in BOOLEAN /\ timers[i].runs + 1 \in Nat
        BY <1>0 DEF Timer
      <4>2. t = [timers[i] EXCEPT !.state = st, !.runs = @ + 1, !.late = lt]
        OBVIOUS
      <4> HIDE DEF st, lt
      <4>3. /\ t \in Timer /\ t.id = timers[i].id /\ t.state = st /\ t.late = lt
            /\ t.repeats = timers[i].repeats /\ t.runs = timers[i].runs + 1
            /\ t.cleared = timers[i].cleared
        BY <4>1, <4>2, <1>0, ZenonT(40) DEF Timer
      <4> QED  BY <4>3 DEF st, lt
    <3>2. /\ timers' = [timers EXCEPT ![i] = t] /\ UNCHANGED <<nextId, cancelled>>
          /\ ticking' = IF timers[i].repeats THEN i ELSE ticking
          /\ ticking = 0 /\ timers[i].state = "elapsed" /\ timers[i].id \notin cancelled
      BY <1>4, <2>2 DEF runOnce, Called
    <3>3. /\ TimersTypeOK' /\ Indices' = Indices /\ Numbered' /\ timers'[i] = t
          /\ \A j \in Indices : j # i => timers'[j] = timers[j]
          /\ \A j \in Indices : timers'[j].id = timers[j].id
          /\ \A j \in Indices : Unshared(j)' <=> Unshared(j)
      <4>1. cancelled' \subseteq Numbers /\ ticking' \in 0..Len(timers)
        BY <3>2, <1>0 DEF TimersTypeOK
      <4> QED  BY <4>1, <3>1, <3>2, Replacing
    <3>4. Given'
      BY <3>2, <3>3 DEF Given
    <3>5. TickingRuns'
      BY <3>1, <3>2, <3>3, <1>0 DEF TickingRuns
    <3>6. ASSUME NEW j \in Indices, Unshared(j) PROVE Told(j)'
      <4>1. CASE j = i
        <5>1. ~ timers[i].cleared /\ ~ timers[i].late /\ timers[i].runs \in Nat
          BY <4>1, <3>6, <3>2, <1>0 DEF Told, Timer
        <5> HIDE DEF t
        <5>2. ~ t.late /\ ~ t.cleared /\ t.id \notin cancelled' /\ t.runs # 0
          BY <5>1, <3>1, <3>2
        <5>3. t.state = "over" => ~ t.repeats
          BY <3>1
        <5> QED  BY <5>2, <5>3, <4>1, <3>3 DEF Told
      <4>2. CASE j # i
        BY <4>2, <3>6, <3>2, <3>3 DEF Told
      <4> QED  BY <4>1, <4>2
    <3> QED  BY <3>3, <3>4, <3>5, <3>6
  <2> QED  BY <1>4, <2>1, <2>2 DEF runOnce
<1>5. ASSUME tick PROVE TimersInv'
  <2> DEFINE i == ticking
             t == [timers[i] EXCEPT !.state = IF timers[i].id \in cancelled THEN "over" ELSE "asleep"]
  <2>0. i \in Indices /\ timers[i].state = "running"
    BY <1>5, <1>0 DEF tick, TickingRuns, TimersTypeOK
  <2>1. /\ t \in Timer /\ t.id = timers[i].id /\ t.late = timers[i].late
        /\ t.state = IF timers[i].id \in cancelled THEN "over" ELSE "asleep"
        /\ t.repeats = timers[i].repeats /\ t.runs = timers[i].runs /\ t.cleared = timers[i].cleared
    BY <2>0, <1>0 DEF Timer
  <2>2. /\ timers' = [timers EXCEPT ![i] = t] /\ nextId' = nextId /\ ticking' = 0
        /\ cancelled' = cancelled \ {timers[i].id}
    BY <1>5 DEF tick, Again
  <2>3. /\ TimersTypeOK' /\ Indices' = Indices /\ Numbered' /\ timers'[i] = t
        /\ \A j \in Indices : j # i => timers'[j] = timers[j]
        /\ \A j \in Indices : timers'[j].id = timers[j].id
        /\ \A j \in Indices : Unshared(j)' <=> Unshared(j)
    <3>1. cancelled' \subseteq Numbers /\ ticking' \in 0..Len(timers)
      BY <2>2 DEF TimersTypeOK
    <3> HIDE DEF i, t
    <3> QED  BY <3>1, <2>0, <2>1, <2>2, Replacing
  <2>4. Given' /\ TickingRuns'
    BY <2>2, <2>3 DEF Given, TickingRuns
  <2>5. ASSUME NEW j \in Indices, Unshared(j) PROVE Told(j)'
    <3> HIDE DEF i, t
    <3>1. CASE j = i
      BY <3>1, <2>5, <2>0, <2>1, <2>2, <2>3 DEF Told
    <3>2. CASE j # i
      BY <3>2, <2>5, <2>0, <2>2, <2>3 DEF Told, Unshared
    <3> QED  BY <3>1, <3>2
  <2> QED  BY <2>3, <2>4, <2>5
<1>6. CASE UNCHANGED timerVars
  BY <1>6 DEF timerVars, TimersTypeOK, Numbered, Given, TickingRuns, Told, Unshared, Indices
<1> QED  BY <1>1, <1>2, <1>3, <1>4, <1>5, <1>6 DEF TimersNext

(***************************************************************************)
(* The set of cleared numbers is exact for every timer whose number is its *)
(* own, however often and however late timers are cleared.                 *)
(***************************************************************************)
THEOREM TimersInvariance == TimersSpec => []TimersInv
<1> QED  BY InvInit, InvNext, PTL DEF TimersSpec

(***************************************************************************)
(* A timer with a number of its own is never run after it was cleared and  *)
(* never dropped unless it was, for any number of timers; and the first    *)
(* TimerIdMax timers of an isolate have numbers of their own               *)
(* (timers.js).                                                            *)
(***************************************************************************)
THEOREM TimersAreObeyed == TimersSpec => []TimersObey
<1>1. TimersInv => TimersObey
  <2> SUFFICES ASSUME TimersInv PROVE TimersObey
    OBVIOUS
  <2>1. \A i \in Indices : Unshared(i) => Told(i)
    BY DEF TimersInv
  <2>2. Len(timers) <= TimerIdMax => \A i \in Indices : Unshared(i)
    BY DEF TimersInv, Numbered, Unshared
  <2> QED  BY <2>1, <2>2 DEF Told, TimersObey
<1> QED  BY <1>1, TimersInvariance, PTL

-----------------------------------------------------------------------------
(***************************************************************************)
(* What require gives.  The first found of several is one of them, and     *)
(* none before it was found.                                               *)
(***************************************************************************)
LEMMA LessThan ==
  IsWellFoundedOn({p \in Nat \X Nat : p[1] < p[2]}, Nat)
<1>1. OpToRel(<, Nat) = {p \in Nat \X Nat : p[1] < p[2]}
  BY Zenon DEF OpToRel
<1>2. IsWellFoundedOn(OpToRel(<, Nat), Nat)
  BY Zenon, NatLessThanWellFounded
<1> QED BY Zenon, <1>1, <1>2

LEMMA LeastNatural ==
  ASSUME NEW S \in SUBSET Nat, S # {}
  PROVE  \E x \in S : \A y \in S : x <= y
<1>1. PICK x \in S : \A y \in S : <<y, x>> \notin {p \in Nat \X Nat : p[1] < p[2]}
  BY WFMin, LessThan
<1>2. ASSUME NEW y \in S, y < x PROVE FALSE
  <2>1. <<y, x>> \in {p \in Nat \X Nat : p[1] < p[2]}
    BY <1>2
  <2> QED BY <1>1, <2>1
<1> QED BY <1>2

LEMMA First ==
  ASSUME NEW ps, DOMAIN ps \subseteq Nat
  PROVE  \/ FirstFound(ps) = NoFile /\ \A i \in DOMAIN ps : ps[i] = NoFile
         \/ \E i \in DOMAIN ps :
              /\ FirstFound(ps) = ps[i] /\ ps[i] # NoFile
              /\ \A j \in DOMAIN ps : j < i => ps[j] = NoFile
<1> DEFINE I == {i \in DOMAIN ps : ps[i] # NoFile}
           k == CHOOSE i \in I : \A j \in I : i <= j
<1>1. CASE I = {}
  BY <1>1 DEF FirstFound
<1>2. CASE I # {}
  <2>1. I \in SUBSET Nat
    OBVIOUS
  <2>2. \E i \in I : \A j \in I : i <= j
    BY ONLY <1>2, <2>1, LeastNatural
  <2>3. k \in I /\ \A j \in I : k <= j
    BY <2>2
  <2>4. FirstFound(ps) = ps[k]
    BY <1>2 DEF FirstFound
  <2>5. ASSUME NEW j \in DOMAIN ps, j < k PROVE ps[j] = NoFile
    BY <2>1, <2>3, <2>5
  <2> HIDE DEF k
  <2> QED BY <2>3, <2>4, <2>5
<1> QED BY <1>1, <1>2

(***************************************************************************)
(* What a search may answer: nothing, or a file.                           *)
(***************************************************************************)
Findable == cdisk.files \cup {NoFile}

LEMMA FirstOfFindable ==
  ASSUME NEW ps \in Seq(Findable)
  PROVE  FirstFound(ps) \in Findable
BY First DEF Findable

LEMMA FirstOfTwo ==
  ASSUME NEW a, NEW b
  PROVE  FirstFound(<<a, b>>) = IF a # NoFile THEN a ELSE b
<1> DEFINE ps == <<a, b>>
<1>1. ps[1] = a /\ ps[2] = b /\ DOMAIN ps = {1, 2}
  OBVIOUS
<1> SUFFICES FirstFound(ps) = IF a # NoFile THEN a ELSE b
  OBVIOUS
<1> HIDE DEF ps
<1>2. CASE a # NoFile
  BY <1>1, <1>2, First
<1>3. CASE a = NoFile
  BY <1>1, <1>3, First
<1> QED BY <1>2, <1>3

LEMMA ExistingIs ==
  ASSUME NEW ps, DOMAIN ps \subseteq Nat
  PROVE  /\ Existing(ps) \in Findable
         /\ 1 \in DOMAIN ps /\ 0 \notin DOMAIN ps /\ IsFile(ps[1]) /\ ps[1] # NoFile
              => Existing(ps) = ps[1]
<1> DEFINE qs == [i \in DOMAIN ps |-> IF IsFile(ps[i]) THEN ps[i] ELSE NoFile]
<1>1. /\ DOMAIN qs = DOMAIN ps
      /\ \A i \in DOMAIN ps : qs[i] = IF IsFile(ps[i]) THEN ps[i] ELSE NoFile
  OBVIOUS
<1>2. Existing(ps) = FirstFound(qs)
  BY Zenon DEF Existing
<1> HIDE DEF qs
<1>3. Existing(ps) \in Findable
  BY <1>1, <1>2, First DEF Findable, IsFile
<1>4. ASSUME 1 \in DOMAIN ps, 0 \notin DOMAIN ps, IsFile(ps[1]), ps[1] # NoFile
      PROVE  Existing(ps) = ps[1]
  <2>1. qs[1] = ps[1] /\ qs[1] # NoFile /\ \A i \in DOMAIN qs : 1 <= i
    BY <1>1, <1>4
  <2> QED BY <1>1, <1>2, <1>4, <2>1, First
<1> QED BY <1>3, <1>4

LEMMA TriesFirst ==
  ASSUME NEW name, NEW appended, NEW replaced
  PROVE  /\ Tries(name, appended, replaced) \in Findable
         /\ IsFile(name) /\ name # NoFile => Tries(name, appended, replaced) = name
<1> DEFINE ps == [i \in 1..(2 * Len(CANDIDATES) + 1) |->
                    IF i = 1 THEN name
                    ELSE IF i % 2 = 0 THEN appended[CANDIDATES[i \div 2]]
                    ELSE replaced[CANDIDATES[i \div 2]]]
<1>1. Len(CANDIDATES) = 5
  BY DEF CANDIDATES
<1>2. DOMAIN ps \subseteq Nat /\ 1 \in DOMAIN ps /\ 0 \notin DOMAIN ps /\ ps[1] = name
  BY <1>1
<1>3. Tries(name, appended, replaced) = Existing(ps)
  BY Zenon DEF Tries
<1> HIDE DEF ps
<1> QED BY <1>2, <1>3, ExistingIs

LEMMA Tried ==
  ASSUME NEW base
  PROVE  try_extensions(base) \in Findable
BY TriesFirst, Zenon DEF try_extensions

LEMMA SpelledIsTried ==
  ASSUME NEW base, NEW request
  PROVE  /\ TrySpelled(base, request) \in Findable
         /\ EndsInName(request) /\ IsFile(Spelled(base, request))
            /\ Spelled(base, request) # NoFile
              => TrySpelled(base, request) = Spelled(base, request)
BY TriesFirst, Zenon DEF TrySpelled

LEMMA EntryIs ==
  ASSUME NEW dir
  PROVE  EntryPoint(dir) \in Findable /\ try_directory(dir) \in Findable
<1> DEFINE main == Manifest(dir).main
           a == try_extensions(dir \o main)
           b == try_extensions(Index(dir \o main))
           c == try_extensions(Index(dir))
<1>1. a \in Findable /\ b \in Findable /\ c \in Findable
  BY Tried
<1>2. EntryPoint(dir) = FirstFound((IF main = NoFile THEN <<>> ELSE <<a, b>>) \o <<c>>)
  BY DEF EntryPoint
<1> HIDE DEF a, b, c
<1>3. (IF main = NoFile THEN <<>> ELSE <<a, b>>) \o <<c>> \in Seq(Findable)
  BY <1>1
<1>4. EntryPoint(dir) \in Findable
  BY <1>2, <1>3, FirstOfFindable
<1> QED BY <1>4 DEF try_directory, Findable

LEMMA InPackage ==
  ASSUME NEW dir, NEW subpath
  PROVE  resolve_in_package(dir, subpath) \in Findable
<1> DEFINE target == match_exports(Manifest(dir).exports, subpath)
           a == try_extensions(Join(dir, target.up, target.names))
           b == EntryPoint(dir)
           c == try_extensions(dir \o subpath)
           d == try_directory(dir \o subpath)
           ps == (IF target = NoTarget THEN <<>> ELSE <<a>>)
                 \o (IF subpath = <<>> THEN <<b>> ELSE <<c, d>>)
<1>1. a \in Findable /\ b \in Findable /\ c \in Findable /\ d \in Findable
  BY Tried, EntryIs
<1>2. resolve_in_package(dir, subpath) = FirstFound(ps)
  BY DEF resolve_in_package
<1> HIDE DEF a, b, c, d, target
<1>3. ps \in Seq(Findable)
  BY <1>1
<1> QED BY <1>2, <1>3, FirstOfFindable

LEMMA NearPackage ==
  ASSUME NEW dir, NEW name, NEW subpath
  PROVE  LET p == InModulesOf(dir, name, subpath)
         IN  p = NoFile \/ (p \in cdisk.files /\ within_roots(p))
BY InPackage DEF InModulesOf, Findable

(***************************************************************************)
(* A file is admitted with the link it may be taken away, and within the   *)
(* roots.                                                                  *)
(***************************************************************************)
Admitted(r) ==
  /\ r = Found(r.path)
  /\ r.path \in cdisk.files \ DOMAIN cdisk.links /\ r.path # NoFile
  /\ \E root \in Range(Roots) : IsPrefix(root, r.path)

LEMMA Disk ==
  ASSUME cdisk \in CjsDisks
  PROVE  /\ cdisk.files \subseteq Paths /\ NoFile \notin cdisk.files
         /\ \A f \in DOMAIN cdisk.links : cdisk.links[f] \in cdisk.files \ DOMAIN cdisk.links
         /\ DOMAIN cdisk.pkg \subseteq Paths
         /\ \A r \in cdisk.requests :
              r.kind \in {"node", "relative", "absolute", "import", "package"}
BY CjsAssumption DEF NoFile

LEMMA Classified ==
  ASSUME cdisk \in CjsDisks, NEW p \in cdisk.files, within_roots(p)
  PROVE  Admitted(classify(p))
<1>1. classify(p) = Found(canonicalize(p)) /\ Found(canonicalize(p)).path = canonicalize(p)
  BY DEF classify, Found
<1>2. canonicalize(p) \in cdisk.files \ DOMAIN cdisk.links /\ canonicalize(p) # NoFile
  BY Disk DEF canonicalize
<1>3. \E root \in Range(Roots) : IsPrefix(root, canonicalize(p))
  BY DEF within_roots
<1> HIDE DEF Found
<1> QED BY <1>1, <1>2, <1>3 DEF Admitted

LEMMA KindOfFile == \A p : Found(p).kind = "file"
BY DEF Found

LEMMA FilePath ==
  ASSUME cdisk \in CjsDisks, NEW base, NEW request
  PROVE  LET r == resolve_file_path(base, request)
         IN  /\ r.kind = "file" => Admitted(r)
             /\ r.kind # "builtin"
             /\ EndsInName(request) /\ within_roots(Spelled(base, request))
                /\ Spelled(base, request) \in cdisk.files \ DOMAIN cdisk.links
                  => r = Found(Spelled(base, request))
<1> DEFINE r == resolve_file_path(base, request)
           raw == Spelled(base, request)
           a == TrySpelled(base, request)
           b == try_directory(raw)
           p == FirstFound(<<a, b>>)
<1>1. r = IF p = NoFile THEN Refused("not_found")
          ELSE IF ~ within_roots(p) THEN Refused("denied") ELSE classify(p)
  BY DEF resolve_file_path
<1>2. a \in Findable /\ b \in Findable
      /\ (EndsInName(request) /\ IsFile(raw) /\ raw # NoFile => a = raw)
  BY SpelledIsTried, EntryIs
<1> HIDE DEF a, b, raw, r
<1>3. <<a, b>> \in Seq(Findable)
  BY <1>2
<1>4. (p = IF a # NoFile THEN a ELSE b) /\ p \in Findable
  BY <1>3, FirstOfTwo, FirstOfFindable
<1> HIDE DEF p
<1>5. classify(p).kind = "file" /\ Refused("not_found").kind = "not_found"
      /\ Refused("denied").kind = "denied"
  BY DEF classify, Found, Refused
<1>6. p # NoFile /\ within_roots(p) => Admitted(classify(p))
  BY <1>4, Classified DEF Findable
<1>7. EndsInName(request) /\ raw \in cdisk.files \ DOMAIN cdisk.links /\ within_roots(raw)
        => r = Found(raw)
  BY <1>1, <1>2, <1>4, Disk DEF IsFile, NoFile, classify, canonicalize
<1>8. r.kind # "builtin" /\ (r.kind = "file" => Admitted(r))
  BY <1>1, <1>5, <1>6
<1> QED BY <1>7, <1>8 DEF r, raw

LEMMA AbsolutePath ==
  ASSUME cdisk \in CjsDisks, NEW p \in cdisk.files \ DOMAIN cdisk.links, within_roots(p)
  PROVE  resolve_file_path(<<>>, Absolute(p)) = Found(p)
<1>1. p \in Paths /\ p # <<>>
  BY Disk DEF NoFile
<1>2. Absolute(p).up = 0 /\ Absolute(p).names = p /\ Absolute(p).slash = FALSE
  BY DEF Absolute
<1>3. Join(<<>>, 0, p) = p
  BY <1>1 DEF Join, Paths
<1>4. Spelled(<<>>, Absolute(p)) = p /\ EndsInName(Absolute(p))
  BY <1>1, <1>2, <1>3 DEF Spelled, EndsInName
<1> QED BY <1>4, FilePath

LEMMA AncestorsOf ==
  ASSUME NEW dir \in Paths
  PROVE  /\ Len(dir) \in Nat /\ DOMAIN Ancestors(dir) = 1..(Len(dir) + 1)
         /\ \A i \in 1..(Len(dir) + 1) :
              Ancestors(dir)[i] = SubSeq(dir, 1, Len(dir) - i + 1) /\ Ancestors(dir)[i] \in Paths
BY DEF Ancestors, Paths

(***************************************************************************)
(* A package is taken from the nearest node_modules that has an admitted   *)
(* file for the request.                                                   *)
(***************************************************************************)
Nearest(dir, name, subpath, n) ==
  \A m \in (n + 1)..Len(dir) : InModulesOf(SubSeq(dir, 1, m), name, subpath) = NoFile

LEMMA NodeModules ==
  ASSUME cdisk \in CjsDisks, NEW dir \in Paths, NEW name, NEW subpath
  PROVE  LET r == resolve_node_modules(dir, name, subpath)
         IN  /\ r.kind # "builtin"
             /\ r.kind = "file" =>
                  /\ Admitted(r)
                  /\ \E n \in 0..Len(dir) :
                       /\ r = classify(InModulesOf(SubSeq(dir, 1, n), name, subpath))
                       /\ Nearest(dir, name, subpath, n)
<1> DEFINE r == resolve_node_modules(dir, name, subpath)
           ps == [i \in DOMAIN Ancestors(dir) |-> InModulesOf(Ancestors(dir)[i], name, subpath)]
           p == FirstFound(ps)
<1>1. r = IF p = NoFile THEN Refused("not_found") ELSE classify(p)
  BY DEF resolve_node_modules
<1>2. /\ Len(dir) \in Nat /\ DOMAIN ps = 1..(Len(dir) + 1)
      /\ \A i \in 1..(Len(dir) + 1) :
           ps[i] = InModulesOf(SubSeq(dir, 1, Len(dir) - i + 1), name, subpath)
  BY AncestorsOf
<1>3. classify(p).kind = "file" /\ Refused("not_found").kind = "not_found"
  BY DEF classify, Found, Refused
<1> HIDE DEF ps, r
<1>4. CASE p = NoFile
  BY <1>1, <1>3, <1>4 DEF r
<1>5. CASE p # NoFile
  <2>1. PICK i \in 1..(Len(dir) + 1) :
          /\ p = ps[i] /\ ps[i] # NoFile
          /\ \A j \in 1..(Len(dir) + 1) : j < i => ps[j] = NoFile
    BY <1>2, <1>5, First
  <2> DEFINE n == Len(dir) - i + 1
  <2>2. n \in 0..Len(dir) /\ p = InModulesOf(SubSeq(dir, 1, n), name, subpath)
    BY <1>2, <2>1
  <2>3. ASSUME NEW m \in (n + 1)..Len(dir)
        PROVE  InModulesOf(SubSeq(dir, 1, m), name, subpath) = NoFile
    <3> DEFINE j == Len(dir) - m + 1
    <3>1. j \in 1..(Len(dir) + 1) /\ j < i /\ Len(dir) - j + 1 = m
      BY <1>2
    <3> HIDE DEF j
    <3> QED BY <1>2, <2>1, <3>1
  <2>4. Admitted(classify(p))
    BY <1>5, <2>2, NearPackage, Classified
  <2> HIDE DEF n, p
  <2>5. r = classify(p) /\ Nearest(dir, name, subpath, n)
    BY <1>1, <1>5, <2>3 DEF Nearest
  <2> QED BY <1>3, <2>2, <2>4, <2>5 DEF r
<1> QED BY <1>4, <1>5

LEMMA ImportTarget ==
  ASSUME cdisk \in CjsDisks, NEW dir \in Paths, NEW target
  PROVE  LET r == resolve_imports_target(dir, target)
         IN  r.kind # "builtin" /\ (r.kind = "file" => Admitted(r))
<1> DEFINE r == resolve_imports_target(dir, target)
           raw == Join(dir, target.up, target.names)
           a == try_extensions(raw)
           b == try_directory(raw)
           p == FirstFound(<<a, b>>)
<1>1. r = IF target.kind = "package" THEN resolve_node_modules(dir, target.name, target.subpath)
          ELSE IF p # NoFile /\ within_roots(p) THEN classify(p)
          ELSE Refused("not_found")
  BY DEF resolve_imports_target
<1>2. a \in Findable /\ b \in Findable
  BY Tried, EntryIs
<1>3. p \in Findable
  <2> HIDE DEF a, b
  <2>1. <<a, b>> \in Seq(Findable)
    BY <1>2
  <2> QED BY <2>1, FirstOfFindable
<1> HIDE DEF p, r
<1>4. p # NoFile /\ within_roots(p) => Admitted(classify(p))
  BY <1>3, Classified DEF Findable
<1>5. classify(p).kind = "file" /\ Refused("not_found").kind = "not_found"
  BY DEF classify, Found, Refused
<1>6. CASE target.kind = "package"
  BY <1>1, <1>6, NodeModules DEF r
<1>7. CASE target.kind # "package"
  BY <1>1, <1>4, <1>5, <1>7 DEF r
<1> QED BY <1>6, <1>7

(***************************************************************************)
(* Every lookup that keys lead to starts from a directory, and the         *)
(* manifest that decides lies in one.                                      *)
(***************************************************************************)
LEMMA LookupDir ==
  ASSUME cdisk \in CjsDisks, NEW first, first.dir \in Paths, NEW at \in LookedUp(first)
  PROVE  at.dir \in Paths
<1>1. at = first \/ at \in AllLookups
  BY DEF LookedUp
<1>2. ASSUME at \in AllLookups PROVE at.dir \in Paths
  BY <1>2, Disk DEF AllLookups
<1> QED BY <1>1, <1>2

LEMMA DecidingDir ==
  ASSUME NEW at, at.dir \in Paths, Naming(at) # {}
  PROVE  Deciding(at) \in Paths
<1>1. Naming(at) \in SUBSET Nat /\ Naming(at) \subseteq 1..(Len(at.dir) + 1)
  BY AncestorsOf DEF Naming
<1>2. \E x \in Naming(at) : \A y \in Naming(at) : x <= y
  BY <1>1, LeastNatural
<1>3. Min(Naming(at)) \in Naming(at)
  BY <1>2 DEF Min
<1> QED BY <1>1, <1>3, AncestorsOf DEF Deciding

LEMMA SubpathImports ==
  ASSUME cdisk \in CjsDisks, NEW dir \in Paths, NEW key
  PROVE  LET r == resolve_subpath_imports(dir, key)
         IN  r.kind # "builtin" /\ (r.kind = "file" => Admitted(r))
<1> DEFINE first == [dir |-> dir, key |-> key]
           ends == {x \in LookedUp(first) : ~ LeadsOn(x)}
           at == CHOOSE x \in ends : TRUE
           r == resolve_subpath_imports(dir, key)
<1>1. r = IF ends = {} THEN Refused("overflow")
          ELSE IF Naming(at) = {} THEN Refused("not_found")
          ELSE resolve_imports_target(Deciding(at), Target(at))
  BY Zenon DEF resolve_subpath_imports
<1>2. first.dir \in Paths
  OBVIOUS
<1> HIDE DEF first, r
<1>3. ASSUME ends # {}, Naming(at) # {} PROVE Deciding(at) \in Paths
  <2>1. at \in LookedUp(first)
    BY <1>3
  <2> HIDE DEF at
  <2> QED BY <1>2, <1>3, <2>1, LookupDir, DecidingDir
<1> HIDE DEF ends, at
<1>4. Refused("overflow").kind = "overflow" /\ Refused("not_found").kind = "not_found"
  BY DEF Refused
<1>5. CASE ends # {} /\ Naming(at) # {}
  <2>1. r = resolve_imports_target(Deciding(at), Target(at))
    BY <1>1, <1>5
  <2> QED BY <1>3, <1>5, <2>1, ImportTarget DEF r
<1>6. CASE ~ (ends # {} /\ Naming(at) # {})
  BY <1>1, <1>4, <1>6 DEF r
<1> QED BY <1>5, <1>6

(***************************************************************************)
(* Whoever asks, a module that is named is a builtin or an admitted file;  *)
(* asked for by its path, it is the same.                                  *)
(***************************************************************************)
Asking == {RootParent} \cup {Found(f) : f \in cdisk.files} \cup {Builtin(n) : n \in Builtins}

LEMMA AskedFrom ==
  ASSUME cdisk \in CjsDisks, NEW parent \in Asking
  PROVE  parent_dir(parent) \in Paths
<1>1. Roots[1] \in Paths
  BY CjsAssumption
<1>2. ASSUME NEW f \in cdisk.files PROVE parent_dir(Found(f)) \in Paths
  <2>1. f \in Paths /\ f # <<>>
    BY Disk DEF NoFile
  <2>2. Front(f) \in Paths
    BY <2>1 DEF Paths, Front
  <2> QED BY <2>2 DEF parent_dir, Found
<1>3. parent_dir(RootParent) = Roots[1] /\ \A n : parent_dir(Builtin(n)) = Roots[1]
  BY DEF parent_dir, RootParent, Builtin
<1> QED BY <1>1, <1>2, <1>3 DEF Asking

LEMMA Resolves ==
  ASSUME cdisk \in CjsDisks, NEW parent \in Asking, NEW request \in cdisk.requests
  PROVE  LET r == cjs_resolve(parent, request)
         IN  /\ r.kind = "file" => Admitted(r)
             /\ r.kind = "builtin" => \E name \in Builtins : r = Builtin(name)
             /\ r.kind = "file" /\ request.kind = "package"
                  => r = resolve_node_modules(parent_dir(parent), request.name, request.subpath)
<1> DEFINE r == cjs_resolve(parent, request)
           dir == parent_dir(parent)
<1>1. dir \in Paths
  BY AskedFrom
<1>2. Refused("not_found").kind = "not_found" /\ \A n : Builtin(n).kind = "builtin"
  BY DEF Refused, Builtin
<1> HIDE DEF dir
<1>3. request.kind \in {"node", "relative", "absolute", "import", "package"}
  BY Disk
<1>4. CASE request.kind = "node"
  <2>1. r = IF Bare(request) \in Builtins THEN Builtin(Bare(request)) ELSE Refused("not_found")
    BY <1>4 DEF cjs_resolve
  <2> HIDE DEF r
  <2> QED BY <1>2, <1>4, <2>1 DEF r
<1>5. CASE request.kind = "relative"
  <2>1. r = resolve_file_path(dir, request)
    BY <1>5 DEF cjs_resolve, dir
  <2> HIDE DEF r
  <2> QED BY <1>5, <2>1, FilePath DEF r
<1>6. CASE request.kind = "absolute"
  <2>1. r = resolve_file_path(<<>>, request)
    BY <1>6 DEF cjs_resolve
  <2> HIDE DEF r
  <2> QED BY <1>6, <2>1, FilePath DEF r
<1>7. CASE request.kind = "import"
  <2>1. r = resolve_subpath_imports(dir, request.key)
    BY <1>7 DEF cjs_resolve, dir
  <2> HIDE DEF r
  <2> QED BY <1>1, <1>7, <2>1, SubpathImports DEF r
<1>8. CASE request.kind = "package"
  <2>1. r = IF Bare(request) \in Builtins THEN Builtin(Bare(request))
            ELSE resolve_node_modules(dir, request.name, request.subpath)
    BY <1>8 DEF cjs_resolve, dir
  <2> HIDE DEF r
  <2> QED BY <1>1, <1>2, <1>8, <2>1, NodeModules DEF r, dir
<1> QED BY <1>3, <1>4, <1>5, <1>6, <1>7, <1>8

LEMMA Stands ==
  ASSUME cdisk \in CjsDisks
  PROVE  ResolutionStands
<1> SUFFICES ASSUME NEW parent \in SomeParents, NEW request \in cdisk.requests,
                    cjs_resolve(parent, request).kind = "file"
             PROVE  LET r == cjs_resolve(parent, request)
                        dir == parent_dir(parent)
                    IN  /\ IsFile(r.path) /\ r.path \notin DOMAIN cdisk.links
                        /\ \E root \in Range(Roots) : IsPrefix(root, r.path)
                        /\ \A other \in SomeParents :
                             cjs_resolve(other, Absolute(r.path)) = r
                        /\ request.kind = "package" =>
                             \E n \in 0..Len(dir) :
                               LET at == SubSeq(dir, 1, n)
                               IN  /\ r = classify(InModulesOf(at, request.name, request.subpath))
                                   /\ \A m \in (n + 1)..Len(dir) :
                                        InModulesOf(SubSeq(dir, 1, m), request.name, request.subpath)
                                          = NoFile
  BY DEF ResolutionStands
<1> DEFINE r == cjs_resolve(parent, request)
           dir == parent_dir(parent)
<1>1. parent \in Asking
  BY DEF SomeParents, Asking
<1>2. Admitted(r)
  BY <1>1, Resolves
<1>3. request.kind = "package" => r = resolve_node_modules(dir, request.name, request.subpath)
  BY <1>1, Resolves
<1>4. dir \in Paths
  BY <1>1, AskedFrom
<1> HIDE DEF r, dir
<1>5. r = Found(r.path) /\ r.path \in cdisk.files \ DOMAIN cdisk.links
      /\ within_roots(r.path)
  BY <1>2 DEF Admitted, within_roots, canonicalize
<1>6. ASSUME NEW other \in SomeParents
      PROVE  cjs_resolve(other, Absolute(r.path)) = r
  <2>1. Absolute(r.path).kind = "absolute"
    BY DEF Absolute
  <2>2. cjs_resolve(other, Absolute(r.path)) = resolve_file_path(<<>>, Absolute(r.path))
    BY <2>1 DEF cjs_resolve
  <2> QED BY <1>5, <2>2, AbsolutePath
<1>7. ASSUME request.kind = "package"
      PROVE  \E n \in 0..Len(dir) :
               /\ r = classify(InModulesOf(SubSeq(dir, 1, n), request.name, request.subpath))
               /\ Nearest(dir, request.name, request.subpath, n)
  <2>1. r.kind = "file"
    BY <1>5, KindOfFile
  <2> QED BY <1>3, <1>4, <1>7, <2>1, NodeModules
<1> QED BY <1>2, <1>5, <1>6, <1>7 DEF Admitted, Nearest, IsFile, r, dir

CjsSpec == CjsInit /\ [][CjsNext]_cjsVars

(***************************************************************************)
(* One module to a file.  What has been started is a builtin or an         *)
(* admitted file; the cache gives for it the one instance that has not     *)
(* failed; and those that are loading are on the stack, each once.         *)
(***************************************************************************)
Ids == {Found(f) : f \in cdisk.files \ DOMAIN cdisk.links} \cup {Builtin(n) : n \in Builtins}

InstanceRecord == [id : Ids, status : {"loading", "loaded", "failed"}]

CjsTypes ==
  /\ cdisk \in CjsDisks /\ instance \in Seq(InstanceRecord) /\ cstack \in Seq(Nat)

Cached ==
  /\ \A spec \in DOMAIN cache : cache[spec] \in Live /\ instance[cache[spec]].id = spec
  /\ \A i \in Live : instance[i].id \in DOMAIN cache /\ cache[instance[i].id] = i

Stacked ==
  /\ \A k \in 1..Len(cstack) :
       cstack[k] \in 1..Len(instance) /\ instance[cstack[k]].status = "loading"
  /\ \A k, l \in 1..Len(cstack) : cstack[k] = cstack[l] => k = l
  /\ \A i \in 1..Len(instance) :
       instance[i].status = "loading" => \E k \in 1..Len(cstack) : cstack[k] = i

CjsInv == CjsTypes /\ Cached /\ Stacked

LEMMA CjsInitInv == CjsInit => CjsInv
BY DEF CjsInit, CjsInv, CjsTypes, Cached, Stacked, Live

LEMMA Identified ==
  ASSUME cdisk \in CjsDisks, NEW parent \in Parents, instance \in Seq(InstanceRecord),
         NEW request \in cdisk.requests, Resolved(cjs_resolve(parent, request))
  PROVE  cjs_resolve(parent, request) \in Ids
<1>1. Ids \subseteq Asking
  BY DEF Ids, Asking
<1>2. parent \in Asking
  <2>1. ASSUME NEW i \in DOMAIN instance PROVE instance[i].id \in Ids
    <3>1. instance[i] \in InstanceRecord
      BY <2>1
    <3> QED BY <3>1 DEF InstanceRecord
  <2> QED BY <1>1, <2>1 DEF Parents, Asking
<1> QED BY <1>2, Resolves DEF Resolved, Ids, Admitted

(***************************************************************************)
(* A module that starts, loading or loaded, or fails as it is parsed.      *)
(***************************************************************************)
LEMMA Starts ==
  ASSUME CjsInv, NEW spec \in Ids, NEW status \in {"loading", "loaded", "failed"},
         Started(spec, status)
  PROVE  /\ instance' \in Seq(InstanceRecord)
         /\ Len(instance) \in Nat /\ Len(instance') = Len(instance) + 1
         /\ DOMAIN instance = 1..Len(instance) /\ DOMAIN instance' = 1..(Len(instance) + 1)
         /\ \A i \in 1..Len(instance) : instance'[i] = instance[i]
         /\ instance'[Len(instance) + 1].id = spec
         /\ instance'[Len(instance) + 1].status = status
         /\ Live' = IF status = "failed" THEN Live ELSE Live \cup {Len(instance) + 1}
         /\ Len(instance) + 1 \notin Live
<1> DEFINE rec == [id |-> spec, status |-> status]
<1>1. rec \in InstanceRecord /\ rec.id = spec /\ rec.status = status
  BY DEF InstanceRecord
<1>2. instance' = Append(instance, rec) /\ instance \in Seq(InstanceRecord)
  BY DEF Started, CjsInv, CjsTypes
<1> HIDE DEF rec
<1>3. /\ instance' \in Seq(InstanceRecord)
      /\ Len(instance) \in Nat /\ Len(instance') = Len(instance) + 1
      /\ DOMAIN instance = 1..Len(instance) /\ DOMAIN instance' = 1..(Len(instance) + 1)
      /\ \A i \in 1..Len(instance) : instance'[i] = instance[i]
      /\ instance'[Len(instance) + 1] = rec
  BY <1>1, <1>2
<1>4. Live' = IF status = "failed" THEN Live ELSE Live \cup {Len(instance) + 1}
  <2>1. \A i \in 1..(Len(instance) + 1) : i \in 1..Len(instance) \/ i = Len(instance) + 1
    BY <1>3
  <2> QED BY <1>1, <1>3, <2>1 DEF Live
<1>5. Len(instance) + 1 \notin Live
  BY <1>3 DEF Live
<1> QED BY <1>1, <1>3, <1>4, <1>5

LEMMA StackStays ==
  ASSUME CjsInv, NEW spec \in Ids, NEW status \in {"loaded", "failed"}, Started(spec, status),
         cstack' = cstack
  PROVE  Stacked'
<1> DEFINE n == Len(instance)
<1>1. /\ n \in Nat /\ Len(instance') = n + 1 /\ \A i \in 1..n : instance'[i] = instance[i]
      /\ instance'[n + 1].status # "loading"
  BY Starts
<1>2. /\ \A k \in 1..Len(cstack) : cstack[k] \in 1..n /\ instance[cstack[k]].status = "loading"
      /\ \A k, l \in 1..Len(cstack) : cstack[k] = cstack[l] => k = l
      /\ \A i \in 1..n : instance[i].status = "loading" => \E k \in 1..Len(cstack) : cstack[k] = i
  BY DEF CjsInv, Stacked
<1> HIDE DEF n
<1>3. \A i \in 1..Len(instance') : i \in 1..n \/ i = n + 1
  BY <1>1
<1>4. 1..n \subseteq 1..Len(instance')
  BY <1>1
<1>5. \A i \in 1..Len(instance') :
        instance'[i].status = "loading" => \E k \in 1..Len(cstack) : cstack[k] = i
  BY <1>1, <1>2, <1>3
<1>6. \A k \in 1..Len(cstack) :
        cstack[k] \in 1..Len(instance') /\ instance'[cstack[k]].status = "loading"
  BY <1>1, <1>2, <1>4
<1> QED BY <1>2, <1>5, <1>6 DEF Stacked

LEMMA CachesNew ==
  ASSUME CjsInv, NEW spec \in Ids, NEW status \in {"loading", "loaded"},
         Started(spec, status), spec \notin Specifiers, Cache(spec, Len(instance) + 1)
  PROVE  Cached'
<1> DEFINE n == Len(instance) + 1
<1>1. /\ DOMAIN cache' = DOMAIN cache \cup {spec} /\ cache'[spec] = n
      /\ \A s \in DOMAIN cache : cache'[s] = cache[s]
  BY DEF Cache, Specifiers
<1>2. /\ Live' = Live \cup {n} /\ n \notin Live /\ instance'[n].id = spec
      /\ \A i \in Live : instance'[i].id = instance[i].id
  BY Starts DEF Live
<1> HIDE DEF n
<1> QED BY <1>1, <1>2 DEF CjsInv, Cached, Specifiers

LEMMA LoadKeepsInv ==
  ASSUME CjsInv, NEW parent \in Parents, NEW request \in cdisk.requests, loadModule(parent, request)
  PROVE  CjsInv'
<1> DEFINE spec == cjs_resolve(parent, request)
<1>1. /\ Resolved(spec) /\ spec \notin Specifiers /\ cdisk' = cdisk
      /\ \/ /\ Started(spec, "loading") /\ Cache(spec, Len(instance) + 1)
            /\ cstack' = Append(cstack, Len(instance) + 1)
         \/ Started(spec, "loaded") /\ Cache(spec, Len(instance) + 1) /\ cstack' = cstack
         \/ Started(spec, "failed") /\ cache' = cache /\ cstack' = cstack
  BY DEF loadModule
<1>2. spec \in Ids
  BY <1>1, Identified DEF CjsInv, CjsTypes
<1>3. InstanceRecord' = InstanceRecord /\ Ids' = Ids
  BY <1>1 DEF InstanceRecord, Ids
<1> HIDE DEF spec
<1>4. CASE /\ Started(spec, "loading") /\ Cache(spec, Len(instance) + 1)
           /\ cstack' = Append(cstack, Len(instance) + 1)
  <2>1. Cached'
    BY <1>1, <1>2, <1>4, CachesNew
  <2>2. /\ cstack' \in Seq(Nat) /\ Len(cstack) \in Nat /\ Len(cstack') = Len(cstack) + 1
        /\ \A k \in 1..Len(cstack) : cstack'[k] = cstack[k]
        /\ cstack'[Len(cstack) + 1] = Len(instance) + 1
    BY <1>4 DEF CjsInv, CjsTypes
  <2>3. CjsTypes'
    BY <1>1, <1>2, <1>3, <1>4, <2>2, Starts DEF CjsInv, CjsTypes
  <2>4. Stacked'
    <3>1. /\ Len(instance) \in Nat /\ Len(instance') = Len(instance) + 1
          /\ \A i \in 1..Len(instance) : instance'[i] = instance[i]
          /\ instance'[Len(instance) + 1].status = "loading"
      BY <1>2, <1>4, Starts
    <3>2. \A k \in 1..Len(cstack') :
            cstack'[k] \in 1..Len(instance') /\ instance'[cstack'[k]].status = "loading"
      <4>1. ASSUME NEW k \in 1..Len(cstack)
            PROVE  cstack'[k] \in 1..Len(instance') /\ instance'[cstack'[k]].status = "loading"
        <5>1. cstack[k] \in 1..Len(instance) /\ instance[cstack[k]].status = "loading"
          BY DEF CjsInv, Stacked
        <5>2. 1..Len(instance) \subseteq 1..Len(instance')
          BY <3>1
        <5> QED BY <2>2, <3>1, <5>1, <5>2
      <4>2. cstack'[Len(cstack) + 1] \in 1..Len(instance')
        BY <2>2, <3>1
      <4>3. \A k \in 1..Len(cstack') : k \in 1..Len(cstack) \/ k = Len(cstack) + 1
        BY <2>2
      <4> QED BY <2>2, <3>1, <4>1, <4>2, <4>3
    <3>3. \A k, l \in 1..Len(cstack') : cstack'[k] = cstack'[l] => k = l
      <4>1. \A k \in 1..Len(cstack) : cstack[k] # Len(instance) + 1
        BY <3>1 DEF CjsInv, Stacked
      <4>2. \A k \in 1..Len(cstack') : k \in 1..Len(cstack) \/ k = Len(cstack) + 1
        BY <2>2
      <4>3. \A k, l \in 1..Len(cstack) : cstack[k] = cstack[l] => k = l
        BY DEF CjsInv, Stacked
      <4> QED BY <2>2, <4>1, <4>2, <4>3
    <3>4. ASSUME NEW i \in 1..Len(instance'), instance'[i].status = "loading"
          PROVE  \E k \in 1..Len(cstack') : cstack'[k] = i
      <4>1. CASE i = Len(instance) + 1
        BY <2>2, <4>1
      <4>2. CASE i \in 1..Len(instance)
        <5>1. PICK k \in 1..Len(cstack) : cstack[k] = i
          BY <3>1, <3>4, <4>2 DEF CjsInv, Stacked
        <5> QED BY <2>2, <5>1
      <4> QED BY <3>1, <4>1, <4>2
    <3> QED BY <3>2, <3>3, <3>4 DEF Stacked
  <2> QED BY <2>1, <2>3, <2>4 DEF CjsInv
<1>5. CASE Started(spec, "loaded") /\ Cache(spec, Len(instance) + 1) /\ cstack' = cstack
  <2>1. Cached'
    BY <1>1, <1>2, <1>5, CachesNew
  <2>2. CjsTypes'
    BY <1>1, <1>2, <1>3, <1>5, Starts DEF CjsInv, CjsTypes
  <2>3. Stacked'
    BY <1>2, <1>5, StackStays
  <2> QED BY <2>1, <2>2, <2>3 DEF CjsInv
<1>6. CASE Started(spec, "failed") /\ cache' = cache /\ cstack' = cstack
  <2>1. /\ Live' = Live /\ DOMAIN instance = 1..Len(instance)
        /\ \A i \in 1..Len(instance) : instance'[i] = instance[i]
    BY <1>2, <1>6, Starts
  <2>2. Cached'
    BY <1>6, <2>1 DEF CjsInv, Cached, Live
  <2>3. CjsTypes'
    BY <1>1, <1>2, <1>3, <1>6, Starts DEF CjsInv, CjsTypes
  <2>4. Stacked'
    BY <1>2, <1>6, StackStays
  <2> QED BY <2>2, <2>3, <2>4 DEF CjsInv
<1> QED BY <1>1, <1>4, <1>5, <1>6

(***************************************************************************)
(* The innermost module ends: nobody else is it, and the cache had it.     *)
(***************************************************************************)
LEMMA Ending ==
  ASSUME CjsInv, cstack # <<>>, NEW status \in {"loaded", "failed"}, Ends(status),
         cstack' = Front(cstack), cdisk' = cdisk
  PROVE  LET top == Last(cstack)
         IN  /\ CjsTypes' /\ Stacked'
             /\ top \in Live /\ DOMAIN instance' = DOMAIN instance
             /\ \A i \in DOMAIN instance : instance'[i].id = instance[i].id
             /\ Live' = IF status = "failed" THEN Live \ {top} ELSE Live
<1> DEFINE top == Last(cstack)
<1>1. /\ cstack \in Seq(Nat) /\ Len(cstack) \in Nat \ {0} /\ top = cstack[Len(cstack)]
      /\ cstack' \in Seq(Nat) /\ Len(cstack') = Len(cstack) - 1
      /\ \A k \in 1..(Len(cstack) - 1) : cstack'[k] = cstack[k]
  <2>1. cstack \in Seq(Nat) /\ Len(cstack) \in Nat \ {0} /\ top = cstack[Len(cstack)]
    BY DEF CjsInv, CjsTypes, Last
  <2> QED BY <2>1, FrontItems
<1>2. top \in 1..Len(instance) /\ instance[top].status = "loading"
  BY <1>1 DEF CjsInv, Stacked
<1>3. /\ instance \in Seq(InstanceRecord) /\ DOMAIN instance = 1..Len(instance)
      /\ instance' = [instance EXCEPT ![top].status = status]
  BY DEF Ends, CjsInv, CjsTypes
<1> HIDE DEF top
<1> DEFINE rec == [instance[top] EXCEPT !.status = status]
<1>4. instance[top] \in InstanceRecord
  BY <1>2, <1>3
<1>5. rec \in InstanceRecord /\ rec.id = instance[top].id /\ rec.status = status
  BY <1>4 DEF InstanceRecord
<1>6. instance' = [instance EXCEPT ![top] = rec]
  BY <1>3
<1> HIDE DEF rec
<1>7. /\ instance' \in Seq(InstanceRecord) /\ DOMAIN instance' = DOMAIN instance
      /\ Len(instance') = Len(instance) /\ instance'[top] = rec
      /\ \A i \in 1..Len(instance) : i # top => instance'[i] = instance[i]
  BY <1>2, <1>3, <1>5, <1>6
<1>8. InstanceRecord' = InstanceRecord
  BY DEF InstanceRecord, Ids
<1>9. CjsTypes'
  BY <1>1, <1>7, <1>8 DEF CjsInv, CjsTypes
<1>10. Live' = IF status = "failed" THEN Live \ {top} ELSE Live
  BY <1>2, <1>3, <1>5, <1>7 DEF Live
<1>11. top \in Live
  BY <1>2, <1>3 DEF Live
<1>12. Stacked'
  <2> DEFINE m == Len(cstack)
  <2>0. /\ m \in Nat \ {0} /\ top = cstack[m] /\ Len(cstack') = m - 1
        /\ \A k \in 1..(m - 1) : cstack'[k] = cstack[k]
        /\ \A k \in 1..m : cstack[k] \in 1..Len(instance) /\ instance[cstack[k]].status = "loading"
        /\ \A k, l \in 1..m : cstack[k] = cstack[l] => k = l
    BY <1>1 DEF CjsInv, Stacked
  <2> HIDE DEF m
  <2>1. ASSUME NEW k \in 1..(m - 1) PROVE k \in 1..m /\ cstack[k] # top
    <3>1. k \in 1..m /\ m \in 1..m /\ k # m
      BY <2>0
    <3> QED BY <2>0, <3>1
  <2>2. ASSUME NEW k \in 1..(m - 1)
        PROVE  cstack'[k] \in 1..Len(instance') /\ instance'[cstack'[k]].status = "loading"
    BY <1>7, <2>0, <2>1
  <2>3. \A k, l \in 1..(m - 1) : cstack'[k] = cstack'[l] => k = l
    BY <2>0, <2>1
  <2>4. ASSUME NEW i \in 1..Len(instance'), instance'[i].status = "loading"
        PROVE  \E k \in 1..(m - 1) : cstack'[k] = i
    <3>1. i # top /\ instance[i].status = "loading" /\ i \in 1..Len(instance)
      BY <1>5, <1>7, <2>4
    <3>2. PICK k \in 1..m : cstack[k] = i
      BY <3>1 DEF CjsInv, Stacked, m
    <3>3. k \in 1..(m - 1)
      BY <2>0, <3>1, <3>2
    <3> QED BY <2>0, <3>2, <3>3
  <2> QED BY <2>0, <2>2, <2>3, <2>4 DEF Stacked
<1>13. \A i \in DOMAIN instance : instance'[i].id = instance[i].id
  BY <1>3, <1>5, <1>7
<1> QED BY <1>7, <1>9, <1>10, <1>11, <1>12, <1>13 DEF top

LEMMA CjsStep == CjsInv /\ [CjsNext]_cjsVars => CjsInv'
<1> SUFFICES ASSUME CjsInv, [CjsNext]_cjsVars PROVE CjsInv'
  OBVIOUS
<1>1. ASSUME NEW parent \in Parents, NEW request \in cdisk.requests, loadModule(parent, request)
      PROVE  CjsInv'
  BY <1>1, LoadKeepsInv
<1>2. CASE Returns
  <2>1. /\ cstack # <<>> /\ Ends("loaded") /\ cstack' = Front(cstack)
        /\ cdisk' = cdisk /\ cache' = cache
    BY <1>2 DEF Returns
  <2>2. /\ CjsTypes' /\ Stacked' /\ Live' = Live
        /\ \A i \in DOMAIN instance : instance'[i].id = instance[i].id
    BY <2>1, Ending
  <2>3. Cached'
    BY <2>1, <2>2 DEF CjsInv, Cached, Live
  <2> QED BY <2>2, <2>3 DEF CjsInv
<1>3. CASE Throws
  <2> DEFINE top == Last(cstack)
             spec == instance[top].id
  <2>1. /\ cstack # <<>> /\ Ends("failed") /\ cstack' = Front(cstack)
        /\ cdisk' = cdisk /\ Uncache(spec)
    BY <1>3 DEF Throws, Forget
  <2>2. /\ CjsTypes' /\ Stacked' /\ top \in Live /\ Live' = Live \ {top}
        /\ \A i \in DOMAIN instance : instance'[i].id = instance[i].id
    BY <2>1, Ending
  <2>3. /\ DOMAIN cache' = DOMAIN cache \ {spec}
        /\ \A s \in DOMAIN cache \ {spec} : cache'[s] = cache[s]
    BY <2>1 DEF Uncache, Specifiers
  <2>4. cache[spec] = top
    BY <2>2 DEF CjsInv, Cached
  <2> HIDE DEF top
  <2>5. Live \subseteq DOMAIN instance
    BY DEF Live
  <2>6. ASSUME NEW s \in DOMAIN cache' PROVE cache'[s] \in Live' /\ instance'[cache'[s]].id = s
    BY <2>2, <2>3, <2>5, <2>6 DEF CjsInv, Cached
  <2>7. ASSUME NEW i \in Live'
        PROVE  instance'[i].id \in DOMAIN cache' /\ cache'[instance'[i].id] = i
    BY <2>2, <2>3, <2>4, <2>5, <2>7 DEF CjsInv, Cached
  <2>8. Cached'
    BY <2>6, <2>7 DEF Cached
  <2> QED BY <2>2, <2>8 DEF CjsInv
<1>4. CASE UNCHANGED cjsVars
  BY <1>4 DEF cjsVars, CjsInv, CjsTypes, Cached, Stacked, Live, InstanceRecord, Ids
<1> QED BY <1>1, <1>2, <1>3, <1>4 DEF CjsNext

LEMMA OneToAFile == CjsInv => OneInstance
<1> SUFFICES ASSUME CjsInv PROVE OneInstance
  OBVIOUS
<1>1. /\ instance \in Seq(InstanceRecord) /\ DOMAIN instance = 1..Len(instance)
      /\ cstack \in Seq(Nat) /\ DOMAIN cstack = 1..Len(cstack)
  BY DEF CjsInv, CjsTypes
<1>2. ASSUME NEW i \in Live PROVE File(i) = instance[i].id
  <2>1. instance[i] \in InstanceRecord
    BY <1>1 DEF Live
  <2>2. CASE instance[i].id \in {Builtin(n) : n \in Builtins}
    BY <2>2 DEF File, Builtin
  <2>3. CASE instance[i].id \in {Found(f) : f \in cdisk.files \ DOMAIN cdisk.links}
    BY <2>3 DEF File, Found, canonicalize
  <2> QED BY <2>1, <2>2, <2>3 DEF Ids, InstanceRecord
<1>3. \A i, j \in Live : File(i) = File(j) => i = j
  BY <1>2 DEF CjsInv, Cached
<1>4. Range(cache) = Live
  BY DEF CjsInv, Cached, Range
<1>5. \A i \in DOMAIN instance : instance[i].status = "loading" <=> i \in Range(cstack)
  <2>1. \A i \in DOMAIN instance :
          instance[i].status = "loading" <=> \E k \in DOMAIN cstack : cstack[k] = i
    BY <1>1 DEF CjsInv, Stacked
  <2> QED BY <2>1 DEF Range
<1> QED BY <1>3, <1>4, <1>5 DEF OneInstance

THEOREM CjsInvariant == CjsSpec => []CjsInv
BY CjsInitInv, CjsStep, PTL DEF CjsSpec

(***************************************************************************)
(* A file is one module to all who require it, through whatever links,     *)
(* cycles and failures, on any disk (cjs_loader.js).                       *)
(***************************************************************************)
THEOREM OneInstanceHolds == CjsSpec => []OneInstance
BY CjsInvariant, OneToAFile, PTL

(***************************************************************************)
(* What is resolved is one admitted file, wherever it is asked for, and a  *)
(* package's nearest, on any disk (resolver.rs).                           *)
(***************************************************************************)
THEOREM ResolutionHolds == CjsSpec => []ResolutionStands
<1>1. CjsInv => ResolutionStands
  BY Stands DEF CjsInv, CjsTypes
<1> QED BY <1>1, CjsInvariant, PTL

-----------------------------------------------------------------------------
(***************************************************************************)
(* The host starts as its parts do, and its steps are theirs.              *)
(***************************************************************************)
LEMMA HostInits ==
  HostInit => NapiInit /\ WorkInit /\ HandleInit /\ CjsInit /\ TimersInit
BY DEF HostInit

LEMMA HostSteps ==
  [HostNext]_hostVars => /\ [NapiNext]_napiVars /\ [WorkNext]_workVars /\ [HandleNext]_handleVars
                         /\ [CjsNext]_cjsVars /\ [TimersNext]_timerVars
BY Zenon DEF HostNext, hostVars

(***************************************************************************)
(* An isolate that has all of them has what each promises: every behaviour *)
(* of the host is one of each component, whose steps leave the others be.  *)
(***************************************************************************)
THEOREM HostIsItsParts ==
  HostSpec => NapiSpec /\ WorkSpec /\ HandleSpec /\ CjsSpec /\ TimersSpec
BY HostInits, HostSteps, PTL DEF HostSpec, NapiSpec, WorkSpec, HandleSpec, CjsSpec, TimersSpec

(***************************************************************************)
(* So the host keeps what its parts keep, for all values of the constants: *)
(* exceptions reach their caller and a refused call consumes nothing,      *)
(* threads use only what lives, a handle keeps its meaning and its order,  *)
(* a file is one module and resolves to what the disk holds, and a cleared *)
(* timer does not run.                                                     *)
(***************************************************************************)
THEOREM HostKeepsItsParts ==
  HostSpec =>
    /\ [](/\ ExceptionsSurface /\ TsfnSafe /\ NoEarlyReuse /\ StreamOrder
         /\ OneInstance /\ ResolutionStands /\ TimersObey)
    /\ RefusalsConsumeNothing
BY HostIsItsParts, ExceptionsReachTheirCaller, RefusalsMayBeRepeated, PointersHold,
   IdsKeepTheirMeaning, StreamsKeepOrder, TimersAreObeyed, OneInstanceHolds, ResolutionHolds, PTL

=============================================================================
