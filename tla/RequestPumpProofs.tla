-------------------------- MODULE RequestPumpProofs --------------------------
(***************************************************************************)
(* What the two isolate workers guarantee for any set of requests, any     *)
(* mailbox and any batch: handlers start in the order of the mailbox, every *)
(* request that holds a slot is on its way to a verdict, a parked pump with *)
(* work to do is about to be woken, and a caller hears one verdict.        *)
(***************************************************************************)
EXTENDS IsolateDispatcher, SequenceTheorems, TLAPS

-----------------------------------------------------------------------------
(***************************************************************************)
(* Sequences: the pieces that operations of the worker cut them into.      *)
(***************************************************************************)
Without(s, k) == SubSeq(s, 1, k - 1) \o SubSeq(s, k + 1, Len(s))

LEMMA HeadThenTail ==
  ASSUME NEW S, NEW s \in Seq(S), s # <<>>
  PROVE  /\ s = <<Head(s)>> \o Tail(s)
         /\ Head(s) \in S /\ Tail(s) \in Seq(S)
         /\ Range(s) = {Head(s)} \cup Range(Tail(s))
<1>1. /\ Head(s) \in S /\ Tail(s) \in Seq(S) /\ Len(Tail(s)) = Len(s) - 1
      /\ \A i \in 1..Len(Tail(s)) : Tail(s)[i] = s[i + 1]
      /\ Len(s) \in Nat \ {0} /\ Head(s) = s[1]
  BY HeadTailProperties, EmptySeq
<1>2. <<Head(s)>> \in Seq(S) /\ Len(<<Head(s)>>) = 1 /\ <<Head(s)>>[1] = Head(s)
  BY <1>1
<1>3. s = <<Head(s)>> \o Tail(s)
  <2>1. /\ <<Head(s)>> \o Tail(s) \in Seq(S)
        /\ Len(<<Head(s)>> \o Tail(s)) = Len(s)
        /\ \A i \in 1..Len(s) : (<<Head(s)>> \o Tail(s))[i] = s[i]
    BY <1>1, <1>2, ConcatProperties
  <2> QED BY <2>1, SeqEqual
<1>4. Range(<<Head(s)>>) = {Head(s)}
  BY DEF Range
<1>5. Range(<<Head(s)>> \o Tail(s)) = Range(<<Head(s)>>) \cup Range(Tail(s))
  BY <1>1, <1>2, RangeConcatenation, ZenonT(40)
<1> QED BY <1>1, <1>3, <1>4, <1>5

LEMMA AppendRange ==
  ASSUME NEW S, NEW s \in Seq(S), NEW e \in S
  PROVE  Range(Append(s, e)) = Range(s) \cup {e}
<1>1. Range(<<e>>) = {e} /\ <<e>> \in Seq(S)
  BY DEF Range
<1>2. Range(s \o <<e>>) = Range(s) \cup Range(<<e>>)
  BY <1>1, RangeConcatenation
<1>3. Append(s, e) = s \o <<e>>
  BY AppendIsConcat
<1> QED BY <1>1, <1>2, <1>3

LEMMA EmptyRange == Range(<<>>) = {}
  BY DEF Range

(***************************************************************************)
(* Taking out the head of a sequence that follows another.                 *)
(***************************************************************************)
LEMMA WithoutJoint ==
  ASSUME NEW S, NEW s \in Seq(S), NEW v \in Seq(S), v # <<>>
  PROVE  /\ Len(s) + 1 \in 1..Len(s \o v)
         /\ (s \o v)[Len(s) + 1] = Head(v)
         /\ Without(s \o v, Len(s) + 1) = s \o Tail(v)
<1> DEFINE k == Len(s) + 1
<1>1. PICK u : u = s \o v
  OBVIOUS
<1>2. PICK t : t = Tail(v)
  OBVIOUS
<1>3. /\ t \in Seq(S) /\ Len(s) \in Nat /\ Len(v) \in Nat \ {0} /\ Len(t) = Len(v) - 1
      /\ \A i \in 1..Len(t) : t[i] = v[i + 1]
      /\ Head(v) = v[1]
  BY <1>2, EmptySeq, HeadTailProperties
<1>4. /\ u \in Seq(S) /\ Len(u) = Len(s) + Len(v)
      /\ \A i \in 1..Len(s) + Len(v) : u[i] = IF i <= Len(s) THEN s[i] ELSE v[i - Len(s)]
  BY <1>1, ConcatProperties
<1>5. \A i \in 1..Len(u) : u[i] \in S
  BY <1>4, ElementOfSeq
<1>6. u[k] = Head(v) /\ k \in 1..Len(u)
  <2>1. k \in 1..Len(s) + Len(v) /\ ~ (k <= Len(s)) /\ k - Len(s) = 1
    BY <1>3
  <2>2. u[k] = v[k - Len(s)]
    BY <1>4, <2>1
  <2> QED BY <1>3, <1>4, <2>1, <2>2
<1>7. SubSeq(u, 1, k - 1) = s
  <2>1. /\ SubSeq(u, 1, k - 1) \in Seq(S) /\ Len(SubSeq(u, 1, k - 1)) = Len(s)
        /\ \A i \in 1..Len(s) : SubSeq(u, 1, k - 1)[i] = s[i]
    BY <1>3, <1>4, <1>5, SubSeqProperties
  <2> QED BY <2>1, SeqEqual
<1>8. SubSeq(u, k + 1, Len(u)) = t
  <2>1. PICK w : w = SubSeq(u, k + 1, Len(u))
    OBVIOUS
  <2>2. /\ w \in Seq(S) /\ Len(w) = IF k + 1 <= Len(u) THEN Len(u) - (k + 1) + 1 ELSE 0
        /\ \A i \in 1..Len(u) - (k + 1) + 1 : w[i] = u[k + 1 + i - 1]
    BY <1>3, <1>4, <1>5, <2>1, SubSeqProperties
  <2>3. Len(w) = Len(t)
    <3>1. Len(w) = IF k + 1 <= Len(u) THEN Len(u) - (k + 1) + 1 ELSE 0
      BY <2>2
    <3> QED BY <1>3, <1>4, <3>1
  <2>4. ASSUME NEW i \in 1..Len(t) PROVE w[i] = t[i]
    <3>1. PICK j \in Nat : j = k + 1 + i - 1
      <4>1. k + 1 + i - 1 \in Nat
        BY <1>3
      <4> QED BY <4>1
    <3>2. /\ i \in 1..Len(u) - (k + 1) + 1 /\ j \in 1..Len(s) + Len(v)
          /\ ~ (j <= Len(s)) /\ j - Len(s) = i + 1
      BY <1>3, <1>4, <3>1
    <3>3. w[i] = u[j]
      BY <2>2, <3>1, <3>2
    <3>4. u[j] = v[j - Len(s)]
      BY <1>4, <3>2
    <3> QED BY <1>3, <3>2, <3>3, <3>4
  <2> QED BY <1>3, <2>1, <2>2, <2>3, <2>4, SeqEqual
<1>9. Without(u, k) = s \o t
  BY <1>7, <1>8 DEF Without
<1> QED BY <1>1, <1>2, <1>6, <1>9

LEMMA WithoutFirst ==
  ASSUME NEW S, NEW v \in Seq(S), v # <<>>, NEW x \in Seq(S)
  PROVE  /\ 1 \in 1..Len(v \o x)
         /\ (v \o x)[1] = Head(v)
         /\ Without(v \o x, 1) = Tail(v) \o x
<1>1. PICK u : u = v \o x
  OBVIOUS
<1>2. /\ u \in Seq(S) /\ Len(u) = Len(v) + Len(x) /\ Len(v) \in Nat \ {0} /\ Len(x) \in Nat
      /\ \A i \in 1..Len(v) + Len(x) : u[i] = IF i <= Len(v) THEN v[i] ELSE x[i - Len(v)]
  BY <1>1, ConcatProperties, EmptySeq
<1>3. u # <<>> /\ 1 \in 1..Len(u) /\ u[1] = Head(v) /\ Head(u) = Head(v)
  <2>1. u # <<>> /\ 1 \in 1..Len(u)
    BY <1>2, EmptySeq
  <2>2. u[1] = v[1]
    BY <1>2
  <2>3. Head(v) = v[1] /\ Head(u) = u[1]
    OBVIOUS
  <2> QED BY <2>1, <2>2, <2>3
<1>4. Tail(u) = Tail(v) \o x
  <2>1. PICK a : a = Tail(v)
    OBVIOUS
  <2>2. PICK b : b = Tail(u)
    OBVIOUS
  <2>3. /\ a \in Seq(S) /\ Len(a) = Len(v) - 1 /\ \A i \in 1..Len(a) : a[i] = v[i + 1]
        /\ b \in Seq(S) /\ Len(b) = Len(u) - 1 /\ \A i \in 1..Len(b) : b[i] = u[i + 1]
    BY <1>2, <1>3, <2>1, <2>2, HeadTailProperties
  <2>4. /\ a \o x \in Seq(S) /\ Len(a \o x) = Len(a) + Len(x)
        /\ \A i \in 1..Len(a) + Len(x) : (a \o x)[i] = IF i <= Len(a) THEN a[i] ELSE x[i - Len(a)]
    BY <2>3, ConcatProperties
  <2>5. Len(b) = Len(a \o x)
    BY <1>2, <2>3, <2>4
  <2>6. ASSUME NEW i \in 1..Len(b) PROVE b[i] = (a \o x)[i]
    <3>1. b[i] = u[i + 1] /\ i \in 1..Len(a) + Len(x) /\ i + 1 \in 1..Len(v) + Len(x)
      BY <1>2, <2>3
    <3>2. CASE i <= Len(a)
      <4>1. u[i + 1] = v[i + 1] /\ (a \o x)[i] = a[i] /\ a[i] = v[i + 1]
        BY <1>2, <2>3, <2>4, <3>1, <3>2
      <4> QED BY <3>1, <4>1
    <3>3. CASE ~ (i <= Len(a))
      <4>1. ~ (i + 1 <= Len(v)) /\ i + 1 - Len(v) = i - Len(a)
        BY <1>2, <2>3, <3>3
      <4>2. u[i + 1] = x[i + 1 - Len(v)]
        BY <1>2, <3>1, <4>1
      <4>3. (a \o x)[i] = x[i - Len(a)]
        BY <2>4, <3>1, <3>3
      <4> QED BY <3>1, <4>1, <4>2, <4>3
    <3> QED BY <3>2, <3>3
  <2> QED BY <2>1, <2>2, <2>3, <2>4, <2>5, <2>6, SeqEqual
<1>5. Without(u, 1) = Tail(u)
  <2>1. PICK z \in Seq(S) : z = <<>>
    BY EmptySeq
  <2>2. Without(z \o u, Len(z) + 1) = z \o Tail(u)
    BY <1>2, <1>3, WithoutJoint
  <2>3. z \o u = u /\ z \o Tail(u) = Tail(u) /\ Len(z) + 1 = 1
    BY <1>2, <1>3, <2>1, ConcatEmptySeq, EmptySeq, HeadTailProperties
  <2> QED BY <2>2, <2>3
<1> QED BY <1>1, <1>3, <1>4, <1>5

(***************************************************************************)
(* A sequence without repetitions loses one element with one place.        *)
(***************************************************************************)
LEMMA WithoutOne ==
  ASSUME NEW S, NEW s \in Seq(S), IsInjective(s), NEW k \in 1..Len(s)
  PROVE  /\ Without(s, k) \in Seq(S)
         /\ IsInjective(Without(s, k))
         /\ Range(Without(s, k)) = Range(s) \ {s[k]}
<1>1. Len(s) \in Nat /\ DOMAIN s = 1..Len(s) /\ \A i \in 1..Len(s) : s[i] \in S
  BY LenProperties, ElementOfSeq
<1>a. PICK a : a = SubSeq(s, 1, k - 1)
  OBVIOUS
<1>b. PICK b : b = SubSeq(s, k + 1, Len(s))
  OBVIOUS
<1>c. PICK t : t = Without(s, k)
  OBVIOUS
<1>2. a \in Seq(S) /\ Len(a) = k - 1 /\ \A i \in 1..k - 1 : a[i] = s[i]
  BY <1>1, <1>a, SubSeqProperties
<1>3. b \in Seq(S) /\ Len(b) = Len(s) - k /\ \A i \in 1..Len(s) - k : b[i] = s[k + i]
  <2>1. /\ b \in Seq(S)
        /\ Len(b) = IF k + 1 <= Len(s) THEN Len(s) - (k + 1) + 1 ELSE 0
        /\ \A i \in 1..Len(s) - (k + 1) + 1 : b[i] = s[k + 1 + i - 1]
    BY <1>1, <1>b, SubSeqProperties
  <2>2. Len(b) = Len(s) - k
    <3>1. Len(b) = IF k + 1 <= Len(s) THEN Len(s) - (k + 1) + 1 ELSE 0
      BY <2>1
    <3>2. Len(s) \in Nat /\ k \in Nat /\ k <= Len(s)
      BY <1>1
    <3>3. CASE k + 1 <= Len(s)
      BY <3>1, <3>2, <3>3
    <3>4. CASE k = Len(s)
      BY <3>1, <3>2, <3>4
    <3> QED BY <3>2, <3>3, <3>4
  <2>3. ASSUME NEW i \in 1..Len(s) - k PROVE b[i] = s[k + i]
    <3>1. i \in 1..Len(s) - (k + 1) + 1 /\ k + 1 + i - 1 = k + i
      BY <1>1
    <3> QED BY <2>1, <3>1
  <2> QED BY <2>1, <2>2, <2>3
<1>4. /\ t \in Seq(S) /\ Len(t) = Len(s) - 1
      /\ \A i \in 1..Len(s) - 1 : i < k => t[i] = s[i]
      /\ \A i \in 1..Len(s) - 1 : i >= k => t[i] = s[i + 1]
  <2>1. /\ t \in Seq(S) /\ Len(t) = Len(a) + Len(b)
        /\ \A i \in 1..Len(a) + Len(b) : t[i] = IF i <= Len(a) THEN a[i] ELSE b[i - Len(a)]
    <3>1. t = a \o b
      BY <1>a, <1>b, <1>c DEF Without
    <3> QED BY <1>2, <1>3, <3>1, ConcatProperties
  <2>2. Len(a) + Len(b) = Len(s) - 1
    BY <1>1, <1>2, <1>3
  <2>3. ASSUME NEW i \in 1..Len(s) - 1, i < k PROVE t[i] = s[i]
    BY <1>1, <1>2, <2>1, <2>2, <2>3
  <2>4. ASSUME NEW i \in 1..Len(s) - 1, i >= k PROVE t[i] = s[i + 1]
    <3>1. i - Len(a) \in 1..Len(s) - k /\ k + (i - Len(a)) = i + 1 /\ ~ (i <= Len(a))
      BY <1>1, <1>2, <2>4
    <3> QED BY <1>3, <2>1, <2>2, <3>1
  <2> QED BY <2>1, <2>2, <2>3, <2>4
<1>5. DOMAIN t = 1..Len(s) - 1
  BY <1>4, LenProperties
<1>6. \A i, j \in 1..Len(s) : s[i] = s[j] => i = j
  BY <1>1 DEF IsInjective
<1>7. IsInjective(t)
  <2>1. ASSUME NEW i \in 1..Len(s) - 1, NEW j \in 1..Len(s) - 1, t[i] = t[j]
        PROVE  i = j
    <3>1. /\ i \in 1..Len(s) /\ i + 1 \in 1..Len(s)
          /\ j \in 1..Len(s) /\ j + 1 \in 1..Len(s)
      BY <1>1
    <3> QED BY <1>4, <1>6, <2>1, <3>1
  <2> QED BY <1>5, <2>1 DEF IsInjective
<1>8. ASSUME NEW i \in 1..Len(s) - 1
      PROVE  \E j \in 1..Len(s) : j # k /\ t[i] = s[j]
  <2>1. i \in 1..Len(s) /\ i + 1 \in 1..Len(s)
    BY <1>1
  <2> QED BY <1>4, <2>1
<1>9. ASSUME NEW j \in 1..Len(s), j # k
      PROVE  \E i \in 1..Len(s) - 1 : t[i] = s[j]
  <2>1. CASE j < k
    <3>1. j \in 1..Len(s) - 1
      BY <1>1, <2>1
    <3> QED BY <1>4, <2>1, <3>1
  <2>2. CASE j > k
    <3>1. j - 1 \in 1..Len(s) - 1 /\ j - 1 >= k /\ (j - 1) + 1 = j
      BY <1>1, <2>2
    <3> QED BY <1>4, <3>1
  <2> QED BY <1>9, <2>1, <2>2
<1>10. Range(t) = Range(s) \ {s[k]}
  <2>1. Range(t) \subseteq Range(s) \ {s[k]}
    BY <1>1, <1>5, <1>6, <1>8, SMTT(30) DEF Range
  <2>2. Range(s) \ {s[k]} \subseteq Range(t)
    BY <1>1, <1>5, <1>9 DEF Range
  <2> QED BY <2>1, <2>2
<1> QED BY <1>4, <1>7, <1>10, <1>c

LEMMA AppendKeepsInjective ==
  ASSUME NEW S, NEW s \in Seq(S), IsInjective(s), NEW e \in S, e \notin Range(s)
  PROVE  IsInjective(Append(s, e))
<1>1. /\ Append(s, e) \in Seq(S) /\ Len(Append(s, e)) = Len(s) + 1
      /\ \A i \in 1..Len(s) : Append(s, e)[i] = s[i]
      /\ Append(s, e)[Len(s) + 1] = e
      /\ Len(s) \in Nat /\ DOMAIN s = 1..Len(s)
  BY AppendProperties, LenProperties
<1>2. DOMAIN Append(s, e) = 1..Len(s) + 1
  BY <1>1, LenProperties
<1>3. \A i \in 1..Len(s) : s[i] # e
  BY <1>1 DEF Range
<1> QED BY <1>1, <1>2, <1>3 DEF IsInjective

-----------------------------------------------------------------------------
(***************************************************************************)
(* What is taken from the queue and what is left make up the queue.        *)
(***************************************************************************)
LEMMA PopSplits ==
  ASSUME PumpAssumption, NEW q \in Seq(Requests)
  PROVE  LET p == pop_batch(q)
         IN  /\ p.taken \in Seq(Requests) /\ p.left \in Seq(Requests)
             /\ p.taken \o p.left = q
             /\ Range(p.taken) \cup Range(p.left) = Range(q)
             /\ q = <<>> => p.taken = <<>> /\ p.left = <<>>
<1> DEFINE n == LeastOf(Len(q), Cap)
<1>1. Len(q) \in Nat /\ n \in 0..Len(q) /\ \A i \in 1..Len(q) : q[i] \in Requests
  <2>1. Len(q) \in Nat /\ \A i \in 1..Len(q) : q[i] \in Requests
    BY LenProperties, ElementOfSeq
  <2>2. Cap \in Nat
    BY DEF PumpAssumption, Cap
  <2> QED BY <2>1, <2>2 DEF LeastOf
<1>2. pop_batch(q).taken = SubSeq(q, 1, n) /\ pop_batch(q).left = SubSeq(q, n + 1, Len(q))
  BY DEF pop_batch
<1> HIDE DEF n
<1>3. SubSeq(q, 1, n) \in Seq(Requests) /\ SubSeq(q, n + 1, Len(q)) \in Seq(Requests)
  <2>1. \A i \in 1..n : q[i] \in Requests
    BY <1>1
  <2>2. \A i \in n + 1..Len(q) : q[i] \in Requests
    BY <1>1
  <2> QED BY <1>1, <2>1, <2>2, SubSeqProperties
<1>4. SubSeq(q, 1, n) \o SubSeq(q, n + 1, Len(q)) = q
  <2>1. SubSeq(q, 1, n) \o SubSeq(q, n + 1, Len(q)) = SubSeq(q, 1, Len(q))
    <3>1. /\ 1 \in 1..Len(q) + 1 /\ n \in 1 - 1..Len(q) /\ Len(q) \in n..Len(q)
      BY <1>1
    <3> QED BY <3>1, ConcatAdjacentSubSeq
  <2> QED BY <2>1, SubSeqFull
<1>5. Range(SubSeq(q, 1, n)) \cup Range(SubSeq(q, n + 1, Len(q))) = Range(q)
  <2>1. Range(SubSeq(q, 1, n) \o SubSeq(q, n + 1, Len(q)))
          = Range(SubSeq(q, 1, n)) \cup Range(SubSeq(q, n + 1, Len(q)))
    BY <1>3, RangeConcatenation, ZenonT(40)
  <2> QED BY <1>4, <2>1
<1>6. ASSUME q = <<>>
      PROVE  SubSeq(q, 1, n) = <<>> /\ SubSeq(q, n + 1, Len(q)) = <<>>
  <2>1. Len(q) = 0 /\ n = 0
    BY <1>1, <1>6
  <2>2. SubSeq(q, 1, 0) = <<>> /\ SubSeq(q, 1, Len(q)) = <<>>
    BY <2>1, SubSeqEmpty
  <2> QED BY <2>1, <2>2
<1> QED BY <1>2, <1>3, <1>4, <1>5, <1>6

-----------------------------------------------------------------------------
(***************************************************************************)
(* The line of waiting requests, and what each operation does to it.       *)
(***************************************************************************)
LEMMA LineType ==
  ASSUME TypeOK
  PROVE  /\ Line \in Seq(Requests) /\ batch \o queue \in Seq(Requests)
         /\ Len(batch \o queue) = Len(batch) + Len(queue)
         /\ Range(Line) = Range(batch) \cup Range(queue) \cup Range(mailbox)
<1>1. batch \in Seq(Requests) /\ queue \in Seq(Requests) /\ mailbox \in Seq(Requests)
  BY DEF TypeOK
<1>2. /\ batch \o queue \in Seq(Requests)
      /\ Len(batch \o queue) = Len(batch) + Len(queue)
      /\ Range(batch \o queue) = Range(batch) \cup Range(queue)
  BY <1>1, ConcatProperties, RangeConcatenation
<1>3. PICK w \in Seq(Requests) : w = batch \o queue
  BY <1>2
<1>4. w \o mailbox \in Seq(Requests) /\ Range(w \o mailbox) = Range(w) \cup Range(mailbox)
  BY <1>1, ConcatProperties, RangeConcatenation
<1> QED BY <1>2, <1>3, <1>4 DEF Line

(***************************************************************************)
(* dispatch joins at the end; the recv loop and the pops only move the     *)
(* boundaries between the mailbox, the queue and the batch; dispatchOne    *)
(* takes the first; register_job takes a malformed request out of the      *)
(* middle.                                                                 *)
(***************************************************************************)
LEMMA DispatchLine ==
  ASSUME TypeOK, NEW r \in Requests, Dispatch(r)
  PROVE  Line' = Append(Line, r)
<1>1. /\ batch \o queue \in Seq(Requests) /\ mailbox \in Seq(Requests)
      /\ <<r>> \in Seq(Requests) /\ Line \in Seq(Requests)
  BY LineType DEF TypeOK
<1>2. Line' = (batch \o queue) \o Append(mailbox, r)
  BY DEF Dispatch, Line, jsVars
<1>3. Append(mailbox, r) = mailbox \o <<r>>
  BY <1>1, AppendIsConcat
<1>4. (batch \o queue) \o (mailbox \o <<r>>) = ((batch \o queue) \o mailbox) \o <<r>>
  BY <1>1, ConcatAssociative
<1>5. Line \o <<r>> = Append(Line, r)
  BY <1>1, AppendIsConcat
<1> QED BY <1>2, <1>3, <1>4, <1>5 DEF Line

LEMMA RecvLine ==
  ASSUME TypeOK, RecvJob
  PROVE  Line' = Line
<1> DEFINE h == Head(mailbox)
<1>1. /\ mailbox = <<h>> \o Tail(mailbox)
      /\ h \in Requests /\ Tail(mailbox) \in Seq(Requests) /\ <<h>> \in Seq(Requests)
      /\ batch \in Seq(Requests) /\ queue \in Seq(Requests) /\ batch \o queue \in Seq(Requests)
  BY HeadThenTail, LineType DEF TypeOK, RecvJob
<1>2. Line' = (batch \o Append(queue, h)) \o Tail(mailbox)
  BY DEF RecvJob, Line, jsVars
<1>3. Append(queue, h) = queue \o <<h>>
  BY <1>1, AppendIsConcat
<1> HIDE DEF h
<1>4. batch \o (queue \o <<h>>) = (batch \o queue) \o <<h>>
  BY <1>1, ConcatAssociative
<1>5. ((batch \o queue) \o <<h>>) \o Tail(mailbox) = (batch \o queue) \o (<<h>> \o Tail(mailbox))
  BY <1>1, ConcatAssociative
<1> QED BY <1>1, <1>2, <1>3, <1>4, <1>5 DEF Line

LEMMA PopLine ==
  ASSUME TypeOK, batch = <<>>, mailbox' = mailbox,
         batch' = pop_batch(queue).taken, queue' = pop_batch(queue).left
  PROVE  Line' = Line
<1>1. batch' \o queue' = queue
  BY PopSplits, PumpAssumption DEF TypeOK
<1>2. batch \o queue = queue
  BY ConcatEmptySeq DEF TypeOK
<1> QED BY <1>1, <1>2 DEF Line

LEMMA StartLine ==
  ASSUME TypeOK, DispatchOne
  PROVE  1 \in 1..Len(Line) /\ Line[1] = Head(batch) /\ Line' = Without(Line, 1)
<1>1. /\ batch \in Seq(Requests) /\ batch # <<>> /\ Tail(batch) \in Seq(Requests)
      /\ queue \in Seq(Requests) /\ mailbox \in Seq(Requests)
  BY HeadThenTail DEF TypeOK, DispatchOne
<1>2. PICK x : x = queue \o mailbox /\ x \in Seq(Requests)
  BY <1>1, ConcatProperties
<1>3. Line = batch \o x
  BY <1>1, <1>2, ConcatAssociative DEF Line
<1>4. Line' = Tail(batch) \o x
  <2>1. Line' = (Tail(batch) \o queue) \o mailbox
    BY DEF DispatchOne, Line, jobVars
  <2> QED BY <1>1, <1>2, <2>1, ConcatAssociative
<1>5. 1 \in 1..Len(batch \o x) /\ (batch \o x)[1] = Head(batch)
      /\ Without(batch \o x, 1) = Tail(batch) \o x
  BY <1>1, <1>2, WithoutFirst
<1> QED BY <1>3, <1>4, <1>5

LEMMA RefuseLine ==
  ASSUME TypeOK, RecvMalformed
  PROVE  LET k == Len(batch) + Len(queue) + 1
         IN  k \in 1..Len(Line) /\ Line[k] = Head(mailbox) /\ Line' = Without(Line, k)
<1>1. /\ mailbox \in Seq(Requests) /\ mailbox # <<>>
      /\ batch \o queue \in Seq(Requests)
      /\ Len(batch \o queue) = Len(batch) + Len(queue)
  BY LineType DEF TypeOK, RecvMalformed
<1>2. PICK w : w = batch \o queue
  OBVIOUS
<1>3. Line' = w \o Tail(mailbox)
  BY <1>2 DEF RecvMalformed, Line, jsVars
<1>4. /\ Len(w) + 1 \in 1..Len(w \o mailbox) /\ (w \o mailbox)[Len(w) + 1] = Head(mailbox)
      /\ Without(w \o mailbox, Len(w) + 1) = w \o Tail(mailbox)
  BY <1>1, <1>2, WithoutJoint
<1> QED BY <1>1, <1>2, <1>3, <1>4 DEF Line

-----------------------------------------------------------------------------
(***************************************************************************)
(* The operations both workers share.                                      *)
(***************************************************************************)
Shared ==
  \/ \E r \in Requests :
       \/ Dispatch(r) \/ Abandon(r)
       \/ AwaitOp(r, "async") \/ AwaitOp(r, "napi")
       \/ CompleteOp(r) \/ NapiSend(r) \/ NapiNotify(r)
  \/ CloseMailbox \/ RecvJob \/ Shutdown
  \/ Drain \/ DispatchOne \/ PopAgain \/ Park \/ WakeOnSignal

LEMMA InitType == Init => TypeOK
<1> SUFFICES ASSUME Init PROVE TypeOK
  OBVIOUS
<1>1. <<>> \in Seq(Requests) /\ Len(<<>>) = 0
  BY EmptySeq
<1>2. mailbox \in Seq(Requests) /\ Len(mailbox) <= MailboxCapacity
  BY <1>1, PumpAssumption DEF Init
<1>3. awaits \in [Requests -> 0..MaxAwaits]
  BY PumpAssumption DEF Init
<1> QED BY <1>1, <1>2, <1>3 DEF Init, TypeOK

LEMMA SharedType ==
  ASSUME TypeOK, Shared
  PROVE  TypeOK'
<1> USE PumpAssumption DEF jobVars, jsVars, wakeVars
<1>1. ASSUME NEW r \in Requests, Dispatch(r) PROVE TypeOK'
  <2>1. Append(mailbox, r) \in Seq(Requests) /\ Len(Append(mailbox, r)) = Len(mailbox) + 1
    BY AppendProperties DEF TypeOK
  <2>2. Len(Append(mailbox, r)) <= MailboxCapacity
    BY <1>1, <2>1, LenProperties DEF TypeOK, Dispatch
  <2> QED BY <1>1, <2>1, <2>2 DEF TypeOK, Dispatch
<1>2. ASSUME NEW r \in Requests, Abandon(r) PROVE TypeOK'
  BY <1>2 DEF TypeOK, Abandon
<1>3. ASSUME NEW r \in Requests, NEW kind \in {"async", "napi"}, AwaitOp(r, kind)
      PROVE  TypeOK'
  <2>1. awaits' \in [Requests -> 0..MaxAwaits]
    BY <1>3 DEF TypeOK, AwaitOp
  <2> QED BY <1>3, <2>1 DEF TypeOK, AwaitOp
<1>4. ASSUME NEW r \in Requests, CompleteOp(r) PROVE TypeOK'
  BY <1>4, AppendProperties DEF TypeOK, CompleteOp
<1>5. ASSUME NEW r \in Requests, NapiSend(r) PROVE TypeOK'
  BY <1>5, AppendProperties DEF TypeOK, NapiSend
<1>6. ASSUME NEW r \in Requests, NapiNotify(r) PROVE TypeOK'
  BY <1>6 DEF TypeOK, NapiNotify
<1>7. CASE CloseMailbox
  BY <1>7 DEF TypeOK, CloseMailbox
<1>8. CASE RecvJob
  <2>1. /\ Head(mailbox) \in Requests /\ Tail(mailbox) \in Seq(Requests)
        /\ Len(Tail(mailbox)) <= MailboxCapacity
    BY <1>8, HeadTailProperties, LenProperties DEF TypeOK, RecvJob
  <2>2. Append(queue, Head(mailbox)) \in Seq(Requests)
    BY <2>1, AppendProperties DEF TypeOK
  <2> QED BY <1>8, <2>1, <2>2 DEF TypeOK, RecvJob
<1>9. CASE Shutdown
  BY <1>9 DEF TypeOK, Shutdown, Seen
<1>10. CASE Drain
  <2>1. pop_batch(queue).taken \in Seq(Requests) /\ pop_batch(queue).left \in Seq(Requests)
    BY PopSplits DEF TypeOK
  <2>2. batch' \in Seq(Requests) /\ queue' \in Seq(Requests) /\ pending_pop' \in BOOLEAN
    BY <1>10, <2>1 DEF TypeOK, Drain
  <2> QED BY <1>10, <2>2 DEF TypeOK, Drain
<1>11. CASE DispatchOne
  BY <1>11, HeadTailProperties DEF TypeOK, DispatchOne
<1>12. CASE PopAgain
  BY <1>12, PopSplits DEF TypeOK, PopAgain
<1>13. CASE Park
  BY <1>13 DEF TypeOK, Park
<1>14. CASE WakeOnSignal
  BY <1>14 DEF TypeOK, WakeOnSignal
<1> QED BY <1>1, <1>2, <1>3, <1>4, <1>5, <1>6, <1>7, <1>8, <1>9, <1>10, <1>11, <1>12,
           <1>13, <1>14 DEF Shared

LEMMA OwnType ==
  ASSUME TypeOK,
         \/ RecvMalformed
         \/ \E r \in Requests, verdict \in {"answered", "failed"} : FinishHandler(r, verdict)
         \/ WakeOnWakeup
  PROVE  TypeOK'
<1> USE PumpAssumption DEF jobVars, jsVars, wakeVars
<1>1. CASE RecvMalformed
  <2>1. /\ Head(mailbox) \in Requests /\ Tail(mailbox) \in Seq(Requests)
        /\ Len(Tail(mailbox)) <= MailboxCapacity
    BY <1>1, HeadTailProperties, LenProperties DEF TypeOK, RecvMalformed
  <2> QED BY <1>1, <2>1 DEF TypeOK, RecvMalformed, Seen
<1>2. ASSUME NEW r \in Requests, NEW verdict \in {"answered", "failed"},
             FinishHandler(r, verdict)
      PROVE  TypeOK'
  BY <1>2 DEF TypeOK, FinishHandler, Seen
<1>3. CASE WakeOnWakeup
  BY <1>3 DEF TypeOK, WakeOnWakeup
<1> QED BY <1>1, <1>2, <1>3

LEMMA NextIsShared ==
  ASSUME Next
  PROVE  \/ Shared \/ RecvMalformed \/ WakeOnWakeup
         \/ \E r \in Requests, verdict \in {"answered", "failed"} : FinishHandler(r, verdict)
BY DEF Next, Recv, JavaScript, Handlers, Shared

(***************************************************************************)
(* The worker's state keeps its types.                                     *)
(***************************************************************************)
THEOREM TypeCorrect == Spec => []TypeOK
<1>1. TypeOK /\ [Next]_vars => TypeOK'
  <2> SUFFICES ASSUME TypeOK, [Next]_vars PROVE TypeOK'
    OBVIOUS
  <2>1. CASE Next
    BY <2>1, NextIsShared, SharedType, OwnType
  <2>2. CASE UNCHANGED vars
    BY <2>2 DEF vars, jobVars, jsVars, wakeVars, TypeOK
  <2> QED BY <2>1, <2>2
<1> QED BY InitType, <1>1, PTL DEF Spec

-----------------------------------------------------------------------------
(***************************************************************************)
(* The inductive invariant.  A request that has not started is in one      *)
(* place of the line and nowhere else, which is why a handler that         *)
(* finishes may give up the slot; a result on a channel belongs to a       *)
(* handler that waits for it; and what announces the work of a parked pump *)
(* is there when the pump parks.                                           *)
(***************************************************************************)
Placed ==
  /\ IsInjective(Line)
  /\ \A r \in Range(Line) : caller[r] # "idle" /\ handler[r] = "none"
  /\ \A r \in Requests : caller[r] = "idle" => handler[r] = "none"
  /\ \A r \in Range(mailbox) : caller[r] \in {"waiting", "cancelled"}

Results == \A r \in Range(completions) \cup Range(napi_work) : handler[r] = "sent"

Popping == pending_pop => batch = <<>>

Announced ==
  /\ pc = "js" => completions = <<>>
  /\ pc \in {"js", "parked"} /\ napi_work # <<>> => napi_wakeup \/ unnotified # {}

PumpInv ==
  TypeOK /\ Placed /\ Results /\ Popping /\ Accounted /\ Announced /\ NoLostWakeup

LEMMA Ranges ==
  ASSUME TypeOK
  PROVE  /\ Range(Line) \subseteq Requests
         /\ Range(queue) \subseteq Range(Line) /\ Range(batch) \subseteq Range(Line)
         /\ Range(mailbox) \subseteq Range(Line)
         /\ Range(completions) \subseteq Requests /\ Range(napi_work) \subseteq Requests
<1>1. completions \in Seq(Requests) /\ napi_work \in Seq(Requests)
  BY DEF TypeOK
<1> QED BY <1>1, LineType, RangeOfSeq

LEMMA InitInv == Init => PumpInv
<1> SUFFICES ASSUME Init PROVE PumpInv
  OBVIOUS
<1>1. TypeOK
  BY InitType
<1>2. Range(Line) = {}
  BY <1>1, LineType, EmptyRange DEF Init
<1>3. IsInjective(Line)
  <2>1. Line \in Seq(Requests)
    BY <1>1, LineType
  <2> QED BY <1>2, <2>1, LenProperties DEF IsInjective, Range
<1>4. Placed
  BY <1>2, <1>3, EmptyRange DEF Init, Placed
<1>5. Results
  BY EmptyRange DEF Init, Results
<1>6. Accounted
  BY EmptyRange DEF Init, Accounted
<1>7. Popping /\ Announced /\ NoLostWakeup
  BY DEF Init, Popping, Announced, NoLostWakeup
<1> QED BY <1>1, <1>4, <1>5, <1>6, <1>7 DEF PumpInv

(***************************************************************************)
(* The line.                                                               *)
(***************************************************************************)
LEMMA SharedPlaced ==
  ASSUME PumpInv, Shared
  PROVE  Placed'
<1> USE DEF jobVars, jsVars, wakeVars
<1>1. TypeOK /\ Placed /\ Results /\ Popping /\ Line \in Seq(Requests)
  BY LineType DEF PumpInv
<1>2. /\ Range(Line) \subseteq Requests /\ Range(mailbox) \subseteq Range(Line)
      /\ Range(completions) \subseteq Requests /\ Range(napi_work) \subseteq Requests
  BY <1>1, Ranges
<1>3. ASSUME NEW r \in Requests, Dispatch(r) PROVE Placed'
  <2>1. Line' = Append(Line, r) /\ r \notin Range(Line)
    BY <1>1, <1>3, DispatchLine DEF Placed, Dispatch
  <2>2. IsInjective(Line') /\ Range(Line') = Range(Line) \cup {r}
    BY <1>1, <2>1, AppendKeepsInjective, AppendRange DEF Placed
  <2>3. Range(mailbox') = Range(mailbox) \cup {r}
    BY <1>1, <1>3, AppendRange DEF TypeOK, Dispatch
  <2>4. /\ handler' = handler /\ caller'[r] = "waiting" /\ handler[r] = "none"
        /\ \A q \in Requests : q # r => caller'[q] = caller[q]
    BY <1>1, <1>3 DEF TypeOK, Dispatch, Placed
  <2> QED BY <1>1, <1>2, <2>2, <2>3, <2>4 DEF Placed
<1>4. ASSUME NEW r \in Requests, Abandon(r) PROVE Placed'
  <2>1. Line' = Line /\ mailbox' = mailbox /\ handler' = handler
    BY <1>4 DEF Abandon, Line
  <2>2. caller'[r] = "cancelled" /\ caller[r] # "idle"
    BY <1>1, <1>4 DEF TypeOK, Abandon
  <2>3. \A q \in Requests : q # r => caller'[q] = caller[q]
    BY <1>1, <1>4 DEF TypeOK, Abandon
  <2> QED BY <1>1, <1>2, <2>1, <2>2, <2>3 DEF Placed
<1>5. ASSUME NEW r \in Requests, handler[r] # "none", NEW h, handler' = [handler EXCEPT ![r] = h],
             UNCHANGED <<caller, batch, queue, mailbox>>
      PROVE  Placed'
  <2>1. Line' = Line /\ mailbox' = mailbox /\ caller' = caller
    BY <1>5 DEF Line
  <2>2. r \notin Range(Line) /\ caller[r] # "idle"
    BY <1>1, <1>5 DEF Placed
  <2>3. \A q \in Requests : q # r => handler'[q] = handler[q]
    BY <1>1, <1>5 DEF TypeOK
  <2> QED BY <1>1, <1>2, <2>1, <2>2, <2>3 DEF Placed
<1>6. ASSUME NEW r \in Requests, NEW kind \in {"async", "napi"}, AwaitOp(r, kind)
      PROVE  Placed'
  <2>1. handler[r] # "none" /\ handler' = [handler EXCEPT ![r] = kind]
    BY <1>6 DEF AwaitOp
  <2> QED BY <1>5, <1>6, <2>1 DEF AwaitOp
<1>7. ASSUME NEW r \in Requests, CompleteOp(r) \/ NapiSend(r) PROVE Placed'
  <2>1. handler[r] # "none" /\ handler' = [handler EXCEPT ![r] = "sent"]
    BY <1>7 DEF CompleteOp, NapiSend
  <2>2. UNCHANGED <<caller, batch, queue, mailbox>>
    BY <1>7 DEF CompleteOp, NapiSend
  <2> QED BY <1>5, <2>1, <2>2
<1>8. ASSUME UNCHANGED <<caller, handler, batch, queue, mailbox>> PROVE Placed'
  BY <1>1, <1>8 DEF Placed, Line
<1>9. ASSUME NEW r \in Requests, NapiNotify(r) PROVE Placed'
  BY <1>8, <1>9 DEF NapiNotify
<1>10. CASE CloseMailbox
  BY <1>8, <1>10 DEF CloseMailbox
<1>11. CASE RecvJob
  <2>1. Line' = Line
    BY <1>1, <1>11, RecvLine
  <2>2. Range(mailbox') \subseteq Range(mailbox)
    BY <1>1, <1>11, HeadThenTail DEF TypeOK, RecvJob
  <2>3. caller' = caller /\ handler' = handler
    BY <1>11 DEF RecvJob
  <2> QED BY <1>1, <2>1, <2>2, <2>3 DEF Placed
<1>12. CASE Shutdown
  <2>1. Line' = Line /\ mailbox' = mailbox /\ handler' = handler /\ Range(mailbox) = {}
    BY <1>12, EmptyRange DEF Shutdown, Line
  <2>2. \A q \in Requests : caller'[q] = "idle" <=> caller[q] = "idle"
    BY <1>1, <1>12 DEF TypeOK, Shutdown, Seen
  <2> QED BY <1>1, <1>2, <2>1, <2>2 DEF Placed
<1>13. CASE Drain
  <2>1. Line' = Line
    <3>1. CASE pending_pop
      BY <1>1, <1>13, <3>1, PopLine DEF Drain, Popping
    <3>2. CASE ~ pending_pop
      BY <1>13, <3>2 DEF Drain, Line
    <3> QED BY <3>1, <3>2
  <2>2. caller' = caller /\ mailbox' = mailbox
    BY <1>13 DEF Drain
  <2>3. \A q \in Requests : handler'[q] = "none" <=> handler[q] = "none"
    BY <1>1, <1>13 DEF TypeOK, Drain, Results
  <2> QED BY <1>1, <1>2, <2>1, <2>2, <2>3 DEF Placed
<1>14. CASE DispatchOne
  <2>1. 1 \in 1..Len(Line) /\ Line[1] = Head(batch) /\ Line' = Without(Line, 1)
    BY <1>1, <1>14, StartLine
  <2>2. IsInjective(Line') /\ Range(Line') = Range(Line) \ {Head(batch)}
    BY <1>1, <2>1, WithoutOne DEF Placed
  <2>3. Head(batch) \in Range(Line) /\ Head(batch) \in Requests
    BY <1>1, <1>2, <2>1, LenProperties DEF Range
  <2>4. \A q \in Requests : q # Head(batch) => handler'[q] = handler[q]
    BY <1>1, <1>14, <2>3 DEF TypeOK, DispatchOne
  <2>5. caller' = caller /\ mailbox' = mailbox
    BY <1>14 DEF DispatchOne
  <2> QED BY <1>1, <1>2, <2>2, <2>3, <2>4, <2>5 DEF Placed
<1>15. CASE PopAgain
  <2>1. Line' = Line
    BY <1>1, <1>15, PopLine DEF PopAgain
  <2> QED BY <1>1, <1>15, <2>1 DEF Placed, PopAgain
<1>16. CASE Park \/ WakeOnSignal
  BY <1>8, <1>16 DEF Park, WakeOnSignal
<1> QED BY <1>3, <1>4, <1>6, <1>7, <1>9, <1>10, <1>11, <1>12, <1>13, <1>14, <1>15, <1>16
        DEF Shared

LEMMA OwnPlaced ==
  ASSUME PumpInv,
         \/ RecvMalformed
         \/ \E r \in Requests, verdict \in {"answered", "failed"} : FinishHandler(r, verdict)
         \/ WakeOnWakeup
  PROVE  Placed'
<1> USE DEF jobVars, jsVars, wakeVars
<1>1. TypeOK /\ Placed /\ Line \in Seq(Requests)
  BY LineType DEF PumpInv
<1>2. Range(Line) \subseteq Requests /\ Range(mailbox) \subseteq Range(Line)
  BY <1>1, Ranges
<1>3. CASE RecvMalformed
  <2> DEFINE k == Len(batch) + Len(queue) + 1
  <2>1. k \in 1..Len(Line) /\ Line[k] = Head(mailbox) /\ Line' = Without(Line, k)
    BY <1>1, <1>3, RefuseLine
  <2> HIDE DEF k
  <2>2. IsInjective(Line') /\ Range(Line') = Range(Line) \ {Head(mailbox)}
    BY <1>1, <2>1, WithoutOne DEF Placed
  <2>3. Range(mailbox') \subseteq Range(Line')
    <3>1. PICK w \in Seq(Requests) : w = batch \o queue
      BY <1>1, LineType
    <3>2. PICK m \in Seq(Requests) : m = Tail(mailbox)
      BY <1>1, <1>3, HeadTailProperties DEF RecvMalformed, TypeOK
    <3>3. Line' = w \o m /\ mailbox' = m
      BY <1>3, <3>1, <3>2 DEF RecvMalformed, Line
    <3>4. Range(w \o m) = Range(w) \cup Range(m)
      BY RangeConcatenation
    <3> QED BY <3>3, <3>4
  <2>4. /\ Range(mailbox') \subseteq Range(mailbox) /\ Head(mailbox) \in Range(mailbox)
        /\ Head(mailbox) \notin Range(mailbox')
    <3>1. /\ mailbox \in Seq(Requests) /\ mailbox # <<>> /\ mailbox' = Tail(mailbox)
          /\ Head(mailbox) \notin Range(mailbox')
      BY <1>1, <1>3, <2>2, <2>3 DEF TypeOK, RecvMalformed
    <3>2. Range(mailbox) = {Head(mailbox)} \cup Range(Tail(mailbox))
      BY <3>1, HeadThenTail
    <3> QED BY <3>1, <3>2
  <2>5. \A q \in Requests : q # Head(mailbox) => caller'[q] = caller[q]
    BY <1>1, <1>2, <1>3, <2>4 DEF TypeOK, RecvMalformed
  <2>6. handler' = handler /\ handler[Head(mailbox)] = "none"
    BY <1>1, <1>2, <1>3, <2>4 DEF RecvMalformed, Placed
  <2> QED BY <1>1, <1>2, <2>2, <2>4, <2>5, <2>6 DEF Placed
<1>4. ASSUME NEW r \in Requests, NEW verdict \in {"answered", "failed"},
             FinishHandler(r, verdict)
      PROVE  Placed'
  <2>1. Line' = Line /\ mailbox' = mailbox
    BY <1>4 DEF FinishHandler, Line
  <2>2. r \notin Range(Line) /\ caller[r] # "idle"
    BY <1>1, <1>4 DEF Placed, FinishHandler
  <2>3. caller'[r] # "idle"
    BY <1>1, <1>4, <2>2 DEF TypeOK, FinishHandler, Seen
  <2>4. \A q \in Requests : q # r => handler'[q] = handler[q] /\ caller'[q] = caller[q]
    BY <1>1, <1>4 DEF TypeOK, FinishHandler
  <2> QED BY <1>1, <1>2, <2>1, <2>2, <2>3, <2>4 DEF Placed
<1>5. CASE WakeOnWakeup
  BY <1>1, <1>5 DEF Placed, Line, WakeOnWakeup
<1> QED BY <1>3, <1>4, <1>5

(***************************************************************************)
(* The channels and the pop promise.                                       *)
(***************************************************************************)
LEMMA SharedResults ==
  ASSUME PumpInv, Shared
  PROVE  Results' /\ Popping'
<1> USE DEF jobVars, jsVars, wakeVars
<1>1. /\ TypeOK /\ Placed /\ Results /\ Popping
      /\ completions \in Seq(Requests) /\ napi_work \in Seq(Requests)
  BY DEF PumpInv, TypeOK
<1>2. /\ Range(completions) \subseteq Requests /\ Range(napi_work) \subseteq Requests
      /\ Range(batch) \subseteq Range(Line) /\ Range(Line) \subseteq Requests
  BY <1>1, Ranges
<1>3. ASSUME NEW r \in Requests, NEW kind \in {"async", "napi"}, AwaitOp(r, kind)
      PROVE  Results' /\ Popping'
  <2>1. \A q \in Requests : handler[q] = "sent" => handler'[q] = handler[q]
    BY <1>1, <1>3 DEF TypeOK, AwaitOp
  <2> QED BY <1>1, <1>2, <1>3, <2>1 DEF AwaitOp, Results, Popping
<1>4. ASSUME NEW r \in Requests, CompleteOp(r) \/ NapiSend(r) PROVE Results' /\ Popping'
  <2>1. \A q \in Requests : handler[q] = "sent" \/ q = r => handler'[q] = "sent"
    BY <1>1, <1>4 DEF TypeOK, CompleteOp, NapiSend
  <2>2. Range(completions') \cup Range(napi_work')
          = Range(completions) \cup Range(napi_work) \cup {r}
    <3>1. CASE CompleteOp(r)
      BY <1>1, <3>1, AppendRange DEF CompleteOp
    <3>2. CASE NapiSend(r)
      BY <1>1, <3>2, AppendRange DEF NapiSend
    <3> QED BY <1>4, <3>1, <3>2
  <2> QED BY <1>1, <1>2, <1>4, <2>1, <2>2 DEF CompleteOp, NapiSend, Results, Popping
<1>5. CASE Drain
  <2>1. Results'
    BY <1>5, EmptyRange DEF Drain, Results
  <2>2. pending_pop' => batch' = <<>>
    BY <1>1, <1>5, PopSplits, PumpAssumption DEF TypeOK, Drain, Popping
  <2> QED BY <2>1, <2>2 DEF Popping
<1>6. CASE DispatchOne
  <2>1. Head(batch) \in Range(Line)
    BY <1>1, <1>2, <1>6, HeadThenTail, ZenonT(40) DEF TypeOK, DispatchOne
  <2>2. \A q \in Requests : handler[q] = "sent" => handler'[q] = handler[q]
    BY <1>1, <1>2, <1>6, <2>1 DEF TypeOK, DispatchOne, Placed
  <2> QED BY <1>1, <1>2, <1>6, <2>2 DEF DispatchOne, Results, Popping
<1>7. CASE PopAgain
  <2>1. queue = <<>> => batch' = <<>>
    BY <1>1, <1>7, PopSplits, PumpAssumption DEF TypeOK, PopAgain
  <2> QED BY <1>1, <1>7, <2>1 DEF PopAgain, Results, Popping
<1>8. ASSUME UNCHANGED <<handler, completions, napi_work, pending_pop, batch>>
      PROVE  Results' /\ Popping'
  BY <1>1, <1>8 DEF Results, Popping
<1>9. ASSUME NEW r \in Requests, Dispatch(r) \/ Abandon(r) \/ NapiNotify(r)
      PROVE  Results' /\ Popping'
  BY <1>8, <1>9 DEF Dispatch, Abandon, NapiNotify
<1>10. CASE CloseMailbox \/ RecvJob \/ Shutdown \/ Park \/ WakeOnSignal
  BY <1>8, <1>10 DEF CloseMailbox, RecvJob, Shutdown, Park, WakeOnSignal
<1> QED BY <1>3, <1>4, <1>5, <1>6, <1>7, <1>9, <1>10 DEF Shared

LEMMA OwnResults ==
  ASSUME PumpInv,
         \/ RecvMalformed
         \/ \E r \in Requests, verdict \in {"answered", "failed"} : FinishHandler(r, verdict)
         \/ WakeOnWakeup
  PROVE  Results' /\ Popping'
<1> USE DEF jobVars, jsVars, wakeVars
<1>1. TypeOK /\ Results /\ Popping
  BY DEF PumpInv
<1>2. Range(completions) \subseteq Requests /\ Range(napi_work) \subseteq Requests
  BY <1>1, Ranges
<1>3. CASE RecvMalformed \/ WakeOnWakeup
  BY <1>1, <1>3 DEF RecvMalformed, WakeOnWakeup, Results, Popping
<1>4. ASSUME NEW r \in Requests, NEW verdict \in {"answered", "failed"},
             FinishHandler(r, verdict)
      PROVE  Results' /\ Popping'
  <2>1. \A q \in Requests : handler[q] = "sent" => handler'[q] = handler[q]
    BY <1>1, <1>4 DEF TypeOK, FinishHandler
  <2> QED BY <1>1, <1>2, <1>4, <2>1 DEF FinishHandler, Results, Popping
<1> QED BY <1>3, <1>4

(***************************************************************************)
(* The slots.                                                              *)
(***************************************************************************)
Active == {r \in Requests : handler[r] \in {"ready", "async", "napi", "sent"}}

LEMMA SharedAccounted ==
  ASSUME PumpInv, Shared
  PROVE  Accounted'
<1> USE DEF jobVars, jsVars, wakeVars
<1>1. TypeOK /\ Placed /\ Results /\ Popping /\ Accounted
  BY DEF PumpInv
<1>2. pc # "stopped" => in_flight = Range(queue) \cup Range(batch) \cup Active
  BY <1>1 DEF Accounted, Active
<1>3. /\ batch \in Seq(Requests) /\ queue \in Seq(Requests) /\ mailbox \in Seq(Requests)
      /\ Range(batch) \subseteq Requests
      /\ Range(completions) \subseteq Requests /\ Range(napi_work) \subseteq Requests
  BY <1>1, Ranges DEF TypeOK
<1>4. ASSUME UNCHANGED <<in_flight, queue, batch, pending_pop>>, Active' = Active,
             pc' = "parked" => pc = "parked", pc = "stopped" => pc' = "stopped"
      PROVE  Accounted'
  BY <1>1, <1>2, <1>4 DEF Accounted, Active
<1>5. ASSUME NEW r \in Requests, Dispatch(r) \/ Abandon(r) \/ NapiNotify(r)
      PROVE  Accounted'
  BY <1>1, <1>5 DEF Accounted, Dispatch, Abandon, NapiNotify
<1>6. ASSUME NEW r \in Requests, NEW kind \in {"async", "napi"}, AwaitOp(r, kind)
      PROVE  Accounted'
  <2>1. Active' = Active
    BY <1>1, <1>6 DEF TypeOK, AwaitOp, Active
  <2> QED BY <1>4, <1>6, <2>1 DEF AwaitOp
<1>7. ASSUME NEW r \in Requests, CompleteOp(r) \/ NapiSend(r) PROVE Accounted'
  <2>1. Active' = Active
    BY <1>1, <1>7 DEF TypeOK, CompleteOp, NapiSend, Active
  <2>2. UNCHANGED <<in_flight, queue, batch, pending_pop, pc>>
    BY <1>7 DEF CompleteOp, NapiSend
  <2> QED BY <1>4, <2>1, <2>2
<1>8. CASE CloseMailbox \/ WakeOnSignal
  BY <1>1, <1>8 DEF Accounted, CloseMailbox, WakeOnSignal
<1>9. CASE RecvJob
  <2>1. Range(queue') = Range(queue) \cup {Head(mailbox)}
    BY <1>3, <1>9, AppendRange, HeadTailProperties DEF RecvJob
  <2>2. /\ UNCHANGED <<batch, handler, pending_pop, pc>> /\ pc = "parked"
        /\ in_flight' = in_flight \cup {Head(mailbox)}
    BY <1>9 DEF RecvJob
  <2> QED BY <1>1, <2>1, <2>2 DEF Accounted
<1>10. CASE Shutdown
  BY <1>10 DEF Accounted, Shutdown
<1>11. CASE Drain
  <2>1. Range(queue') \cup Range(batch') = Range(queue) \cup Range(batch)
    BY <1>1, <1>3, <1>11, PopSplits, PumpAssumption, EmptyRange, ZenonT(40) DEF Drain, Popping
  <2>2. Active' = Active
    BY <1>1, <1>11 DEF TypeOK, Drain, Active, Results
  <2>3. in_flight' = in_flight /\ pc = "drain" /\ pc' = "js"
    BY <1>11 DEF Drain
  <2> QED BY <1>2, <2>1, <2>2, <2>3 DEF Accounted, Active
<1>12. CASE DispatchOne
  <2>1. Range(batch) = {Head(batch)} \cup Range(batch')
    BY <1>3, <1>12, HeadThenTail DEF DispatchOne
  <2>2. Active' = Active \cup {Head(batch)}
    BY <1>1, <1>3, <1>12, <2>1 DEF TypeOK, DispatchOne, Active
  <2>3. UNCHANGED <<in_flight, queue, pending_pop, pc>> /\ pc = "js"
    BY <1>12 DEF DispatchOne
  <2> QED BY <1>2, <2>1, <2>2, <2>3 DEF Accounted, Active
<1>13. CASE PopAgain
  <2>1. Range(queue') \cup Range(batch') = Range(queue) \cup Range(batch)
    BY <1>1, <1>3, <1>13, PopSplits, PumpAssumption, EmptyRange DEF PopAgain
  <2>2. UNCHANGED <<in_flight, handler, pc>> /\ pc = "js"
    BY <1>13 DEF PopAgain
  <2> QED BY <1>1, <2>1, <2>2 DEF Accounted
<1>14. CASE Park
  BY <1>1, <1>14 DEF Accounted, Park, Quiescent
<1> QED BY <1>5, <1>6, <1>7, <1>8, <1>9, <1>10, <1>11, <1>12, <1>13, <1>14 DEF Shared

(***************************************************************************)
(* A handler that settles its request holds a slot of its own: the request *)
(* has left the line.                                                      *)
(***************************************************************************)
LEMMA SettlingAccounted ==
  ASSUME PumpInv, NEW r \in Requests, handler[r] = "ready",
         handler' = [handler EXCEPT ![r] = "done"], in_flight' = in_flight \ {r},
         UNCHANGED <<queue, batch, pending_pop, pc>>
  PROVE  Accounted'
<1>1. TypeOK /\ Placed /\ Accounted
  BY DEF PumpInv
<1>2. r \notin Range(queue) /\ r \notin Range(batch)
  BY <1>1, Ranges DEF Placed
<1>3. {q \in Requests : handler'[q] \in {"ready", "async", "napi", "sent"}}
        = {q \in Requests : handler[q] \in {"ready", "async", "napi", "sent"}} \ {r}
  BY <1>1 DEF TypeOK
<1> QED BY <1>1, <1>2, <1>3 DEF Accounted

LEMMA OwnAccounted ==
  ASSUME PumpInv,
         \/ RecvMalformed
         \/ \E r \in Requests, verdict \in {"answered", "failed"} : FinishHandler(r, verdict)
         \/ WakeOnWakeup
  PROVE  Accounted'
<1> USE DEF jobVars, jsVars, wakeVars
<1>1. CASE RecvMalformed \/ WakeOnWakeup
  BY <1>1 DEF PumpInv, Accounted, RecvMalformed, WakeOnWakeup
<1>2. ASSUME NEW r \in Requests, NEW verdict \in {"answered", "failed"},
             FinishHandler(r, verdict)
      PROVE  Accounted'
  BY <1>2, SettlingAccounted DEF FinishHandler
<1> QED BY <1>1, <1>2

(***************************************************************************)
(* The wake-ups.                                                           *)
(***************************************************************************)
Wakes == Announced /\ NoLostWakeup

LEMMA SharedWakes ==
  ASSUME PumpInv, Shared
  PROVE  Wakes'
<1> USE DEF jobVars, jsVars, wakeVars, Wakes, Announced, NoLostWakeup
<1>1. TypeOK /\ Wakes /\ unnotified \subseteq Requests
  BY DEF PumpInv, TypeOK
<1>2. ASSUME NEW r \in Requests, Dispatch(r) \/ Abandon(r) \/ AwaitOp(r, "async")
                                 \/ AwaitOp(r, "napi")
      PROVE  Wakes'
  BY <1>1, <1>2 DEF Dispatch, Abandon, AwaitOp
<1>3. ASSUME NEW r \in Requests, CompleteOp(r) PROVE Wakes'
  BY <1>1, <1>3 DEF CompleteOp
<1>4. ASSUME NEW r \in Requests, NapiSend(r) \/ NapiNotify(r) PROVE Wakes'
  BY <1>1, <1>4 DEF NapiSend, NapiNotify
<1>5. CASE CloseMailbox \/ RecvJob \/ Shutdown
  BY <1>1, <1>5 DEF CloseMailbox, RecvJob, Shutdown
<1>6. CASE Drain
  BY <1>6 DEF Drain
<1>7. CASE DispatchOne \/ PopAgain
  BY <1>1, <1>7 DEF DispatchOne, PopAgain
<1>8. CASE Park
  BY <1>1, <1>8 DEF Park
<1>9. CASE WakeOnSignal
  BY <1>9 DEF WakeOnSignal
<1> QED BY <1>2, <1>3, <1>4, <1>5, <1>6, <1>7, <1>8, <1>9 DEF Shared

LEMMA OwnWakes ==
  ASSUME PumpInv,
         \/ RecvMalformed
         \/ \E r \in Requests, verdict \in {"answered", "failed"} : FinishHandler(r, verdict)
         \/ WakeOnWakeup
  PROVE  Wakes'
BY DEF PumpInv, RecvMalformed, FinishHandler, WakeOnWakeup, jobVars, jsVars, wakeVars, Wakes,
       Announced, NoLostWakeup

-----------------------------------------------------------------------------
(***************************************************************************)
(* What a step of either worker does to the line.                          *)
(***************************************************************************)
LEMMA SameLineAdvances ==
  ASSUME TypeOK, Line' = Line
  PROVE  LineAdvances
<1>1. Line \in Seq(Requests) /\ Len(Line) \in Nat
  BY LineType, LenProperties
<1>2. 0 \in 0..Len(Line) /\ Line' = SubSeq(Line, 0 + 1, Len(Line))
  BY <1>1, SubSeqFull
<1> QED BY <1>2 DEF LineAdvances

LEMMA SharedAdvances ==
  ASSUME PumpInv, Shared
  PROVE  LineAdvances
<1> USE DEF jobVars, jsVars, wakeVars
<1>1. TypeOK /\ Placed /\ Popping /\ Line \in Seq(Requests)
  BY LineType DEF PumpInv
<1>2. ASSUME NEW r \in Requests, Dispatch(r) PROVE LineAdvances
  BY <1>1, <1>2, DispatchLine DEF LineAdvances
<1>3. ASSUME NEW r \in Requests,
             \/ Abandon(r) \/ AwaitOp(r, "async") \/ AwaitOp(r, "napi")
             \/ CompleteOp(r) \/ NapiSend(r) \/ NapiNotify(r)
      PROVE  LineAdvances
  <2>1. Line' = Line
    BY <1>3 DEF Abandon, AwaitOp, CompleteOp, NapiSend, NapiNotify, Line
  <2> QED BY <1>1, <2>1, SameLineAdvances
<1>4. CASE CloseMailbox \/ Shutdown \/ Park \/ WakeOnSignal
  <2>1. Line' = Line
    BY <1>4 DEF CloseMailbox, Shutdown, Park, WakeOnSignal, Line
  <2> QED BY <1>1, <2>1, SameLineAdvances
<1>5. CASE RecvJob
  BY <1>1, <1>5, RecvLine, SameLineAdvances
<1>6. CASE Drain
  <2>1. Line' = Line
    <3>1. CASE pending_pop
      BY <1>1, <1>6, <3>1, PopLine DEF Drain, Popping
    <3>2. CASE ~ pending_pop
      BY <1>6, <3>2 DEF Drain, Line
    <3> QED BY <3>1, <3>2
  <2> QED BY <1>1, <2>1, SameLineAdvances
<1>7. CASE DispatchOne
  <2>1. 1 \in 1..Len(Line) /\ Line' = Without(Line, 1)
    BY <1>1, <1>7, StartLine
  <2>2. Line' = SubSeq(Line, 1 + 1, Len(Line))
    <3>1. SubSeq(Line, 1, 1 - 1) = <<>>
      BY SubSeqEmpty
    <3>2. PICK t \in Seq(Requests) : t = SubSeq(Line, 1 + 1, Len(Line))
      <4>1. \A i \in 1 + 1..Len(Line) : Line[i] \in Requests
        BY <1>1, ElementOfSeq
      <4>2. Len(Line) \in Nat
        BY <1>1, LenProperties
      <4>3. SubSeq(Line, 1 + 1, Len(Line)) \in Seq(Requests)
        BY <4>1, <4>2, SubSeqProperties
      <4> QED BY <4>3
    <3>3. <<>> \o t = t
      BY ConcatEmptySeq
    <3> QED BY <2>1, <3>1, <3>2, <3>3 DEF Without
  <2> QED BY <2>1, <2>2 DEF LineAdvances
<1>8. CASE PopAgain
  BY <1>1, <1>8, PopLine, SameLineAdvances DEF PopAgain
<1> QED BY <1>2, <1>3, <1>4, <1>5, <1>6, <1>7, <1>8 DEF Shared

LEMMA OwnAdvances ==
  ASSUME PumpInv,
         \/ RecvMalformed
         \/ \E r \in Requests, verdict \in {"answered", "failed"} : FinishHandler(r, verdict)
         \/ WakeOnWakeup
  PROVE  LineAdvances
<1> USE DEF jobVars, jsVars, wakeVars
<1>1. TypeOK /\ Placed
  BY DEF PumpInv
<1>2. CASE RecvMalformed
  <2> DEFINE k == Len(batch) + Len(queue) + 1
  <2>1. k \in 1..Len(Line) /\ Line[k] = Head(mailbox) /\ Line' = Without(Line, k)
    BY <1>1, <1>2, RefuseLine
  <2>2. Head(mailbox) \in Range(mailbox) /\ Head(mailbox) \in Requests
    BY <1>1, <1>2, HeadThenTail DEF TypeOK, RecvMalformed
  <2>3. caller'[Head(mailbox)] \in {"failed", "cancelled"}
    BY <1>1, <1>2, <2>2 DEF TypeOK, RecvMalformed, Seen, Placed
  <2> QED BY <2>1, <2>3 DEF LineAdvances, Without
<1>3. ASSUME NEW r \in Requests, NEW verdict \in {"answered", "failed"},
             FinishHandler(r, verdict)
      PROVE  LineAdvances
  <2>1. Line' = Line
    BY <1>3 DEF FinishHandler, Line
  <2> QED BY <1>1, <2>1, SameLineAdvances
<1>4. CASE WakeOnWakeup
  <2>1. Line' = Line
    BY <1>4 DEF WakeOnWakeup, Line
  <2> QED BY <1>1, <2>1, SameLineAdvances
<1> QED BY <1>2, <1>3, <1>4

(***************************************************************************)
(* What a step does to the callers.  A worker that shuts down fails the    *)
(* callers that still wait for a request with a slot.                      *)
(***************************************************************************)
LEMMA SeenRefines ==
  ASSUME TypeOK, NEW r \in Requests, NEW verdict \in {"answered", "failed"},
         caller' = [caller EXCEPT ![r] = Seen(r, verdict)]
  PROVE  [Lifecycle!Next]_caller
<1>1. CASE caller[r] = "waiting" /\ verdict = "answered"
  BY <1>1 DEF Seen, Lifecycle!Next, Lifecycle!Answer
<1>2. CASE caller[r] = "waiting" /\ verdict = "failed"
  <2>1. caller' = [q \in Requests |-> IF q \in {r} THEN "failed" ELSE caller[q]]
    BY <1>2 DEF TypeOK, Seen
  <2>2. Lifecycle!Fail({r})
    BY <1>2, <2>1 DEF Lifecycle!Fail
  <2> QED BY <2>2 DEF Lifecycle!Next
<1>3. CASE caller[r] # "waiting"
  BY <1>3 DEF TypeOK, Seen
<1> QED BY <1>1, <1>2, <1>3

LEMMA SharedRefines ==
  ASSUME TypeOK, Shared
  PROVE  [Lifecycle!Next]_caller
<1> USE DEF jobVars, jsVars, wakeVars
<1>1. ASSUME NEW r \in Requests, Dispatch(r) PROVE Lifecycle!Next
  BY <1>1 DEF Dispatch, Lifecycle!Next, Lifecycle!Submit
<1>2. ASSUME NEW r \in Requests, Abandon(r) PROVE Lifecycle!Next
  BY <1>2 DEF Abandon, Lifecycle!Next, Lifecycle!Cancel
<1>3. CASE Shutdown
  <2> DEFINE S == {r \in in_flight : caller[r] = "waiting"}
  <2>1. S \in SUBSET Requests
    BY DEF TypeOK
  <2>2. caller' = [r \in Requests |-> IF r \in S THEN "failed" ELSE caller[r]]
    BY <1>3, <2>1 DEF TypeOK, Shutdown, Seen
  <2>3. Lifecycle!Fail(S)
    BY <2>1, <2>2 DEF Lifecycle!Fail
  <2> QED BY <2>1, <2>3 DEF Lifecycle!Next
<1>4. ASSUME NEW r \in Requests,
             \/ AwaitOp(r, "async") \/ AwaitOp(r, "napi")
             \/ CompleteOp(r) \/ NapiSend(r) \/ NapiNotify(r)
      PROVE  caller' = caller
  BY <1>4 DEF AwaitOp, CompleteOp, NapiSend, NapiNotify
<1>5. CASE CloseMailbox \/ RecvJob \/ Drain \/ DispatchOne \/ PopAgain \/ Park \/ WakeOnSignal
  BY <1>5 DEF CloseMailbox, RecvJob, Drain, DispatchOne, PopAgain, Park, WakeOnSignal
<1> QED BY <1>1, <1>2, <1>3, <1>4, <1>5 DEF Shared

-----------------------------------------------------------------------------
(***************************************************************************)
(* The pool's worker: every step of Spec keeps the invariant.              *)
(***************************************************************************)
LEMMA StepInv ==
  ASSUME PumpInv, [Next]_vars
  PROVE  PumpInv'
<1>1. CASE Shared
  BY <1>1, SharedType, SharedPlaced, SharedResults, SharedAccounted, SharedWakes
     DEF PumpInv, Wakes
<1>2. CASE \/ RecvMalformed
           \/ \E r \in Requests, verdict \in {"answered", "failed"} : FinishHandler(r, verdict)
           \/ WakeOnWakeup
  BY <1>2, OwnType, OwnPlaced, OwnResults, OwnAccounted, OwnWakes DEF PumpInv, Wakes
<1>3. CASE UNCHANGED vars
  BY <1>3 DEF vars, jobVars, jsVars, wakeVars, PumpInv, TypeOK, Placed, Line, Results, Popping,
              Accounted, Announced, NoLostWakeup
<1> QED BY <1>1, <1>2, <1>3, NextIsShared

(***************************************************************************)
(* In every reachable state of the pool's worker a request is in one place *)
(* of the line or in its handler, and the pump's wake-ups are announced.   *)
(***************************************************************************)
THEOREM Invariance == Spec => []PumpInv
BY InitInv, StepInv, PTL DEF Spec

(***************************************************************************)
(* A parked pump with work to do is about to be woken.                     *)
(***************************************************************************)
THEOREM NoWakeupIsLost == Spec => []NoLostWakeup
<1>1. PumpInv => NoLostWakeup
  BY DEF PumpInv
<1> QED BY <1>1, Invariance, PTL

(***************************************************************************)
(* The slots held are those of the requests queued, popped or in a handler *)
(* that will run on.                                                       *)
(***************************************************************************)
THEOREM SlotsAccounted == Spec => []Accounted
<1>1. PumpInv => Accounted
  BY DEF PumpInv
<1> QED BY <1>1, Invariance, PTL

(***************************************************************************)
(* Handlers start in the order of the mailbox.                             *)
(***************************************************************************)
THEOREM KeepsOrder == Spec => InOrder
<1>1. PumpInv /\ [Next]_vars => [LineAdvances]_vars
  BY NextIsShared, SharedAdvances, OwnAdvances
<1> QED BY <1>1, Invariance, PTL DEF Spec, InOrder

(***************************************************************************)
(* The pool's worker keeps the safety of RequestLifecycle: a caller hears  *)
(* one verdict, and only of a request it submitted.                        *)
(***************************************************************************)
THEOREM SafelyImplements == Spec => Lifecycle!SafeSpec
<1>1. Init => Lifecycle!Init
  BY DEF Init, Lifecycle!Init
<1>2. PumpInv /\ [Next]_vars => [Lifecycle!Next]_caller
  <2> SUFFICES ASSUME PumpInv, [Next]_vars PROVE [Lifecycle!Next]_caller
    OBVIOUS
  <2>1. TypeOK
    BY DEF PumpInv
  <2>2. CASE Shared
    BY <2>1, <2>2, SharedRefines
  <2>3. CASE RecvMalformed
    <3>1. Head(mailbox) \in Requests
      BY <2>1, <2>3, HeadTailProperties DEF TypeOK, RecvMalformed
    <3> QED BY <2>1, <2>3, <3>1, SeenRefines DEF RecvMalformed
  <2>4. ASSUME NEW r \in Requests, NEW verdict \in {"answered", "failed"},
               FinishHandler(r, verdict)
        PROVE  [Lifecycle!Next]_caller
    BY <2>1, <2>4, SeenRefines DEF FinishHandler
  <2>5. CASE WakeOnWakeup \/ UNCHANGED vars
    BY <2>5 DEF WakeOnWakeup, vars
  <2> QED BY <2>2, <2>3, <2>4, <2>5, NextIsShared
<1> QED BY <1>1, <1>2, Invariance, PTL DEF Spec, Lifecycle!SafeSpec

-----------------------------------------------------------------------------
(***************************************************************************)
(* The single-isolate worker: the same invariant, with the results its     *)
(* forwarder tasks hold, which are those of handlers that are over.        *)
(***************************************************************************)
Forwarded ==
  /\ forwards \in [Requests -> {"none", "answered", "failed"}]
  /\ \A r \in Requests : forwards[r] # "none" => handler[r] = "done"

DispatcherInv == PumpInv /\ Forwarded

LEMMA DoneStays ==
  ASSUME PumpInv, Shared, NEW r \in Requests, handler[r] = "done"
  PROVE  handler'[r] = "done"
<1> USE DEF jobVars, jsVars, wakeVars
<1>1. TypeOK /\ Placed /\ Results
  BY DEF PumpInv
<1>2. ASSUME NEW q \in Requests,
             \/ Dispatch(q) \/ Abandon(q) \/ AwaitOp(q, "async") \/ AwaitOp(q, "napi")
             \/ CompleteOp(q) \/ NapiSend(q) \/ NapiNotify(q)
      PROVE  handler'[r] = "done"
  BY <1>1, <1>2 DEF TypeOK, Dispatch, Abandon, AwaitOp, CompleteOp, NapiSend, NapiNotify
<1>3. CASE Drain
  BY <1>1, <1>3 DEF Drain, Results
<1>4. CASE DispatchOne
  <2>1. Head(batch) \in Range(batch) /\ Range(batch) \subseteq Range(Line)
    BY <1>1, <1>4, HeadThenTail, Ranges DEF TypeOK, DispatchOne
  <2> QED BY <1>1, <1>4, <2>1 DEF TypeOK, DispatchOne, Placed
<1>5. CASE CloseMailbox \/ RecvJob \/ Shutdown \/ PopAgain \/ Park \/ WakeOnSignal
  BY <1>5 DEF CloseMailbox, RecvJob, Shutdown, PopAgain, Park, WakeOnSignal
<1> QED BY <1>2, <1>3, <1>4, <1>5 DEF Shared

LEMMA DispatcherNextIsShared ==
  ASSUME DispatcherNext
  PROVE  \/ Shared /\ UNCHANGED forwards
         \/ \E r \in Requests, verdict \in {"answered", "failed"} : SettleHandler(r, verdict)
         \/ \E r \in Requests : Forward(r)
BY DEF DispatcherNext, DispatcherJavaScript, Shared

LEMMA SettleHandlerInv ==
  ASSUME DispatcherInv, NEW r \in Requests, NEW verdict \in {"answered", "failed"},
         SettleHandler(r, verdict)
  PROVE  DispatcherInv' /\ Line' = Line
<1> USE DEF jobVars, jsVars, wakeVars
<1>1. TypeOK /\ Placed /\ Results /\ Popping
  BY DEF DispatcherInv, PumpInv
<1>2. TypeOK'
  BY <1>1 DEF TypeOK, SettleHandler
<1>3. Forwarded'
  BY <1>1 DEF DispatcherInv, Forwarded, SettleHandler, TypeOK
<1>4. Line' = Line
  BY DEF SettleHandler, Line
<1>5. \A q \in Requests : q # r => handler'[q] = handler[q]
  BY <1>1 DEF TypeOK, SettleHandler
<1>6. handler[r] = "ready"
  BY DEF SettleHandler
<1>7. Placed'
  <2>1. r \notin Range(Line) /\ caller[r] # "idle"
    BY <1>1, <1>6 DEF Placed
  <2> QED BY <1>1, <1>4, <1>5, <2>1, Ranges DEF Placed, SettleHandler
<1>8. Results' /\ Popping'
  BY <1>1, <1>5, <1>6, Ranges DEF SettleHandler, Results, Popping
<1>9. Accounted'
  BY SettlingAccounted DEF DispatcherInv, SettleHandler
<1>10. Announced' /\ NoLostWakeup'
  BY DEF DispatcherInv, PumpInv, SettleHandler, Announced, NoLostWakeup
<1> QED BY <1>2, <1>3, <1>4, <1>7, <1>8, <1>9, <1>10 DEF DispatcherInv, PumpInv

LEMMA ForwardInv ==
  ASSUME DispatcherInv, NEW r \in Requests, Forward(r)
  PROVE  DispatcherInv' /\ Line' = Line
<1> USE DEF jobVars, jsVars, wakeVars
<1>1. TypeOK /\ Placed
  BY DEF DispatcherInv, PumpInv
<1>2. forwards[r] \in {"answered", "failed"} /\ handler[r] = "done"
  BY DEF DispatcherInv, Forwarded, Forward
<1>3. TypeOK'
  BY <1>1, <1>2 DEF TypeOK, Forward, Seen
<1>4. Line' = Line /\ mailbox' = mailbox /\ handler' = handler
  BY DEF Forward, Line
<1>5. /\ \A q \in Requests : q # r => caller'[q] = caller[q]
      /\ caller[r] # "idle" => caller'[r] # "idle"
  BY <1>1, <1>2 DEF TypeOK, Forward, Seen
<1>6. Placed'
  <2>1. r \notin Range(Line) /\ caller[r] # "idle"
    BY <1>1, <1>2 DEF Placed
  <2> QED BY <1>1, <1>4, <1>5, <2>1, Ranges DEF Placed
<1>7. Forwarded'
  BY DEF DispatcherInv, Forwarded, Forward
<1>8. Results' /\ Popping' /\ Accounted' /\ Announced' /\ NoLostWakeup'
  BY DEF DispatcherInv, PumpInv, Forward, Results, Popping, Accounted, Announced, NoLostWakeup
<1> QED BY <1>3, <1>4, <1>6, <1>7, <1>8 DEF DispatcherInv, PumpInv

LEMMA DispatcherStep ==
  ASSUME DispatcherInv, [DispatcherNext]_dispatcherVars
  PROVE  DispatcherInv' /\ [LineAdvances]_vars /\ [Lifecycle!Next]_caller
<1> USE DEF jobVars, jsVars, wakeVars
<1>1. PumpInv /\ TypeOK
  BY DEF DispatcherInv, PumpInv
<1>2. CASE Shared /\ UNCHANGED forwards
  <2>1. PumpInv'
    BY <1>1, <1>2, SharedType, SharedPlaced, SharedResults, SharedAccounted, SharedWakes
       DEF PumpInv, Wakes
  <2>2. Forwarded'
    BY <1>1, <1>2, DoneStays DEF DispatcherInv, Forwarded
  <2> QED BY <1>1, <1>2, <2>1, <2>2, SharedAdvances, SharedRefines DEF DispatcherInv
<1>3. ASSUME NEW r \in Requests, NEW verdict \in {"answered", "failed"},
             SettleHandler(r, verdict)
      PROVE  DispatcherInv' /\ LineAdvances /\ caller' = caller
  BY <1>1, <1>3, SettleHandlerInv, SameLineAdvances DEF SettleHandler
<1>4. ASSUME NEW r \in Requests, Forward(r)
      PROVE  DispatcherInv' /\ LineAdvances /\ [Lifecycle!Next]_caller
  <2>1. forwards[r] \in {"answered", "failed"}
    BY <1>4 DEF DispatcherInv, Forwarded, Forward
  <2>2. [Lifecycle!Next]_caller
    BY <1>1, <1>4, <2>1, SeenRefines DEF Forward
  <2> QED BY <1>1, <1>4, <2>2, ForwardInv, SameLineAdvances
<1>5. CASE UNCHANGED dispatcherVars
  <2>1. UNCHANGED vars /\ UNCHANGED forwards
    BY <1>5 DEF dispatcherVars
  <2>2. PumpInv'
    BY <1>1, <2>1, StepInv
  <2> QED BY <2>1, <2>2 DEF DispatcherInv, Forwarded, vars
<1> QED BY <1>2, <1>3, <1>4, <1>5, DispatcherNextIsShared

LEMMA DispatcherInitInv == DispatcherInit => DispatcherInv
  BY InitInv DEF DispatcherInit, DispatcherInv, Forwarded

(***************************************************************************)
(* The single-isolate worker keeps the invariant of the line, the slots    *)
(* and the announced work; a result waits in a forwarder only after its    *)
(* handler is over.                                                        *)
(***************************************************************************)
THEOREM DispatcherInvariance == DispatcherSpec => []DispatcherInv
BY DispatcherInitInv, DispatcherStep, PTL DEF DispatcherSpec

(***************************************************************************)
(* Its slots are accounted for, as those of the pool's worker.             *)
(***************************************************************************)
THEOREM DispatcherSlotsAccounted == DispatcherSpec => []Accounted
<1>1. DispatcherInv => Accounted
  BY DEF DispatcherInv, PumpInv
<1> QED BY <1>1, DispatcherInvariance, PTL

(***************************************************************************)
(* Its handlers start in the order of the mailbox.                         *)
(***************************************************************************)
THEOREM DispatcherKeepsOrder == DispatcherSpec => InOrder
<1>1. DispatcherInv /\ [DispatcherNext]_dispatcherVars => [LineAdvances]_vars
  BY DispatcherStep
<1> QED BY <1>1, DispatcherInvariance, PTL DEF DispatcherSpec, InOrder

(***************************************************************************)
(* And it keeps the safety of RequestLifecycle, though a forwarder task    *)
(* stands between the dispatch table and the caller.                       *)
(***************************************************************************)
THEOREM DispatcherSafelyImplements == DispatcherSpec => Lifecycle!SafeSpec
<1>1. DispatcherInit => Lifecycle!Init
  BY DEF DispatcherInit, Init, Lifecycle!Init
<1>2. DispatcherInv /\ [DispatcherNext]_dispatcherVars => [Lifecycle!Next]_caller
  BY DispatcherStep
<1> QED BY <1>1, <1>2, DispatcherInvariance, PTL DEF DispatcherSpec, Lifecycle!SafeSpec

=============================================================================
