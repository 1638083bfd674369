-------------------------- MODULE IsolatePoolProofs --------------------------
(***************************************************************************)
(* Proofs about the multi-isolate pool for any set of requests, any number *)
(* of slots, any callers of tick_recycler and any recycle policy.          *)
(***************************************************************************)
EXTENDS IsolatePool, FiniteSetTheorems, TLAPS

(***************************************************************************)
(* Generations: a slot's workers are built one after the other, and the    *)
(* slot offers one of them.  A pool of one slot never consults a picker.   *)
(***************************************************************************)
Generations ==
  /\ \A s \in Slots, g \in 0..MaxBuilds : worker[<<s, g>>].state # "none" <=> g <= builds[s]
  /\ \A s \in Slots : current[s] <= builds[s]
  /\ \A r \in Requests : call[r].pc \in {"first", "second", "loaded"} => PoolSize > 1

(***************************************************************************)
(* The dispatches inside the guard of a slot, and their count.             *)
(***************************************************************************)
Inside(s) == {r \in Requests : call[r].pc = "sent" /\ call[r].slot = s}

Counted == \A s \in Slots : IsFiniteSet(Inside(s)) /\ inflight[s] = Cardinality(Inside(s))

IInv1 == TypeOK /\ Generations /\ Counted

(***************************************************************************)
(* The flag of a slot is a lock: who builds for the slot holds it alone,   *)
(* and only the end of the pool leaves it with nobody.                     *)
(***************************************************************************)
OneBuilder ==
  /\ \A p, q \in Passes, s \in Slots : Building(p, s) /\ Building(q, s) => p = q
  /\ \A p \in Passes, s \in Slots : Building(p, s) => recycling[s]
  /\ ~ dropped => \A s \in Slots : recycling[s] => \E p \in Passes : Building(p, s)
  /\ \A p \in Passes : pass[p].pc = "aborted" => dropped

IInv2 == IInv1 /\ OneBuilder

(***************************************************************************)
(* Whoever has a share of a worker finds that it has not been stopped; a   *)
(* dispatch whose job its worker does not have waits for a crashed one.    *)
(***************************************************************************)
Unstopped(w) == worker[w].state \in {"live", "crashed"}

Shares ==
  /\ dropped => \A r \in Requests : Over(r)
  /\ \A r \in Requests : call[r].pc \in {"holding", "sent"} => Unstopped(WorkerOf(r))
  /\ \A r \in Requests :
       call[r].pc = "sent" /\ job[r] = "none" => worker[WorkerOf(r)].state = "crashed"
  /\ \A p \in Passes :
       pass[p].pc = "built" => Unstopped(<<pass[p].slot, builds[pass[p].slot]>>)

IInv3 == IInv2 /\ Shares /\ NoRecycleLoss

-----------------------------------------------------------------------------
(***************************************************************************)
(* The pickers' arithmetic: the two candidates are slots, and differ       *)
(* whatever the counters, the stride and the number of slots are.          *)
(***************************************************************************)
LEMMA SlotOf ==
  ASSUME NEW n \in Nat
  PROVE  n % PoolSize \in Slots
BY IsolatePoolAssumption DEF Slots

LEMMA NextSlotIndex ==
  ASSUME NEW b \in Slots, PoolSize > 1
  PROVE  (b + 1) % PoolSize \in Slots /\ (b + 1) % PoolSize # b
<1>1. PoolSize \in Nat /\ b \in 0..(PoolSize - 1)
  BY IsolatePoolAssumption DEF Slots
<1>2. CASE b + 1 = PoolSize
  <2>1. (b + 1) % PoolSize = 0
    BY <1>1, <1>2
  <2> QED BY <1>1, <2>1 DEF Slots
<1>3. CASE b + 1 < PoolSize
  <2>1. (b + 1) % PoolSize = b + 1
    BY <1>1, <1>3
  <2> QED BY <1>1, <1>3, <2>1 DEF Slots
<1> QED BY <1>1, <1>2, <1>3

LEMMA SecondaryDiffers ==
  ASSUME NEW a \in Slots, NEW n \in Nat, PoolSize > 1
  PROVE  Secondary(a, n) \in Slots /\ Secondary(a, n) # a
BY SlotOf, NextSlotIndex DEF Secondary

(***************************************************************************)
(* The guards: a step that neither enters nor leaves one, one that enters, *)
(* and one that leaves, which finds the slot's count above zero.           *)
(***************************************************************************)
LEMMA SameInside ==
  ASSUME Counted, inflight' = inflight,
         \A q \in Requests : /\ call'[q].pc = "sent" <=> call[q].pc = "sent"
                             /\ call[q].pc = "sent" => call'[q].slot = call[q].slot
  PROVE  Counted'
<1>1. \A s \in Slots : Inside(s)' = Inside(s)
  BY DEF Inside
<1> QED BY <1>1 DEF Counted

LEMMA Entering ==
  ASSUME TypeOK, Counted, NEW r \in Requests, Enter(r)
  PROVE  Counted'
<1> SUFFICES ASSUME NEW s \in Slots
             PROVE  IsFiniteSet(Inside(s)') /\ inflight'[s] = Cardinality(Inside(s)')
  BY DEF Counted
<1>1. IsFiniteSet(Inside(s)) /\ inflight[s] = Cardinality(Inside(s)) /\ r \notin Inside(s)
  BY DEF Counted, Enter, Inside
<1>2. \A q \in Requests : q # r => call'[q] = call[q]
  BY DEF Enter, TypeOK
<1>3. call'[r].pc = "sent" /\ call'[r].slot = call[r].slot /\ call[r].slot \in Slots
  BY DEF Enter, TypeOK, CallType
<1>4. CASE call[r].slot = s
  <2>1. Inside(s)' = Inside(s) \cup {r}
    BY <1>2, <1>3, <1>4 DEF Inside
  <2>2. inflight'[s] = inflight[s] + 1
    BY <1>4 DEF Enter, TypeOK
  <2> QED BY <1>1, <2>1, <2>2, FS_AddElement
<1>5. CASE call[r].slot # s
  <2>1. Inside(s)' = Inside(s)
    BY <1>1, <1>2, <1>3, <1>5 DEF Inside
  <2>2. inflight'[s] = inflight[s]
    BY <1>5 DEF Enter, TypeOK
  <2> QED BY <1>1, <2>1, <2>2
<1> QED BY <1>4, <1>5

LEMMA Leaving ==
  ASSUME TypeOK, Counted, NEW r \in Requests, call[r].pc = "sent",
         NEW verdict \in {"answered", "failed", "gone", "cancelled"}, Leave(r, verdict)
  PROVE  /\ Counted'
         /\ inflight' \in [Slots -> Nat] /\ call' \in [Requests -> CallType]
         /\ \A q \in Requests : q # r => call'[q] = call[q]
         /\ call'[r] = [call[r] EXCEPT !.pc = verdict]
<1>1. call[r].slot \in Slots
  BY DEF TypeOK, CallType
<1>2. IsFiniteSet(Inside(call[r].slot)) /\ r \in Inside(call[r].slot)
  BY <1>1 DEF Counted, Inside
<1>3. Cardinality(Inside(call[r].slot)) # 0
  BY <1>2, FS_EmptySet
<1>4. inflight' \in [Slots -> Nat]
  <2>1. inflight[call[r].slot] \in Nat /\ inflight[call[r].slot] # 0
    BY <1>1, <1>3 DEF Counted, TypeOK
  <2>2. inflight[call[r].slot] - 1 \in Nat
    BY <2>1
  <2> QED BY <2>2 DEF Leave, TypeOK
<1>5. /\ \A q \in Requests : q # r => call'[q] = call[q]
      /\ call'[r] = [call[r] EXCEPT !.pc = verdict]
  BY DEF Leave, TypeOK
<1>6. call' \in [Requests -> CallType]
  <2>1. [call[r] EXCEPT !.pc = verdict] \in CallType
    BY DEF TypeOK, CallType
  <2> QED BY <2>1 DEF Leave, TypeOK
<1>7. ASSUME NEW s \in Slots
      PROVE  IsFiniteSet(Inside(s)') /\ inflight'[s] = Cardinality(Inside(s)')
  <2>1. IsFiniteSet(Inside(s)) /\ inflight[s] = Cardinality(Inside(s))
    BY DEF Counted
  <2>2. call'[r].pc # "sent"
    BY <1>5 DEF TypeOK, CallType
  <2>3. CASE call[r].slot = s
    <3>1. Inside(s)' = Inside(s) \ {r}
      BY <1>5, <2>2 DEF Inside
    <3>2. inflight'[s] = inflight[s] - 1
      BY <2>3 DEF Leave, TypeOK
    <3> QED BY <1>2, <2>1, <2>3, <3>1, <3>2, FS_RemoveElement
  <2>4. CASE call[r].slot # s
    <3>1. Inside(s)' = Inside(s)
      BY <1>5, <2>2, <2>4 DEF Inside
    <3>2. inflight'[s] = inflight[s]
      BY <2>4 DEF Leave, TypeOK
    <3> QED BY <2>1, <3>1, <3>2
  <2> QED BY <2>3, <2>4
<1>8. Counted'
  BY <1>7 DEF Counted
<1> QED BY <1>4, <1>5, <1>6, <1>8

(***************************************************************************)
(* The bound on builds is a bound on every slot's generations: the first   *)
(* workers of all slots and the later ones of one are different workers.   *)
(***************************************************************************)
LEMMA RoomToBuild ==
  ASSUME TypeOK, Generations, NEW s \in Slots,
         Cardinality({w \in Workers : worker[w].state # "none"}) < PoolSize + MaxBuilds
  PROVE  builds[s] < MaxBuilds
<1> DEFINE W == {w \in Workers : worker[w].state # "none"}
           f == [i \in 1..(PoolSize + MaxBuilds) |->
                   IF i <= PoolSize THEN <<i - 1, 0>> ELSE <<s, i - PoolSize>>]
<1>1. PoolSize \in Nat /\ MaxBuilds \in Nat /\ PoolSize > 0
  BY IsolatePoolAssumption
<1>2. IsFiniteSet(W)
  <2>1. IsFiniteSet(Slots) /\ IsFiniteSet(0..MaxBuilds)
    BY <1>1, FS_Interval DEF Slots
  <2>2. IsFiniteSet(Workers)
    BY <2>1, FS_Product DEF Workers
  <2> QED BY <2>2, FS_Subset
<1>3. SUFFICES ASSUME builds[s] >= MaxBuilds PROVE FALSE
  BY <1>1 DEF TypeOK
<1>4. f \in Injection(1..(PoolSize + MaxBuilds), W)
  <2>1. ASSUME NEW i \in 1..(PoolSize + MaxBuilds) PROVE f[i] \in W
    <3>1. CASE i <= PoolSize
      <4>1. i - 1 \in Slots /\ 0 \in 0..MaxBuilds
        BY <1>1, <3>1 DEF Slots
      <4>2. 0 <= builds[i - 1]
        BY <4>1 DEF TypeOK
      <4>3. worker[<<i - 1, 0>>].state # "none"
        BY <4>1, <4>2 DEF Generations
      <4> QED BY <3>1, <4>1, <4>3 DEF Workers
    <3>2. CASE i > PoolSize
      <4>1. i - PoolSize \in 0..MaxBuilds /\ i - PoolSize <= builds[s]
        BY <1>1, <1>3, <3>2 DEF TypeOK
      <4>2. worker[<<s, i - PoolSize>>].state # "none"
        BY <4>1 DEF Generations
      <4>3. ~ (i <= PoolSize)
        BY <1>1, <3>2
      <4> QED BY <4>1, <4>2, <4>3 DEF Workers
    <3> QED BY <1>1, <3>1, <3>2
  <2>2. ASSUME NEW i \in 1..(PoolSize + MaxBuilds), NEW j \in 1..(PoolSize + MaxBuilds),
               f[i] = f[j]
        PROVE  i = j
    BY <1>1, <2>2
  <2>3. IsInjective(f)
    BY <2>2 DEF IsInjective
  <2> QED BY <2>1, <2>3 DEF Injection
<1>5. Cardinality(1..(PoolSize + MaxBuilds)) = PoolSize + MaxBuilds
  BY <1>1, FS_Interval
<1>6. Cardinality(1..(PoolSize + MaxBuilds)) <= Cardinality(W)
  BY <1>2, <1>4, FS_Injection
<1>7. Cardinality(W) \in Nat
  BY <1>2, FS_CardinalityType
<1> QED BY <1>1, <1>5, <1>6, <1>7

-----------------------------------------------------------------------------
LEMMA InitIInv1 == Init => IInv1
<1> SUFFICES ASSUME Init PROVE IInv1
  OBVIOUS
<1>1. 0 \in Slots /\ 0 \in 0..MaxBuilds
  BY IsolatePoolAssumption DEF Slots
<1>2. worker \in [Workers -> WorkerType]
  BY DEF Init, WorkerType, fresh, WorkerHealth
<1>3. NewCall \in CallType /\ NewPass \in PassType
  BY <1>1 DEF CallType, PassType, NewCall, NewPass
<1>4. TypeOK
  BY <1>1, <1>2, <1>3 DEF Init, TypeOK, NewCall
<1>5. \A s \in Slots, g \in 0..MaxBuilds : worker[<<s, g>>].state = IF g = 0 THEN "live" ELSE "none"
  BY DEF Init, Workers
<1>6. \A s \in Slots, g \in 0..MaxBuilds : worker[<<s, g>>].state # "none" <=> g <= builds[s]
  <2>1. \A s \in Slots : builds[s] = 0
    BY DEF Init
  <2>2. \A g \in 0..MaxBuilds : g <= 0 <=> g = 0
    BY IsolatePoolAssumption
  <2> QED BY <1>5, <2>1, <2>2
<1>7. Generations
  BY <1>1, <1>6 DEF Init, Generations, NewCall
<1>8. Counted
  <2>1. \A s \in Slots : Inside(s) = {} /\ inflight[s] = 0
    BY DEF Init, Inside, NewCall
  <2> QED BY <2>1, FS_EmptySet DEF Counted
<1> QED BY <1>4, <1>7, <1>8 DEF IInv1

(***************************************************************************)
(* A dispatch picks a slot, takes its worker and enters.                   *)
(***************************************************************************)
LEMMA PickingIInv1 ==
  ASSUME IInv1, NEW r \in Requests, Dispatch(r) \/ Picking(r)
  PROVE  IInv1'
<1> USE DEF IInv1, poolVars
<1>1. CASE Dispatch(r)
  <2>1. picker_a % PoolSize \in Slots /\ picker_a + 1 \in Nat
    BY SlotOf DEF TypeOK
  <2>2. call' \in [Requests -> CallType]
    BY <1>1, <2>1 DEF Dispatch, TypeOK, CallType
  <2>3. call'[r].pc = "chosen" \/ PoolSize > 1
    BY <1>1, <2>1, IsolatePoolAssumption DEF Dispatch, TypeOK, CallType
  <2>4. \A q \in Requests : q # r => call'[q] = call[q]
    BY <1>1 DEF Dispatch, TypeOK
  <2>5. call'[r].pc \in {"first", "chosen"}
    BY <1>1 DEF Dispatch, TypeOK, CallType
  <2>6. TypeOK'
    BY <1>1, <2>1, <2>2, <2>4, <2>5 DEF Dispatch, TypeOK
  <2>7. Generations'
    BY <1>1, <2>3, <2>4 DEF Dispatch, TypeOK, Generations
  <2>8. Counted'
    BY <1>1, <2>4, <2>5, SameInside DEF Dispatch, TypeOK
  <2> QED BY <2>6, <2>7, <2>8
<1>2. CASE FetchSecondary(r)
  <2>1. Secondary(call[r].a, picker_b) \in Slots /\ Secondary(call[r].a, picker_b) # call[r].a
    BY <1>2, SecondaryDiffers DEF FetchSecondary, TypeOK, Generations, CallType
  <2>2. call' \in [Requests -> CallType]
    <3>1. [call[r] EXCEPT !.pc = "second", !.b = Secondary(call[r].a, picker_b)] \in CallType
      BY <2>1 DEF TypeOK, CallType
    <3> QED BY <1>2, <3>1 DEF FetchSecondary, TypeOK
  <2>7. picker_b' \in Nat
    BY <1>2 DEF FetchSecondary, TypeOK, PICKER_STRIDE_B
  <2>3. \A q \in Requests : q # r => call'[q] = call[q]
    BY <1>2 DEF FetchSecondary, TypeOK
  <2>4. call'[r].a # call'[r].b /\ PoolSize > 1
    BY <1>2, <2>1 DEF FetchSecondary, TypeOK, CallType, Generations
  <2>5. TypeOK'
    BY <1>2, <2>2, <2>3, <2>4, <2>7 DEF FetchSecondary, TypeOK
  <2>6. Generations'
    BY <1>2, <2>3, <2>4 DEF FetchSecondary, TypeOK, Generations
  <2>8. Counted'
    BY <1>2, <2>3, SameInside DEF FetchSecondary, TypeOK, CallType
  <2> QED BY <2>5, <2>6, <2>8
<1>3. CASE LoadFirst(r)
  <2>1. call' \in [Requests -> CallType]
    <3>1. inflight[call[r].a] \in Nat
      BY DEF TypeOK, CallType
    <3>2. [call[r] EXCEPT !.pc = "loaded", !.load = inflight[call[r].a]] \in CallType
      BY <3>1 DEF TypeOK, CallType
    <3> QED BY <1>3, <3>2 DEF LoadFirst, TypeOK
  <2>2. /\ \A q \in Requests : q # r => call'[q] = call[q]
        /\ call'[r].a = call[r].a /\ call'[r].b = call[r].b /\ call[r].pc = "second"
    BY <1>3 DEF LoadFirst, TypeOK, CallType
  <2>3. TypeOK'
    BY <1>3, <2>1, <2>2 DEF LoadFirst, TypeOK
  <2>4. Generations'
    BY <1>3, <2>2 DEF LoadFirst, TypeOK, Generations
  <2>5. Counted'
    BY <1>3, <2>2, SameInside DEF LoadFirst, TypeOK, CallType
  <2> QED BY <2>3, <2>4, <2>5
<1>4. CASE LoadSecond(r)
  <2>1. 0 \in Slots /\ 0 \in 0..MaxBuilds
    BY IsolatePoolAssumption DEF Slots
  <2>2. call' \in [Requests -> CallType]
    BY <1>4, <2>1 DEF LoadSecond, TypeOK, CallType, NewCall
  <2>3. /\ \A q \in Requests : q # r => call'[q] = call[q]
        /\ call'[r].pc = "chosen"
    BY <1>4 DEF LoadSecond, TypeOK, NewCall
  <2>4. TypeOK'
    BY <1>4, <2>2, <2>3 DEF LoadSecond, TypeOK
  <2>5. Generations'
    BY <1>4, <2>3 DEF LoadSecond, TypeOK, Generations
  <2>6. Counted'
    BY <1>4, <2>3, SameInside DEF LoadSecond
  <2> QED BY <2>4, <2>5, <2>6
<1>5. CASE TakeWorker(r)
  <2>1. call' \in [Requests -> CallType]
    <3>1. current[call[r].slot] \in 0..MaxBuilds
      BY DEF TypeOK, CallType
    <3>2. [call[r] EXCEPT !.pc = "holding", !.gen = current[call[r].slot]] \in CallType
      BY <3>1 DEF TypeOK, CallType
    <3> QED BY <1>5, <3>2 DEF TakeWorker, TypeOK
  <2>2. /\ \A q \in Requests : q # r => call'[q] = call[q]
        /\ call'[r].pc = "holding"
    BY <1>5 DEF TakeWorker, TypeOK, CallType
  <2>3. TypeOK'
    BY <1>5, <2>1, <2>2 DEF TakeWorker, TypeOK
  <2>4. Generations'
    BY <1>5, <2>2 DEF TakeWorker, TypeOK, Generations
  <2>5. Counted'
    BY <1>5, <2>2, SameInside DEF TakeWorker
  <2> QED BY <2>3, <2>4, <2>5
<1>6. CASE Enter(r)
  <2>1. call' \in [Requests -> CallType] /\ call[r].slot \in Slots
    BY <1>6 DEF Enter, TypeOK, CallType
  <2>2. /\ \A q \in Requests : q # r => call'[q] = call[q]
        /\ call'[r].pc = "sent"
    BY <1>6 DEF Enter, TypeOK, CallType
  <2>3. /\ job' \in [Requests -> {"none", "queued", "running"}]
        /\ inflight' \in [Slots -> Nat]
    BY <1>6, <2>1 DEF Enter, TypeOK
  <2>4. TypeOK'
    BY <1>6, <2>1, <2>2, <2>3 DEF Enter, TypeOK
  <2>5. Generations'
    BY <1>6, <2>2 DEF Enter, TypeOK, Generations
  <2> QED BY <2>4, <2>5, <1>6, Entering
<1> QED BY <1>1, <1>2, <1>3, <1>4, <1>5, <1>6 DEF Picking


(***************************************************************************)
(* A dispatch ends, and what the worker's thread does with its job.        *)
(***************************************************************************)
LEMMA SettlingIInv1 ==
  ASSUME IInv1, NEW r \in Requests, Settle(r) \/ Cancel(r) \/ Refuse(r)
  PROVE  IInv1'
<1> USE DEF IInv1, poolVars
<1>1. CASE \/ WorkerGone(r) \/ Cancel(r)
           \/ (Reply(r) \/ Refuse(r)) /\ call[r].pc = "sent"
  <2>1. PICK verdict \in {"answered", "failed", "gone", "cancelled"} : Leave(r, verdict)
    BY <1>1 DEF WorkerGone, Cancel, Reply, Refuse, Answer
  <2>2. call[r].pc = "sent"
    BY <1>1 DEF WorkerGone, Cancel
  <2>3. /\ Counted'
        /\ inflight' \in [Slots -> Nat] /\ call' \in [Requests -> CallType]
        /\ \A q \in Requests : q # r => call'[q] = call[q]
        /\ call'[r] = [call[r] EXCEPT !.pc = verdict]
    BY <2>1, <2>2, Leaving
  <2>4. call'[r].pc = verdict
    BY <2>3 DEF TypeOK, CallType
  <2>5. /\ UNCHANGED <<picker_a, picker_b, current, recycling, builds, pass, worker, dropped>>
        /\ job' \in [Requests -> {"none", "queued", "running"}]
    BY <1>1 DEF WorkerGone, Cancel, Reply, Refuse, Answer, TypeOK
  <2>6. TypeOK'
    BY <2>3, <2>4, <2>5 DEF TypeOK
  <2>7. Generations'
    BY <2>3, <2>4, <2>5 DEF Generations
  <2> QED BY <2>3, <2>6, <2>7
<1>2. CASE (Reply(r) \/ Refuse(r)) /\ call[r].pc # "sent"
  <2>1. /\ UNCHANGED <<poolVars, call, pass, worker, dropped>>
        /\ job' \in [Requests -> {"none", "queued", "running"}]
    BY <1>2 DEF Reply, Refuse, Answer, TypeOK
  <2>2. TypeOK'
    BY <2>1 DEF TypeOK
  <2>3. Generations' /\ Counted'
    BY <2>1, SameInside DEF Generations
  <2> QED BY <2>2, <2>3
<1> QED BY <1>1, <1>2 DEF Settle

LEMMA WorkerIInv1 ==
  ASSUME IInv1,
         \/ \E r \in Requests : Register(r)
         \/ \E w \in Workers : StopWorker(w) \/ Panic(w)
  PROVE  IInv1'
<1> USE DEF IInv1, poolVars
<1>1. ASSUME NEW r \in Requests, Register(r) PROVE IInv1'
  <2>1. WorkerOf(r) \in Workers
    BY DEF TypeOK, CallType, WorkerOf, Workers
  <2>2. PICK used \in HeapSizes :
          worker' = [worker EXCEPT ![WorkerOf(r)].health =
            [used |-> used, limit |-> HeapLimit, requests_handled |-> @.requests_handled + 1]]
    BY <1>1 DEF Register
  <2>3. worker[WorkerOf(r)] \in WorkerType
    BY <2>1 DEF TypeOK
  <2>4. [used |-> used, limit |-> HeapLimit,
         requests_handled |-> worker[WorkerOf(r)].health.requests_handled + 1] \in WorkerHealth
    BY <2>3, PolicyAssumption DEF WorkerType, WorkerHealth
  <2>5. worker' \in [Workers -> WorkerType]
    BY <2>2, <2>3, <2>4 DEF TypeOK, WorkerType
  <2>6. \A w \in Workers : worker'[w].state = worker[w].state
    BY <2>1, <2>2, <2>3 DEF TypeOK, WorkerType
  <2>7. job' \in [Requests -> {"none", "queued", "running"}]
    BY <1>1 DEF Register, TypeOK
  <2>8. TypeOK'
    BY <1>1, <2>5, <2>7 DEF Register, TypeOK
  <2>9. Generations' /\ Counted'
    BY <1>1, <2>6, SameInside DEF Register, Generations, Workers
  <2> QED BY <2>8, <2>9
<1>2. ASSUME NEW w \in Workers, StopWorker(w) \/ Panic(w) PROVE IInv1'
  <2>1. PICK state \in {"stopped", "crashed"} : End(w, state)
    BY <1>2 DEF StopWorker, Panic
  <2>2. worker' \in [Workers -> WorkerType]
    BY <2>1 DEF End, TypeOK, WorkerType
  <2>3. \A v \in Workers : worker'[v].state # "none" <=> worker[v].state # "none"
    BY <2>1 DEF End, TypeOK, WorkerType
  <2>4. job' \in [Requests -> {"none", "queued", "running"}]
    BY <2>1 DEF End, TypeOK
  <2>5. TypeOK'
    BY <2>1, <2>2, <2>4 DEF End, TypeOK
  <2>6. Generations' /\ Counted'
    BY <2>1, <2>3, SameInside DEF End, Generations, Workers
  <2> QED BY <2>5, <2>6
<1> QED BY <1>1, <1>2

(***************************************************************************)
(* A recycle pass, and the end of the pool.                                *)
(***************************************************************************)
LEMMA NextSlotType ==
  ASSUME TypeOK, NEW p \in Passes
  PROVE  NextSlot(p) \in PassType /\ NextSlot(p).pc \in {"idle", "inspect"}
<1>1. 0 \in Slots /\ 0 \in 0..MaxBuilds
  BY IsolatePoolAssumption DEF Slots
<1>2. pass[p].slot \in Slots
  BY DEF TypeOK, PassType
<1>3. pass[p].slot + 1 < PoolSize => pass[p].slot + 1 \in Slots
  BY <1>2, IsolatePoolAssumption DEF Slots
<1> QED BY <1>1, <1>3 DEF NextSlot, NewPass, PassType

LEMMA PassIInv1 ==
  ASSUME IInv1, \/ \E p \in Passes : BeginPass(p) \/ Recycle(p)
                \/ DropPool \/ AbortRecycler
  PROVE  IInv1'
<1> USE DEF IInv1, poolVars
<1>1. 0 \in Slots /\ 0 \in 0..MaxBuilds
  BY IsolatePoolAssumption DEF Slots
<1>2. ASSUME NEW p \in Passes, BeginPass(p) PROVE IInv1'
  <2>1. pass' \in [Passes -> PassType]
    BY <1>1, <1>2 DEF BeginPass, TypeOK, PassType, NewPass
  <2>2. TypeOK' /\ Generations' /\ Counted'
    BY <1>2, <2>1, SameInside DEF BeginPass, TypeOK, Generations
  <2> QED BY <2>2
<1>3. ASSUME NEW p \in Passes, Inspect(p) PROVE IInv1'
  <2>1. pass[p].slot \in Slots
    BY DEF TypeOK, PassType
  <2>2. [pc |-> "claim", slot |-> pass[p].slot, gen |-> current[pass[p].slot]] \in PassType
    BY <2>1 DEF TypeOK, PassType
  <2>3. pass' \in [Passes -> PassType]
    BY <1>3, <2>2, NextSlotType DEF Inspect, TypeOK
  <2>4. TypeOK' /\ Generations' /\ Counted'
    BY <1>3, <2>3, SameInside DEF Inspect, TypeOK, Generations
  <2> QED BY <2>4
<1>4. ASSUME NEW p \in Passes, Claim(p) PROVE IInv1'
  <2>1. [pass[p] EXCEPT !.pc = "build"] \in PassType
    BY DEF TypeOK, PassType
  <2>2. pass' \in [Passes -> PassType] /\ recycling' \in [Slots -> BOOLEAN]
    BY <1>4, <2>1, NextSlotType DEF Claim, TypeOK
  <2>3. TypeOK' /\ Generations' /\ Counted'
    BY <1>4, <2>2, SameInside DEF Claim, TypeOK, Generations
  <2> QED BY <2>3
<1>5. ASSUME NEW p \in Passes, BuildOk(p) PROVE IInv1'
  <2>1. pass[p].slot \in Slots /\ [pass[p] EXCEPT !.pc = "built"] \in PassType
    BY DEF TypeOK, PassType
  <2>2. builds[pass[p].slot] < MaxBuilds
    BY <1>5, <2>1, RoomToBuild DEF BuildOk
  <2>3. Fresh(p) \in Workers /\ builds[pass[p].slot] + 1 \in 0..MaxBuilds
    BY <2>1, <2>2, IsolatePoolAssumption DEF TypeOK, Fresh, Workers
  <2>4. pass' \in [Passes -> PassType] /\ builds' \in [Slots -> 0..MaxBuilds]
    BY <1>5, <2>1, <2>3 DEF BuildOk, TypeOK
  <2>5. worker' \in [Workers -> WorkerType]
    BY <1>5, <2>3 DEF BuildOk, TypeOK, WorkerType
  <2>6. TypeOK'
    BY <1>5, <2>4, <2>5 DEF BuildOk, TypeOK
  <2>7. /\ \A w \in Workers : w # Fresh(p) => worker'[w] = worker[w]
        /\ worker'[Fresh(p)].state = "live"
    BY <1>5, <2>3 DEF BuildOk, TypeOK, WorkerType
  <2>8. ASSUME NEW s \in Slots, NEW g \in 0..MaxBuilds
        PROVE  worker'[<<s, g>>].state # "none" <=> g <= builds'[s]
    <3>1. <<s, g>> \in Workers
      BY DEF Workers
    <3>2. builds'[s] = IF s = pass[p].slot THEN builds[s] + 1 ELSE builds[s]
      BY <1>5, <2>1 DEF BuildOk, TypeOK
    <3>3. <<s, g>> = Fresh(p) <=> s = pass[p].slot /\ g = builds[s] + 1
      BY DEF Fresh
    <3>4. worker[<<s, g>>].state # "none" <=> g <= builds[s]
      BY DEF Generations
    <3>5. builds[s] \in Nat /\ g \in Nat
      BY DEF TypeOK
    <3> QED BY <2>7, <3>1, <3>2, <3>3, <3>4, <3>5
  <2>9. \A s \in Slots : current'[s] <= builds'[s]
    BY <1>5, <2>1 DEF BuildOk, TypeOK, Generations
  <2>10. Generations' /\ Counted'
    BY <1>5, <2>8, <2>9, SameInside DEF BuildOk, Generations
  <2> QED BY <2>6, <2>10
<1>6. ASSUME NEW p \in Passes, BuildFailed(p) PROVE IInv1'
  <2>1. [pass[p] EXCEPT !.pc = "release"] \in PassType
    BY DEF TypeOK, PassType
  <2>2. pass' \in [Passes -> PassType]
    BY <1>6, <2>1 DEF BuildFailed, TypeOK
  <2>3. TypeOK' /\ Generations' /\ Counted'
    BY <1>6, <2>2, SameInside DEF BuildFailed, TypeOK, Generations
  <2> QED BY <2>3
<1>7. ASSUME NEW p \in Passes, Replace(p) PROVE IInv1'
  <2>1. pass[p].slot \in Slots /\ [pass[p] EXCEPT !.pc = "release"] \in PassType
    BY DEF TypeOK, PassType
  <2>2. pass' \in [Passes -> PassType] /\ current' \in [Slots -> 0..MaxBuilds]
    BY <1>7, <2>1 DEF Replace, TypeOK
  <2>3. TypeOK'
    BY <1>7, <2>2 DEF Replace, TypeOK
  <2>4. \A s \in Slots : current'[s] <= builds'[s]
    BY <1>7, <2>1 DEF Replace, TypeOK, Generations
  <2>5. Generations' /\ Counted'
    BY <1>7, <2>4, SameInside DEF Replace, Generations
  <2> QED BY <2>3, <2>5
<1>8. ASSUME NEW p \in Passes, Release(p) PROVE IInv1'
  <2>1. pass' \in [Passes -> PassType] /\ recycling' \in [Slots -> BOOLEAN]
    BY <1>8, NextSlotType DEF Release, TypeOK
  <2>2. TypeOK' /\ Generations' /\ Counted'
    BY <1>8, <2>1, SameInside DEF Release, TypeOK, Generations
  <2> QED BY <2>2
<1>9. ASSUME DropPool PROVE IInv1'
  BY <1>9, SameInside DEF DropPool, TypeOK, Generations
<1>10. ASSUME AbortRecycler PROVE IInv1'
  <2>1. pass' \in [Passes -> PassType]
    BY <1>10 DEF AbortRecycler, TypeOK, PassType
  <2>2. TypeOK' /\ Generations' /\ Counted'
    BY <1>10, <2>1, SameInside DEF AbortRecycler, TypeOK, Generations
  <2> QED BY <2>2
<1> QED BY <1>2, <1>3, <1>4, <1>5, <1>6, <1>7, <1>8, <1>9, <1>10 DEF Recycle, Build

LEMMA NextIInv1 == IInv1 /\ [Next]_vars => IInv1'
<1> SUFFICES ASSUME IInv1, [Next]_vars PROVE IInv1'
  OBVIOUS
<1>1. CASE UNCHANGED vars
  BY <1>1, SameInside DEF vars, poolVars, IInv1, TypeOK, Generations
<1>2. CASE Next
  BY <1>2, PickingIInv1, SettlingIInv1, WorkerIInv1, PassIInv1 DEF Next
<1> QED BY <1>1, <1>2

(***************************************************************************)
(* The first layer: types, generations and counted guards, whatever        *)
(* dispatches, workers and passes of isolate_pool.rs do.                   *)
(***************************************************************************)
THEOREM Invariance1 == Spec => []IInv1
<1>1. Init => IInv1
  BY InitIInv1
<1>2. IInv1 /\ [Next]_vars => IInv1'
  BY NextIInv1
<1> QED BY <1>1, <1>2, PTL DEF Spec

-----------------------------------------------------------------------------
(***************************************************************************)
(* Only passes and the end of the pool touch what OneBuilder speaks of.    *)
(***************************************************************************)
LEMMA InitIInv2 == Init => OneBuilder
BY DEF Init, OneBuilder, Building, NewPass

LEMMA QuietOneBuilder ==
  ASSUME OneBuilder, UNCHANGED <<pass, recycling, dropped>>
  PROVE  OneBuilder'
BY DEF OneBuilder, Building

LEMMA PassOneBuilder ==
  ASSUME IInv2, NEW p \in Passes, BeginPass(p) \/ Recycle(p)
  PROVE  OneBuilder'
<1> USE DEF poolVars
<1>1. /\ pass \in [Passes -> PassType] /\ recycling \in [Slots -> BOOLEAN]
      /\ pass[p] \in PassType /\ pass[p].slot \in Slots
      /\ NextSlot(p) \in PassType /\ NextSlot(p).pc \in {"idle", "inspect"}
  BY NextSlotType DEF IInv2, IInv1, TypeOK, PassType
<1>2. OneBuilder
  BY DEF IInv2
<1>3. CASE BeginPass(p) \/ Inspect(p)
  <2>1. /\ UNCHANGED <<recycling, dropped>>
        /\ \A q \in Passes : q # p => pass'[q] = pass[q]
        /\ pass[p].pc \in {"idle", "inspect"} /\ pass'[p].pc \in {"idle", "inspect", "claim"}
    BY <1>1, <1>3 DEF BeginPass, Inspect, NewPass
  <2>2. \A q \in Passes, s \in Slots : Building(q, s)' <=> Building(q, s)
    BY <2>1 DEF Building
  <2>3. \A q \in Passes : pass'[q].pc = "aborted" => pass[q].pc = "aborted"
    BY <2>1
  <2> QED BY <1>2, <2>1, <2>2, <2>3 DEF OneBuilder
<1>4. CASE Claim(p) /\ recycling[pass[p].slot]
  <2>1. /\ UNCHANGED <<recycling, dropped>>
        /\ \A q \in Passes : q # p => pass'[q] = pass[q]
        /\ pass[p].pc = "claim" /\ pass'[p].pc \in {"idle", "inspect"}
    BY <1>1, <1>4 DEF Claim
  <2>2. \A q \in Passes, s \in Slots : Building(q, s)' <=> Building(q, s)
    BY <2>1 DEF Building
  <2>3. \A q \in Passes : pass'[q].pc = "aborted" => pass[q].pc = "aborted"
    BY <2>1
  <2> QED BY <1>2, <2>1, <2>2, <2>3 DEF OneBuilder
<1>5. CASE Claim(p) /\ ~ recycling[pass[p].slot]
  <2>1. /\ UNCHANGED dropped
        /\ \A q \in Passes : q # p => pass'[q] = pass[q]
        /\ pass'[p].pc = "build" /\ pass'[p].slot = pass[p].slot /\ pass[p].pc = "claim"
    BY <1>1, <1>5 DEF Claim, PassType
  <2>8. \A s \in Slots : recycling'[s] <=> s = pass[p].slot \/ recycling[s]
    <3>1. recycling' = [recycling EXCEPT ![pass[p].slot] = TRUE]
      BY <1>5 DEF Claim
    <3> QED BY <1>1, <3>1
  <2>2. \A q \in Passes, s \in Slots :
          Building(q, s)' <=> IF q = p THEN s = pass[p].slot ELSE Building(q, s)
    BY <2>1 DEF Building
  <2>3. \A q \in Passes : ~ Building(q, pass[p].slot)
    BY <1>1, <1>2, <1>5 DEF OneBuilder
  <2>4. \A q, v \in Passes, s \in Slots : Building(q, s)' /\ Building(v, s)' => q = v
    BY <1>2, <2>2, <2>3 DEF OneBuilder
  <2>5. \A q \in Passes, s \in Slots : Building(q, s)' => recycling'[s]
    BY <1>2, <2>2, <2>8 DEF OneBuilder
  <2>6. ~ dropped' => \A s \in Slots : recycling'[s] => \E q \in Passes : Building(q, s)'
    <3> SUFFICES ASSUME ~ dropped, NEW s \in Slots, recycling'[s]
                 PROVE  \E q \in Passes : Building(q, s)'
      BY <2>1
    <3>1. CASE s = pass[p].slot
      BY <2>2, <3>1
    <3>2. CASE s # pass[p].slot
      <4>1. PICK q \in Passes : Building(q, s)
        BY <1>2, <2>1, <2>8, <3>2 DEF OneBuilder
      <4>2. q # p
        BY <2>1, <4>1 DEF Building
      <4> QED BY <2>2, <4>1, <4>2
    <3> QED BY <3>1, <3>2
  <2>7. \A q \in Passes : pass'[q].pc = "aborted" => dropped'
    BY <1>2, <2>1 DEF OneBuilder
  <2> QED BY <2>4, <2>5, <2>6, <2>7 DEF OneBuilder
<1>6. CASE Build(p) \/ Replace(p)
  <2>1. /\ UNCHANGED <<recycling, dropped>>
        /\ \A q \in Passes : q # p => pass'[q] = pass[q]
        /\ pass[p].pc \in {"build", "built"} /\ pass'[p].pc \in {"built", "release"}
        /\ pass'[p].slot = pass[p].slot
    BY <1>1, <1>6 DEF Build, BuildOk, BuildFailed, Replace, PassType
  <2>2. \A q \in Passes, s \in Slots : Building(q, s)' <=> Building(q, s)
    BY <2>1 DEF Building
  <2>3. \A q \in Passes : pass'[q].pc = "aborted" => pass[q].pc = "aborted"
    BY <2>1
  <2> QED BY <1>2, <2>1, <2>2, <2>3 DEF OneBuilder
<1>7. CASE Release(p)
  <2>1. /\ UNCHANGED dropped
        /\ \A q \in Passes : q # p => pass'[q] = pass[q]
        /\ pass[p].pc = "release" /\ pass'[p].pc \in {"idle", "inspect"}
    BY <1>1, <1>7 DEF Release
  <2>8. \A s \in Slots : recycling'[s] <=> s # pass[p].slot /\ recycling[s]
    <3>1. recycling' = [recycling EXCEPT ![pass[p].slot] = FALSE]
      BY <1>7 DEF Release
    <3> QED BY <1>1, <3>1
  <2>2. \A q \in Passes, s \in Slots : Building(q, s)' <=> q # p /\ Building(q, s)
    BY <2>1 DEF Building
  <2>3. Building(p, pass[p].slot) /\ \A s \in Slots : Building(p, s) => s = pass[p].slot
    BY <2>1 DEF Building
  <2>4. \A q \in Passes, s \in Slots : Building(q, s)' => recycling'[s]
    BY <1>1, <1>2, <2>2, <2>3, <2>8 DEF OneBuilder
  <2>5. \A q, v \in Passes, s \in Slots : Building(q, s)' /\ Building(v, s)' => q = v
    BY <1>2, <2>2 DEF OneBuilder
  <2>6. ~ dropped' => \A s \in Slots : recycling'[s] => \E q \in Passes : Building(q, s)'
    BY <1>2, <2>1, <2>2, <2>3, <2>8 DEF OneBuilder
  <2>7. \A q \in Passes : pass'[q].pc = "aborted" => dropped'
    BY <1>2, <2>1 DEF OneBuilder
  <2> QED BY <2>4, <2>5, <2>6, <2>7 DEF OneBuilder
<1> QED BY <1>3, <1>4, <1>5, <1>6, <1>7 DEF Recycle

LEMMA NextOneBuilder == IInv2 /\ [Next]_vars => OneBuilder'
<1> SUFFICES ASSUME IInv2, [Next]_vars PROVE OneBuilder'
  OBVIOUS
<1>1. CASE UNCHANGED vars \/ \E r \in Requests :
             Dispatch(r) \/ Picking(r) \/ Settle(r) \/ Cancel(r) \/ Register(r) \/ Refuse(r)
  <2>1. UNCHANGED <<pass, recycling, dropped>>
    BY <1>1 DEF vars, poolVars, Dispatch, Picking, FetchSecondary, LoadFirst, LoadSecond,
                TakeWorker, Enter, Settle, Reply, WorkerGone, Cancel, Register, Refuse, Answer
  <2> QED BY <2>1, QuietOneBuilder DEF IInv2
<1>2. CASE \E w \in Workers : StopWorker(w) \/ Panic(w)
  <2>1. UNCHANGED <<pass, recycling, dropped>>
    BY <1>2 DEF StopWorker, Panic, End, poolVars
  <2> QED BY <2>1, QuietOneBuilder DEF IInv2
<1>3. CASE \E p \in Passes : BeginPass(p) \/ Recycle(p)
  BY <1>3, PassOneBuilder
<1>4. CASE DropPool
  <2>1. UNCHANGED <<pass, recycling>> /\ dropped'
    BY <1>4 DEF DropPool, poolVars
  <2> QED BY <2>1 DEF IInv2, OneBuilder, Building
<1>5. CASE AbortRecycler
  <2>1. /\ UNCHANGED <<recycling, dropped>> /\ dropped
        /\ \A q \in Passes : q # Background => pass'[q] = pass[q]
        /\ Background \in Passes => pass'[Background].pc = "aborted"
    BY <1>5 DEF AbortRecycler, poolVars, IInv2, IInv1, TypeOK, PassType
  <2>2. \A q \in Passes, s \in Slots : Building(q, s)' => Building(q, s)
    BY <2>1 DEF Building
  <2> QED BY <2>1, <2>2 DEF IInv2, OneBuilder
<1> QED BY <1>1, <1>2, <1>3, <1>4, <1>5 DEF Next

(***************************************************************************)
(* The second layer: the recycling flag of a slot is held by the one pass  *)
(* that builds for it (recycle_slot_if_needed of isolate_pool.rs).         *)
(***************************************************************************)
THEOREM Invariance2 == Spec => []IInv2
<1>1. Init => OneBuilder
  BY InitIInv2
<1>2. IInv2 /\ [Next]_vars => OneBuilder'
  BY NextOneBuilder
<1> QED BY <1>1, <1>2, Invariance1, PTL DEF Spec, IInv2

-----------------------------------------------------------------------------
(***************************************************************************)
(* Workers are shared: initially nobody but the slots has one.             *)
(***************************************************************************)
LEMMA InitIInv3 == Init => Shares /\ NoRecycleLoss
<1> SUFFICES ASSUME Init PROVE Shares /\ NoRecycleLoss
  OBVIOUS
<1>1. Shares
  BY DEF Init, Shares, NewCall, NewPass
<1>2. \A s \in Slots : worker[<<s, current[s]>>].state = "live"
  BY IsolatePoolAssumption DEF Init, Workers
<1>3. NoRecycleLoss
  BY <1>2 DEF Init, NoRecycleLoss, NewCall
<1> QED BY <1>1, <1>3

(***************************************************************************)
(* A step that leaves the workers and the passes alone and moves one       *)
(* dispatch keeps the invariant if it does for this dispatch.              *)
(***************************************************************************)
LEMMA MoveOne ==
  ASSUME IInv3, NEW r \in Requests, UNCHANGED <<worker, pass, current, builds, dropped>>,
         \A q \in Requests : q # r => call'[q] = call[q] /\ job'[q] = job[q],
         dropped => Over(r)',
         call'[r].pc \in {"holding", "sent"} => Unstopped(WorkerOf(r)'),
         call'[r].pc = "sent" /\ job'[r] = "none" => worker[WorkerOf(r)'].state = "crashed",
         call'[r].pc = "gone" => worker[WorkerOf(r)'].state = "crashed"
  PROVE  Shares' /\ NoRecycleLoss'
<1>1. \A q \in Requests : q # r => WorkerOf(q)' = WorkerOf(q) /\ (Over(q)' <=> Over(q))
  BY DEF WorkerOf, Over
<1>2. Shares'
  BY <1>1 DEF IInv3, Shares, Unstopped
<1>3. NoRecycleLoss'
  BY <1>1 DEF IInv3, NoRecycleLoss, InnerHeld
<1> QED BY <1>2, <1>3

LEMMA PickingIInv3 ==
  ASSUME IInv3, NEW r \in Requests, Dispatch(r) \/ Picking(r)
  PROVE  Shares' /\ NoRecycleLoss'
<1> USE DEF poolVars
<1>1. TypeOK /\ Shares /\ NoRecycleLoss /\ call[r] \in CallType
  BY DEF IInv3, IInv2, IInv1, TypeOK
<1>2. /\ UNCHANGED <<worker, pass, current, builds, dropped>>
      /\ \A q \in Requests : q # r => call'[q] = call[q] /\ job'[q] = job[q]
  BY <1>1 DEF TypeOK, Dispatch, Picking, FetchSecondary, LoadFirst, LoadSecond, TakeWorker, Enter
<1>3. ~ dropped
  BY <1>1 DEF Shares, Over, Dispatch, Picking, FetchSecondary, LoadFirst, LoadSecond,
              TakeWorker, Enter
<1>4. CASE Dispatch(r) \/ FetchSecondary(r) \/ LoadFirst(r) \/ LoadSecond(r)
  <2>1. call'[r].pc \in {"first", "second", "loaded", "chosen"}
    <3>1. CASE Dispatch(r)
      BY <1>1, <3>1 DEF TypeOK, Dispatch, CallType
    <3>2. CASE FetchSecondary(r)
      BY <1>1, <3>2 DEF TypeOK, FetchSecondary, CallType
    <3>3. CASE LoadFirst(r)
      BY <1>1, <3>3 DEF TypeOK, LoadFirst, CallType
    <3>4. CASE LoadSecond(r)
      BY <1>1, <3>4 DEF TypeOK, LoadSecond, NewCall
    <3> QED BY <1>4, <3>1, <3>2, <3>3, <3>4
  <2> QED BY <1>2, <1>3, <2>1, MoveOne
<1>5. CASE TakeWorker(r)
  <2>1. call'[r].pc = "holding" /\ WorkerOf(r)' = <<call[r].slot, current[call[r].slot]>>
    BY <1>1, <1>5 DEF TypeOK, TakeWorker, WorkerOf, CallType
  <2>2. Unstopped(<<call[r].slot, current[call[r].slot]>>)
    BY <1>1, <1>3 DEF NoRecycleLoss, InnerHeld, Unstopped, CallType
  <2> QED BY <1>2, <1>3, <2>1, <2>2, MoveOne
<1>6. CASE Enter(r)
  <2>1. call'[r].pc = "sent" /\ WorkerOf(r)' = WorkerOf(r) /\ call[r].pc = "holding"
    BY <1>1, <1>6 DEF TypeOK, Enter, WorkerOf, CallType
  <2>2. Unstopped(WorkerOf(r))
    BY <1>1, <2>1 DEF Shares
  <2>3. job'[r] = "none" => worker[WorkerOf(r)].state = "crashed"
    BY <1>1, <1>6, <2>2 DEF TypeOK, Enter, Unstopped
  <2> QED BY <1>2, <1>3, <2>1, <2>2, <2>3, MoveOne
<1> QED BY <1>4, <1>5, <1>6 DEF Picking

LEMMA SettlingIInv3 ==
  ASSUME IInv3, NEW r \in Requests, Settle(r) \/ Cancel(r) \/ Refuse(r)
  PROVE  Shares' /\ NoRecycleLoss'
<1> USE DEF poolVars
<1>1. TypeOK /\ Shares /\ NoRecycleLoss /\ call[r] \in CallType
  BY DEF IInv3, IInv2, IInv1, TypeOK
<1>2. /\ UNCHANGED <<worker, pass, current, builds, dropped>>
      /\ \A q \in Requests : q # r => call'[q] = call[q] /\ job'[q] = job[q]
  BY <1>1 DEF TypeOK, Settle, WorkerGone, Cancel, Reply, Refuse, Answer, Leave
<1>3. CASE call[r].pc = "sent"
  <2>1. PICK verdict \in {"answered", "failed", "gone", "cancelled"} :
          Leave(r, verdict) /\ (verdict = "gone" => job[r] = "none")
    BY <1>3 DEF Settle, WorkerGone, Cancel, Reply, Refuse, Answer
  <2>2. call'[r].pc = verdict /\ WorkerOf(r)' = WorkerOf(r)
    BY <1>1, <2>1 DEF TypeOK, Leave, CallType, WorkerOf
  <2>3. verdict = "gone" => worker[WorkerOf(r)].state = "crashed"
    BY <1>1, <1>3, <2>1 DEF Shares
  <2> QED BY <1>2, <2>2, <2>3, MoveOne DEF Over
<1>4. CASE call[r].pc # "sent"
  <2>1. UNCHANGED call
    BY <1>4 DEF Settle, WorkerGone, Cancel, Reply, Refuse, Answer
  <2>2. WorkerOf(r)' = WorkerOf(r) /\ (Over(r)' <=> Over(r))
    BY <2>1 DEF WorkerOf, Over
  <2> QED BY <1>1, <1>2, <1>4, <2>1, <2>2, MoveOne DEF Shares, NoRecycleLoss
<1> QED BY <1>3, <1>4

(***************************************************************************)
(* The worker's thread.  It ends only when nobody has a share of it.       *)
(***************************************************************************)
LEMMA RegisterIInv3 ==
  ASSUME IInv3, NEW r \in Requests, Register(r)
  PROVE  Shares' /\ NoRecycleLoss'
<1> USE DEF poolVars
<1>1. TypeOK /\ Shares /\ NoRecycleLoss
  BY DEF IInv3, IInv2, IInv1
<1>2. \A w \in Workers : worker'[w].state = worker[w].state
  BY <1>1 DEF Register, TypeOK, WorkerType
<1>3. /\ UNCHANGED <<call, pass, current, builds, dropped>>
      /\ \A q \in Requests : job'[q] = "none" => job[q] = "none"
  BY <1>1 DEF Register, TypeOK
<1>4. \A q \in Requests : WorkerOf(q) \in Workers
  BY <1>1 DEF TypeOK, CallType, WorkerOf, Workers
<1>5. \A p \in Passes : <<pass[p].slot, builds[pass[p].slot]>> \in Workers
  BY <1>1 DEF TypeOK, PassType, Workers
<1>6. \A s \in Slots : <<s, current[s]>> \in Workers
  BY <1>1 DEF TypeOK, Workers
<1>7. /\ \A q \in Requests : WorkerOf(q)' = WorkerOf(q) /\ (Over(q)' <=> Over(q))
      /\ InnerHeld' <=> InnerHeld
  BY <1>3 DEF WorkerOf, Over, InnerHeld
<1>8. Shares'
  BY <1>1, <1>2, <1>3, <1>4, <1>5, <1>7 DEF Shares, Unstopped
<1>9. NoRecycleLoss'
  BY <1>1, <1>2, <1>3, <1>4, <1>6, <1>7 DEF NoRecycleLoss
<1> QED BY <1>8, <1>9

LEMMA EndIInv3 ==
  ASSUME IInv3, NEW w \in Workers, StopWorker(w) \/ Panic(w)
  PROVE  Shares' /\ NoRecycleLoss'
<1> USE DEF poolVars
<1>1. TypeOK /\ Shares /\ NoRecycleLoss
  BY DEF IInv3, IInv2, IInv1
<1>2. PICK state \in {"stopped", "crashed"} :
        End(w, state) /\ (state = "stopped" => ~ Held(w))
  BY DEF StopWorker, Panic
<1>3. /\ \A v \in Workers : v # w => worker'[v] = worker[v]
      /\ worker[w].state = "live" /\ worker'[w].state = state
  BY <1>1, <1>2 DEF End, TypeOK, WorkerType
<1>4. /\ UNCHANGED <<call, pass, current, builds, dropped>>
      /\ \A q \in Requests : WorkerOf(q) # w => job'[q] = job[q]
  BY <1>1, <1>2 DEF End, TypeOK
<1>5. /\ \A q \in Requests : WorkerOf(q)' = WorkerOf(q) /\ (Over(q)' <=> Over(q))
      /\ InnerHeld' <=> InnerHeld
  BY <1>4 DEF WorkerOf, Over, InnerHeld
<1>6. \A q \in Requests : WorkerOf(q) \in Workers
  BY <1>1 DEF TypeOK, CallType, WorkerOf, Workers
<1>7. \A q \in Requests :
        call[q].pc \in {"holding", "sent"} => WorkerOf(q) # w \/ state = "crashed"
  BY <1>2 DEF Held
<1>8. \A p \in Passes :
        pass[p].pc = "built" => <<pass[p].slot, builds[pass[p].slot]>> # w \/ state = "crashed"
  BY <1>2 DEF Held
<1>9. \A s \in Slots : InnerHeld => <<s, current[s]>> # w \/ state = "crashed"
  BY <1>2 DEF Held
<1>10. \A p \in Passes : <<pass[p].slot, builds[pass[p].slot]>> \in Workers
  BY <1>1 DEF TypeOK, PassType, Workers
<1>11. \A s \in Slots : <<s, current[s]>> \in Workers
  BY <1>1 DEF TypeOK, Workers
<1>12. \A v \in Workers :
         Unstopped(v) /\ (v # w \/ state = "crashed") => worker'[v].state \in {"live", "crashed"}
  BY <1>3 DEF Unstopped
<1>13. Shares'
  <2>1. dropped' => \A q \in Requests : Over(q)'
    BY <1>1, <1>4, <1>5 DEF Shares
  <2>2. \A q \in Requests : call'[q].pc \in {"holding", "sent"} => Unstopped(WorkerOf(q))'
    BY <1>1, <1>4, <1>5, <1>6, <1>7, <1>12 DEF Shares, Unstopped
  <2>3. \A q \in Requests :
          call'[q].pc = "sent" /\ job'[q] = "none" => worker'[WorkerOf(q)].state = "crashed"
    BY <1>1, <1>3, <1>4, <1>6, <1>7 DEF Shares
  <2>4. \A p \in Passes :
          pass'[p].pc = "built" => Unstopped(<<pass[p].slot, builds[pass[p].slot]>>)'
    BY <1>1, <1>4, <1>8, <1>10, <1>12 DEF Shares, Unstopped
  <2> QED BY <1>4, <1>5, <2>1, <2>2, <2>3, <2>4 DEF Shares
<1>14. NoRecycleLoss'
  <2>1. \A q \in Requests : call'[q].pc = "gone" => worker'[WorkerOf(q)].state = "crashed"
    BY <1>1, <1>3, <1>4, <1>6 DEF NoRecycleLoss
  <2>2. InnerHeld => \A s \in Slots : worker'[<<s, current[s]>>].state \in {"live", "crashed"}
    BY <1>1, <1>9, <1>11, <1>12 DEF NoRecycleLoss, Unstopped
  <2> QED BY <1>4, <1>5, <2>1, <2>2 DEF NoRecycleLoss
<1> QED BY <1>13, <1>14

(***************************************************************************)
(* A pass.  The worker it publishes is the one it built, because nobody    *)
(* else builds for the slot meanwhile.                                     *)
(***************************************************************************)
LEMMA PassIInv3 ==
  ASSUME IInv3, NEW p \in Passes, BeginPass(p) \/ Recycle(p)
  PROVE  Shares' /\ NoRecycleLoss'
<1> USE DEF poolVars
<1>1. TypeOK /\ Generations /\ OneBuilder /\ Shares /\ NoRecycleLoss
  BY DEF IInv3, IInv2, IInv1
<1>2. /\ pass[p] \in PassType /\ pass[p].slot \in Slots
      /\ NextSlot(p) \in PassType /\ NextSlot(p).pc \in {"idle", "inspect"}
  BY <1>1, NextSlotType DEF TypeOK, PassType
<1>3. /\ UNCHANGED <<call, job, dropped>>
      /\ \A q \in Passes : q # p => pass'[q] = pass[q]
  BY <1>1 DEF TypeOK, BeginPass, Recycle, Build, Inspect, Claim, BuildOk, BuildFailed, Replace,
              Release
<1>4. InnerHeld' => InnerHeld
  <2>1. ~ dropped \/ pass[p].pc \notin {"idle", "aborted"}
    BY DEF BeginPass, Recycle, Build, Inspect, Claim, BuildOk, BuildFailed, Replace, Release
  <2>2. Background \in Passes /\ (Background # p => pass'[Background] = pass[Background])
    BY <1>3 DEF Passes
  <2> QED BY <1>3, <2>1, <2>2 DEF InnerHeld
<1>5. \A q \in Requests : WorkerOf(q)' = WorkerOf(q) /\ (Over(q)' <=> Over(q))
  BY <1>3 DEF WorkerOf, Over
<1>6. CASE BeginPass(p) \/ Inspect(p) \/ Claim(p) \/ BuildFailed(p) \/ Release(p)
  <2>1. UNCHANGED <<worker, current, builds>>
    BY <1>6 DEF BeginPass, Inspect, Claim, BuildFailed, Release
  <2>2. pass'[p].pc # "built"
    BY <1>1, <1>2, <1>6 DEF TypeOK, PassType, BeginPass, Inspect, Claim, BuildFailed, Release,
                            NewPass
  <2> QED BY <1>1, <1>3, <1>4, <1>5, <2>1, <2>2 DEF Shares, NoRecycleLoss, Unstopped
<1>7. CASE BuildOk(p)
  <2>1. UNCHANGED current /\ pass'[p].pc = "built" /\ pass'[p].slot = pass[p].slot
        /\ pass[p].pc = "build"
    BY <1>1, <1>2, <1>7 DEF BuildOk, TypeOK, PassType
  <2>2. builds[pass[p].slot] < MaxBuilds
    BY <1>1, <1>2, <1>7, RoomToBuild DEF BuildOk
  <2>3. /\ builds[pass[p].slot] + 1 \in 0..MaxBuilds /\ Fresh(p) \in Workers
        /\ ~ (builds[pass[p].slot] + 1 <= builds[pass[p].slot])
    BY <1>1, <1>2, <2>2, IsolatePoolAssumption DEF TypeOK, Fresh, Workers
  <2>4. worker[Fresh(p)].state = "none"
    BY <1>1, <1>2, <2>3 DEF Generations, Fresh
  <2>5. /\ \A w \in Workers : w # Fresh(p) => worker'[w] = worker[w]
        /\ worker'[Fresh(p)].state = "live"
    BY <1>1, <1>7, <2>3 DEF BuildOk, TypeOK, WorkerType
  <2>6. \A s \in Slots : builds'[s] = IF s = pass[p].slot THEN builds[s] + 1 ELSE builds[s]
    BY <1>1, <1>2, <1>7 DEF BuildOk, TypeOK
  <2>7. \A w \in Workers : Unstopped(w) => worker'[w].state = worker[w].state
    BY <2>4, <2>5 DEF Unstopped
  <2>8. \A q \in Requests : WorkerOf(q) \in Workers
    BY <1>1 DEF TypeOK, CallType, WorkerOf, Workers
  <2>9. \A s \in Slots : <<s, current[s]>> \in Workers
    BY <1>1 DEF TypeOK, Workers
  <2>10. ASSUME NEW q \in Passes, pass'[q].pc = "built"
         PROVE  worker'[<<pass'[q].slot, builds'[pass'[q].slot]>>].state \in {"live", "crashed"}
    <3>1. CASE q = p
      <4>1. <<pass'[q].slot, builds'[pass'[q].slot]>> = Fresh(p)
        BY <1>2, <2>1, <2>6, <3>1 DEF Fresh
      <4> QED BY <2>5, <4>1
    <3>2. CASE q # p
      <4>1. pass'[q] = pass[q] /\ pass[q].slot \in Slots
        BY <1>1, <1>3, <3>2 DEF TypeOK, PassType
      <4>2. pass[q].slot # pass[p].slot
        BY <1>1, <1>2, <1>7, <2>1, <3>2, <4>1, <2>10 DEF OneBuilder, Building
      <4>3. Unstopped(<<pass[q].slot, builds[pass[q].slot]>>)
        BY <1>1, <2>10, <4>1 DEF Shares
      <4>4. <<pass[q].slot, builds[pass[q].slot]>> \in Workers
        BY <1>1, <4>1 DEF TypeOK, Workers
      <4>5. builds'[pass[q].slot] = builds[pass[q].slot]
        BY <2>6, <4>1, <4>2
      <4> QED BY <2>7, <4>1, <4>3, <4>4, <4>5 DEF Unstopped
    <3> QED BY <3>1, <3>2
  <2>11. Shares'
    <3>1. \A q \in Requests : call'[q].pc \in {"holding", "sent"} => Unstopped(WorkerOf(q))'
      BY <1>1, <1>3, <1>5, <2>7, <2>8 DEF Shares, Unstopped
    <3>2. \A q \in Requests :
            call'[q].pc = "sent" /\ job'[q] = "none" => worker'[WorkerOf(q)].state = "crashed"
      BY <1>1, <1>3, <2>7, <2>8 DEF Shares, Unstopped
    <3> QED BY <1>1, <1>3, <1>5, <2>10, <3>1, <3>2 DEF Shares, Unstopped
  <2>12. NoRecycleLoss'
    <3>1. \A q \in Requests : call'[q].pc = "gone" => worker'[WorkerOf(q)].state = "crashed"
      BY <1>1, <1>3, <2>7, <2>8 DEF NoRecycleLoss, Unstopped
    <3>2. InnerHeld => \A s \in Slots : worker'[<<s, current[s]>>].state \in {"live", "crashed"}
      BY <1>1, <2>7, <2>9 DEF NoRecycleLoss, Unstopped
    <3> QED BY <1>4, <1>5, <2>1, <3>1, <3>2 DEF NoRecycleLoss
  <2> QED BY <2>11, <2>12
<1>8. CASE Replace(p)
  <2>1. /\ UNCHANGED <<worker, builds>> /\ pass'[p].pc # "built" /\ pass[p].pc = "built"
        /\ \A s \in Slots : current'[s] = IF s = pass[p].slot THEN builds[s] ELSE current[s]
    BY <1>1, <1>2, <1>8 DEF Replace, TypeOK, PassType
  <2>2. Unstopped(<<pass[p].slot, builds[pass[p].slot]>>)
    BY <1>1, <2>1 DEF Shares
  <2>3. Shares'
    BY <1>1, <1>3, <1>5, <2>1 DEF Shares, Unstopped
  <2>4. NoRecycleLoss'
    BY <1>1, <1>2, <1>3, <1>4, <1>5, <2>1, <2>2 DEF NoRecycleLoss, Unstopped
  <2> QED BY <2>3, <2>4
<1> QED BY <1>6, <1>7, <1>8 DEF Recycle, Build

LEMMA NextIInv3 == IInv3 /\ [Next]_vars => Shares' /\ NoRecycleLoss'
<1> SUFFICES ASSUME IInv3, [Next]_vars PROVE Shares' /\ NoRecycleLoss'
  OBVIOUS
<1> USE DEF poolVars
<1>1. Shares /\ NoRecycleLoss
  BY DEF IInv3
<1>2. CASE UNCHANGED vars
  BY <1>1, <1>2 DEF vars, Shares, NoRecycleLoss, Unstopped, WorkerOf, Over, InnerHeld
<1>3. CASE DropPool
  BY <1>1, <1>3 DEF DropPool, Shares, NoRecycleLoss, Unstopped, WorkerOf, Over, InnerHeld
<1>4. CASE AbortRecycler
  <2>1. /\ UNCHANGED <<poolVars, call, job, worker, dropped>> /\ dropped
        /\ \A q \in Passes : q # Background => pass'[q] = pass[q]
        /\ Background \in Passes /\ pass'[Background].pc = "aborted"
    BY <1>4 DEF AbortRecycler, IInv3, IInv2, IInv1, TypeOK, PassType, Passes
  <2>2. ~ InnerHeld'
    BY <2>1 DEF InnerHeld
  <2> QED BY <1>1, <2>1, <2>2 DEF Shares, NoRecycleLoss, Unstopped, WorkerOf, Over
<1> QED BY <1>2, <1>3, <1>4, PickingIInv3, SettlingIInv3, RegisterIInv3, EndIInv3, PassIInv3
        DEF Next

(***************************************************************************)
(* The third layer: a worker that somebody has a share of has not been     *)
(* stopped, so replacing it in its slot takes it from nobody.              *)
(***************************************************************************)
THEOREM Invariance3 == Spec => []IInv3
<1>1. Init => Shares /\ NoRecycleLoss
  BY InitIInv3
<1>2. IInv3 /\ [Next]_vars => Shares' /\ NoRecycleLoss'
  BY NextIInv3
<1> QED BY <1>1, <1>2, Invariance2, PTL DEF Spec, IInv3

-----------------------------------------------------------------------------
(***************************************************************************)
(* The pool's state has its types in every reachable state, for any number *)
(* of slots and passes; the two candidates of pick_index differ.           *)
(***************************************************************************)
THEOREM TypeCorrect == Spec => []TypeOK
<1>1. IInv1 => TypeOK
  BY DEF IInv1
<1> QED BY <1>1, Invariance1, PTL

(***************************************************************************)
(* The in-flight count of a slot is the number of dispatches inside their  *)
(* guard, so the decrement of the guard's drop never wraps, whatever is    *)
(* recycled, cancelled or crashes meanwhile.                               *)
(***************************************************************************)
THEOREM GuardsCounted == Spec => []InflightExact
<1>1. IInv1 => InflightExact
  BY DEF IInv1, Counted, Inside, InflightExact
<1> QED BY <1>1, Invariance1, PTL

(***************************************************************************)
(* However many passes run at once, at most one builds for a slot, and the *)
(* slot's flag says whether one does.                                      *)
(***************************************************************************)
THEOREM RecyclesOnce == Spec => []Singleflight
<1>1. IInv2 => Singleflight
  <2> SUFFICES ASSUME IInv2, NEW s \in Slots
               PROVE  /\ Cardinality({p \in Passes : Building(p, s)}) <= 1
                      /\ ~ dropped => (recycling[s] <=> \E p \in Passes : Building(p, s))
    BY DEF Singleflight
  <2>1. CASE \E p \in Passes : Building(p, s)
    <3>1. PICK p \in Passes : Building(p, s)
      BY <2>1
    <3>2. {q \in Passes : Building(q, s)} = {p}
      BY <3>1 DEF IInv2, OneBuilder
    <3>3. Cardinality({p}) = 1
      BY FS_Singleton
    <3> QED BY <3>1, <3>2, <3>3 DEF IInv2, OneBuilder
  <2>2. CASE ~ \E p \in Passes : Building(p, s)
    <3>1. {q \in Passes : Building(q, s)} = {}
      BY <2>2
    <3> QED BY <2>2, <3>1, FS_EmptySet DEF IInv2, OneBuilder
  <2> QED BY <2>1, <2>2
<1> QED BY <1>1, Invariance2, PTL

(***************************************************************************)
(* Recycling never costs a request: a dispatch that finds its worker gone  *)
(* was sent to one that crashed, and a slot never offers a stopped worker. *)
(***************************************************************************)
THEOREM RecyclingIsLossless == Spec => []NoRecycleLoss
<1>1. IInv3 => NoRecycleLoss
  BY DEF IInv3
<1> QED BY <1>1, Invariance3, PTL

-----------------------------------------------------------------------------
(***************************************************************************)
(* The pool implements the promise of Worker::dispatch, step by step: a    *)
(* dispatch is submitted once and settled at most once.                    *)
(***************************************************************************)
Verdict(r) ==
  IF ~ Over(r) THEN "waiting" ELSE IF call[r].pc = "gone" THEN "failed" ELSE call[r].pc

View == [r \in Requests |-> Verdict(r)]

LEMMA QuietView ==
  ASSUME \A q \in Requests : Verdict(q)' = Verdict(q)
  PROVE  View' = View
BY DEF View

LEMMA LeaveRefines ==
  ASSUME TypeOK, NEW r \in Requests, call[r].pc = "sent",
         NEW verdict \in {"answered", "failed", "gone", "cancelled"}, Leave(r, verdict)
  PROVE  Lifecycle!Next
<1>1. /\ \A q \in Requests : q # r => Verdict(q)' = Verdict(q)
      /\ Verdict(r) = "waiting"
      /\ Verdict(r)' = IF verdict = "gone" THEN "failed" ELSE verdict
  BY DEF Leave, TypeOK, CallType, Verdict, Over
<1>2. CASE verdict \in {"failed", "gone"}
  <2>1. View' = [q \in Requests |-> IF q \in {r} THEN "failed" ELSE View[q]]
    BY <1>1, <1>2 DEF View
  <2>2. \A q \in {r} : View[q] = "waiting"
    BY <1>1 DEF View
  <2>3. Lifecycle!Fail({r})
    BY <2>1, <2>2 DEF Lifecycle!Fail, View, Verdict
  <2> QED BY <2>3 DEF Lifecycle!Next
<1>3. CASE verdict \in {"answered", "cancelled"}
  <2>1. View' = [View EXCEPT ![r] = verdict] /\ View[r] = "waiting"
    BY <1>1, <1>3 DEF View
  <2>2. Lifecycle!Answer(r) \/ Lifecycle!Cancel(r)
    BY <1>3, <2>1 DEF Lifecycle!Answer, Lifecycle!Cancel, View, Verdict
  <2> QED BY <2>2 DEF Lifecycle!Next
<1> QED BY <1>2, <1>3

LEMMA NextRefines ==
  ASSUME TypeOK, [Next]_vars
  PROVE  Lifecycle!Next \/ View' = View
<1> USE DEF poolVars
<1>1. ASSUME NEW r \in Requests, Dispatch(r) PROVE Lifecycle!Next
  <2>1. /\ \A q \in Requests : q # r => Verdict(q)' = Verdict(q)
        /\ Verdict(r) = "idle" /\ Verdict(r)' = "waiting"
    BY <1>1 DEF Dispatch, TypeOK, CallType, Verdict, Over
  <2>2. View' = [View EXCEPT ![r] = "waiting"] /\ View[r] = "idle"
    BY <2>1 DEF View
  <2>3. Lifecycle!Submit(r)
    BY <2>2 DEF Lifecycle!Submit, View, Verdict
  <2> QED BY <2>3 DEF Lifecycle!Next
<1>2. ASSUME NEW r \in Requests, Picking(r) PROVE View' = View
  <2>1. \A q \in Requests : q # r => Verdict(q)' = Verdict(q)
    BY <1>2 DEF Picking, FetchSecondary, LoadFirst, LoadSecond, TakeWorker, Enter, TypeOK,
                Verdict, Over
  <2>2. ~ Over(r) /\ ~ Over(r)'
    <3>1. CASE FetchSecondary(r)
      BY <3>1 DEF FetchSecondary, TypeOK, CallType, Over
    <3>2. CASE LoadFirst(r)
      BY <3>2 DEF LoadFirst, TypeOK, CallType, Over
    <3>3. CASE LoadSecond(r)
      BY <3>3 DEF LoadSecond, TypeOK, NewCall, Over
    <3>4. CASE TakeWorker(r)
      BY <3>4 DEF TakeWorker, TypeOK, CallType, Over
    <3>5. CASE Enter(r)
      BY <3>5 DEF Enter, TypeOK, CallType, Over
    <3> QED BY <1>2, <3>1, <3>2, <3>3, <3>4, <3>5 DEF Picking
  <2>3. Verdict(r)' = Verdict(r)
    BY <2>2 DEF Verdict
  <2> QED BY <2>1, <2>3, QuietView
<1>3. ASSUME NEW r \in Requests, Settle(r) \/ Cancel(r) \/ Refuse(r)
      PROVE  Lifecycle!Next \/ View' = View
  <2>1. CASE call[r].pc = "sent"
    <3>1. PICK verdict \in {"answered", "failed", "gone", "cancelled"} : Leave(r, verdict)
      BY <1>3, <2>1 DEF Settle, WorkerGone, Cancel, Reply, Refuse, Answer
    <3> QED BY <2>1, <3>1, LeaveRefines
  <2>2. CASE call[r].pc # "sent"
    <3>1. UNCHANGED call
      BY <1>3, <2>2 DEF Settle, WorkerGone, Cancel, Reply, Refuse, Answer
    <3> QED BY <3>1, QuietView DEF Verdict, Over
  <2> QED BY <2>1, <2>2
<1>4. CASE \/ \E r \in Requests : Register(r)
           \/ \E w \in Workers : StopWorker(w) \/ Panic(w)
           \/ \E p \in Passes : BeginPass(p) \/ Recycle(p)
           \/ DropPool \/ AbortRecycler \/ UNCHANGED vars
  <2>1. UNCHANGED call
    BY <1>4 DEF Register, StopWorker, Panic, End, BeginPass, Recycle, Inspect, Claim, Build,
                BuildOk, BuildFailed, Replace, Release, DropPool, AbortRecycler, vars
  <2> QED BY <2>1, QuietView DEF Verdict, Over
<1> QED BY <1>1, <1>2, <1>3, <1>4 DEF Next

THEOREM SafelyImplements == Spec => Lifecycle!SafeSpec
<1>1. Init => Lifecycle!Init
  BY DEF Init, Lifecycle!Init, NewCall, Over
<1>2. TypeOK /\ [Next]_vars => [Lifecycle!Next]_View
  BY NextRefines
<1> QED BY <1>1, <1>2, TypeCorrect, PTL DEF Spec, Lifecycle!SafeSpec, View, Verdict

=============================================================================
