--------------------------- MODULE LocalPoolProofs ---------------------------
(***************************************************************************)
(* Proofs about the local pool for any set of requests, any mailbox        *)
(* capacity and any recycle policy.                                        *)
(***************************************************************************)
EXTENDS LocalPool, FiniteSetTheorems, TLAPS

(***************************************************************************)
(* A request is sent once: it is in the mailbox at most once, and neither  *)
(* there nor with the isolate before its caller has sent it.  So the       *)
(* isolate's counter counts distinct requests.                             *)
(***************************************************************************)
SentOnce ==
  /\ \A j, k \in 1..Len(mailbox) : mailbox[j] = mailbox[k] => j = k
  /\ Jobs \cap served = {}
  /\ \A r \in Requests : caller[r] \in {"idle", "sending"} => r \notin Jobs \cup served
  /\ IsFiniteSet(served)

(***************************************************************************)
(* The rebuild handshake: while an isolate boots the recycler waits for an *)
(* acknowledgement that has not been sent, so it can neither queue another *)
(* rebuild nor judge the next isolate by the old one's health.             *)
(***************************************************************************)
Handshake ==
  /\ supervisor = "booting" =>
       ~ rebuild /\ ack = "none" /\ recycler # "parked" /\ running = {}
  /\ rebuild => recycler # "parked" /\ ack = "none"
  /\ recycler = "parked" => ack = "none"

(***************************************************************************)
(* What a rebuild request and a bad snapshot say of the running isolate.   *)
(***************************************************************************)
Condemnation ==
  supervisor = "driving" =>
    /\ rebuild => condemned
    /\ Fires(health) => condemned

IInv == TypeOK /\ SentOnce /\ HealthIsCurrent /\ NoOrphan /\ Handshake /\ Condemnation

-----------------------------------------------------------------------------
(***************************************************************************)
(* WorkerHealth::fresh: no policy but the RSS cap ever fires on a fresh    *)
(* worker, whatever the configuration (RequestCount because 0 disables it, *)
(* HeapThreshold because the limit of a fresh snapshot is 0).              *)
(***************************************************************************)
THEOREM FreshSurvives ==
  \A rss \in RssSamples : should_recycle(fresh, rss) => RssCap > 0 /\ ProcessRss(RssCap, rss)
<1> SUFFICES ASSUME NEW rss \in RssSamples, should_recycle(fresh, rss)
             PROVE  RssCap > 0 /\ ProcessRss(RssCap, rss)
  OBVIOUS
<1>1. ~ HeapThreshold(OrDefault(HeapRatio, 80), fresh)
  BY DEF HeapThreshold, fresh
<1>2. ~ (OrDefault(RequestLimit, 50000) > 0 /\ RequestCount(OrDefault(RequestLimit, 50000), fresh))
  BY PolicyAssumption DEF RequestCount, fresh, OrDefault, Setting, Unset
<1>3. ~ (HeapCap > 0 /\ HeapBytes(HeapCap, fresh))
  BY PolicyAssumption DEF HeapBytes, fresh, Setting, Unset
<1> QED BY <1>1, <1>2, <1>3 DEF should_recycle

(***************************************************************************)
(* The jobs of a mailbox after a send and after a receive.                 *)
(***************************************************************************)
LEMMA MailboxAppend ==
  ASSUME TypeOK, SentOnce, NEW r \in Requests, r \notin Jobs, mailbox' = Append(mailbox, r)
  PROVE  /\ Jobs' = Jobs \cup {r}
         /\ \A j, k \in 1..Len(mailbox') : mailbox'[j] = mailbox'[k] => j = k
<1>1. mailbox \in Seq(Requests) /\ Len(mailbox) \in Nat
  BY DEF TypeOK
<1>2. /\ Len(mailbox') = Len(mailbox) + 1
      /\ \A k \in 1..Len(mailbox) : mailbox'[k] = mailbox[k]
      /\ mailbox'[Len(mailbox) + 1] = r
  BY <1>1
<1>3. 1..Len(mailbox') = 1..Len(mailbox) \cup {Len(mailbox) + 1}
  BY <1>1, <1>2
<1>4. Jobs' = Jobs \cup {r}
  BY <1>1, <1>2, <1>3 DEF Jobs
<1>5. ASSUME NEW j \in 1..Len(mailbox'), NEW k \in 1..Len(mailbox'), mailbox'[j] = mailbox'[k]
      PROVE  j = k
  <2>1. \A i \in 1..Len(mailbox) : mailbox[i] # r
    BY DEF Jobs
  <2> QED BY <1>2, <1>3, <1>5, <2>1 DEF SentOnce
<1> QED BY <1>4, <1>5

(***************************************************************************)
(* Receiving a job takes a request out of the mailbox for good.            *)
(***************************************************************************)
LEMMA MailboxTail ==
  ASSUME TypeOK, SentOnce, mailbox # <<>>, mailbox' = Tail(mailbox)
  PROVE  /\ Head(mailbox) \in Requests
         /\ Jobs = Jobs' \cup {Head(mailbox)}
         /\ Head(mailbox) \notin Jobs'
         /\ \A j, k \in 1..Len(mailbox') : mailbox'[j] = mailbox'[k] => j = k
         /\ mailbox' \in Seq(Requests) /\ Len(mailbox') <= MailboxCapacity
<1> USE LocalPoolAssumption
<1>1. mailbox \in Seq(Requests) /\ Len(mailbox) \in Nat /\ Len(mailbox) >= 1
      /\ Len(mailbox) <= MailboxCapacity
  BY DEF TypeOK
<1>2. /\ Len(mailbox') = Len(mailbox) - 1
      /\ \A k \in 1..Len(mailbox') : mailbox'[k] = mailbox[k + 1]
      /\ Head(mailbox) = mailbox[1]
      /\ mailbox' \in Seq(Requests)
  BY <1>1
<1>3. Head(mailbox) \in Requests /\ Len(mailbox') <= MailboxCapacity
  BY <1>1, <1>2
<1>4. \A k \in 1..Len(mailbox') : k + 1 \in 1..Len(mailbox) /\ k + 1 # 1
  BY <1>1, <1>2
<1>5. \A k \in 1..Len(mailbox) : k = 1 \/ (k - 1 \in 1..Len(mailbox') /\ (k - 1) + 1 = k)
  BY <1>1, <1>2
<1>6. Jobs = Jobs' \cup {Head(mailbox)}
  <2>1. Jobs \subseteq Jobs' \cup {Head(mailbox)}
    <3> SUFFICES ASSUME NEW k \in 1..Len(mailbox), mailbox[k] # Head(mailbox)
                 PROVE  mailbox[k] \in Jobs'
      BY DEF Jobs
    <3>1. k - 1 \in 1..Len(mailbox') /\ mailbox'[k - 1] = mailbox[k]
      BY <1>2, <1>5
    <3> QED BY <3>1 DEF Jobs
  <2>2. Jobs' \subseteq Jobs
    BY <1>2, <1>4 DEF Jobs
  <2>3. Head(mailbox) \in Jobs
    BY <1>1, <1>2 DEF Jobs
  <2> QED BY <2>1, <2>2, <2>3
<1>7. \A k \in 1..Len(mailbox') : mailbox'[k] # Head(mailbox)
  <2> SUFFICES ASSUME NEW k \in 1..Len(mailbox'), mailbox[k + 1] = mailbox[1] PROVE FALSE
    BY <1>2
  <2>1. k + 1 \in 1..Len(mailbox) /\ 1 \in 1..Len(mailbox) /\ k + 1 # 1
    BY <1>1, <1>4
  <2> QED BY <2>1 DEF SentOnce
<1>8. ASSUME NEW j \in 1..Len(mailbox'), NEW k \in 1..Len(mailbox'), mailbox'[j] = mailbox'[k]
      PROVE  j = k
  <2>1. j + 1 = k + 1
    BY <1>2, <1>4, <1>8 DEF SentOnce
  <2> QED BY <2>1
<1> QED BY <1>2, <1>3, <1>6, <1>7, <1>8 DEF Jobs

-----------------------------------------------------------------------------
(***************************************************************************)
(* FailCallers touches only callers that wait.                             *)
(***************************************************************************)
LEMMA FailedCallers ==
  ASSUME TypeOK, NEW S, FailCallers(S)
  PROVE  /\ caller' \in [Requests -> {"idle", "sending", "waiting", "replied", "answered",
                                      "failed", "cancelled"}]
         /\ \A r \in Requests : caller'[r] = "waiting" => caller[r] = "waiting" /\ r \notin S
         /\ \A r \in Requests : caller'[r] \in {"idle", "sending"} => caller'[r] = caller[r]
BY DEF TypeOK, FailCallers

(***************************************************************************)
(* The initial state satisfies the inductive invariant.                    *)
(***************************************************************************)
LEMMA InitIInv == Init => IInv
<1> SUFFICES ASSUME Init PROVE IInv
  OBVIOUS
<1> USE DEF Init
<1>1. TypeOK
  <2>1. mailbox \in Seq(Requests) /\ Len(mailbox) <= MailboxCapacity
    BY LocalPoolAssumption
  <2>2. health \in WorkerHealth
    BY DEF WorkerHealth, fresh
  <2>3. condemned \in BOOLEAN
    BY DEF Fires
  <2> QED BY <2>1, <2>2, <2>3 DEF TypeOK
<1>2. Jobs = {} /\ served = {}
  BY DEF Jobs
<1>3. IsFiniteSet(served) /\ Cardinality(served) = 0
  BY FS_EmptySet
<1>4. SentOnce
  BY <1>2, <1>3 DEF SentOnce
<1>5. HealthIsCurrent
  BY <1>3 DEF HealthIsCurrent, fresh
<1>6. NoOrphan /\ Handshake /\ Condemnation
  BY DEF NoOrphan, Handshake, Condemnation
<1> QED BY <1>1, <1>4, <1>5, <1>6 DEF IInv

(***************************************************************************)
(* Steps that move one caller and leave the worker alone.                  *)
(***************************************************************************)
LEMMA CallerIInv ==
  ASSUME IInv, NEW r \in Requests, Dispatch(r) \/ Abandon(r) \/ Resume(r)
  PROVE  IInv'
<1> USE DEF Dispatch, Abandon, Resume
<1>1. UNCHANGED <<mailbox, isolateVars, recycler, rebuild, ack, dropped>>
  BY DEF recycleVars
<1>2. TypeOK'
  <2>1. caller' \in [Requests -> {"idle", "sending", "waiting", "replied", "answered", "failed",
                                  "cancelled"}]
    BY DEF IInv, TypeOK
  <2>2. recycle_notify' \in BOOLEAN
    BY DEF IInv, TypeOK, recycleVars
  <2> QED BY <1>1, <2>1, <2>2 DEF IInv, TypeOK, isolateVars
<1>3. Jobs' = Jobs
  BY <1>1 DEF Jobs
<1>4. /\ \A q \in Requests : caller'[q] = "waiting" => caller[q] = "waiting"
      /\ \A q \in Requests : caller'[q] \in {"idle", "sending"} => caller[q] \in {"idle", "sending"}
  BY DEF IInv, TypeOK
<1>5. SentOnce'
  BY <1>1, <1>3, <1>4 DEF IInv, SentOnce, isolateVars
<1>6. NoOrphan'
  BY <1>1, <1>3, <1>4 DEF IInv, NoOrphan, isolateVars
<1>7. HealthIsCurrent' /\ Handshake' /\ Condemnation'
  BY <1>1 DEF IInv, HealthIsCurrent, Handshake, Condemnation, Fires, isolateVars
<1> QED BY <1>2, <1>5, <1>6, <1>7 DEF IInv

(***************************************************************************)
(* LocalIsolateWorker::dispatch sends its job.                             *)
(***************************************************************************)
LEMMA SendIInv ==
  ASSUME IInv, NEW r \in Requests, Send(r)
  PROVE  IInv'
<1>1. UNCHANGED <<isolateVars, recycleVars, dropped>> /\ caller[r] = "sending" /\ TypeOK /\ SentOnce
  BY DEF Send, IInv
<1>2. HealthIsCurrent' /\ Handshake' /\ Condemnation'
  BY <1>1 DEF IInv, HealthIsCurrent, Handshake, Condemnation, Fires, isolateVars, recycleVars
<1>3. CASE supervisor = "gone"
  <2>1. mailbox' = mailbox /\ caller' = [caller EXCEPT ![r] = "failed"]
    BY <1>3 DEF Send
  <2>2. Jobs' = Jobs
    BY <2>1 DEF Jobs
  <2>3. TypeOK'
    BY <1>1, <2>1 DEF TypeOK, isolateVars, recycleVars
  <2>4. SentOnce' /\ NoOrphan'
    BY <1>1, <2>1, <2>2 DEF IInv, TypeOK, SentOnce, NoOrphan, isolateVars
  <2> QED BY <1>2, <2>3, <2>4 DEF IInv
<1>4. CASE supervisor # "gone"
  <2>1. /\ mailbox' = Append(mailbox, r) /\ Len(mailbox) < MailboxCapacity
        /\ caller' = [caller EXCEPT ![r] = "waiting"]
    BY <1>4 DEF Send
  <2>2. r \notin Jobs \cup served
    BY <1>1 DEF SentOnce
  <2>3. /\ Jobs' = Jobs \cup {r}
        /\ \A j, k \in 1..Len(mailbox') : mailbox'[j] = mailbox'[k] => j = k
    BY <1>1, <2>1, <2>2, MailboxAppend
  <2>4. TypeOK'
    <3>1. mailbox' \in Seq(Requests) /\ Len(mailbox') <= MailboxCapacity
      BY <1>1, <2>1, LocalPoolAssumption DEF TypeOK
    <3> QED BY <1>1, <2>1, <3>1 DEF TypeOK, isolateVars, recycleVars
  <2>5. SentOnce'
    BY <1>1, <2>1, <2>2, <2>3 DEF TypeOK, SentOnce, isolateVars
  <2>6. NoOrphan'
    BY <1>1, <2>1, <2>3 DEF IInv, TypeOK, NoOrphan, isolateVars
  <2> QED BY <1>2, <2>4, <2>5, <2>6 DEF IInv
<1> QED BY <1>3, <1>4

(***************************************************************************)
(* Steps of the pool's owner and of the recycler.                          *)
(***************************************************************************)
LEMMA RecyclerIInv ==
  ASSUME IInv, DropPool \/ AbortRecycler \/ RecyclerWake \/ RecyclerAck
  PROVE  IInv'
<1> USE DEF DropPool, AbortRecycler, RecyclerWake, RecyclerAck
<1>1. UNCHANGED <<callVars, isolateVars>>
  OBVIOUS
<1>2. TypeOK'
  <2>1. /\ recycler' \in {"parked", "waiting", "aborted"} /\ recycle_notify' \in BOOLEAN
        /\ rebuild' \in BOOLEAN /\ ack' \in {"none", "ok", "err"} /\ dropped' \in BOOLEAN
    <3>1. CASE DropPool
      BY <3>1 DEF IInv, TypeOK, recycleVars
    <3>2. CASE AbortRecycler
      BY <3>2 DEF IInv, TypeOK
    <3>3. CASE RecyclerWake
      BY <3>3 DEF IInv, TypeOK
    <3>4. CASE RecyclerAck
      BY <3>4 DEF IInv, TypeOK
    <3> QED BY <3>1, <3>2, <3>3, <3>4
  <2> QED BY <1>1, <2>1 DEF IInv, TypeOK, callVars, isolateVars
<1>3. Jobs' = Jobs
  BY <1>1 DEF Jobs, callVars
<1>4. SentOnce' /\ NoOrphan' /\ HealthIsCurrent'
  BY <1>1, <1>3 DEF IInv, SentOnce, NoOrphan, HealthIsCurrent, callVars, isolateVars
<1>5. Handshake'
  <2>1. CASE DropPool
    BY <2>1 DEF IInv, Handshake, isolateVars, recycleVars
  <2>2. CASE AbortRecycler
    BY <2>2 DEF IInv, Handshake, isolateVars
  <2>3. CASE RecyclerWake
    <3>1. /\ recycler = "parked" /\ ack' = ack /\ supervisor' = supervisor
          /\ rebuild' => rebuild \/ recycler' = "waiting"
      BY <2>3, Zenon DEF isolateVars
    <3> QED BY <3>1 DEF IInv, Handshake
  <2>4. CASE RecyclerAck
    BY <2>4 DEF IInv, Handshake, isolateVars
  <2> QED BY <2>1, <2>2, <2>3, <2>4
<1>6. Condemnation'
  <2>1. rebuild' => rebuild \/ Fires(health)
    BY Zenon DEF Fires, recycleVars
  <2> QED BY <1>1, <2>1 DEF IInv, Condemnation, Fires, isolateVars
<1> QED BY <1>2, <1>4, <1>5, <1>6 DEF IInv

-----------------------------------------------------------------------------
(***************************************************************************)
(* Steps of the supervisor.                                                *)
(***************************************************************************)
LEMMA RegisterIInv ==
  ASSUME IInv, NEW used \in HeapSizes, RegisterJob(used)
  PROVE  IInv'
<1> DEFINE r == Head(mailbox)
           h == [used |-> used, limit |-> HeapLimit, requests_handled |-> handled + 1]
<1>1. /\ supervisor = "driving" /\ ~ rebuild /\ mailbox # <<>>
      /\ mailbox' = Tail(mailbox) /\ running' = running \cup {r} /\ served' = served \cup {r}
      /\ handled' = handled + 1 /\ health' = h
      /\ condemned' = (condemned \/ Fires(health'))
      /\ UNCHANGED <<caller, supervisor, recycleVars, dropped>>
  BY DEF RegisterJob
<1>2. TypeOK /\ SentOnce
  BY DEF IInv
<1>3. /\ r \in Requests /\ Jobs = Jobs' \cup {r} /\ r \notin Jobs'
      /\ \A j, k \in 1..Len(mailbox') : mailbox'[j] = mailbox'[k] => j = k
      /\ mailbox' \in Seq(Requests) /\ Len(mailbox') <= MailboxCapacity
  BY <1>1, <1>2, MailboxTail
<1>4. r \notin served
  BY <1>2, <1>3 DEF SentOnce
<1>5. IsFiniteSet(served') /\ Cardinality(served') = Cardinality(served) + 1
  BY <1>1, <1>2, <1>4, FS_AddElement DEF SentOnce
<1>6. TypeOK'
  <2>1. h \in WorkerHealth
    BY <1>2, PolicyAssumption DEF TypeOK, WorkerHealth
  <2>2. condemned' \in BOOLEAN
    BY <1>1
  <2> QED BY <1>1, <1>2, <1>3, <2>1, <2>2 DEF TypeOK, recycleVars
<1>7. SentOnce'
  BY <1>1, <1>2, <1>3, <1>5 DEF SentOnce
<1>8. HealthIsCurrent'
  BY <1>1, <1>5 DEF IInv, HealthIsCurrent
<1>9. NoOrphan'
  BY <1>1, <1>3 DEF IInv, NoOrphan
<1>10. Handshake'
  BY <1>1 DEF IInv, Handshake, recycleVars
<1>11. Condemnation'
  <2>1. Fires(health') => condemned'
    BY <1>1, Zenon
  <2>2. Fires(health)' <=> Fires(health')
    BY DEF Fires
  <2>3. ~ rebuild'
    BY <1>1 DEF recycleVars
  <2> QED BY <2>1, <2>2, <2>3 DEF Condemnation
<1> QED BY <1>6, <1>7, <1>8, <1>9, <1>10, <1>11 DEF IInv

(***************************************************************************)
(* register_job refuses a malformed request.                               *)
(***************************************************************************)
LEMMA RefuseIInv ==
  ASSUME IInv, RefuseJob
  PROVE  IInv'
<1>1. /\ mailbox # <<>> /\ mailbox' = Tail(mailbox) /\ FailCallers({Head(mailbox)})
      /\ UNCHANGED <<isolateVars, recycleVars, dropped>>
  BY DEF RefuseJob
<1>2. TypeOK /\ SentOnce
  BY DEF IInv
<1>3. /\ Jobs = Jobs' \cup {Head(mailbox)}
      /\ \A j, k \in 1..Len(mailbox') : mailbox'[j] = mailbox'[k] => j = k
      /\ mailbox' \in Seq(Requests) /\ Len(mailbox') <= MailboxCapacity
  BY <1>1, <1>2, MailboxTail
<1>4. /\ caller' \in [Requests -> {"idle", "sending", "waiting", "replied", "answered",
                                   "failed", "cancelled"}]
      /\ \A q \in Requests : caller'[q] = "waiting" => caller[q] = "waiting" /\ q # Head(mailbox)
      /\ \A q \in Requests : caller'[q] \in {"idle", "sending"} => caller'[q] = caller[q]
  BY <1>1, <1>2, FailedCallers
<1>5. TypeOK'
  BY <1>1, <1>2, <1>3, <1>4 DEF TypeOK, isolateVars, recycleVars
<1>6. SentOnce'
  BY <1>1, <1>2, <1>3, <1>4 DEF SentOnce, isolateVars
<1>7. NoOrphan'
  BY <1>1, <1>3, <1>4 DEF IInv, NoOrphan, isolateVars
<1>8. HealthIsCurrent' /\ Handshake' /\ Condemnation'
  BY <1>1 DEF IInv, HealthIsCurrent, Handshake, Condemnation, Fires, isolateVars, recycleVars
<1> QED BY <1>5, <1>6, <1>7, <1>8 DEF IInv

(***************************************************************************)
(* The isolate settles a request, with a response or an error.             *)
(***************************************************************************)
LEMMA SettleIInv ==
  ASSUME IInv, NEW r \in Requests, Reply(r) \/ ReplyError(r)
  PROVE  IInv'
<1>1. /\ supervisor = "driving" /\ running' = running \ {r}
      /\ UNCHANGED <<mailbox, supervisor, handled, health, served, condemned, recycleVars, dropped>>
  BY DEF Reply, ReplyError
<1>2. /\ caller' \in [Requests -> {"idle", "sending", "waiting", "replied", "answered",
                                   "failed", "cancelled"}]
      /\ \A q \in Requests : caller'[q] = "waiting" => caller[q] = "waiting" /\ q # r
      /\ \A q \in Requests : caller'[q] \in {"idle", "sending"} => caller'[q] = caller[q]
  <2>1. CASE Reply(r)
    BY <2>1 DEF Reply, IInv, TypeOK
  <2>2. CASE ReplyError(r)
    BY <2>2, FailedCallers DEF ReplyError, IInv
  <2> QED BY <2>1, <2>2
<1>3. Jobs' = Jobs
  BY <1>1 DEF Jobs
<1>4. TypeOK'
  BY <1>1, <1>2 DEF IInv, TypeOK, recycleVars
<1>5. SentOnce'
  BY <1>1, <1>2, <1>3 DEF IInv, SentOnce
<1>6. NoOrphan'
  BY <1>1, <1>2, <1>3 DEF IInv, NoOrphan
<1>7. HealthIsCurrent' /\ Handshake' /\ Condemnation'
  BY <1>1 DEF IInv, HealthIsCurrent, Handshake, Condemnation, Fires, recycleVars
<1> QED BY <1>4, <1>5, <1>6, <1>7 DEF IInv

(***************************************************************************)
(* The supervisor takes a rebuild request and drops its isolate.           *)
(***************************************************************************)
LEMMA BeginRebuildIInv ==
  ASSUME IInv, BeginRebuild
  PROVE  IInv'
<1>1. /\ supervisor = "driving" /\ rebuild /\ rebuild' = FALSE /\ FailCallers(running)
      /\ running' = {} /\ supervisor' = "booting"
      /\ UNCHANGED <<mailbox, handled, health, served, condemned, recycle_notify, recycler, ack,
                     dropped>>
  BY DEF BeginRebuild
<1>2. /\ caller' \in [Requests -> {"idle", "sending", "waiting", "replied", "answered",
                                   "failed", "cancelled"}]
      /\ \A q \in Requests : caller'[q] = "waiting" => caller[q] = "waiting" /\ q \notin running
      /\ \A q \in Requests : caller'[q] \in {"idle", "sending"} => caller'[q] = caller[q]
  BY <1>1, FailedCallers DEF IInv
<1>3. Jobs' = Jobs
  BY <1>1 DEF Jobs
<1>4. TypeOK'
  BY <1>1, <1>2 DEF IInv, TypeOK
<1>5. SentOnce'
  BY <1>1, <1>2, <1>3 DEF IInv, SentOnce
<1>6. NoOrphan'
  BY <1>1, <1>2, <1>3 DEF IInv, NoOrphan
<1>7. Handshake'
  BY <1>1 DEF IInv, Handshake
<1>8. HealthIsCurrent' /\ Condemnation'
  BY <1>1 DEF HealthIsCurrent, Condemnation
<1> QED BY <1>4, <1>5, <1>6, <1>7, <1>8 DEF IInv

(***************************************************************************)
(* The next isolate has booted.                                            *)
(***************************************************************************)
LEMMA BootOkIInv ==
  ASSUME IInv, BootOk
  PROVE  IInv'
<1>1. /\ supervisor = "booting" /\ supervisor' = "driving" /\ health' = fresh /\ handled' = 0
      /\ served' = {} /\ condemned' = Fires(fresh) /\ ack' = "ok"
      /\ UNCHANGED <<callVars, running, recycle_notify, recycler, rebuild, dropped>>
  BY DEF BootOk
<1>2. Jobs' = Jobs
  BY <1>1 DEF Jobs, callVars
<1>3. IsFiniteSet(served') /\ Cardinality(served') = 0
  BY <1>1, FS_EmptySet
<1>4. TypeOK'
  <2>1. health' \in WorkerHealth
    BY <1>1 DEF WorkerHealth, fresh
  <2>2. condemned' \in BOOLEAN
    BY <1>1 DEF Fires
  <2> QED BY <1>1, <2>1, <2>2 DEF IInv, TypeOK, callVars
<1>5. SentOnce'
  BY <1>1, <1>2, <1>3 DEF IInv, SentOnce, callVars
<1>6. HealthIsCurrent'
  BY <1>1, <1>3 DEF HealthIsCurrent, fresh
<1>7. NoOrphan'
  BY <1>1, <1>2 DEF IInv, NoOrphan, callVars
<1>8. Handshake'
  BY <1>1 DEF IInv, Handshake
<1>9. Condemnation'
  <2>1. Fires(health)' => condemned'
    BY <1>1 DEF Fires
  <2> QED BY <1>1, <2>1 DEF IInv, Handshake, Condemnation
<1> QED BY <1>4, <1>5, <1>6, <1>7, <1>8, <1>9 DEF IInv

(***************************************************************************)
(* The supervisor ends, after a failed boot or because its handles are     *)
(* gone.                                                                   *)
(***************************************************************************)
LEMMA EndIInv ==
  ASSUME IInv, BootFailed \/ ChannelClosed
  PROVE  IInv'
<1>1. /\ supervisor' = "gone" /\ mailbox' = <<>> /\ running' = {}
      /\ FailCallers(running \cup Jobs)
      /\ UNCHANGED <<handled, health, served, condemned, recycle_notify, recycler, rebuild, dropped>>
  <2>1. CASE BootFailed
    <3>1. running = {} /\ running' = running
      BY <2>1 DEF BootFailed, IInv, Handshake
    <3>2. running \cup Jobs = Jobs
      BY <3>1
    <3> QED BY <2>1, <3>1, <3>2 DEF BootFailed
  <2>2. CASE ChannelClosed
    BY <2>2 DEF ChannelClosed, recycleVars
  <2> QED BY <2>1, <2>2
<1>2. /\ caller' \in [Requests -> {"idle", "sending", "waiting", "replied", "answered",
                                   "failed", "cancelled"}]
      /\ \A q \in Requests :
           caller'[q] = "waiting" => caller[q] = "waiting" /\ q \notin running \cup Jobs
      /\ \A q \in Requests : caller'[q] \in {"idle", "sending"} => caller'[q] = caller[q]
  BY <1>1, FailedCallers DEF IInv
<1>3. Jobs' = {}
  BY <1>1 DEF Jobs
<1>4. TypeOK'
  <2>1. mailbox' \in Seq(Requests) /\ Len(mailbox') <= MailboxCapacity
    BY <1>1, LocalPoolAssumption
  <2>2. ack' \in {"none", "ok", "err"}
    BY DEF BootFailed, ChannelClosed, recycleVars, IInv, TypeOK
  <2> QED BY <1>1, <1>2, <2>1, <2>2 DEF IInv, TypeOK
<1>5. SentOnce'
  BY <1>1, <1>2, <1>3 DEF IInv, SentOnce
<1>6. NoOrphan'
  BY <1>2 DEF IInv, NoOrphan
<1>7. Handshake'
  BY <1>1 DEF BootFailed, ChannelClosed, recycleVars, IInv, Handshake
<1>8. HealthIsCurrent' /\ Condemnation'
  BY <1>1 DEF HealthIsCurrent, Condemnation
<1> QED BY <1>4, <1>5, <1>6, <1>7, <1>8 DEF IInv

-----------------------------------------------------------------------------
(***************************************************************************)
(* A stuttering step preserves the inductive invariant.                    *)
(***************************************************************************)
LEMMA StutterIInv == IInv /\ UNCHANGED vars => IInv'
<1> SUFFICES ASSUME IInv, UNCHANGED vars PROVE IInv'
  OBVIOUS
<1> USE DEF vars, callVars, isolateVars, recycleVars
<1>1. Jobs' = Jobs
  BY DEF Jobs
<1>2. TypeOK' /\ HealthIsCurrent' /\ Handshake' /\ Condemnation'
  BY DEF IInv, TypeOK, HealthIsCurrent, Handshake, Condemnation, Fires
<1>3. SentOnce' /\ NoOrphan'
  BY <1>1 DEF IInv, SentOnce, NoOrphan
<1> QED BY <1>2, <1>3 DEF IInv

(***************************************************************************)
(* Every step preserves the inductive invariant.                           *)
(***************************************************************************)
LEMMA NextIInv == IInv /\ [Next]_vars => IInv'
<1> SUFFICES ASSUME IInv, [Next]_vars PROVE IInv'
  OBVIOUS
<1>1. ASSUME NEW r \in Requests, Dispatch(r) \/ Abandon(r) \/ Resume(r) PROVE IInv'
  BY <1>1, CallerIInv
<1>2. ASSUME NEW r \in Requests, Send(r) PROVE IInv'
  BY <1>2, SendIInv
<1>3. ASSUME NEW r \in Requests, Settle(r) PROVE IInv'
  BY <1>3, SettleIInv DEF Settle
<1>4. CASE DropPool \/ AbortRecycler \/ RecyclerWake \/ RecyclerAck
  BY <1>4, RecyclerIInv
<1>5. CASE Supervisor
  <2>1. ASSUME NEW used \in HeapSizes, RegisterJob(used) PROVE IInv'
    BY <2>1, RegisterIInv
  <2> QED BY <1>5, <2>1, RefuseIInv, BeginRebuildIInv, BootOkIInv, EndIInv DEF Supervisor, Register
<1>6. CASE UNCHANGED vars
  BY <1>6, StutterIInv
<1> QED BY <1>1, <1>2, <1>3, <1>4, <1>5, <1>6 DEF Next

(***************************************************************************)
(* The inductive invariant of the local pool.                              *)
(***************************************************************************)
THEOREM Invariance == Spec => []IInv
<1>1. Init => IInv
  BY InitIInv
<1>2. IInv /\ [Next]_vars => IInv'
  BY NextIInv
<1> QED BY <1>1, <1>2, PTL DEF Spec

(***************************************************************************)
(* The pool is type correct, and its mailbox within its capacity.          *)
(***************************************************************************)
THEOREM TypeCorrect == Spec => []TypeOK
<1>1. IInv => TypeOK
  BY DEF IInv
<1> QED BY <1>1, Invariance, PTL

(***************************************************************************)
(* The health snapshot describes the isolate that is running: it counts    *)
(* exactly the jobs registered since the last rebuild (run_local_worker).  *)
(***************************************************************************)
THEOREM HealthCurrent == Spec => []HealthIsCurrent
<1>1. IInv => HealthIsCurrent
  BY DEF IInv
<1> QED BY <1>1, Invariance, PTL

(***************************************************************************)
(* Rebuilds and failed rebuilds leave nobody waiting for a reply that no   *)
(* one can send.                                                           *)
(***************************************************************************)
THEOREM NobodyOrphaned == Spec => []NoOrphan
<1>1. IInv => NoOrphan
  BY DEF IInv
<1> QED BY <1>1, Invariance, PTL

(***************************************************************************)
(* run_recycler's second look at the health suffices: an isolate is torn   *)
(* down only if the policy fired on that very isolate.                     *)
(***************************************************************************)
THEOREM RebuildsEarned == Spec => RebuildIsEarned
<1>1. IInv /\ [Next]_vars => [supervisor = "driving" /\ supervisor' = "booting" => condemned]_vars
  <2> SUFFICES ASSUME IInv, Next, supervisor = "driving", supervisor' = "booting"
               PROVE  condemned
    OBVIOUS
  <2>1. BeginRebuild
    BY DEF Next, Dispatch, Send, Abandon, Resume, Settle, Reply, ReplyError, DropPool,
           AbortRecycler, Supervisor, Register, RegisterJob, RefuseJob, BootOk, BootFailed,
           ChannelClosed, RecyclerWake, RecyclerAck, isolateVars
  <2> QED BY <2>1 DEF BeginRebuild, IInv, Condemnation
<1> QED BY <1>1, Invariance, PTL DEF Spec, RebuildIsEarned

-----------------------------------------------------------------------------
(***************************************************************************)
(* The pool implements the safety part of RequestLifecycle.  A step that   *)
(* fails a set of callers is one step of the abstract specification.       *)
(***************************************************************************)
LEMMA FailRefines ==
  ASSUME TypeOK, NEW S, FailCallers(S)
  PROVE  Lifecycle!Next
<1> DEFINE W == {r \in Requests : r \in S /\ caller[r] = "waiting"}
<1>1. \A r \in W : CallerView[r] = "waiting"
  BY DEF CallerView, Waiting
<1>2. CallerView' = [r \in Requests |-> IF r \in W THEN "failed" ELSE CallerView[r]]
  BY DEF FailCallers, CallerView, Waiting
<1>3. Lifecycle!Fail(W)
  BY <1>1, <1>2 DEF Lifecycle!Fail
<1> QED BY <1>3 DEF Lifecycle!Next

(***************************************************************************)
(* Steps that submit, cancel or answer a request do so in the abstract.    *)
(***************************************************************************)
LEMMA CallerRefines ==
  ASSUME TypeOK, NEW r \in Requests, Dispatch(r) \/ Abandon(r) \/ Resume(r)
  PROVE  Lifecycle!Next
<1>1. CASE Dispatch(r)
  <2>1. CallerView[r] = "idle" /\ CallerView' = [CallerView EXCEPT ![r] = "waiting"]
    BY <1>1 DEF Dispatch, CallerView, Waiting, TypeOK
  <2> QED BY <2>1 DEF Lifecycle!Next, Lifecycle!Submit
<1>2. CASE Abandon(r)
  <2>1. CallerView[r] = "waiting" /\ CallerView' = [CallerView EXCEPT ![r] = "cancelled"]
    BY <1>2 DEF Abandon, CallerView, Waiting, TypeOK
  <2> QED BY <2>1 DEF Lifecycle!Next, Lifecycle!Cancel
<1>3. CASE Resume(r)
  <2>1. CallerView[r] = "waiting" /\ CallerView' = [CallerView EXCEPT ![r] = "answered"]
    BY <1>3 DEF Resume, CallerView, Waiting, TypeOK
  <2> QED BY <2>1 DEF Lifecycle!Next, Lifecycle!Answer
<1> QED BY <1>1, <1>2, <1>3

(***************************************************************************)
(* Sending is invisible, or fails the request when the supervisor has      *)
(* gone.                                                                   *)
(***************************************************************************)
LEMMA SendRefines ==
  ASSUME TypeOK, NEW r \in Requests, Send(r)
  PROVE  [Lifecycle!Next]_CallerView
<1>1. CASE supervisor = "gone"
  <2>1. caller[r] = "sending" /\ caller' = [caller EXCEPT ![r] = "failed"]
    BY <1>1 DEF Send
  <2>2. /\ \A q \in {r} : CallerView[q] = "waiting"
        /\ CallerView' = [q \in Requests |-> IF q \in {r} THEN "failed" ELSE CallerView[q]]
    BY <2>1 DEF CallerView, Waiting, TypeOK
  <2>3. Lifecycle!Fail({r})
    BY <2>2 DEF Lifecycle!Fail
  <2> QED BY <2>3 DEF Lifecycle!Next
<1>2. CASE supervisor # "gone"
  <2>1. caller[r] = "sending" /\ caller' = [caller EXCEPT ![r] = "waiting"]
    BY <1>2 DEF Send
  <2> QED BY <2>1 DEF CallerView, Waiting, TypeOK
<1> QED BY <1>1, <1>2

(***************************************************************************)
(* Every step of the pool is an abstract step or leaves the view alone.    *)
(***************************************************************************)
LEMMA NextRefines ==
  ASSUME TypeOK, [Next]_vars
  PROVE  [Lifecycle!Next]_CallerView
<1>1. ASSUME caller' = caller PROVE CallerView' = CallerView
  BY <1>1 DEF CallerView, Waiting
<1>2. ASSUME NEW r \in Requests, Settle(r) PROVE [Lifecycle!Next]_CallerView
  <2>1. CASE Reply(r)
    <3>1. CallerView' = CallerView
      BY <2>1 DEF Reply, CallerView, Waiting, TypeOK
    <3> QED BY <3>1
  <2>2. CASE ReplyError(r)
    BY <2>2, FailRefines DEF ReplyError
  <2> QED BY <1>2, <2>1, <2>2 DEF Settle
<1>3. CASE RefuseJob \/ BeginRebuild \/ BootFailed \/ ChannelClosed
  BY <1>3, FailRefines DEF RefuseJob, BeginRebuild, BootFailed, ChannelClosed
<1>4. CASE Register \/ BootOk \/ DropPool \/ AbortRecycler \/ RecyclerWake \/ RecyclerAck
           \/ UNCHANGED vars
  <2>1. caller' = caller
    BY <1>4 DEF Register, RegisterJob, BootOk, DropPool, AbortRecycler, RecyclerWake, RecyclerAck,
                vars, callVars
  <2> QED BY <1>1, <2>1
<1> QED BY <1>2, <1>3, <1>4, CallerRefines, SendRefines DEF Next, Supervisor

(***************************************************************************)
(* Every dispatch through the pool is settled at most once and its verdict *)
(* never changes, across rebuilds, failed rebuilds and the pool's drop.    *)
(* That it is settled eventually stays with TLC (ImplementsLifecycle).     *)
(***************************************************************************)
THEOREM SafelyImplements == Spec => Lifecycle!SafeSpec
<1>1. Init => Lifecycle!Init
  BY DEF Init, Lifecycle!Init, CallerView, Waiting
<1>2. TypeOK /\ [Next]_vars => [Lifecycle!Next]_CallerView
  BY NextRefines
<1> QED BY <1>1, <1>2, TypeCorrect, PTL DEF Spec, Lifecycle!SafeSpec
=============================================================================
