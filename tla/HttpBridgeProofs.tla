-------------------------- MODULE HttpBridgeProofs --------------------------
(***************************************************************************)
(* Proofs about the three layers of a response for any set of requests and *)
(* servers and any number of calls.  What a handler does to its response   *)
(* is a composition of functions on records; each of them keeps the record *)
(* sound, with the number of chunks taken over as a parameter.             *)
(***************************************************************************)
EXTENDS HttpBridge, TLAPS

(***************************************************************************)
(* A record whose layers agree, after w chunks have been taken over.  It   *)
(* is kept by every function below, whether the call throws or not.        *)
(***************************************************************************)
Fields ==
  [live : BOOLEAN, head : BOOLEAN, chunks : Nat,
   reply : {"none", "ok", "handler"}, delivered : Nat,
   pending : {"none", "valid", "invalid"}, headSent : BOOLEAN, ended : BOOLEAN,
   asked : BOOLEAN,
   n_headersSent : BOOLEAN, n_ended : BOOLEAN, n_destroyed : BOOLEAN, threw : BOOLEAN]

Sound(x, w) ==
  /\ x \in Fields
  /\ x.chunks = w
  /\ x.live => x.headSent = x.head
  /\ x.ended => x.reply = "ok"
  /\ x.n_ended /\ ~ x.n_destroyed => x.ended
  /\ x.live <=> x.reply = "none"
  /\ x.delivered = IF x.reply = "ok" THEN w ELSE 0

(***************************************************************************)
(* The host ops and the synthetic response.                                *)
(***************************************************************************)
LEMMA ThrowSound ==
  ASSUME NEW x, NEW w, Sound(x, w)
  PROVE  Sound(Throw(x), w) /\ Throw(x).threw /\ Sound(Caught(x), w) /\ ~ Caught(x).threw
BY DEF Sound, Throw, Caught, Fields

LEMMA SendHeadSound ==
  ASSUME NEW x, NEW w, Sound(x, w), ~ x.headSent, ~ x.threw
  PROVE  LET y == op_send_head(x)
             z == [y EXCEPT !.headSent = TRUE]
         IN  /\ y.threw => Sound(y, w)
             /\ ~ y.threw => Sound(z, w)
<1> DEFINE y == op_send_head(x)
           z == [y EXCEPT !.headSent = TRUE]
<1>1. CASE ~ x.live \/ x.head \/ x.pending = "invalid"
  <2>1. y = Throw(x)
    BY <1>1 DEF op_send_head
  <2> QED BY <2>1, ThrowSound
<1>2. CASE ~ (~ x.live \/ x.head \/ x.pending = "invalid")
  <2>1. y = [x EXCEPT !.head = TRUE]
    BY <1>2 DEF op_send_head
  <2> QED BY <1>2, <2>1 DEF Sound, Fields
<1> QED BY <1>1, <1>2

LEMMA DefaultedSound ==
  ASSUME NEW x, NEW w, Sound(x, w)
  PROVE  Sound(Defaulted(x), w) /\ Defaulted(x).headSent = x.headSent
         /\ Defaulted(x).ended = x.ended /\ Defaulted(x).threw = x.threw
BY DEF Defaulted, Sound, Fields

LEMMA FlushHeadSound ==
  ASSUME NEW x, NEW w, Sound(x, w), ~ x.threw
  PROVE  Sound(flushHead(x), w)
<1>1. CASE x.headSent \/ x.pending = "none"
  BY <1>1 DEF flushHead
<1>2. CASE ~ (x.headSent \/ x.pending = "none")
  BY <1>2, SendHeadSound DEF flushHead, Then
<1> QED BY <1>1, <1>2

LEMMA SendChunkSound ==
  ASSUME NEW w \in Nat, NEW x, Sound(x, w), ~ x.threw
  PROVE  LET y == op_send_chunk(x)
         IN  /\ y.threw => Sound(y, w)
             /\ ~ y.threw => Sound(y, w + 1) /\ y.live /\ y.head
BY ThrowSound DEF op_send_chunk, Sound, Fields

LEMMA SendEndSound ==
  ASSUME NEW x, NEW w, Sound(x, w), ~ x.threw
  PROVE  LET y == op_send_end(x)
             z == [y EXCEPT !.headSent = TRUE, !.ended = TRUE]
         IN  /\ y.threw => Sound(y, w)
             /\ ~ y.threw => Sound(z, w)
             /\ x.live /\ x.head => ~ y.threw
<1> DEFINE y == op_send_end(x)
           z == [y EXCEPT !.headSent = TRUE, !.ended = TRUE]
<1>1. CASE ~ x.live \/ ~ x.head
  <2>1. y = Throw(x)
    BY <1>1 DEF op_send_end
  <2> QED BY <1>1, <2>1, ThrowSound
<1>2. CASE ~ (~ x.live \/ ~ x.head)
  <2>1. y = [x EXCEPT !.live = FALSE, !.reply = "ok", !.delivered = x.chunks]
    BY <1>2 DEF op_send_end
  <2> QED BY <1>2, <2>1 DEF Sound, Fields
<1> QED BY <1>1, <1>2

LEMMA FinishErrorSound ==
  ASSUME NEW x, NEW w, Sound(x, w), ~ x.threw
  PROVE  Sound(op_finish_error(x), w) /\ ~ op_finish_error(x).threw
BY DEF op_finish_error, Sound, Fields

LEMMA SynthWriteHeadSound ==
  ASSUME NEW x, NEW w, Sound(x, w), ~ x.threw, NEW status \in {"valid", "invalid"}
  PROVE  Sound(synth_writeHead(x, status), w)
<1>1. Sound([x EXCEPT !.pending = status], w)
  BY DEF Sound, Fields
<1> QED BY <1>1, ThrowSound DEF synth_writeHead

(***************************************************************************)
(* A write counts exactly when it returns.                                 *)
(***************************************************************************)
LEMMA SynthWriteSound ==
  ASSUME NEW w \in Nat, NEW x, Sound(x, w), ~ x.threw
  PROVE  LET y == synth_write(x)
         IN  /\ y.threw => Sound(y, w)
             /\ ~ y.threw => Sound(y, w + 1) /\ y.live /\ y.head
<1> DEFINE d == Defaulted(x)
           f == flushHead(d)
<1>1. CASE x.ended
  BY <1>1, ThrowSound DEF synth_write
<1>2. CASE ~ x.ended
  <2>1. synth_write(x) = IF f.threw THEN f ELSE op_send_chunk(f)
    BY <1>2 DEF synth_write, Then
  <2>2. Sound(d, w) /\ ~ d.threw
    BY DefaultedSound
  <2> HIDE DEF d
  <2>3. Sound(f, w)
    BY <2>2, FlushHeadSound
  <2> HIDE DEF f
  <2> QED BY <2>1, <2>3, SendChunkSound
<1> QED BY <1>1, <1>2

(***************************************************************************)
(* end() either throws, and changes nothing that counts, or has answered;  *)
(* with the head sent to a live slot it answers.                           *)
(***************************************************************************)
LEMMA SynthEndSound ==
  ASSUME NEW w, NEW x, Sound(x, w), ~ x.threw
  PROVE  LET y == synth_end(x)
         IN  /\ Sound(y, w)
             /\ ~ y.threw => y.ended
             /\ x.live /\ x.head => ~ y.threw
             /\ y.n_destroyed = x.n_destroyed
<1> DEFINE d == [Defaulted(x) EXCEPT !.asked = TRUE]
           done(y) == [y EXCEPT !.headSent = TRUE, !.ended = TRUE]
<1>1. CASE x.ended
  BY <1>1 DEF synth_end
<1>2. CASE ~ x.ended
  <2>1. Sound(d, w) /\ ~ d.threw /\ d.headSent = x.headSent
        /\ d.live = x.live /\ d.head = x.head /\ d.n_destroyed = x.n_destroyed
    BY DEF Defaulted, Sound, Fields
  <2>2. synth_end(x) = IF ~ d.headSent THEN Then(op_send_response(d, FastPathHead), done)
                       ELSE Then(Then(flushHead(d), op_send_end), done)
    BY <1>2 DEF synth_end
  <2> HIDE DEF d
  <2>3. CASE ~ d.headSent
    <3>1. op_send_response(d, FastPathHead) = Throw(d)
      BY DEF op_send_response, parse_head, FastPathHead
    <3>2. synth_end(x) = Throw(d) /\ Throw(d).threw /\ Sound(Throw(d), w)
      BY <2>1, <2>2, <2>3, <3>1, ThrowSound DEF Then
    <3>4. Throw(d).n_destroyed = x.n_destroyed
      BY <2>1 DEF Throw, Sound, Fields
    <3>3. ~ (x.live /\ x.head)
      BY <2>1, <2>3 DEF Sound
    <3> QED BY <3>2, <3>3, <3>4
  <2>4. CASE d.headSent
    <3> DEFINE e == op_send_end(d)
    <3>1. flushHead(d) = d
      BY <2>4 DEF flushHead
    <3>2. synth_end(x) = IF e.threw THEN e ELSE done(e)
      BY <2>1, <2>2, <2>4, <3>1 DEF Then
    <3>3. /\ e.threw => Sound(e, w)
          /\ ~ e.threw => Sound(done(e), w)
          /\ d.live /\ d.head => ~ e.threw
      BY <2>1, SendEndSound
    <3>5. e \in Fields /\ e.n_destroyed = x.n_destroyed
      BY <2>1 DEF op_send_end, Throw, Sound, Fields
    <3> HIDE DEF e
    <3>4. /\ ~ e.threw => done(e).ended /\ ~ done(e).threw
          /\ done(e).n_destroyed = x.n_destroyed
      BY <3>5 DEF Fields
    <3> HIDE DEF done
    <3> QED BY <2>1, <3>2, <3>3, <3>4, <3>5
  <2> QED BY <2>3, <2>4
<1> QED BY <1>1, <1>2

-----------------------------------------------------------------------------
(***************************************************************************)
(* ServerResponse.                                                         *)
(***************************************************************************)
LEMMA SendHeadNodeSound ==
  ASSUME NEW x, NEW w, Sound(x, w), ~ x.threw, NEW status \in {"valid", "invalid"}
  PROVE  Sound(sendHead(x, status), w)
<1> DEFINE y == synth_writeHead(x, status)
<1>1. Sound(y, w)
  BY SynthWriteHeadSound
<1>2. sendHead(x, status) = IF y.threw THEN y ELSE [y EXCEPT !.n_headersSent = TRUE]
  BY DEF sendHead, Then
<1> HIDE DEF y
<1>3. Sound([y EXCEPT !.n_headersSent = TRUE], w)
  BY <1>1 DEF Sound, Fields
<1> QED BY <1>1, <1>2, <1>3

LEMMA NodeWriteHeadSound ==
  ASSUME NEW x, NEW w, Sound(x, w), ~ x.threw, NEW status \in {"valid", "invalid"}
  PROVE  Sound(node_writeHead(x, status), w)
BY ThrowSound, SendHeadNodeSound DEF node_writeHead

LEMMA HeadedSound ==
  ASSUME NEW x, NEW w, Sound(x, w), ~ x.threw
  PROVE  Sound(Headed(x), w)
BY SendHeadNodeSound DEF Headed

LEMMA NodeWriteSound ==
  ASSUME NEW w \in Nat, NEW x, Sound(x, w), ~ x.threw
  PROVE  LET y == node_write(x)
         IN  (y.threw => Sound(y, w)) /\ (~ y.threw => Sound(y, w + 1) /\ y.live)
<1> DEFINE h == Headed(x)
<1>1. CASE x.n_ended
  BY <1>1, ThrowSound DEF node_write
<1>2. CASE ~ x.n_ended
  <2>1. node_write(x) = IF h.threw THEN h ELSE synth_write(h)
    BY <1>2 DEF node_write, Then
  <2>2. Sound(h, w)
    BY HeadedSound
  <2> HIDE DEF h
  <2> QED BY <2>1, <2>2, SynthWriteSound
<1> QED BY <1>1, <1>2

(***************************************************************************)
(* A chunk given to end() is taken over exactly when end() returns: once   *)
(* it has been written, the end that follows cannot throw.                 *)
(***************************************************************************)
LEMMA NodeEndSound ==
  ASSUME NEW w \in Nat, NEW x, Sound(x, w), ~ x.threw, NEW chunk \in BOOLEAN
  PROVE  LET y == node_end(x, chunk)
             n == IF chunk /\ ~ x.n_ended THEN w + 1 ELSE w
         IN  /\ Sound(y, IF y.threw THEN w ELSE n)
             /\ ~ y.threw /\ n # w => y.reply = "ok"
<1> DEFINE h == Headed(x)
           written(y) == IF chunk THEN synth_write(y) ELSE y
           ended(y) == [y EXCEPT !.n_ended = TRUE]
           u == Then(h, written)
           v == Then(u, synth_end)
<1>1. CASE x.n_ended
  BY <1>1 DEF node_end
<1>2. CASE ~ x.n_ended
  <2>1. node_end(x, chunk) = Then(v, ended)
    BY <1>2 DEF node_end
  <2>2. Sound(h, w)
    BY HeadedSound
  <2> HIDE DEF h
  <2>3. /\ u.threw => Sound(u, w)
        /\ ~ u.threw => Sound(u, IF chunk THEN w + 1 ELSE w)
        /\ ~ u.threw /\ chunk => u.live /\ u.head
    BY <2>2, SynthWriteSound DEF Then
  <2> HIDE DEF u
  <2>4. /\ v.threw => Sound(v, w)
        /\ ~ v.threw => Sound(v, IF chunk THEN w + 1 ELSE w) /\ v.ended
    <3>1. CASE u.threw
      BY <2>3, <3>1 DEF Then
    <3>2. CASE ~ u.threw
      <4>1. v = synth_end(u)
        BY <3>2 DEF Then
      <4> HIDE DEF v
      <4> QED BY <2>3, <3>2, <4>1, SynthEndSound
    <3> QED BY <3>1, <3>2
  <2> HIDE DEF v
  <2>5. ASSUME ~ v.threw
        PROVE  Sound(ended(v), IF chunk THEN w + 1 ELSE w) /\ ~ ended(v).threw
               /\ ended(v).reply = "ok"
    BY <2>4, <2>5 DEF Sound, Fields
  <2>6. node_end(x, chunk) = IF v.threw THEN v ELSE ended(v)
    BY <2>1 DEF Then
  <2> HIDE DEF ended
  <2> QED BY <1>2, <2>4, <2>5, <2>6
<1> QED BY <1>1, <1>2

LEMMA NodeDestroySound ==
  ASSUME NEW w, NEW x, Sound(x, w), ~ x.threw
  PROVE  Sound(node_destroy(x), w) /\ ~ node_destroy(x).threw
<1> DEFINE d == [x EXCEPT !.n_destroyed = TRUE]
           e == Caught(synth_end(d))
<1>1. CASE x.n_destroyed
  BY <1>1 DEF node_destroy
<1>2. CASE ~ x.n_destroyed
  <2>1. Sound(d, w) /\ ~ d.threw /\ d.n_destroyed
    BY DEF Sound, Fields
  <2>2. node_destroy(x) = [e EXCEPT !.n_ended = TRUE]
    BY <1>2 DEF node_destroy
  <2> HIDE DEF d
  <2>3. Sound(synth_end(d), w) /\ synth_end(d).n_destroyed
    BY <2>1, SynthEndSound
  <2>4. Sound(e, w) /\ ~ e.threw
    BY <2>3, ThrowSound
  <2>5. e.n_destroyed
    BY <2>3 DEF Caught, Sound, Fields
  <2> HIDE DEF e
  <2> QED BY <2>2, <2>4, <2>5 DEF Sound, Fields
<1> QED BY <1>1, <1>2

-----------------------------------------------------------------------------
(***************************************************************************)
(* The inductive invariant: between calls every record is sound for the    *)
(* chunks whose write returned, and no exception is pending; a handler has *)
(* written no more chunks than it has made calls.                          *)
(***************************************************************************)
BridgeInv ==
  /\ phase \in [Requests -> {"queued", "running", "resolved", "rejected", "rethrown",
                             "failed", "over"}]
  /\ calls \in [Requests -> 0..MaxCalls] /\ wrote \in [Requests -> 0..MaxCalls]
  /\ stack \in Seq(Servers)
  /\ bridge \in [Requests -> Fields]
  /\ \A r \in Requests :
       /\ Sound(bridge[r], wrote[r]) /\ ~ bridge[r].threw
       /\ wrote[r] <= calls[r]

LEMMA InitBridgeInv == Init => BridgeInv
<1> SUFFICES ASSUME Init PROVE BridgeInv
  OBVIOUS
<1>1. Fresh \in Fields /\ Sound(Fresh, 0) /\ ~ Fresh.threw
  BY DEF Fresh, Fields, Sound
<1>2. stack \in Seq(Servers)
  BY DEF Init
<1> QED BY <1>1, <1>2, BridgeAssumption DEF Init, BridgeInv

(***************************************************************************)
(* A call of a handler, and a change of one record that is not a call.     *)
(***************************************************************************)
LEMMA CallBridgeInv ==
  ASSUME BridgeInv, NEW r \in Requests, NEW x, NEW n \in {0, 1}, Call(r, x, n),
         Sound(x, IF x.threw THEN wrote[r] ELSE wrote[r] + n)
  PROVE  BridgeInv'
<1> USE BridgeAssumption
<1>1. /\ bridge' = [bridge EXCEPT ![r] = Caught(x)]
      /\ calls' = [calls EXCEPT ![r] = @ + 1] /\ calls[r] < MaxCalls
      /\ wrote' = [wrote EXCEPT ![r] = IF x.threw THEN @ ELSE @ + n]
      /\ phase' = phase /\ stack' = stack
  BY DEF Call
<1> DEFINE w == IF x.threw THEN wrote[r] ELSE wrote[r] + n
<1>2. Sound(Caught(x), w) /\ ~ Caught(x).threw
  BY ThrowSound
<1>3. calls[r] \in Nat /\ wrote[r] \in Nat /\ wrote[r] <= calls[r]
  BY DEF BridgeInv
<1>4. w \in 0..MaxCalls /\ w <= calls[r] + 1 /\ calls[r] + 1 \in 0..MaxCalls
  BY <1>1, <1>3
<1>5. wrote' = [wrote EXCEPT ![r] = w]
  BY <1>1 DEF BridgeInv
<1> DEFINE c == Caught(x)
<1>6. c \in Fields
  BY <1>2 DEF Sound
<1> HIDE DEF w, c
<1>7. /\ bridge' \in [Requests -> Fields]
      /\ calls' \in [Requests -> 0..MaxCalls] /\ wrote' \in [Requests -> 0..MaxCalls]
  BY <1>1, <1>4, <1>5, <1>6 DEF BridgeInv, c
<1>8. ASSUME NEW q \in Requests
      PROVE  Sound(bridge'[q], wrote'[q]) /\ ~ bridge'[q].threw /\ wrote'[q] <= calls'[q]
  <2>1. CASE q = r
    <3>1. bridge'[q] = c /\ wrote'[q] = w /\ calls'[q] = calls[r] + 1
      BY <1>1, <1>5, <2>1 DEF BridgeInv, c
    <3> QED BY <1>2, <1>4, <3>1 DEF c
  <2>2. CASE q # r
    <3>1. bridge'[q] = bridge[q] /\ wrote'[q] = wrote[q] /\ calls'[q] = calls[q]
      BY <1>1, <1>5, <2>2 DEF BridgeInv
    <3> QED BY <3>1 DEF BridgeInv
  <2> QED BY <2>1, <2>2
<1> QED BY <1>1, <1>7, <1>8 DEF BridgeInv

LEMMA ChangeBridgeInv ==
  ASSUME BridgeInv, NEW r \in Requests, NEW x, bridge' = [bridge EXCEPT ![r] = x],
         Sound(x, wrote[r]), ~ x.threw,
         phase' \in [Requests -> {"queued", "running", "resolved", "rejected", "rethrown",
                                  "failed", "over"}],
         UNCHANGED <<calls, wrote, stack>>
  PROVE  BridgeInv'
<1>1. x \in Fields
  BY DEF Sound
<1>2. bridge' \in [Requests -> Fields]
  BY <1>1 DEF BridgeInv
<1>3. ASSUME NEW q \in Requests
      PROVE  Sound(bridge'[q], wrote'[q]) /\ ~ bridge'[q].threw /\ wrote'[q] <= calls'[q]
  <2>1. CASE q = r
    BY <2>1 DEF BridgeInv
  <2>2. CASE q # r
    BY <2>2 DEF BridgeInv
  <2> QED BY <2>1, <2>2
<1> QED BY <1>2, <1>3 DEF BridgeInv

LEMMA NextBridgeInv == BridgeInv /\ [Next]_vars => BridgeInv'
<1> SUFFICES ASSUME BridgeInv, [Next]_vars PROVE BridgeInv'
  OBVIOUS
<1>1. ASSUME NEW r \in Requests
      PROVE  /\ wrote[r] \in Nat /\ Sound(bridge[r], wrote[r]) /\ ~ bridge[r].threw
  BY DEF BridgeInv
<1>2. ASSUME NEW s \in Servers, Listen(s) \/ Close(s) PROVE BridgeInv'
  <2>1. stack \in Seq(Servers)
    BY DEF BridgeInv
  <2>2. stack' \in Seq(Servers)
    <3>1. CASE stack' = Append(stack, s)
      BY <2>1, <3>1
    <3>2. ASSUME NEW k \in 1..Len(stack),
                 stack' = SubSeq(stack, 1, k - 1) \o SubSeq(stack, k + 1, Len(stack))
          PROVE  stack' \in Seq(Servers)
      <4>1. SubSeq(stack, 1, k - 1) \in Seq(Servers)
            /\ SubSeq(stack, k + 1, Len(stack)) \in Seq(Servers)
        BY <2>1
      <4> QED BY <3>2, <4>1
    <3> QED BY <1>2, <3>1, <3>2 DEF Listen, Close
  <2> QED BY <1>2, <2>2 DEF Listen, Close, BridgeInv
<1>3. ASSUME NEW r \in Requests, Dispatch(r) PROVE BridgeInv'
  <2>1. CASE stack = <<>>
    <3>1. Sound(op_finish_error(bridge[r]), wrote[r]) /\ ~ op_finish_error(bridge[r]).threw
      BY <1>1, FinishErrorSound
    <3>2. bridge' = [bridge EXCEPT ![r] = op_finish_error(bridge[r])]
          /\ phase' = [phase EXCEPT ![r] = "over"] /\ UNCHANGED <<calls, wrote, stack>>
      BY <1>3, <2>1 DEF Dispatch
    <3> QED BY <3>1, <3>2, ChangeBridgeInv DEF BridgeInv
  <2>2. CASE stack # <<>>
    BY <1>3, <2>2 DEF Dispatch, BridgeInv
  <2> QED BY <2>1, <2>2
<1>4. ASSUME NEW r \in Requests, WriteHead(r) PROVE BridgeInv'
  <2>1. PICK status \in {"valid", "invalid"} : Call(r, node_writeHead(bridge[r], status), 0)
    BY <1>4 DEF WriteHead
  <2>2. Sound(node_writeHead(bridge[r], status), wrote[r])
    BY <1>1, NodeWriteHeadSound
  <2> QED BY <1>1, <2>1, <2>2, CallBridgeInv
<1>5. ASSUME NEW r \in Requests, Write(r) PROVE BridgeInv'
  <2> DEFINE y == node_write(bridge[r])
  <2>1. Call(r, y, 1)
    BY <1>5 DEF Write
  <2>2. Sound(y, IF y.threw THEN wrote[r] ELSE wrote[r] + 1)
    BY <1>1, NodeWriteSound
  <2> HIDE DEF y
  <2> QED BY <2>1, <2>2, CallBridgeInv
<1>6. ASSUME NEW r \in Requests, End(r) PROVE BridgeInv'
  <2>1. PICK chunk \in BOOLEAN :
          Call(r, node_end(bridge[r], chunk), IF chunk /\ ~ bridge[r].n_ended THEN 1 ELSE 0)
    BY <1>6 DEF End
  <2> DEFINE y == node_end(bridge[r], chunk)
             n == IF chunk /\ ~ bridge[r].n_ended THEN 1 ELSE 0
  <2>2. Sound(y, IF y.threw THEN wrote[r]
                 ELSE IF chunk /\ ~ bridge[r].n_ended THEN wrote[r] + 1 ELSE wrote[r])
    BY <1>1, NodeEndSound
  <2>3. Call(r, y, n)
    BY <2>1
  <2>4. n \in {0, 1} /\ (IF chunk /\ ~ bridge[r].n_ended THEN wrote[r] + 1 ELSE wrote[r])
                          = wrote[r] + n
    BY <1>1
  <2> HIDE DEF y, n
  <2> QED BY <2>2, <2>3, <2>4, CallBridgeInv
<1>7. ASSUME NEW r \in Requests, Destroy(r) PROVE BridgeInv'
  <2>1. Call(r, node_destroy(bridge[r]), 0)
    BY <1>7 DEF Destroy
  <2>2. Sound(node_destroy(bridge[r]), wrote[r])
    BY <1>1, NodeDestroySound
  <2> QED BY <1>1, <2>1, <2>2, CallBridgeInv
<1>8. ASSUME NEW r \in Requests, Return(r) PROVE BridgeInv'
  BY <1>8 DEF Return, BridgeInv
<1>9. ASSUME NEW r \in Requests, OnResolved(r) \/ OnRejected(r) PROVE BridgeInv'
  <2> DEFINE y == Caught(synth_end(bridge[r]))
  <2>1. Sound(y, wrote[r]) /\ ~ y.threw
    BY <1>1, SynthEndSound, ThrowSound
  <2>2. /\ bridge' = [bridge EXCEPT ![r] = y] /\ UNCHANGED <<calls, wrote, stack>>
        /\ \E p \in {"over", "rethrown"} : phase' = [phase EXCEPT ![r] = p]
    BY <1>9 DEF OnResolved, OnRejected, EndIfOpen
  <2>3. phase' \in [Requests -> {"queued", "running", "resolved", "rejected", "rethrown",
                                 "failed", "over"}]
    BY <2>2 DEF BridgeInv
  <2> HIDE DEF y
  <2> QED BY <2>1, <2>2, <2>3, ChangeBridgeInv
<1>10. ASSUME NEW r \in Requests, FinalizeError(r) PROVE BridgeInv'
  <2> DEFINE y == op_finish_error(bridge[r])
  <2>1. Sound(y, wrote[r]) /\ ~ y.threw
    BY <1>1, FinishErrorSound
  <2>2. /\ bridge' = [bridge EXCEPT ![r] = y] /\ UNCHANGED <<calls, wrote, stack>>
        /\ phase' = [phase EXCEPT ![r] = "failed"]
    BY <1>10 DEF FinalizeError
  <2> HIDE DEF y
  <2> QED BY <2>1, <2>2, ChangeBridgeInv DEF BridgeInv
<1>11. CASE UNCHANGED vars
  BY <1>11 DEF vars, BridgeInv
<1> QED BY <1>2, <1>3, <1>4, <1>5, <1>6, <1>7, <1>8, <1>9, <1>10, <1>11 DEF Next

-----------------------------------------------------------------------------
(***************************************************************************)
(* The reachable states satisfy the inductive invariant.                   *)
(***************************************************************************)
THEOREM Invariance == Spec => []BridgeInv
<1> QED BY InitBridgeInv, NextBridgeInv, PTL DEF Spec

(***************************************************************************)
(* The three layers keep their types, and no call of a handler leaves an   *)
(* exception behind in the response.                                       *)
(***************************************************************************)
THEOREM TypeCorrect == Spec => []TypeOK
<1>1. BridgeInv => TypeOK
  <2> SUFFICES ASSUME BridgeInv PROVE TypeOK
    OBVIOUS
  <2>1. ASSUME NEW r \in Requests PROVE bridge[r] \in Record
    <3>1. bridge[r] \in Fields /\ wrote[r] \in 0..MaxCalls
          /\ bridge[r].chunks = wrote[r]
          /\ bridge[r].delivered \in {0, wrote[r]}
      BY DEF BridgeInv, Sound
    <3>2. bridge[r].chunks \in 0..MaxCalls /\ bridge[r].delivered \in 0..MaxCalls
      BY <3>1, BridgeAssumption
    <3> QED BY <3>1, <3>2 DEF Fields, Record
  <2> QED BY <2>1 DEF BridgeInv, TypeOK
<1> QED BY <1>1, Invariance, PTL

(***************************************************************************)
(* http_bridge.js and http.js agree with the host on what has been sent    *)
(* and ended, whichever of writeHead, write, end and destroy threw.        *)
(***************************************************************************)
THEOREM LayersAgree == Spec => []ViewsAgree
<1>1. BridgeInv => ViewsAgree
  BY DEF BridgeInv, Sound, ViewsAgree
<1> QED BY <1>1, Invariance, PTL

(***************************************************************************)
(* A response delivered as a success holds every chunk whose write         *)
(* returned, for any number of calls a handler makes.                      *)
(***************************************************************************)
THEOREM NoByteLost == Spec => []AnswerIsWhole
<1>1. BridgeInv => AnswerIsWhole
  BY DEF BridgeInv, Sound, AnswerIsWhole
<1> QED BY <1>1, Invariance, PTL
=============================================================================
