----------------------------- MODULE HttpBridge -----------------------------
(***************************************************************************)
(* How a JavaScript handler answers a request: node:http's ServerResponse  *)
(* (runtime/polyfills/node/http.js) over the synthetic response and the    *)
(* dispatch loop of runtime/polyfills/http_bridge.js, over the host ops of *)
(* src/engine/v8_engine/ops_bridge.rs.                                     *)
(*                                                                         *)
(* Each request has a record x of the three layers' state: the slot's      *)
(* response (live, head, chunks, reply), the synthetic response (pending,  *)
(* headSent, ended, and whether its end() was ever called: asked), the     *)
(* ServerResponse (n_headersSent, n_ended, n_destroyed) and whether the    *)
(* call just made threw.  A JavaScript call is synchronous, so it is one    *)
(* function from records to records; `Then' sequences the calls inside it  *)
(* and stops at the first exception.  Ids are not modelled: DispatchTable  *)
(* shows that an id reaches its own slot.                                  *)
(***************************************************************************)
EXTENDS Integers, Sequences

CONSTANTS
  Requests,
  Servers,   \* node:http servers that may listen
  MaxCalls   \* bound: calls a handler makes on its response

ASSUME BridgeAssumption == MaxCalls \in Nat

VARIABLES
  bridge,  \* the record of each request
  phase,   \* where __dispatch is for each request
  calls,   \* calls each handler has made
  wrote,   \* history: chunks whose write returned normally
  stack    \* the handler stack, oldest first

vars == <<bridge, phase, calls, wrote, stack>>

Record ==
  [live : BOOLEAN, head : BOOLEAN, chunks : 0..MaxCalls,
   reply : {"none", "ok", "handler"}, delivered : 0..MaxCalls,
   pending : {"none", "valid", "invalid"}, headSent : BOOLEAN, ended : BOOLEAN,
   asked : BOOLEAN,
   n_headersSent : BOOLEAN, n_ended : BOOLEAN, n_destroyed : BOOLEAN, threw : BOOLEAN]

Fresh ==
  [live |-> TRUE, head |-> FALSE, chunks |-> 0, reply |-> "none", delivered |-> 0,
   pending |-> "none", headSent |-> FALSE, ended |-> FALSE, asked |-> FALSE,
   n_headersSent |-> FALSE, n_ended |-> FALSE, n_destroyed |-> FALSE, threw |-> FALSE]

Throw(x) == [x EXCEPT !.threw = TRUE]

Then(x, Op(_)) == IF x.threw THEN x ELSE Op(x)

Caught(x) == [x EXCEPT !.threw = FALSE]

-----------------------------------------------------------------------------
(***************************************************************************)
(* The host ops.  parse_head accepts an object with status and headers.    *)
(***************************************************************************)
parse_head(argument) == argument = "object"

op_send_head(x) ==
  IF ~ x.live \/ x.head \/ x.pending = "invalid" THEN Throw(x) ELSE [x EXCEPT !.head = TRUE]

op_send_chunk(x) ==
  IF ~ x.live \/ ~ x.head THEN Throw(x) ELSE [x EXCEPT !.chunks = @ + 1]

op_send_end(x) ==
  IF ~ x.live \/ ~ x.head THEN Throw(x)
  ELSE [x EXCEPT !.live = FALSE, !.reply = "ok", !.delivered = x.chunks]

op_send_response(x, argument) ==
  IF parse_head(argument) THEN Then(op_send_head(x), op_send_end) ELSE Throw(x)

op_finish_error(x) ==
  IF x.live THEN [x EXCEPT !.live = FALSE, !.reply = "handler"] ELSE x

(***************************************************************************)
(* The synthetic response of buildResponse.  Nothing ever queues a chunk   *)
(* there.  end() takes the fast path when the head has not been sent and   *)
(* passes the status itself where the op expects the head.                 *)
(***************************************************************************)
Defaulted(x) == [x EXCEPT !.pending = IF @ = "none" THEN "valid" ELSE @]

flushHead(x) ==
  LET sent(y) == [y EXCEPT !.headSent = TRUE]
  IN  IF x.headSent \/ x.pending = "none" THEN x ELSE Then(op_send_head(x), sent)

synth_writeHead(x, status) ==
  IF x.ended \/ x.headSent THEN Throw(x) ELSE [x EXCEPT !.pending = status]

synth_write(x) ==
  IF x.ended THEN Throw(x) ELSE Then(flushHead(Defaulted(x)), op_send_chunk)

FastPathHead == "number"

EndedBeforeOp(x) ==
  IF x.ended THEN x
  ELSE LET y == [Defaulted(x) EXCEPT !.ended = TRUE, !.asked = TRUE]
       IN  IF ~ y.headSent THEN op_send_response(y, FastPathHead) ELSE op_send_end(y)

synth_end(x) ==
  LET done(y) == [y EXCEPT !.headSent = TRUE, !.ended = TRUE]
      y == [Defaulted(x) EXCEPT !.asked = TRUE]
  IN  IF x.ended THEN x
      ELSE IF ~ y.headSent THEN Then(op_send_response(y, FastPathHead), done)
      ELSE Then(Then(flushHead(y), op_send_end), done)

(***************************************************************************)
(* ServerResponse.  A write or end with an empty chunk writes nothing.     *)
(***************************************************************************)
sendHead(x, status) ==
  LET sent(y) == [y EXCEPT !.n_headersSent = TRUE]
  IN  Then(synth_writeHead(x, status), sent)

Headed(x) == IF x.n_headersSent THEN x ELSE sendHead(x, "valid")

node_writeHead(x, status) == IF x.n_headersSent THEN Throw(x) ELSE sendHead(x, status)

WriteSwallowing(x) == IF x.n_ended THEN Throw(x) ELSE Caught(Then(Headed(x), synth_write))

node_write(x) == IF x.n_ended THEN Throw(x) ELSE Then(Headed(x), synth_write)

node_end(x, chunk) ==
  LET ended(y) == [y EXCEPT !.n_ended = TRUE]
      written(y) == IF chunk THEN synth_write(y) ELSE y
  IN  IF x.n_ended THEN x
      ELSE Then(Then(Then(Headed(x), written), synth_end), ended)

node_destroy(x) ==
  IF x.n_destroyed THEN x
  ELSE [Caught(synth_end([x EXCEPT !.n_destroyed = TRUE])) EXCEPT !.n_ended = TRUE]

-----------------------------------------------------------------------------
Init ==
  /\ bridge = [r \in Requests |-> Fresh]
  /\ phase = [r \in Requests |-> "queued"]
  /\ calls = [r \in Requests |-> 0]
  /\ wrote = [r \in Requests |-> 0]
  /\ stack = <<>>

(***************************************************************************)
(* Server.listen pushes a handler; Server.close removes it wherever it is. *)
(***************************************************************************)
Listen(s) ==
  /\ \A k \in 1..Len(stack) : stack[k] # s
  /\ stack' = Append(stack, s)
  /\ UNCHANGED <<bridge, phase, calls, wrote>>

Close(s) ==
  /\ \E k \in 1..Len(stack) :
       /\ stack[k] = s
       /\ stack' = SubSeq(stack, 1, k - 1) \o SubSeq(stack, k + 1, Len(stack))
  /\ UNCHANGED <<bridge, phase, calls, wrote>>

(***************************************************************************)
(* __dispatch calls the handler on top of the stack; without one it throws *)
(* and dispatchOne turns the exception into finish_error.                  *)
(***************************************************************************)
Dispatch(r) ==
  /\ phase[r] = "queued"
  /\ IF stack = <<>>
     THEN /\ bridge' = [bridge EXCEPT ![r] = op_finish_error(@)]
          /\ phase' = [phase EXCEPT ![r] = "over"]
     ELSE phase' = [phase EXCEPT ![r] = "running"] /\ UNCHANGED bridge
  /\ UNCHANGED <<calls, wrote, stack>>

(***************************************************************************)
(* A call the handler makes on its response, from its own promise or from  *)
(* a callback that outlives it.  x is the record after the call, chunks    *)
(* the number of chunks the call takes over if it returns.                 *)
(***************************************************************************)
Call(r, x, chunks) ==
  /\ phase[r] # "queued"
  /\ calls[r] < MaxCalls
  /\ calls' = [calls EXCEPT ![r] = @ + 1]
  /\ bridge' = [bridge EXCEPT ![r] = Caught(x)]
  /\ wrote' = [wrote EXCEPT ![r] = IF x.threw THEN @ ELSE @ + chunks]
  /\ UNCHANGED <<phase, stack>>

WriteHead(r) ==
  \E status \in {"valid", "invalid"} : Call(r, node_writeHead(bridge[r], status), 0)

Write(r) == Call(r, node_write(bridge[r]), 1)

End(r) ==
  \E chunk \in BOOLEAN :
    Call(r, node_end(bridge[r], chunk), IF chunk /\ ~ bridge[r].n_ended THEN 1 ELSE 0)

Destroy(r) == Call(r, node_destroy(bridge[r]), 0)

(***************************************************************************)
(* The adapter's promise settles; the reactions __dispatch attached to it  *)
(* end the response if nobody has, and swallow what end() throws; a        *)
(* rejection then reaches __finalizeError in a later microtask.            *)
(***************************************************************************)
Return(r) ==
  /\ phase[r] = "running"
  /\ \E next \in {"resolved", "rejected"} : phase' = [phase EXCEPT ![r] = next]
  /\ UNCHANGED <<bridge, calls, wrote, stack>>

EndIfOpen(r) == bridge' = [bridge EXCEPT ![r] = Caught(synth_end(@))]

OnResolved(r) ==
  /\ phase[r] = "resolved"
  /\ EndIfOpen(r)
  /\ phase' = [phase EXCEPT ![r] = "over"]
  /\ UNCHANGED <<calls, wrote, stack>>

OnRejected(r) ==
  /\ phase[r] = "rejected"
  /\ EndIfOpen(r)
  /\ phase' = [phase EXCEPT ![r] = "rethrown"]
  /\ UNCHANGED <<calls, wrote, stack>>

SwallowRejection(r) ==
  /\ phase[r] = "rethrown"
  /\ phase' = [phase EXCEPT ![r] = "failed"]
  /\ UNCHANGED <<bridge, calls, wrote, stack>>

FinalizeError(r) ==
  /\ phase[r] = "rethrown"
  /\ bridge' = [bridge EXCEPT ![r] = op_finish_error(@)]
  /\ phase' = [phase EXCEPT ![r] = "failed"]
  /\ UNCHANGED <<calls, wrote, stack>>

Next ==
  \/ \E s \in Servers : Listen(s) \/ Close(s)
  \/ \E r \in Requests :
       \/ Dispatch(r) \/ WriteHead(r) \/ Write(r) \/ End(r) \/ Destroy(r)
       \/ Return(r) \/ OnResolved(r) \/ OnRejected(r) \/ FinalizeError(r)

(***************************************************************************)
(* Microtasks run to completion at every checkpoint, the pump's dispatch   *)
(* among them.  Nothing is assumed about handlers.                         *)
(***************************************************************************)
Fairness ==
  \A r \in Requests :
    WF_vars(Dispatch(r)) /\ WF_vars(OnResolved(r)) /\ WF_vars(OnRejected(r))
    /\ WF_vars(FinalizeError(r))

Spec == Init /\ [][Next]_vars /\ Fairness

-----------------------------------------------------------------------------
(***************************************************************************)
(* Types of the three layers.                                              *)
(***************************************************************************)
TypeOK ==
  /\ bridge \in [Requests -> Record]
  /\ phase \in [Requests -> {"queued", "running", "resolved", "rejected", "rethrown",
                             "failed", "over"}]
  /\ calls \in [Requests -> 0..MaxCalls] /\ wrote \in [Requests -> 0..MaxCalls]
  /\ stack \in Seq(Servers)

(***************************************************************************)
(* The JavaScript layers and the host agree: the synthetic response knows  *)
(* whether the host has the head of a live slot, whichever calls threw on  *)
(* the way, and a response either layer considers ended by end() has been  *)
(* delivered.                                                              *)
(***************************************************************************)
ViewsAgree ==
  \A r \in Requests : LET x == bridge[r] IN
    /\ x.live => x.headSent = x.head
    /\ x.ended => x.reply = "ok"
    /\ x.n_ended /\ ~ x.n_destroyed => x.ended
    /\ x.live <=> x.reply = "none"

(***************************************************************************)
(* No accepted byte is lost: a response delivered as a success holds every *)
(* chunk whose write returned normally, however writes, ends, exceptions   *)
(* and the automatic end interleave; later writes throw.  (The chunk of a  *)
(* second end() is not accepted: that call returns at once.)               *)
(***************************************************************************)
AnswerIsWhole ==
  \A r \in Requests : bridge[r].reply = "ok" => bridge[r].delivered = wrote[r]

(***************************************************************************)
(* A handler that throws or rejects never leaves its request hanging.      *)
(***************************************************************************)
RejectionSettles ==
  \A r \in Requests : phase[r] = "rejected" ~> bridge[r].reply # "none"

(***************************************************************************)
(* nexide_bridge.js: rejected handler promises settle the dispatcher's     *)
(* oneshot with the handler-failure variant (unless the handler itself had *)
(* ended the response).                                                    *)
(***************************************************************************)
RejectionFails ==
  [][\A r \in Requests :
       phase[r] = "rejected" /\ phase'[r] = "rethrown" /\ bridge[r].reply = "none"
         => bridge'[r].reply # "ok"]_vars

(***************************************************************************)
(* engine_pump.rs: the handler completes the dispatcher's await via        *)
(* op_nexide_send_response, the op end() uses.                             *)
(***************************************************************************)
EndCompletesDispatch ==
  \A r \in Requests : bridge[r].asked => bridge[r].reply # "none"
=============================================================================
