---------------------------- MODULE DispatchTable ----------------------------
(***************************************************************************)
(* The generational arena of in-flight requests kept by every isolate      *)
(* (src/ops/dispatch_table.rs) together with the host ops that reach it    *)
(* from JavaScript (src/engine/v8_engine/ops_bridge.rs) and the response   *)
(* under construction that each entry carries (src/ops/response.rs).       *)
(*                                                                         *)
(* JavaScript addresses an entry by the pair (index, generation) that the  *)
(* pump handed it and may go on using the pair after the request has been  *)
(* settled: `issued' remembers every pair together with the request it was *)
(* made for, and any of them may be used in an op at any later moment.  A  *)
(* response chunk is abstracted to the request whose handler wrote it.     *)
(* An op that is refused throws and leaves the table alone: it is a        *)
(* stuttering step here.                                                   *)
(***************************************************************************)
EXTENDS Integers, Sequences, FiniteSets

CONSTANTS
  Requests,   \* the HTTP requests offered to the isolate
  NoRequest,  \* owner of a vacant slot
  GenLimit,   \* number of distinct generations, 2^32 in the code
  MaxChunks   \* bound: chunks buffered in one response

ASSUME ConstantsAssumption ==
  /\ NoRequest \notin Requests
  /\ GenLimit \in Nat \ {0}
  /\ MaxChunks \in Nat

VARIABLES
  len,        \* slots.len()
  slots,      \* 0..len-1 -> slot
  free_head,  \* head of the free list, or None
  in_flight,  \* the table's own count of occupied slots
  releases,   \* history: how often each slot has been vacated
  issued,     \* history: ids handed to JavaScript, with their request
  outcome     \* what each request's completion channel has delivered

vars == <<len, slots, free_head, in_flight, releases, issued, outcome>>

None == -1

Index == 0..(len - 1)

Generation == 0..(GenLimit - 1)

RequestId == [index : Nat, generation : Generation, owner : Requests]

(***************************************************************************)
(* Slot::Vacant is a slot without owner; next_free is meaningful there     *)
(* only.  The other fields are the InFlight entry of Slot::Occupied.       *)
(***************************************************************************)
Slot ==
  [generation : Generation, next_free : Nat \cup {None},
   owner : Requests \cup {NoRequest},
   head : BOOLEAN, chunks : Seq(Requests), completion : BOOLEAN]

Result == [kind : {"ok", "handler", "pump_died"}, body : Seq(Requests)]

Occupied == {i \in Index : slots[i].owner # NoRequest}

Vacant == {i \in Index : slots[i].owner = NoRequest}

Inserted == {id.owner : id \in issued}

(***************************************************************************)
(* DispatchTable::slot_mut: an id resolves when its index is in range, the *)
(* slot is occupied and the generation is the slot's own.                  *)
(***************************************************************************)
LiveIgnoringGeneration(id) == id.index < len /\ slots[id.index].owner # NoRequest

Live(id) ==
  /\ id.index < len
  /\ slots[id.index].owner # NoRequest
  /\ slots[id.index].generation = id.generation

-----------------------------------------------------------------------------
Init ==
  /\ len = 0
  /\ slots = <<>>
  /\ free_head = None
  /\ in_flight = 0
  /\ releases = <<>>
  /\ issued = {}
  /\ outcome = [r \in Requests |-> <<>>]

(***************************************************************************)
(* insert: InFlight::new in the slot at the head of the free list, which   *)
(* keeps its pending generation, or in a new slot of generation 0.         *)
(***************************************************************************)
NewEntry(r, g) ==
  [generation |-> g, next_free |-> None, owner |-> r,
   head |-> FALSE, chunks |-> <<>>, completion |-> TRUE]

Reuse(r) ==
  /\ free_head # None
  /\ slots' = [slots EXCEPT ![free_head] = NewEntry(r, @.generation)]
  /\ free_head' = slots[free_head].next_free
  /\ issued' = issued \cup
       {[index |-> free_head, generation |-> slots[free_head].generation, owner |-> r]}
  /\ UNCHANGED <<len, releases>>

Grow(r) ==
  /\ free_head = None
  /\ slots' = [i \in 0..len |-> IF i = len THEN NewEntry(r, 0) ELSE slots[i]]
  /\ releases' = [i \in 0..len |-> IF i = len THEN 0 ELSE releases[i]]
  /\ len' = len + 1
  /\ issued' = issued \cup {[index |-> len, generation |-> 0, owner |-> r]}
  /\ UNCHANGED free_head

InsertUncounted(r) ==
  /\ r \notin Inserted
  /\ Reuse(r) \/ Grow(r)
  /\ in_flight' = IF free_head = None THEN in_flight + 1 ELSE in_flight
  /\ UNCHANGED outcome

Insert(r) ==
  /\ r \notin Inserted
  /\ Reuse(r) \/ Grow(r)
  /\ in_flight' = in_flight + 1
  /\ UNCHANGED outcome

-----------------------------------------------------------------------------
(***************************************************************************)
(* The slot a released entry leaves behind: generation advanced (wrapping) *)
(* and chained in front of `next'.                                         *)
(***************************************************************************)
NextGeneration(g) == (g + 1) % GenLimit

Vacated(s, next) ==
  [generation |-> NextGeneration(s.generation), next_free |-> next,
   owner |-> NoRequest, head |-> FALSE, chunks |-> <<>>, completion |-> FALSE]

(***************************************************************************)
(* What a completion sender delivers: nothing once it has been taken.      *)
(***************************************************************************)
Deliver(s, result) ==
  IF s.completion THEN Append(outcome[s.owner], result) ELSE outcome[s.owner]

(***************************************************************************)
(* Settling an entry (settle_ok, settle_err): take the completion, send    *)
(* the result, remove the slot.                                            *)
(***************************************************************************)
KeepSlot(i, result) ==
  /\ outcome' = [outcome EXCEPT ![slots[i].owner] = Deliver(slots[i], result)]
  /\ slots' = [slots EXCEPT ![i].completion = FALSE]
  /\ UNCHANGED <<len, free_head, in_flight, releases, issued>>

Settle(i, result) ==
  /\ outcome' = [outcome EXCEPT ![slots[i].owner] = Deliver(slots[i], result)]
  /\ slots' = [slots EXCEPT ![i] = Vacated(@, free_head)]
  /\ free_head' = i
  /\ in_flight' = IF in_flight = 0 THEN 0 ELSE in_flight - 1
  /\ releases' = [releases EXCEPT ![i] = @ + 1]
  /\ UNCHANGED <<len, issued>>

-----------------------------------------------------------------------------
(***************************************************************************)
(* The response ops, called with an id JavaScript holds.                   *)
(***************************************************************************)
SendHead(id) ==
  /\ Live(id)
  /\ ~ slots[id.index].head
  /\ slots' = [slots EXCEPT ![id.index].head = TRUE]
  /\ UNCHANGED <<len, free_head, in_flight, releases, issued, outcome>>

SendChunk(id) ==
  /\ Live(id)
  /\ slots[id.index].head
  /\ Len(slots[id.index].chunks) < MaxChunks
  /\ slots' = [slots EXCEPT ![id.index].chunks = Append(@, id.owner)]
  /\ UNCHANGED <<len, free_head, in_flight, releases, issued, outcome>>

SendEnd(id) ==
  /\ Live(id)
  /\ slots[id.index].head
  /\ Settle(id.index, [kind |-> "ok", body |-> slots[id.index].chunks])

SendResponse(id) ==
  /\ Live(id)
  /\ ~ slots[id.index].head
  /\ \E body \in {<<>>, <<id.owner>>} :
       Settle(id.index, [kind |-> "ok", body |-> slots[id.index].chunks \o body])

FinishError(id) ==
  /\ Live(id)
  /\ Settle(id.index, [kind |-> "handler", body |-> <<>>])

(***************************************************************************)
(* fail_all walks the slots in index order and pushes every occupied one   *)
(* on the free list: each points at the occupied slot before it, the first *)
(* at the old head, and the last becomes the new head.                     *)
(***************************************************************************)
Highest(S) == CHOOSE m \in S : \A j \in S : j <= m

OldHead(i) == free_head

PreviousOccupied(i) ==
  LET before == {j \in Occupied : j < i}
  IN  IF before = {} THEN free_head ELSE Highest(before)

PumpDied == [kind |-> "pump_died", body |-> <<>>]

FailAll ==
  /\ slots' = [i \in Index |-> IF i \in Occupied THEN Vacated(slots[i], PreviousOccupied(i))
                               ELSE slots[i]]
  /\ free_head' = IF Occupied = {} THEN free_head ELSE Highest(Occupied)
  /\ in_flight' = 0
  /\ releases' = [i \in Index |-> IF i \in Occupied THEN releases[i] + 1 ELSE releases[i]]
  /\ outcome' = [r \in Requests |->
       IF \E i \in Occupied : slots[i].owner = r
       THEN Deliver(slots[CHOOSE i \in Occupied : slots[i].owner = r], PumpDied)
       ELSE outcome[r]]
  /\ UNCHANGED <<len, issued>>

Next ==
  \/ \E r \in Requests : Insert(r)
  \/ \E id \in issued :
       SendHead(id) \/ SendChunk(id) \/ SendEnd(id) \/ SendResponse(id) \/ FinishError(id)
  \/ FailAll

Spec == Init /\ [][Next]_vars

-----------------------------------------------------------------------------
(***************************************************************************)
(* Types of the arena's fields and of the histories.                       *)
(***************************************************************************)
TypeOK ==
  /\ len \in Nat
  /\ slots \in [Index -> Slot]
  /\ free_head \in Nat \cup {None}
  /\ in_flight \in Nat
  /\ releases \in [Index -> Nat]
  /\ issued \in SUBSET RequestId
  /\ outcome \in [Requests -> Seq(Result)]

(***************************************************************************)
(* No request is lost and none is answered twice: an inserted request      *)
(* either holds exactly one occupied slot whose completion is still        *)
(* pending, or has received exactly one result and holds no slot; a        *)
(* request that was never inserted has neither.                            *)
(***************************************************************************)
HoldsOneSlot(r) ==
  \E i \in Occupied :
    /\ slots[i].owner = r
    /\ slots[i].completion
    /\ \A j \in Occupied : slots[j].owner = r => j = i

HoldsNoSlot(r) == \A i \in Occupied : slots[i].owner # r

Conservation ==
  \A r \in Requests :
    \/ r \notin Inserted /\ outcome[r] = <<>> /\ HoldsNoSlot(r)
    \/ r \in Inserted /\ outcome[r] = <<>> /\ HoldsOneSlot(r)
    \/ r \in Inserted /\ Len(outcome[r]) = 1 /\ HoldsNoSlot(r)

(***************************************************************************)
(* The free list runs through every vacant slot once and through nothing   *)
(* else: insert never meets an occupied slot (the unreachable! arms of     *)
(* advance_free_list and activate_vacant) and no slot leaks.               *)
(***************************************************************************)
FreeListFrom(n) ==
  LET walk[k \in 0..n] ==
        IF k = 0 THEN <<free_head>>
        ELSE LET w == walk[k - 1] IN
             IF w[Len(w)] \in Index THEN Append(w, slots[w[Len(w)]].next_free) ELSE w
  IN  walk[n]

FreeListExact ==
  LET path == FreeListFrom(len) IN
    /\ path[Len(path)] = None
    /\ Len(path) = Cardinality(Vacant) + 1
    /\ {path[k] : k \in 1..(Len(path) - 1)} = Vacant

(***************************************************************************)
(* The telemetry counter equals the number of occupied slots although      *)
(* insert, remove and fail_all maintain it independently.                  *)
(***************************************************************************)
InFlightExact == in_flight = Cardinality(Occupied)

(***************************************************************************)
(* Generations separate requests: until some slot has been released        *)
(* GenLimit times, an id that resolves reaches the request it was issued   *)
(* for, so whatever a late handler does, every body delivered or under     *)
(* construction holds only chunks of its own request.                      *)
(***************************************************************************)
NoWrap == \A i \in Index : releases[i] < GenLimit

OnlyOwn(s, r) == \A k \in 1..Len(s) : s[k] = r

NoCrossTalk ==
  NoWrap =>
    /\ \A id \in issued : Live(id) => slots[id.index].owner = id.owner
    /\ \A i \in Occupied : OnlyOwn(slots[i].chunks, slots[i].owner)
    /\ \A r \in Requests : \A k \in 1..Len(outcome[r]) : OnlyOwn(outcome[r][k].body, r)

(***************************************************************************)
(* The id of a new request differs from every id handed out before, until  *)
(* some slot has been released GenLimit times.                             *)
(***************************************************************************)
FreshIds ==
  [][NoWrap =>
       \A new \in issued' \ issued, old \in issued :
         new.index # old.index \/ new.generation # old.generation]_vars

(***************************************************************************)
(* The completion channels keep the promise of RequestLifecycle, read from *)
(* the last result each has delivered: settle_ok, settle_err and fail_all  *)
(* settle a request once between them, after its insert, and no later op   *)
(* or fail_all revises the verdict.                                        *)
(***************************************************************************)
Verdict(r) ==
  IF r \notin Inserted THEN "idle"
  ELSE IF outcome[r] = <<>> THEN "waiting"
  ELSE IF outcome[r][Len(outcome[r])].kind = "ok" THEN "answered" ELSE "failed"

View == [r \in Requests |-> Verdict(r)]

Lifecycle == INSTANCE RequestLifecycle WITH state <- View

ImplementsLifecycle == Lifecycle!SafeSpec
=============================================================================
