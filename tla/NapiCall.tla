------------------------------ MODULE NapiCall ------------------------------
(***************************************************************************)
(* The Node-API an addon calls while JavaScript waits for it               *)
(* (src/napi/bindings.rs, callbacks.rs, env.rs, references.rs, loader.rs). *)
(*                                                                         *)
(* JavaScript and native code call each other on the isolate's thread.     *)
(* Every native call has an environment of its own: the values it has been *)
(* handed, addressed by position, and a note of the exception it knows of. *)
(* V8 keeps the exception that is being thrown.  The addon calls what it   *)
(* likes with any of its handles, or with none; the one thing it does not  *)
(* do is to run JavaScript after the API has told it of an exception, or   *)
(* to use a deferred again that a call has taken, whatever came of it.     *)
(***************************************************************************)
EXTENDS Integers, Sequences, FiniteSets, Functions

CONSTANTS
  Menus,       \* what a behaviour works with: kinds of values, groups of calls,
               \* and bounds on the handles of a native call and on the objects
  PropNames,   \* names of properties
  MaxDepth,    \* bound: native calls inside one another
  MaxRefs,     \* bound: references made in one isolate
  MaxCount,    \* bound: the count of a reference
  MaxIsolates  \* bound: isolates the process starts

PrimitiveKinds == {"undefined", "null", "boolean", "number", "string", "symbol", "bigint"}

TypedArrayKinds == {"uint8array", "int16array", "bigint64array"}

ObjectKinds == {"object", "array", "function", "error", "promise", "external",
                "arraybuffer", "dataview"} \cup TypedArrayKinds

Addons == {"modern", "legacy", "plain"}

ASSUME NapiAssumption ==
  /\ \A m \in Menus : /\ m.kinds \subseteq PrimitiveKinds \cup ObjectKinds
                       /\ m.groups \subseteq {"properties", "wraps", "references", "addons"}
                       /\ m.handles \in Nat /\ m.objs \in Nat
  /\ MaxDepth \in Nat /\ MaxRefs \in Nat
  /\ MaxCount \in Nat /\ MaxIsolates \in Nat

VARIABLES
  menu,      \* those of this behaviour
  frames,    \* the environments of the native calls, innermost last
  running,   \* whose code runs: "js" or "native"
  exc,       \* whether V8 is throwing an exception
  heap,      \* the objects
  refs,      \* the references made with napi_create_reference and napi_wrap
  deferreds, \* the deferreds made with napi_create_promise
  last,      \* how the last call of the innermost native call ended: "ok",
             \* "pending" (napi_pending_exception), "failed" (GenericFailure),
             \* "refused" (any other status: for its arguments)
  libs,      \* the addons this process has opened
  isolate    \* how many isolates it has started

napiVars == <<menu, frames, running, exc, heap, refs, deferreds, last, libs, isolate>>

Nothing == [kind |-> "nothing", id |-> 0]

Primitive(k) == [kind |-> k, id |-> 0]

Ref(o) == [kind |-> heap[o].kind, id |-> o]

IsObject(v) == v.id # 0

(***************************************************************************)
(* The values JavaScript may pass, store or return.                        *)
(***************************************************************************)
Values == {Primitive(k) : k \in menu.kinds \cap PrimitiveKinds}
            \cup {Ref(o) : o \in {p \in DOMAIN heap : heap[p].data # "finalized"}}

NewEnv == [handles |-> <<>>, pending |-> FALSE, init |-> FALSE]

NapiInit ==
  /\ menu \in Menus
  /\ frames = <<>> /\ running = "js" /\ exc = FALSE /\ last = "none"
  /\ heap = <<>> /\ refs = <<>> /\ deferreds = <<>>
  /\ libs = {} /\ isolate = 1

env == frames[Len(frames)]

resolve(tok) == IF tok \in 1..Len(env.handles) THEN env.handles[tok] ELSE Nothing

Tokens == 0..Len(env.handles)

SetEnv(e) == [frames EXCEPT ![Len(frames)] = e]

intern(e, v) == [e EXCEPT !.handles = Append(@, v)]

HasRoom(n) == Len(env.handles) + n <= menu.handles

Native == running = "native"

dataVars == <<heap, refs, deferreds>>

fixedVars == <<menu, running, libs, isolate>>

(***************************************************************************)
(* How a call ends: with a status only, with a value in the caller's       *)
(* result, or because the JavaScript it ran threw.                         *)
(***************************************************************************)
Ended(status) ==
  last' = CASE status = "Ok" -> "ok"
            [] status = "GenericFailure" -> "failed"
            [] OTHER -> "refused"

Return(status) == Ended(status) /\ UNCHANGED <<fixedVars, frames, exc, dataVars>>

Answer(v) ==
  /\ HasRoom(1)
  /\ frames' = SetEnv(intern(env, v)) /\ Ended("Ok")
  /\ UNCHANGED <<fixedVars, exc>>

write_value_out(v) ==
  \/ Return("InvalidArg")                       \* result is null
  \/ Answer(v) /\ UNCHANGED dataVars

Threw(status) ==
  /\ exc' = TRUE /\ Ended(status)
  /\ UNCHANGED <<fixedVars, frames, dataVars>>

(***************************************************************************)
(* A conversion of v runs JavaScript if v is an object, and then may throw;*)
(* it throws for the primitives it is not defined for.                     *)
(***************************************************************************)
Converts(v, undefinedFor) ==
  IF v.kind \in undefinedFor THEN {"throws"}
  ELSE IF IsObject(v) THEN {"ok", "throws"} ELSE {"ok"}

-----------------------------------------------------------------------------
(***************************************************************************)
(* Making values.                                                          *)
(***************************************************************************)
Object(kind, buffer, owned) ==
  [kind |-> kind, props |-> {}, wrap |-> FALSE, detached |-> FALSE, buffer |-> buffer,
   data |-> IF owned THEN "owned" ELSE "none"]

Made(obj) ==
  \/ Return("InvalidArg")
  \/ /\ Len(heap) < menu.objs /\ obj.kind \in menu.kinds
     /\ heap' = Append(heap, obj)
     /\ Answer([kind |-> obj.kind, id |-> Len(heap) + 1])
     /\ UNCHANGED <<refs, deferreds>>

MakePrimitive ==
  \E k \in {"undefined", "null", "boolean", "number"} \cap menu.kinds : write_value_out(Primitive(k))

napi_create_string_utf8 ==
  /\ "string" \in menu.kinds
  /\ \/ Return("InvalidArg")                    \* no pointer, or bytes that are no UTF-8
     \/ Return("GenericFailure")                \* longer than V8's limit
     \/ write_value_out(Primitive("string"))

MakeBigint ==
  /\ "bigint" \in menu.kinds
  /\ Return("GenericFailure") \/ write_value_out(Primitive("bigint"))

MakeObject == \E k \in {"object", "array"} : Made(Object(k, 0, FALSE))

napi_create_array_with_length == Made(Object("array", 0, FALSE))

napi_create_function == Made(Object("function", 0, FALSE))

create_error ==
  \E msg \in Tokens :
    IF resolve(msg) = Nothing THEN Return("InvalidArg")
    ELSE IF resolve(msg).kind # "string" THEN Return("StringExpected")
    ELSE Made(Object("error", 0, FALSE))

napi_create_arraybuffer == Made(Object("arraybuffer", 0, FALSE))

(***************************************************************************)
(* Memory of the addon's becomes a buffer's: from then on its finalizer    *)
(* runs when the buffer is collected, whether or not the caller got a      *)
(* value (it does not when result is null, or the view cannot be made).    *)
(***************************************************************************)
TakesOver(kind) ==
  \/ Return("InvalidArg")                       \* no data
  \/ /\ Len(heap) < menu.objs /\ kind \in menu.kinds
     /\ heap' = Append(heap, Object(kind, 0, TRUE))
     /\ \/ Answer([kind |-> kind, id |-> Len(heap) + 1])
        \/ /\ last' \in {"refused", "failed"}
           /\ UNCHANGED <<fixedVars, frames, exc>>
     /\ UNCHANGED <<refs, deferreds>>

napi_create_external_arraybuffer == TakesOver("arraybuffer")

napi_create_external_buffer == TakesOver("uint8array")

MakeBuffer == Return("GenericFailure") \/ Made(Object("uint8array", 0, FALSE))

ViewOn(tok, kinds) ==
  IF resolve(tok) = Nothing THEN Return("InvalidArg")
  ELSE IF resolve(tok).kind # "arraybuffer" THEN Return("ArraybufferExpected")
  ELSE \E k \in kinds : Made(Object(k, resolve(tok).id, FALSE))

napi_create_typedarray ==
  \E tok \in Tokens :
    \/ ViewOn(tok, TypedArrayKinds)
    \/ /\ resolve(tok).kind = "arraybuffer"    \* offset or length out of its range
       /\ Return("GenericFailure")

napi_create_dataview == \E tok \in Tokens : ViewOn(tok, {"dataview"})

napi_create_external == Made(Object("external", 0, FALSE))

(***************************************************************************)
(* external_data_deleter: when the last handle, reference and view of a    *)
(* buffer are gone it may be collected, and the addon's finalizer runs.    *)
(***************************************************************************)
Held(o) ==
  \/ \E i \in DOMAIN frames :
       \E v \in Range(frames[i].handles) : v.id = o
  \/ \E i \in DOMAIN refs : refs[i].live /\ refs[i].of.id = o
  \/ \E p \in DOMAIN heap : heap[p].buffer = o

external_data_deleter ==
  \E o \in DOMAIN heap :
    /\ running = "js" /\ heap[o].data = "owned" /\ ~ Held(o)
    /\ heap' = [heap EXCEPT ![o].data = "finalized"]
    /\ UNCHANGED <<fixedVars, frames, exc, refs, deferreds, last>>

-----------------------------------------------------------------------------
(***************************************************************************)
(* Reading values: the status that each family of readers gives for v.     *)
(***************************************************************************)
napi_typeof(v) ==
  CASE v.kind \in PrimitiveKinds \cup {"function"} -> v.kind
    [] OTHER -> "object"                        \* an external, too

napi_get_value_string_utf8(v) == IF v.kind = "string" THEN "Ok" ELSE "StringExpected"

StrictNumber(v) == IF v.kind = "number" THEN "Ok" ELSE "NumberExpected"

StrictBool(v) == IF v.kind = "boolean" THEN "Ok" ELSE "BooleanExpected"

BigintValue(v) == IF v.kind = "bigint" THEN "Ok" ELSE "BigintExpected"

IsView(v) == v.kind \in TypedArrayKinds \cup {"dataview"}

ArraybufferInfo(v) == IF v.kind = "arraybuffer" THEN "Ok" ELSE "ArraybufferExpected"

napi_get_typedarray_info(v) ==
  IF v.kind = "bigint64array" THEN "GenericFailure"
  ELSE IF v.kind \in TypedArrayKinds THEN "Ok" ELSE "InvalidArg"

napi_get_dataview_info(v) == IF v.kind = "dataview" THEN "Ok" ELSE "InvalidArg"

napi_get_buffer_info(v) == IF IsView(v) THEN "Ok" ELSE "InvalidArg"

napi_get_value_external(v) == IF v.kind = "external" THEN "Ok" ELSE "InvalidArg"

napi_get_array_length(v) == IF v.kind = "array" THEN "Ok" ELSE "ArrayExpected"

(***************************************************************************)
(* The type tests.                                                         *)
(***************************************************************************)
napi_is_arraybuffer(v) == v.kind = "arraybuffer"

napi_is_typedarray(v) == v.kind \in TypedArrayKinds

napi_is_dataview(v) == v.kind = "dataview"

napi_is_buffer(v) == v.kind = "uint8array"

napi_is_array(v) == v.kind = "array"

napi_is_error(v) == v.kind = "error"

(***************************************************************************)
(* An addon asks napi_typeof or a type test and calls the reader for that  *)
(* type, which does not refuse the value (a BigInt64Array excepted).       *)
(***************************************************************************)
ASSUME TestsAreTrusted ==
  \A k \in PrimitiveKinds \cup ObjectKinds :
    LET v == Primitive(k)
    IN  /\ napi_typeof(v) = "number"  => StrictNumber(v) = "Ok"
        /\ napi_typeof(v) = "boolean" => StrictBool(v) = "Ok"
        /\ napi_typeof(v) = "bigint"  => BigintValue(v) = "Ok"
        /\ napi_typeof(v) = "string"  => napi_get_value_string_utf8(v) = "Ok"
        /\ napi_is_arraybuffer(v)     => ArraybufferInfo(v) = "Ok"
        /\ napi_is_buffer(v)          => napi_get_buffer_info(v) = "Ok"
        /\ napi_is_dataview(v)        => napi_get_dataview_info(v) = "Ok"
        /\ napi_is_array(v)           => napi_get_array_length(v) = "Ok"
        /\ napi_is_typedarray(v) /\ k # "bigint64array" => napi_get_typedarray_info(v) = "Ok"
        /\ napi_is_error(v)           => napi_typeof(v) = "object"

Reads(v) ==
  {napi_get_value_string_utf8(v), StrictNumber(v), StrictBool(v), BigintValue(v),
   ArraybufferInfo(v), napi_get_typedarray_info(v), napi_get_dataview_info(v),
   napi_get_buffer_info(v), napi_get_value_external(v), napi_get_array_length(v)}

(***************************************************************************)
(* A call that only reads; a value that is no handle, or no place for the  *)
(* result, is an invalid argument.  typeof, strict_equals and the type     *)
(* tests answer for every value.                                           *)
(***************************************************************************)
Read ==
  \/ Return("InvalidArg")
  \/ \E tok \in Tokens \ {0} :
       \E status \in {"Ok"} \cup Reads(resolve(tok)) : Return(status)

(***************************************************************************)
(* The buffer of a view is handed out with the information about it.       *)
(***************************************************************************)
ReadBufferOf ==
  \E tok \in Tokens \ {0} :
    /\ IsView(resolve(tok)) /\ resolve(tok).kind # "bigint64array"
    /\ heap[resolve(tok).id].buffer # 0
    /\ Answer(Ref(heap[resolve(tok).id].buffer))
    /\ UNCHANGED dataVars

IntegerValue ==
  \E tok \in Tokens \ {0} : \E out \in Converts(resolve(tok), {"symbol", "bigint"}) :
    IF out = "ok" THEN Return("Ok") ELSE Threw("NumberExpected")

Coerce ==
  \E tok \in Tokens \ {0},
     to \in {[kind |-> "string", fails |-> {"symbol"}],
             [kind |-> "number", fails |-> {"symbol", "bigint"}],
             [kind |-> "boolean", fails |-> {}],
             [kind |-> "object", fails |-> {"undefined", "null"}]} :
    \E out \in IF to.kind \in {"boolean", "object"} /\ IsObject(resolve(tok)) THEN {"ok"}
              ELSE Converts(resolve(tok), to.fails) :
      IF out = "throws" THEN Threw("GenericFailure")
      ELSE IF to.kind # "object" THEN to.kind \in menu.kinds /\ write_value_out(Primitive(to.kind))
      ELSE IF IsObject(resolve(tok)) THEN write_value_out(resolve(tok))
      ELSE Made(Object("object", 0, FALSE))

-----------------------------------------------------------------------------
(***************************************************************************)
(* Properties of objects.  JavaScript runs for an accessor or a proxy, and *)
(* may throw; the status says no more than that the call failed.           *)
(***************************************************************************)
OnObject(tok, expected, Do(_)) ==
  IF resolve(tok) = Nothing THEN Return("InvalidArg")
  ELSE IF ~ IsObject(resolve(tok)) THEN Return(expected)
  ELSE Do(resolve(tok).id)

Change(o, field, value, status) ==
  /\ heap' = [heap EXCEPT ![o][field] = value] /\ Ended(status)
  /\ UNCHANGED <<fixedVars, frames, exc, refs, deferreds>>

SetProperty(n) ==
  \E tok \in Tokens, val \in Tokens :
    LET Set(o) == \/ Change(o, "props", heap[o].props \cup {n}, "Ok")
                  \/ Return("Ok")              \* it is read-only
                  \/ Threw("GenericFailure")
    IN  IF resolve(tok) # Nothing /\ resolve(val) = Nothing THEN Return("InvalidArg")
        ELSE OnObject(tok, "ObjectExpected", Set)

GetProperty ==
  \E tok \in Tokens, v \in Values :
    LET Get(o) == write_value_out(v) \/ Threw("GenericFailure")
    IN  OnObject(tok, "ObjectExpected", Get)

(***************************************************************************)
(* A name is refused when it is no UTF-8 or longer than V8's limit; an     *)
(* index never is; a key is a value, whose conversion to a name may throw. *)
(***************************************************************************)
BadName == Return("InvalidArg") \/ Return("GenericFailure")

napi_set_named_property == BadName \/ \E n \in PropNames : SetProperty(n)

napi_set_element == \E n \in PropNames : SetProperty(n)

napi_get_named_property == BadName \/ GetProperty

napi_get_element == GetProperty

napi_get_property == \E key \in Tokens : IF resolve(key) = Nothing THEN Return("InvalidArg") ELSE GetProperty

napi_has_named_property ==
  \/ BadName
  \/ \E tok \in Tokens :
       LET Has(o) == Return("Ok") \/ Threw("GenericFailure")
       IN  OnObject(tok, "ObjectExpected", Has)

napi_get_property_names ==
  \E tok \in Tokens :
    LET Names(o) == Made(Object("array", 0, FALSE)) \/ Threw("GenericFailure")
    IN  OnObject(tok, "ObjectExpected", Names)

(***************************************************************************)
(* apply_descriptor: a method, or a value, becomes a property; accessors   *)
(* are ignored.  Whether setting it works, does nothing (a property that   *)
(* is read-only) or throws, the code goes on: exc is then set and the call *)
(* still succeeds.  "bad" is a descriptor without a usable name or value.  *)
(***************************************************************************)
apply_descriptor(s, d) ==
  IF d \in PropNames THEN {s, [s EXCEPT !.props = @ \cup {d}], [s EXCEPT !.exc = TRUE]}
  ELSE {s}

(***************************************************************************)
(* napi_define_properties: the descriptors are applied in turn up to the   *)
(* first bad one; those before it stay.                                    *)
(***************************************************************************)
Descriptors == {<<n, d>> : n \in PropNames, d \in PropNames \cup {"accessor", "bad"}}

Applied(props, ds) ==
  UNION {apply_descriptor(s, ds[2]) :
           s \in apply_descriptor([props |-> props, exc |-> exc], ds[1])}

DefinedStatus(ds) == IF ds[2] = "bad" THEN "GenericFailure" ELSE "Ok"

napi_define_properties ==
  \/ Return("Ok")                               \* no descriptor
  \/ \E tok \in Tokens, ds \in Descriptors :
       LET Define(o) ==
             \E s \in Applied(heap[o].props, ds) :
               /\ heap' = [heap EXCEPT ![o].props = s.props]
               /\ exc' = s.exc /\ Ended(DefinedStatus(ds))
               /\ UNCHANGED <<fixedVars, frames, refs, deferreds>>
       IN  OnObject(tok, "InvalidArg", Define)

(***************************************************************************)
(* napi_define_class: the constructor and what its descriptors put on it;  *)
(* when one is bad the constructor is lost.                                *)
(***************************************************************************)
napi_define_class ==
  \/ Return("InvalidArg")
  \/ \E ds \in Descriptors : \E s \in Applied({}, ds) :
       /\ exc' = s.exc /\ Ended(DefinedStatus(ds))
       /\ IF ds[2] = "bad" THEN UNCHANGED <<frames, heap>>
          ELSE /\ Len(heap) < menu.objs /\ "function" \in menu.kinds /\ HasRoom(1)
               /\ heap' = Append(heap, [Object("function", 0, FALSE) EXCEPT !.props = s.props])
               /\ frames' = SetEnv(intern(env, [kind |-> "function", id |-> Len(heap) + 1]))
       /\ UNCHANGED <<fixedVars, refs, deferreds>>

(***************************************************************************)
(* A buffer may not be detachable; what detaching it comes to is ignored.  *)
(***************************************************************************)
napi_detach_arraybuffer ==
  \E tok \in Tokens :
    IF resolve(tok) = Nothing THEN Return("InvalidArg")
    ELSE IF resolve(tok).kind # "arraybuffer" THEN Return("ArraybufferExpected")
    ELSE \/ Return("DetachableArraybufferExpected")
         \/ Change(resolve(tok).id, "detached", TRUE, "Ok")
         \/ Threw("Ok")

(***************************************************************************)
(* Native objects behind JavaScript ones: napi_wrap sets a property of the *)
(* object to an external (which a frozen object ignores) and, if asked,    *)
(* makes a reference to it.  Looking the property up, or deleting it, runs *)
(* the JavaScript of a proxy; napi_remove_wrap succeeds whatever comes of  *)
(* that.                                                                   *)
(***************************************************************************)
NewRef(v, n) == refs' = Append(refs, [of |-> v, count |-> n, live |-> TRUE])

napi_wrap ==
  \E tok \in Tokens, withRef \in BOOLEAN :
    LET Wrap(o) ==
          \/ Threw("GenericFailure")
          \/ /\ heap' \in {heap, [heap EXCEPT ![o].wrap = TRUE]} /\ Ended("Ok")
             /\ IF withRef THEN Len(refs) < MaxRefs /\ NewRef(Ref(o), 1) ELSE UNCHANGED refs
             /\ UNCHANGED <<fixedVars, frames, exc, deferreds>>
    IN  OnObject(tok, "ObjectExpected", Wrap)

napi_unwrap ==
  \E tok \in Tokens :
    LET Unwrap(o) == \/ Threw("GenericFailure")
                     \/ IF heap[o].wrap THEN Return("Ok") ELSE Return("InvalidArg")
    IN  OnObject(tok, "ObjectExpected", Unwrap)

napi_remove_wrap ==
  \E tok \in Tokens :
    LET Remove(o) == Change(o, "wrap", FALSE, "Ok") \/ Return("Ok") \/ Threw("Ok")
    IN  OnObject(tok, "ObjectExpected", Remove)

(***************************************************************************)
(* References keep their value until they are deleted, also at count zero. *)
(***************************************************************************)
napi_create_reference ==
  \E tok \in Tokens, n \in 0..MaxCount :
    IF resolve(tok) = Nothing THEN Return("InvalidArg")
    ELSE /\ Len(refs) < MaxRefs /\ NewRef(resolve(tok), n) /\ Ended("Ok")
         /\ UNCHANGED <<fixedVars, frames, exc, heap, deferreds>>

SetRef(i, r, status) ==
  /\ refs' = [refs EXCEPT ![i] = r] /\ Ended(status)
  /\ UNCHANGED <<fixedVars, frames, exc, heap, deferreds>>

Reference ==
  \E i \in DOMAIN refs :
    LET r == refs[i]
    IN  /\ r.live
        /\ \/ SetRef(i, [r EXCEPT !.live = FALSE], "Ok")
           \/ r.count < MaxCount /\ SetRef(i, [r EXCEPT !.count = @ + 1], "Ok")
           \/ IF r.count = 0 THEN Return("GenericFailure")
              ELSE SetRef(i, [r EXCEPT !.count = @ - 1], "Ok")
           \/ Answer(r.of) /\ UNCHANGED dataVars

(***************************************************************************)
(* Promises.  The resolver is in a box the addon holds.  Settling frees it *)
(* as soon as the arguments are accepted; V8 may still fail to settle the  *)
(* promise, which then stays pending for ever.                             *)
(***************************************************************************)
napi_create_promise ==
  \/ Return("InvalidArg")
  \/ /\ Len(heap) < menu.objs /\ "promise" \in menu.kinds
     /\ heap' = Append(heap, Object("promise", 0, FALSE))
     /\ deferreds' = Append(deferreds, [promise |-> Len(heap) + 1, boxed |-> TRUE,
                                        settled |-> FALSE])
     /\ Answer([kind |-> "promise", id |-> Len(heap) + 1])
     /\ UNCHANGED refs

Spent(d, settled) == [promise |-> d.promise, boxed |-> FALSE, settled |-> settled]

Lost(d) == Spent(d, FALSE)

Settling(d, status) == [deferred |-> Spent(d, status = "Ok"), status |-> status]

BoxTakenFirst(d, tok) ==
  {Settling(d, status) :
     status \in IF resolve(tok) = Nothing THEN {"InvalidArg"} ELSE {"Ok", "GenericFailure"}}

settle_deferred(d, tok) ==
  IF resolve(tok) = Nothing THEN {[deferred |-> d, status |-> "InvalidArg"]}
  ELSE {Settling(d, "Ok"), Settling(d, "GenericFailure")}

Settle ==
  \E i \in DOMAIN deferreds, tok \in Tokens :
    /\ deferreds[i].boxed
    /\ \E out \in settle_deferred(deferreds[i], tok) :
         /\ deferreds' = [deferreds EXCEPT ![i] = out.deferred]
         /\ Ended(out.status)
         /\ exc' \in IF out.status = "GenericFailure" THEN {exc, TRUE} ELSE {exc}
    /\ UNCHANGED <<fixedVars, frames, heap, refs>>

-----------------------------------------------------------------------------
(***************************************************************************)
(* Exceptions.  An environment notes an exception the addon throws, and    *)
(* one that a function it calls throws; not one of an accessor or of a     *)
(* conversion.                                                             *)
(***************************************************************************)
Throw ==
  /\ exc' = TRUE /\ frames' = SetEnv([env EXCEPT !.pending = TRUE]) /\ Ended("Ok")
  /\ UNCHANGED <<fixedVars, dataVars>>

napi_throw == \E tok \in Tokens : IF resolve(tok) = Nothing THEN Return("InvalidArg") ELSE Throw

throw_named == Return("InvalidArg") \/ Return("GenericFailure") \/ Throw

(***************************************************************************)
(* Only the note is asked for, and cleared: V8 goes on throwing.           *)
(***************************************************************************)
napi_is_exception_pending == env.pending

napi_get_and_clear_last_exception ==
  \/ Return("InvalidArg")
  \/ \E v \in {Primitive("undefined")} \cup Values :
       /\ ~ napi_is_exception_pending => v = Primitive("undefined")
       /\ HasRoom(1)
       /\ frames' = SetEnv([intern(env, v) EXCEPT !.pending = FALSE]) /\ Ended("Ok")
       /\ UNCHANGED <<fixedVars, exc, dataVars>>

-----------------------------------------------------------------------------
(***************************************************************************)
(* Control.  trampoline: JavaScript calls a native function; when that     *)
(* returns, what V8 is throwing goes to the caller.                        *)
(***************************************************************************)
Push(e) ==
  /\ frames' = Append(frames, e) /\ running' = "native" /\ last' = "none"

trampoline ==
  /\ running = "js" /\ ~ exc /\ Len(frames) < MaxDepth
  /\ Push(NewEnv)
  /\ UNCHANGED <<menu, exc, dataVars, libs, isolate>>

(***************************************************************************)
(* The receiver and the arguments become handles, padded with undefined up *)
(* to the number asked for.                                                *)
(***************************************************************************)
napi_get_cb_info ==
  \/ Return("InvalidArg")
  \/ \E v \in Values : Answer(v) /\ UNCHANGED dataVars

napi_get_new_target ==
  \/ Return("InvalidArg")
  \/ Return("Ok")                               \* it was called without new
  \/ \E v \in Values : v.kind = "function" /\ Answer(v) /\ UNCHANGED dataVars

NativeReturns ==
  /\ Native
  /\ frames' = SubSeq(frames, 1, Len(frames) - 1) /\ running' = "js" /\ last' = "none"
  /\ \/ UNCHANGED exc
     \/ env.init /\ ~ exc /\ exc' = TRUE  \* InitReturnedNull
  /\ UNCHANGED <<menu, dataVars, libs, isolate>>

(***************************************************************************)
(* napi_call_function and napi_new_instance: the callee's JavaScript runs, *)
(* and its exception is noted and thrown on.  They do not ask whether an   *)
(* exception the addon does not know of is being thrown: V8 may then run   *)
(* the callee and forget it, or not run it.                                *)
(***************************************************************************)
CallFunction ==
  /\ ~ napi_is_exception_pending
  /\ \E func \in Tokens :
       IF resolve(func) = Nothing THEN Return("InvalidArg")
       ELSE IF resolve(func).kind # "function" THEN Return("FunctionExpected")
       ELSE /\ running' = "js" /\ last' = "none"
            /\ exc' \in {exc, FALSE}
            /\ UNCHANGED <<menu, frames, dataVars, libs, isolate>>

Swallow == last' = "pending" /\ exc' = FALSE /\ frames' = SetEnv([env EXCEPT !.pending = TRUE])

Rethrow == last' = "pending" /\ exc' = exc /\ frames' = SetEnv([env EXCEPT !.pending = TRUE])

CallReturns ==
  /\ running = "js" /\ Len(frames) > 0
  /\ running' = "native"
  /\ \/ exc /\ Rethrow
     \/ /\ ~ exc /\ Ended("Ok") /\ UNCHANGED exc
        /\ \/ UNCHANGED frames
           \/ \E v \in Values : HasRoom(1) /\ frames' = SetEnv(intern(env, v))
  /\ UNCHANGED <<menu, dataVars, libs, isolate>>

JsThrows ==
  /\ running = "js" /\ ~ exc /\ exc' = TRUE
  /\ UNCHANGED <<fixedVars, frames, dataVars, last>>

JsCatches ==
  /\ running = "js" /\ exc /\ exc' = FALSE
  /\ UNCHANGED <<fixedVars, frames, dataVars, last>>

-----------------------------------------------------------------------------
(***************************************************************************)
(* load_native_module.  An addon has the entry point of today, or only the *)
(* static constructor of old, which runs when the library is opened: the   *)
(* first time, as libraries stay open.  Without either nothing is loaded.  *)
(***************************************************************************)
LoadFails ==
  /\ exc' = TRUE /\ UNCHANGED <<frames, running, last>>

load_native_module ==
  \E a \in Addons :
    /\ "addons" \in menu.groups
    /\ running = "js" /\ ~ exc /\ Len(frames) < MaxDepth
    /\ \/ /\ libs' = libs \cup {a}
          /\ IF a = "modern" \/ (a = "legacy" /\ a \notin libs)
             THEN Push([NewEnv EXCEPT !.init = TRUE]) /\ UNCHANGED exc
             ELSE LoadFails
       \/ a \notin libs /\ UNCHANGED libs /\ LoadFails   \* it cannot be opened
    /\ UNCHANGED <<menu, dataVars, isolate>>

(***************************************************************************)
(* The worker's isolate is recycled; the process, and its libraries, stay. *)
(***************************************************************************)
NewIsolate ==
  /\ running = "js" /\ frames = <<>> /\ isolate < MaxIsolates
  /\ isolate' = isolate + 1
  /\ exc' = FALSE /\ heap' = <<>> /\ refs' = <<>> /\ deferreds' = <<>>
  /\ UNCHANGED <<menu, frames, running, last, libs>>

-----------------------------------------------------------------------------
NapiCalls ==
  \/ MakePrimitive \/ napi_create_string_utf8 \/ MakeBigint \/ MakeObject
  \/ napi_create_array_with_length \/ napi_create_function \/ create_error
  \/ napi_create_arraybuffer \/ napi_create_external_arraybuffer
  \/ napi_create_external_buffer \/ MakeBuffer \/ napi_create_typedarray
  \/ napi_create_dataview \/ napi_create_external
  \/ Read \/ ReadBufferOf \/ IntegerValue \/ Coerce
  \/ /\ "properties" \in menu.groups
     /\ napi_set_named_property \/ napi_set_element \/ napi_define_properties
  \/ napi_get_named_property \/ napi_get_element \/ napi_get_property
  \/ napi_has_named_property \/ napi_get_property_names
  \/ napi_define_class \/ napi_detach_arraybuffer
  \/ "wraps" \in menu.groups /\ (napi_wrap \/ napi_unwrap \/ napi_remove_wrap)
  \/ "references" \in menu.groups /\ (napi_create_reference \/ Reference)
  \/ napi_create_promise \/ Settle
  \/ napi_throw \/ throw_named \/ napi_get_and_clear_last_exception
  \/ napi_get_cb_info \/ napi_get_new_target \/ CallFunction

NapiNext ==
  \/ Native /\ NapiCalls
  \/ trampoline \/ NativeReturns \/ CallReturns \/ JsThrows \/ JsCatches
  \/ external_data_deleter \/ load_native_module \/ NewIsolate

-----------------------------------------------------------------------------
(***************************************************************************)
(* What the API has told the addon of, JavaScript gets to see: while an    *)
(* environment notes an exception, V8 is throwing it, however native calls *)
(* and JavaScript are nested, and so the caller of the native function     *)
(* receives it when that returns.                                          *)
(***************************************************************************)
ExceptionsSurface ==
  \A i \in DOMAIN frames : frames[i].pending => i = Len(frames) /\ Native /\ exc

(***************************************************************************)
(* A call that is refused for its arguments may be made again: it has      *)
(* consumed no deferred and no reference, unwrapped and detached nothing.  *)
(* One that V8 fails (GenericFailure) has done nothing of that either, but *)
(* that settling a promise has cost the deferred: what was handed in is    *)
(* freed and the promise not settled.  No other call spends a deferred     *)
(* without settling it.  (The properties defined before a bad descriptor   *)
(* stay, and so does the ownership of the memory of an external buffer.)   *)
(***************************************************************************)
Kept(o) == [wrap |-> heap[o].wrap, detached |-> heap[o].detached, data |-> heap[o].data]

KeepsAll == UNCHANGED refs /\ \A o \in DOMAIN heap : Kept(o)' = Kept(o)

RefusalsConsumeNothing ==
  [][/\ last' = "refused" => KeepsAll /\ UNCHANGED deferreds
     /\ last' = "failed" =>
          /\ KeepsAll
          /\ \A i \in DOMAIN deferreds : deferreds[i]' \in {deferreds[i], Lost(deferreds[i])}
     /\ \A i \in DOMAIN deferreds \cap DOMAIN deferreds' :
          deferreds[i].boxed /\ ~ deferreds[i]'.boxed => deferreds[i]'.settled \/ last' = "failed"
    ]_napiVars
=============================================================================
