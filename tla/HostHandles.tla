---------------------------- MODULE HostHandles ----------------------------
(***************************************************************************)
(* The host operations behind handles: TCP and TLS streams, listeners,     *)
(* HTTP response bodies, child processes and zlib streams                  *)
(* (handle_table.rs, and the net, tls, http, proc and zlib operations of   *)
(* ops_bridge.rs with the functions of src/ops they call).                 *)
(*                                                                         *)
(* A table per kind maps the ids JavaScript holds to resources.  An        *)
(* operation looks its id up at once, and goes on as a task of the         *)
(* isolate's thread that has a share of the resource: it takes the lock of *)
(* what it uses, waits for the outside, and sends a completion, which the  *)
(* pump settles later.                                                     *)
(***************************************************************************)
EXTENDS Integers, Sequences, FiniteSets

CONSTANTS
  Loads,    \* what a behaviour works with: some of the tables, and bounds on the
            \* resources opened, the operations called and the chunks sent or fed
  IdMax,    \* u32::MAX
  WriteLen  \* pieces in which the outside may take one write

Tables == {"net", "listener", "tls", "response", "child", "zlib"}

ASSUME HandleAssumption ==
  /\ \A l \in Loads : /\ l.tables \subseteq Tables
                       /\ l.opens \in Nat /\ l.calls \in Nat /\ l.chunks \in Nat
  /\ IdMax \in Nat \ {0} /\ WriteLen \in Nat \ {0}

VARIABLES
  load,     \* that of this behaviour
  next_id,  \* per table: the id it hands out next
  table,    \* per table: the resource each id stands for, 0 for none
  res,      \* the resources, in the order they were inserted
  task,     \* the tasks, in the order they were spawned
  done      \* the completions sent and not settled

handleVars == <<load, next_id, table, res, task, done>>

HandleInit ==
  /\ load \in Loads
  /\ next_id = [tb \in Tables |-> 1]
  /\ table = [tb \in Tables |-> [id \in 1..IdMax |-> 0]]
  /\ res = <<>> /\ task = <<>> /\ done = <<>>

-----------------------------------------------------------------------------
(***************************************************************************)
(* HandleTable.  Ids go up and start again at 1; an id that is still in    *)
(* use by then is taken over.                                              *)
(***************************************************************************)
NewResource(tb, id, known) ==
  [table |-> tb, id |-> id, known |-> known, \* whether JavaScript has been told the id
   nth |-> Cardinality({r \in DOMAIN res : res[r].table = tb}) + 1,
   wire |-> <<>>,     \* what it has taken: the task of each piece
   chunks |-> 0,      \* what the outside has sent
   taken |-> 0,       \* how much of it tasks have taken
   got |-> <<>>,      \* the chunks JavaScript has been given
   over |-> FALSE,    \* the outside sends no more; a child has exited
   ended |-> FALSE,   \* its input is closed: stdin taken, TLS shut down, zlib finished
   broken |-> FALSE,  \* the outside takes no more
   signalled |-> FALSE,
   reaped |-> FALSE]  \* a child's exit status is known

InsertLowestFree(tb, known) ==
  LET id == CHOOSE i \in 1..IdMax : /\ table[tb][i] = 0 \/ i = IdMax
                                    /\ \A j \in 1..(i - 1) : table[tb][j] # 0
  IN  /\ next_id' = next_id
      /\ table' = [table EXCEPT ![tb][id] = Len(res) + 1]
      /\ res' = Append(res, NewResource(tb, id, known))

insert(tb, known) ==
  LET id == next_id[tb]
  IN  /\ next_id' = [next_id EXCEPT ![tb] = IF id = IdMax THEN 1 ELSE id + 1]
      /\ table' = [table EXCEPT ![tb][id] = Len(res) + 1]
      /\ res' = Append(res, NewResource(tb, id, known))

(***************************************************************************)
(* JavaScript uses the id it was given for r, which it may have closed.    *)
(***************************************************************************)
Entry(r) == table[res[r].table][res[r].id]

NoEntry(r) == [table EXCEPT ![res[r].table][res[r].id] = 0]

-----------------------------------------------------------------------------
(***************************************************************************)
(* Tasks.  An opening task has no resource until it inserts one.           *)
(***************************************************************************)
Opens == Cardinality({t \in DOMAIN task : task[t].op = "open"}) +
         Cardinality({r \in DOMAIN res : res[r].table \in {"child", "zlib"}})

Calls == Cardinality({t \in DOMAIN task : task[t].op # "open"})

NewTask(op, tb, r) ==
  [op |-> op, table |-> tb, res |-> r, pc |-> "spawned", chunk |-> 0,
   left |-> IF op = "write" THEN WriteLen ELSE 0]

Running(t) == task[t].pc \in {"spawned", "locked"}

SetTask(t, rec) == task' = [task EXCEPT ![t] = rec]

Sends(t) == done' = Append(done, t)

(***************************************************************************)
(* What is locked: the whole of a stream or of a body, but a child, its    *)
(* input and its output each for itself.  (Its error output is another     *)
(* such pipe.)  A listener is shared, and needs no lock.                   *)
(***************************************************************************)
Lane(t) ==
  IF task[t].op \in {"open", "accept", "shutdown"} THEN "none"
  ELSE IF task[t].table # "child" THEN "all"
  ELSE CASE task[t].op \in {"write", "end"} -> "stdin"
         [] task[t].op = "read"             -> "stdout"
         [] task[t].op = "wait"             -> "child"

SameLock(t, u) ==
  task[t].res = task[u].res /\ Lane(t) = Lane(u) /\ Lane(t) # "none"

AnyTurn(t) == \A u \in DOMAIN task \ {t} : SameLock(u, t) => task[u].pc # "locked"

(***************************************************************************)
(* tokio's Mutex is fair, and tasks of the LocalSet start in the order     *)
(* they were spawned: a task has the lock when those before it are through *)
(***************************************************************************)
Turn(t) == \A u \in 1..(t - 1) : SameLock(u, t) => ~ Running(u)

Lock(t) ==
  /\ task[t].pc = "spawned" /\ Lane(t) # "none" /\ Turn(t)
  /\ SetTask(t, [task[t] EXCEPT !.pc = "locked"])
  /\ UNCHANGED <<load, next_id, table, res, done>>

-----------------------------------------------------------------------------
(***************************************************************************)
(* Opening.  net_connect, net_listen, tls_connect and http_request wait    *)
(* first, and insert what they got before JavaScript hears of it; a child  *)
(* and a zlib stream are there when the call returns.                      *)
(***************************************************************************)
OpenAsync(tb) ==
  /\ tb \in load.tables /\ Opens < load.opens
  /\ task' = Append(task, NewTask("open", tb, 0))
  /\ UNCHANGED <<load, next_id, table, res, done>>

net_connect == OpenAsync("net")
net_listen == OpenAsync("listener")
tls_connect == OpenAsync("tls")
http_request == OpenAsync("response")

Opened(t) ==
  /\ task[t].op \in {"open", "accept"} /\ task[t].pc = "spawned"
  /\ insert(IF task[t].op = "accept" THEN "net" ELSE task[t].table, FALSE)
  /\ SetTask(t, [task[t] EXCEPT !.pc = "sent", !.chunk = Len(res) + 1])
  /\ Sends(t)
  /\ UNCHANGED load

OpenNow(tb) ==
  /\ tb \in load.tables /\ Opens < load.opens
  /\ insert(tb, TRUE)
  /\ UNCHANGED <<load, task, done>>

proc_spawn == OpenNow("child")
zlib_create == OpenNow("zlib")

-----------------------------------------------------------------------------
(***************************************************************************)
(* Calling.  An id without an entry is refused with EBADF at once (and     *)
(* close, kill and stdin_close answer false).                              *)
(***************************************************************************)
Names(r, tb) == res[r].known /\ res[r].table = tb /\ Entry(r) # 0

Call(r, tb, op) ==
  /\ Names(r, tb) /\ Calls < load.calls
  /\ task' = Append(task, NewTask(op, tb, Entry(r)))
  /\ UNCHANGED <<load, next_id, table, res, done>>

net_accept(r) == Call(r, "listener", "accept")
net_read(r) == Call(r, "net", "read")
net_write(r) == Call(r, "net", "write")
tls_read(r) == Call(r, "tls", "read")
tls_write(r) == Call(r, "tls", "write")
http_response_read(r) == Call(r, "response", "read")
proc_wait(r) == Call(r, "child", "wait")
proc_stdin_write(r) == Call(r, "child", "write")
proc_stdin_close(r) == Call(r, "child", "end")
proc_pipe_read(r) == Call(r, "child", "read")

(***************************************************************************)
(* Closing takes the table's share away; a running task has one of its     *)
(* own.  A TLS stream is given to a task that shuts it down.               *)
(***************************************************************************)
RemoveHandle(r, tb) ==
  /\ Names(r, tb)
  /\ table' = NoEntry(r)
  /\ UNCHANGED <<load, next_id, res, task, done>>

net_close_stream(r) == RemoveHandle(r, "net")
net_close_listener(r) == RemoveHandle(r, "listener")
http_response_close(r) == RemoveHandle(r, "response")
proc_close(r) == RemoveHandle(r, "child")
zlib_close(r) == RemoveHandle(r, "zlib")

tls_close(r) ==
  /\ Names(r, "tls")
  /\ table' = NoEntry(r)
  /\ task' = Append(task, NewTask("shutdown", "tls", Entry(r)))
  /\ UNCHANGED <<load, next_id, res, done>>

(***************************************************************************)
(* kill needs the lock of the child for a moment: it fails (EBUSY) while   *)
(* one waits for the child, and does nothing to a child whose exit status  *)
(* is known.                                                               *)
(***************************************************************************)
Waited(r) == \E t \in DOMAIN task : task[t].res = r /\ task[t].op = "wait" /\ task[t].pc = "locked"

proc_kill(r) ==
  /\ Names(r, "child")
  /\ ~ Waited(Entry(r)) /\ ~ res[Entry(r)].reaped /\ ~ res[Entry(r)].signalled
  /\ res' = [res EXCEPT ![Entry(r)].signalled = TRUE]
  /\ UNCHANGED <<load, next_id, table, task, done>>

(***************************************************************************)
(* zlib works at once.  Finishing takes the stream out of its slot.        *)
(***************************************************************************)
zlib_feed(r) ==
  /\ Names(r, "zlib") /\ ~ res[Entry(r)].ended /\ Len(res[Entry(r)].wire) < load.chunks
  /\ res' = [res EXCEPT ![Entry(r)].wire = Append(@, Len(@) + 1)]
  /\ UNCHANGED <<load, next_id, table, task, done>>

zlib_finish(r) ==
  /\ Names(r, "zlib") /\ ~ res[Entry(r)].ended
  /\ res' = [res EXCEPT ![Entry(r)].ended = TRUE]
  /\ UNCHANGED <<load, next_id, table, task, done>>

-----------------------------------------------------------------------------
(***************************************************************************)
(* Working.  A write ends when the outside has taken all of it; a read     *)
(* with one chunk, or with none when the outside is through.               *)
(***************************************************************************)
Working(t, op) == task[t].pc = "locked" /\ task[t].op = op

Of(t) == res[task[t].res]

WritePiece(t) ==
  /\ Working(t, "write") /\ ~ Of(t).broken /\ ~ Of(t).ended
  /\ res' = [res EXCEPT ![task[t].res].wire = Append(@, t)]
  /\ SetTask(t, [task[t] EXCEPT !.left = @ - 1, !.pc = IF task[t].left = 1 THEN "sent" ELSE @])
  /\ IF task[t].left = 1 THEN Sends(t) ELSE UNCHANGED done
  /\ UNCHANGED <<load, next_id, table>>

ReadChunk(t) ==
  /\ Working(t, "read")
  /\ \/ /\ Of(t).taken < Of(t).chunks
        /\ res' = [res EXCEPT ![task[t].res].taken = @ + 1]
        /\ SetTask(t, [task[t] EXCEPT !.pc = "sent", !.chunk = Of(t).taken + 1])
     \/ /\ Of(t).taken = Of(t).chunks /\ Of(t).over
        /\ SetTask(t, [task[t] EXCEPT !.pc = "sent"])
        /\ UNCHANGED res
  /\ Sends(t)
  /\ UNCHANGED <<load, next_id, table>>

AwaitExit(t) ==
  /\ Working(t, "wait") /\ Of(t).over
  /\ res' = [res EXCEPT ![task[t].res].reaped = TRUE]
  /\ SetTask(t, [task[t] EXCEPT !.pc = "sent"]) /\ Sends(t)
  /\ UNCHANGED <<load, next_id, table>>

(***************************************************************************)
(* stdin_close answers true when it is called; the pipe is dropped when    *)
(* its task has the lock.                                                  *)
(***************************************************************************)
TakeStdin(t) ==
  /\ Working(t, "end")
  /\ res' = [res EXCEPT ![task[t].res].ended = TRUE]
  /\ SetTask(t, [task[t] EXCEPT !.pc = "settled"])
  /\ UNCHANGED <<load, next_id, table, done>>

(***************************************************************************)
(* The TLS stream is shut down if no other task has a share of it, and     *)
(* dropped without a close_notify otherwise.                               *)
(***************************************************************************)
tls_shutdown(t) ==
  /\ task[t].op = "shutdown" /\ task[t].pc = "spawned"
  /\ res' = [res EXCEPT ![task[t].res].ended =
               ~ \E u \in DOMAIN task \ {t} : task[u].res = task[t].res /\ Running(u)]
  /\ SetTask(t, [task[t] EXCEPT !.pc = "settled"])
  /\ UNCHANGED <<load, next_id, table, done>>

(***************************************************************************)
(* The outside refuses: an open or a read fails, and so does waiting for a *)
(* child whose exit is not known; a write stops half way, and then the     *)
(* outside takes no more (nor does stdin that was taken).                  *)
(***************************************************************************)
Fail(t) ==
  /\ \/ task[t].op \in {"open", "accept"} /\ task[t].pc = "spawned" /\ UNCHANGED res
     \/ Working(t, "read") /\ UNCHANGED res
     \/ Working(t, "wait") /\ ~ Of(t).reaped /\ UNCHANGED res
     \/ Working(t, "write") /\ res' = [res EXCEPT ![task[t].res].broken = TRUE]
  /\ SetTask(t, [task[t] EXCEPT !.pc = "sent"]) /\ Sends(t)
  /\ UNCHANGED <<load, next_id, table>>

(***************************************************************************)
(* drain: the completions are settled in the order they were sent.         *)
(***************************************************************************)
Drain ==
  /\ done # <<>>
  /\ LET t == task[Head(done)]
     IN  res' = IF t.chunk = 0 THEN res
                ELSE IF t.op = "read" THEN [res EXCEPT ![t.res].got = Append(@, t.chunk)]
                ELSE [res EXCEPT ![t.chunk].known = TRUE]
  /\ SetTask(Head(done), [task[Head(done)] EXCEPT !.pc = "settled"])
  /\ done' = Tail(done)
  /\ UNCHANGED <<load, next_id, table>>

-----------------------------------------------------------------------------
(***************************************************************************)
(* The outside: it sends chunks and ends; a child exits.  stream_body      *)
(* stops once nobody has the receiver.                                     *)
(***************************************************************************)
Shared(r) ==
  Entry(r) = r \/ \E t \in DOMAIN task : task[t].res = r /\ Running(t)

Outside(r) ==
  /\ res[r].table \in {"net", "tls", "response", "child"} /\ ~ res[r].over /\ Shared(r)
  /\ \/ res[r].chunks < load.chunks /\ res' = [res EXCEPT ![r].chunks = @ + 1]
     \/ res' = [res EXCEPT ![r].over = TRUE]
  /\ UNCHANGED <<load, next_id, table, task, done>>

-----------------------------------------------------------------------------
OnResource(r) ==
  \/ net_accept(r) \/ net_read(r) \/ net_write(r)
  \/ net_close_stream(r) \/ net_close_listener(r)
  \/ tls_read(r) \/ tls_write(r) \/ tls_close(r)
  \/ http_response_read(r) \/ http_response_close(r)
  \/ proc_wait(r) \/ proc_stdin_write(r) \/ proc_stdin_close(r) \/ proc_pipe_read(r)
  \/ proc_kill(r) \/ proc_close(r)
  \/ zlib_feed(r) \/ zlib_finish(r) \/ zlib_close(r)
  \/ Outside(r)

OnTask(t) ==
  \/ Lock(t) \/ Opened(t) \/ WritePiece(t) \/ ReadChunk(t) \/ AwaitExit(t) \/ TakeStdin(t)
  \/ tls_shutdown(t) \/ Fail(t)

HandleNext ==
  \/ net_connect \/ net_listen \/ tls_connect \/ http_request \/ proc_spawn \/ zlib_create
  \/ \E r \in DOMAIN res : OnResource(r)
  \/ \E t \in DOMAIN task : OnTask(t)
  \/ Drain

-----------------------------------------------------------------------------
(***************************************************************************)
(* An id that JavaScript was given, and may still use after it closed it   *)
(* (a destroy that races with a read in flight), stands for the resource   *)
(* it was given for or for none, until IdMax further ones were inserted    *)
(* into the table.                                                         *)
(***************************************************************************)
NoEarlyReuse ==
  \A r \in DOMAIN res : res[r].known =>
    Entry(r) = 0 \/ Entry(r) = r \/ res[Entry(r)].nth - res[r].nth >= IdMax

(***************************************************************************)
(* Writes that JavaScript does not wait for reach the outside whole, in    *)
(* the order of the calls, and before the input is closed; chunks reach    *)
(* JavaScript in the order the outside sent them, each once.               *)
(***************************************************************************)
Pieces(r, t) == Cardinality({i \in DOMAIN res[r].wire : res[r].wire[i] = t})

WritesInOrder(r) ==
  LET w == res[r].wire
  IN  \A i, j \in DOMAIN w : i < j =>
        /\ w[i] <= w[j]
        /\ w[i] < w[j] => Pieces(r, w[i]) = WriteLen

EndsAfterWrites(r) ==
  res[r].ended =>
    \A t \in DOMAIN task :
      task[t].res = r /\ task[t].op = "write" /\ Running(t) =>
        \E u \in 1..(t - 1) : task[u].res = r /\ task[u].op = "end"

ReadsInOrder(r) == \A i \in DOMAIN res[r].got : res[r].got[i] = i

StreamOrder ==
  \A r \in DOMAIN res :
    res[r].table # "zlib" => WritesInOrder(r) /\ EndsAfterWrites(r) /\ ReadsInOrder(r)
=============================================================================
