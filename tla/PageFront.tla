------------------------------ MODULE PageFront ------------------------------
(***************************************************************************)
(* The router of one server (src/server/mod.rs build_router,               *)
(* static_assets.rs, prerender.rs, next_bridge.rs): chunks and public      *)
(* files from disk, prerendered pages from a per-worker cache that is      *)
(* checked against the disk, everything else through the isolates.         *)
(*                                                                         *)
(* The pages on disk are rewritten by Next.js (ISR), in any worker, while  *)
(* requests are served.  A worker runs on one thread and try_serve does    *)
(* not await: lookups of one worker never overlap, but its file reads      *)
(* interleave with the rewriting.  A key is <<page, rsc>>, one file each;  *)
(* the .meta sidecar is per page.                                          *)
(***************************************************************************)
EXTENDS Integers, FiniteSets, Sequences

CONSTANTS
  PageReqs,       \* requests
  Hosts,          \* workers, each with its own router and cache
  Pages,          \* pages that may be prerendered
  CACHE_CAPACITY,
  MaxStamp        \* bound: writes to one file

ASSUME PageAssumption ==
  /\ CACHE_CAPACITY \in Nat \ {0} /\ MaxStamp \in Nat
  /\ IsFiniteSet(PageReqs) /\ IsFiniteSet(Hosts) /\ IsFiniteSet(Pages)
  /\ Pages \cap {"chunk", "image", "public", "reserved"} = {}

VARIABLES
  file,   \* per key: the version in the file, whether it is whole, its mtime
  sidecar,\* per page: the version its .meta holds
  pcache, \* per worker, the cached assets by key
  preq    \* the requests

pageVars == <<file, sidecar, pcache, preq>>

Keys == Pages \X BOOLEAN

Paths == Pages \cup {"chunk", "image", "public", "reserved"}

Idle == [pc |-> "idle"]

(***************************************************************************)
(* Version 0 is a file that does not exist.                                *)
(***************************************************************************)
PageInit ==
  /\ file \in [Keys -> {[ver |-> v, whole |-> TRUE, stamp |-> v] : v \in 0..1}]
  /\ sidecar = [p \in Pages |-> 1]
  /\ pcache = [h \in Hosts |-> <<>>]
  /\ preq = [r \in PageReqs |-> Idle]

-----------------------------------------------------------------------------
(***************************************************************************)
(* Next.js writes a page anew: the file is truncated, then filled, and the *)
(* sidecar follows.                                                        *)
(***************************************************************************)
Write(k, f) ==
  /\ f.stamp <= MaxStamp
  /\ file' = [file EXCEPT ![k] = f]
  /\ UNCHANGED <<pcache, preq>>

BeginRewrite(k) ==
  /\ file[k].whole
  /\ Write(k, [ver |-> file[k].ver + 1, whole |-> FALSE, stamp |-> file[k].stamp + 1])
  /\ UNCHANGED sidecar

EndRewrite(k) ==
  /\ ~ file[k].whole
  /\ Write(k, [file[k] EXCEPT !.whole = TRUE, !.stamp = @ + 1])
  /\ UNCHANGED sidecar

RewriteSidecar(p) ==
  /\ sidecar[p] < file[<<p, FALSE>>].ver
  /\ sidecar' = [sidecar EXCEPT ![p] = file[<<p, FALSE>>].ver]
  /\ UNCHANGED <<file, pcache, preq>>

-----------------------------------------------------------------------------
(***************************************************************************)
(* The steps of load_asset, in their order: the metadata, the bytes, the   *)
(* sidecar.                                                                *)
(***************************************************************************)
BytesFirst == <<"bytes", "metadata", "sidecar">>

load_asset == <<"metadata", "bytes", "sidecar">>

Synchronous == {"lookup"} \cup {load_asset[i] : i \in 1..3}

Steps3(pc) == CHOOSE i \in 1..3 : load_asset[i] = pc

FollowingStep(pc) == IF pc = "lookup" THEN load_asset[1] ELSE load_asset[Steps3(pc) + 1]

(***************************************************************************)
(* A worker's thread is free for r unless another lookup holds it.         *)
(***************************************************************************)
ThreadFree(r) ==
  \A q \in PageReqs \ {r} : preq[q].pc \in Synchronous => preq[q].host # preq[r].host

Put(r, rec) ==
  /\ preq' = [preq EXCEPT ![r] = rec]
  /\ UNCHANGED <<file, sidecar>>

Respond(r, from, status) ==
  Put(r, [pc |-> "answered", from |-> from, status |-> status])

(***************************************************************************)
(* lookup_key: only pages map to a file; /_next/, /api/ and paths with ..  *)
(* or a backslash ("reserved") do not.                                     *)
(***************************************************************************)
lookup_key(path) == path \in Pages

(***************************************************************************)
(* build_router: /_next/static is served without a fallback, public/ falls *)
(* back to the prerendered pages and these to the isolates; ServeDir       *)
(* handles GET and HEAD only.                                              *)
(***************************************************************************)
build_router(path, method) ==
  CASE path = "chunk" -> "static"
    [] path = "image" -> "image"
    [] path = "public" /\ method = "GET" -> "public"
    [] lookup_key(path) /\ method = "GET" -> "lookup"
    [] OTHER -> "dynamic"

next_static_only(method) == IF method = "GET" THEN {200, 404} ELSE {405}

(***************************************************************************)
(* A request arrives at a worker's router.                                 *)
(***************************************************************************)
Receive(r) ==
  /\ preq[r] = Idle
  /\ \E h \in Hosts, path \in Paths, method \in {"GET", "POST"}, rsc \in BOOLEAN :
       LET route == build_router(path, method)
       IN  CASE route \in {"static", "public", "image"} ->
                  \E status \in CASE route = "static" -> next_static_only(method)
                                  [] route = "public" -> {200, 404}
                                  [] route = "image" -> {0} :
                    Respond(r, route, status)
             [] route = "lookup" ->
                  Put(r, [pc |-> "queued", host |-> h, key |-> <<path, rsc>>])
             [] route = "dynamic" -> Put(r, [pc |-> "dynamic"])
  /\ UNCHANGED pcache

BeginLookup(r) ==
  /\ preq[r].pc = "queued" /\ ThreadFree(r)
  /\ Put(r, [pc |-> "lookup", host |-> preq[r].host, key |-> preq[r].key,
             start |-> file[preq[r].key], stat |-> Idle, bytes |-> Idle])
  /\ UNCHANGED pcache

Cached(h) == DOMAIN pcache[h]

file_matches(h, k) ==
  /\ file[k].ver > 0
  /\ file[k].stamp = pcache[h][k].stamp

(***************************************************************************)
(* resolve_asset: a cached asset whose mtime and size are those of the     *)
(* file is served; anything else is loaded again, and the table dropped    *)
(* whole when it is full.                                                  *)
(***************************************************************************)
ServeAsset(r, asset) ==
  Put(r, [pc |-> "answered", from |-> "prerender", status |-> 200, asset |-> asset])

LookUp(r) ==
  LET h == preq[r].host
      k == preq[r].key
  IN  /\ preq[r].pc = "lookup"
      /\ IF k \in Cached(h) /\ file_matches(h, k)
         THEN ServeAsset(r, pcache[h][k])
         ELSE Put(r, [preq[r] EXCEPT !.pc = FollowingStep("lookup")])
      /\ UNCHANGED pcache

(***************************************************************************)
(* A file that is missing, at either step, sends the request on to the     *)
(* isolates.                                                               *)
(***************************************************************************)
ReadFile(r, step, field) ==
  /\ preq[r].pc = step
  /\ IF file[preq[r].key].ver = 0
     THEN Put(r, [pc |-> "dynamic"])
     ELSE Put(r, [preq[r] EXCEPT !.pc = FollowingStep(step), ![field] = file[preq[r].key]])
  /\ UNCHANGED pcache

Metadata(r) == ReadFile(r, "metadata", "stat")

ReadBytes(r) == ReadFile(r, "bytes", "bytes")

load_meta_headers(k) == sidecar[k[1]]

CachePage(r) ==
  LET h == preq[r].host
      k == preq[r].key
      q == preq[r]
      fresh == [ver |-> q.bytes.ver, whole |-> q.bytes.whole, stamp |-> q.stat.stamp,
                size |-> [ver |-> q.stat.ver, whole |-> q.stat.whole],
                headers |-> load_meta_headers(k)]
      kept == IF Cardinality(Cached(h)) >= CACHE_CAPACITY THEN {} ELSE Cached(h)
  IN  /\ preq[r].pc = "sidecar"
      /\ pcache' = [pcache EXCEPT
                      ![h] = [j \in kept \cup {k} |-> IF j = k THEN fresh ELSE @[j]]]
      /\ ServeAsset(r, fresh)

-----------------------------------------------------------------------------
(***************************************************************************)
(* The bridge to the isolates: the body is collected first, then the       *)
(* request is dispatched and its outcome made a response.                  *)
(***************************************************************************)
DispatchErrors == {"bad_request", "worker_gone", "no_response", "body_read", "handler"}

error_response(err) ==
  CASE err = "bad_request" -> 400
    [] err \in {"worker_gone", "no_response"} -> 503
    [] OTHER -> 502

build_proto_request == {"ok", "body_read"}

payload_to_response(status) == IF status \in 100..999 THEN status ELSE 502

HandleDynamic(r) ==
  /\ preq[r].pc = "dynamic"
  /\ \E body \in build_proto_request :
       IF body # "ok" THEN Respond(r, "bridge", error_response(body))
       ELSE Put(r, [preq[r] EXCEPT !.pc = "dispatched"])
  /\ UNCHANGED pcache

Dispatched(r) ==
  /\ preq[r].pc = "dispatched"
  /\ \/ \E status \in {0, 200} : Respond(r, "isolate", payload_to_response(status))
     \/ \E err \in DispatchErrors : Respond(r, "bridge", error_response(err))
  /\ UNCHANGED pcache

(***************************************************************************)
(* The connection carries the next request.                                *)
(***************************************************************************)
NextRequest(r) ==
  /\ preq[r].pc = "answered"
  /\ Put(r, Idle)
  /\ UNCHANGED pcache

PageNext ==
  \/ \E k \in Keys : BeginRewrite(k) \/ EndRewrite(k)
  \/ \E p \in Pages : RewriteSidecar(p)
  \/ \E r \in PageReqs :
       \/ Receive(r) \/ BeginLookup(r) \/ LookUp(r)
       \/ Metadata(r) \/ ReadBytes(r) \/ CachePage(r)
       \/ HandleDynamic(r) \/ Dispatched(r) \/ NextRequest(r)

-----------------------------------------------------------------------------
(***************************************************************************)
(* Whatever was cached during earlier rewrites, a page that is not being   *)
(* rewritten while it is looked up is answered with the bytes now in its   *)
(* file, whole, under the content length of these bytes.  This rests on    *)
(* load_asset taking the metadata it caches before the bytes.              *)
(***************************************************************************)
SettledPageIsCurrent ==
  [][\A r \in PageReqs :
       /\ preq[r].pc # "answered" /\ preq'[r].pc = "answered"
       /\ preq'[r].from = "prerender"
       /\ preq[r].start = file[preq[r].key]
       => LET now == [ver |-> file[preq[r].key].ver, whole |-> file[preq[r].key].whole]
          IN  /\ preq'[r].asset.size = now
              /\ preq'[r].asset.ver = now.ver /\ preq'[r].asset.whole = now.whole]_pageVars
=============================================================================
