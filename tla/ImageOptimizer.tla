--------------------------- MODULE ImageOptimizer ---------------------------
(***************************************************************************)
(* The /_next/image route (src/image/handler.rs, pipeline.rs, config.rs,   *)
(* cache.rs, memory.rs): a request is validated, its source resolved, and  *)
(* a variant of it served from the worker's memory cache, from the disk    *)
(* cache all workers share, or made anew.                                  *)
(*                                                                         *)
(* A worker runs its handlers on one thread: they interleave where they    *)
(* await (the fetch, the encoding) and otherwise only with other workers,  *)
(* through the disk.  A file is a directory entry and an inode; request r  *)
(* creates at most the inode r.                                            *)
(***************************************************************************)
EXTENDS Integers, Sequences, FiniteSets, SequencesExt

CONSTANTS
  ImgReqs,     \* requests
  ImgHosts,    \* workers
  Sources,     \* per url, what the source is (a record, see ImgAssumption)
  ImageConfigs,\* the configurations a server may have been built with
  MaxEntries,  \* max_entries of the memory cache
  MaxBytes,    \* max_bytes of it
  Widths, Qualities, \* the widths and qualities asked for
  Accepts,     \* the sets of formats clients accept
  UpstreamAges,\* max-age values of upstream answers, in ms
  MaxClock,    \* bound: milliseconds that pass
  MaxCrashes   \* bound: times the server is killed

Urls == DOMAIN Sources

OutputFormats == {"webp", "jpeg", "png"}

SourceFormats ==
  {"jpeg", "png", "gif", "webp", "svg", "bmp", "ico", "icns", "heic", "jxl", "avif", "unknown"}

ASSUME ImgAssumption ==
  /\ \A u \in Urls : /\ Sources[u].place \in {"local", "remote"}
                     /\ Sources[u].format \in SourceFormats
                     /\ Sources[u].size \in Nat \ {0}
                     /\ Sources[u].admitted \in BOOLEAN
  /\ \A c \in ImageConfigs : /\ c.unoptimized \in BOOLEAN /\ c.allow_svg \in BOOLEAN
                             /\ c.loader \in {"default", "custom"}
                             /\ c.device_sizes \cup c.image_sizes \subseteq Nat
                             /\ c.qualities \subseteq Nat
                             /\ c.formats \in Seq(SourceFormats)
                             /\ c.ttl \in Nat /\ c.redirects \in Nat
  /\ UpstreamAges \cup Widths \cup Qualities \subseteq Nat
  /\ Accepts \subseteq SUBSET SourceFormats
  /\ MaxEntries \in Nat /\ MaxBytes \in Nat /\ MaxClock \in Nat /\ MaxCrashes \in Nat

VARIABLES
  ireq,    \* the requests
  config,  \* the configuration
  mem,     \* per worker: the hot entries and the bytes counted
  full,    \* per request, whether the file it created holds a whole image
  wrote,   \* per request, the file names it opened for writing
  tmp,     \* directory entries with extension .tmp
  final,   \* directory entries under their own name
  now,     \* the clock, in ms
  crashes

imageVars == <<ireq, config, mem, full, wrote, tmp, final, now, crashes>>

Nobody == "nobody"

ImgIdle == [pc |-> "idle"]

CacheKeys == Urls \X OutputFormats

(***************************************************************************)
(* A file name holds the expiry and the etag, which the key determines     *)
(* while the source does not change.                                       *)
(***************************************************************************)
EmptyMem == [lru |-> <<>>, bytes |-> 0]

from_app_dir == ImageConfigs

ImageInit ==
  /\ ireq = [r \in ImgReqs |-> ImgIdle]
  /\ config \in from_app_dir
  /\ mem = [h \in ImgHosts |-> EmptyMem]
  /\ full = [r \in ImgReqs |-> FALSE] /\ wrote = [r \in ImgReqs |-> {}]
  /\ tmp = <<>> /\ final = <<>>
  /\ now = 0 /\ crashes = 0

diskVars == <<full, wrote, tmp, final>>

SizeOf(key) == Sources[key[1]].size

-----------------------------------------------------------------------------
(***************************************************************************)
(* MemCache: the entries in the order of their last use (the code numbers  *)
(* the uses); the bytes are counted as entries come and go.                *)
(***************************************************************************)
Hot(m, key) == {i \in DOMAIN m.lru : m.lru[i].key = key}

Entry(m, key) == m.lru[CHOOSE i \in Hot(m, key) : TRUE]

Others(m, key) ==
  IF Hot(m, key) = {} THEN m.lru
  ELSE RemoveAt(m.lru, CHOOSE i \in Hot(m, key) : TRUE)

get(m, key) ==
  IF Hot(m, key) = {} THEN m ELSE [m EXCEPT !.lru = Append(Others(m, key), Entry(m, key))]

(***************************************************************************)
(* evict: the least recently used entries go until both limits are met, or *)
(* nothing is left.                                                        *)
(***************************************************************************)
Total(es) ==
  LET sum[n \in 0..Len(es)] == IF n = 0 THEN 0 ELSE sum[n - 1] + es[n].size
  IN  sum[Len(es)]

evict(m) ==
  LET n == Len(m.lru)
      After(d) == m.bytes - Total(SubSeq(m.lru, 1, d))
      Enough == {d \in 0..n : d = n \/ (n - d <= MaxEntries /\ After(d) <= MaxBytes)}
      d == Min(Enough)
  IN  [lru |-> SubSeq(m.lru, d + 1, n), bytes |-> After(d)]

ForgetsReplaced(m, entry) ==
  evict([lru |-> Append(Others(m, entry.key), entry), bytes |-> m.bytes + entry.size])

put(m, entry) ==
  LET replaced == IF Hot(m, entry.key) = {} THEN 0 ELSE Entry(m, entry.key).size
  IN  evict([lru |-> Append(Others(m, entry.key), entry),
             bytes |-> (m.bytes - replaced) + entry.size])

HotEntry(key, damage) == [key |-> key, size |-> SizeOf(key), damage |-> damage]

With(f, k, v) == [j \in DOMAIN f \cup {k} |-> IF j = k THEN v ELSE f[j]]

Without(f, k) == [j \in DOMAIN f \ {k} |-> f[j]]

-----------------------------------------------------------------------------
(***************************************************************************)
(* Choosing the format of the answer.  accept is the set of formats the    *)
(* client accepts.                                                         *)
(***************************************************************************)
from_mime(f) == f \in OutputFormats

FirstIn(S, formats) ==
  LET I == {i \in DOMAIN formats : formats[i] \in S}
  IN  IF I = {} THEN "none" ELSE formats[Min(I)]

FirstConfigured(accept, formats) == IF formats = <<>> THEN "none" ELSE formats[1]

preselect_output(accept, formats) ==
  FirstIn(accept \cap OutputFormats, formats)

negotiate_accept(accept, formats) == FirstIn(accept, formats)

choose_output(source, accept, formats) ==
  LET negotiated == negotiate_accept(accept, formats)
  IN  IF from_mime(negotiated) THEN negotiated
      ELSE IF source \in {"webp", "png"} THEN source ELSE "jpeg"

is_bypass(f) == f \in {"svg", "bmp", "ico", "icns", "heic", "jxl"}

-----------------------------------------------------------------------------
(***************************************************************************)
(* The handler.  It awaits at "fetch" and "encode" only: elsewhere it      *)
(* holds its worker's thread.                                              *)
(***************************************************************************)
Holding == {"resolve", "sniff", "create_tmp", "fill_tmp", "rename"}

ThreadIsFree(r, h) ==
  \A q \in ImgReqs \ {r} : ireq[q].pc \in Holding => ireq[q].host # h

Fail(r) == ireq' = [ireq EXCEPT ![r] = [pc |-> "failed"]]

(***************************************************************************)
(* serve_hot and serve_bypass.  An entry past its expiry is marked STALE   *)
(* and served like any other; it is not made again.                        *)
(***************************************************************************)
serve_hot(r, q, fmt, damage) ==
  ireq' = [ireq EXCEPT ![r] = [pc |-> "answered", url |-> q.url, accept |-> q.accept,
                                fmt |-> fmt, damage |-> damage]]

serve_bypass(r, q) == serve_hot(r, q, Sources[q.url].format, "none")

(***************************************************************************)
(* The request's parameters.  url is "plain", "recursive" (it names this   *)
(* route) or "refused" (absent, given twice, empty, too long, or starting  *)
(* with two slashes); a width or quality that is absent, given twice or    *)
(* not made of digits is 0.                                                *)
(***************************************************************************)
Params == [url : {"plain", "recursive", "refused"}, width : Widths, quality : Qualities]

allows_width(c, w) == w \in c.device_sizes \cup c.image_sizes

allows_quality(c, q) == c.qualities = {} \/ q \in c.qualities

route_enabled(c) == c.loader = "default" /\ ~ c.unoptimized

parse(c, p) ==
  /\ p.url # "refused"
  /\ p.width >= 1 /\ allows_width(c, p.width)
  /\ p.quality \in 1..100 /\ allows_quality(c, p.quality)

Admits(c, method, p) ==
  /\ method \in {"GET", "HEAD"} /\ route_enabled(c)
  /\ parse(c, p) /\ p.url # "recursive"

Validate(c) == {Admits(c, m, p) : m \in {"GET", "HEAD", "POST"}, p \in Params}

(***************************************************************************)
(* A request is validated and, when the client's formats decide the key,   *)
(* looked up in memory before its source is touched.                       *)
(***************************************************************************)
Arrive(r) ==
  /\ ireq[r] = ImgIdle
  /\ \E h \in ImgHosts, u \in Urls, accept \in Accepts, v \in Validate(config) :
       LET q   == [pc |-> "resolve", host |-> h, url |-> u, accept |-> accept,
                   left |-> config.redirects, age |-> 0]
           fmt == preselect_output(accept, config.formats)
           key == <<u, fmt>>
       IN  /\ ThreadIsFree(r, h)
           /\ IF ~ v THEN Fail(r) /\ UNCHANGED mem
              ELSE IF fmt = "none"
              THEN ireq' = [ireq EXCEPT ![r] = q] /\ UNCHANGED mem
              ELSE /\ mem' = [mem EXCEPT ![h] = get(@, key)]
                   /\ IF Hot(mem[h], key) # {}
                      THEN serve_hot(r, q, fmt, Entry(mem[h], key).damage)
                      ELSE ireq' = [ireq EXCEPT ![r] = q]
  /\ UNCHANGED <<config, diskVars, now, crashes>>

(***************************************************************************)
(* resolve_source: a url the patterns do not admit is refused; a local one *)
(* is read, a remote one fetched.                                          *)
(***************************************************************************)
resolve_source(r) ==
  LET q == ireq[r]
      s == Sources[q.url]
  IN  /\ q.pc = "resolve" /\ ThreadIsFree(r, q.host)
      /\ IF ~ s.admitted THEN Fail(r)
         ELSE IF s.place = "local"
         THEN \/ ireq' = [ireq EXCEPT ![r].pc = "sniff"]
              \/ Fail(r)
         ELSE ireq' = [ireq EXCEPT ![r].pc = "fetch"]
      /\ UNCHANGED <<config, mem, diskVars, now, crashes>>

(***************************************************************************)
(* fetch_remote awaits the upstream's answer; it follows as many redirects *)
(* as the configuration allows, and fails for one more, on a timeout, an   *)
(* error status, or a body that is empty or too large.  The upstream's     *)
(* Cache-Control may ask for a longer life than the configured.            *)
(***************************************************************************)
fetch_remote(r) ==
  LET q == ireq[r]
  IN  /\ q.pc = "fetch" /\ ThreadIsFree(r, q.host)
      /\ \/ \E age \in UpstreamAges : ireq' = [ireq EXCEPT ![r].pc = "sniff", ![r].age = age]
         \/ Fail(r)
         \/ q.left > 0 /\ ireq' = [ireq EXCEPT ![r].left = @ - 1]
      /\ UNCHANGED <<config, mem, diskVars, now, crashes>>

(***************************************************************************)
(* cache::read: the entry of the key that expires last, whatever its file  *)
(* holds; names that end in .tmp do not parse.                             *)
(***************************************************************************)
EntriesOf(key) == {n \in DOMAIN final : n.key = key}

Latest(key) == CHOOSE n \in EntriesOf(key) : \A m \in EntriesOf(key) : m.exp <= n.exp

(***************************************************************************)
(* What is wrong with the bytes read from a file: nothing, a write that    *)
(* was not finished ("torn"), or that of another writer of its name        *)
(* ("raced").                                                              *)
(***************************************************************************)
Raced(n) == \E q, r \in ImgReqs : q # r /\ n \in wrote[q] /\ n \in wrote[r]

Damage(n) == IF full[final[n]] THEN "none" ELSE IF Raced(n) THEN "raced" ELSE "torn"

(***************************************************************************)
(* The source is there: what is no image is refused, what is served as it  *)
(* is bypasses the caches, the rest is looked up under the chosen format,  *)
(* in memory and then on disk.                                             *)
(***************************************************************************)
Sniff(r) ==
  LET q   == ireq[r]
      h   == q.host
      src == Sources[q.url].format
      fmt == choose_output(src, q.accept, config.formats)
      key == <<q.url, fmt>>
      m   == get(mem[h], key)
  IN  /\ q.pc = "sniff" /\ ThreadIsFree(r, h)
      /\ \/ /\ src = "unknown" \/ (src = "svg" /\ ~ config.allow_svg)
            /\ Fail(r) /\ UNCHANGED mem
         \/ /\ is_bypass(src) /\ (src = "svg" => config.allow_svg)
            /\ serve_bypass(r, q) /\ UNCHANGED mem
         \/ /\ src # "unknown" /\ ~ is_bypass(src)
            /\ \/ /\ Hot(m, key) # {}
                  /\ serve_hot(r, q, fmt, Entry(m, key).damage)
                  /\ mem' = [mem EXCEPT ![h] = m]
               \/ /\ Hot(m, key) = {} /\ EntriesOf(key) # {}
                  /\ LET damage == Damage(Latest(key))
                     IN  /\ serve_hot(r, q, fmt, damage)
                         /\ mem' = [mem EXCEPT ![h] = put(m, HotEntry(key, damage))]
               \/ /\ Hot(m, key) = {} /\ EntriesOf(key) = {}
                  /\ ireq' = [ireq EXCEPT ![r] = [pc |-> "encode", host |-> h, url |-> q.url,
                                                  accept |-> q.accept, fmt |-> fmt,
                                                  life |-> Max({config.ttl, q.age})]]
                  /\ mem' = [mem EXCEPT ![h] = m]
      /\ UNCHANGED <<config, diskVars, now, crashes>>

(***************************************************************************)
(* produce_optimized runs on the blocking pool and may fail to decode, to  *)
(* resize or to encode, or panic.  Then the entry gets its expiry, and     *)
(* with it its file name.                                                  *)
(***************************************************************************)
produce_optimized == {"ok", "undecodable", "unencodable"}

Encoded(r) ==
  LET q == ireq[r]
  IN  /\ q.pc = "encode" /\ ThreadIsFree(r, q.host)
      /\ \E out \in produce_optimized :
           IF out # "ok" THEN Fail(r)
           ELSE ireq' = [ireq EXCEPT ![r] =
                  [pc |-> "create_tmp", host |-> q.host, url |-> q.url, accept |-> q.accept,
                   fmt |-> q.fmt,
                   name |-> [key |-> <<q.url, q.fmt>>, life |-> q.life, exp |-> now + q.life]]]
      /\ UNCHANGED <<config, mem, diskVars, now, crashes>>

(***************************************************************************)
(* cache::write: the bytes go to the .tmp neighbour, which is then renamed *)
(* to the name.  Opening an existing file truncates the inode it has.      *)
(* When a step fails the image is served all the same.                     *)
(***************************************************************************)
ServeMade(r) ==
  LET q == ireq[r]
      key == q.name.key
  IN  /\ mem' = [mem EXCEPT ![q.host] = put(@, HotEntry(key, "none"))]
      /\ serve_hot(r, q, q.fmt, "none")

Open(r, i) ==
  /\ full' = [full EXCEPT ![i] = FALSE]
  /\ wrote' = [wrote EXCEPT ![r] = {ireq[r].name}]
  /\ ireq' = [ireq EXCEPT ![r] = [pc |-> "fill_tmp", host |-> @.host, url |-> @.url,
                                  accept |-> @.accept, fmt |-> @.fmt, name |-> @.name,
                                  fd |-> i]]
  /\ UNCHANGED mem

InPlace(r) ==
  /\ ireq[r].pc = "create_tmp"
  /\ Open(r, r)
  /\ tmp' = With(tmp, ireq[r].name, r) /\ final' = With(final, ireq[r].name, r)
  /\ UNCHANGED <<config, now, crashes>>

CreateTmp(r) ==
  LET n == ireq[r].name
      i == IF n \in DOMAIN tmp THEN tmp[n] ELSE r
  IN  /\ ireq[r].pc = "create_tmp"
      /\ \/ Open(r, i) /\ tmp' = With(tmp, n, i)
         \/ ServeMade(r) /\ UNCHANGED <<full, wrote, tmp>>
      /\ UNCHANGED <<config, final, now, crashes>>

FillTmp(r) ==
  LET q == ireq[r]
  IN  /\ q.pc = "fill_tmp"
      /\ \/ /\ full' = [full EXCEPT ![q.fd] = TRUE]
            /\ ireq' = [ireq EXCEPT ![r].pc = "rename"]
            /\ UNCHANGED mem
         \/ ServeMade(r) /\ UNCHANGED full
      /\ UNCHANGED <<config, wrote, tmp, final, now, crashes>>

Rename(r) ==
  LET q == ireq[r]
      n == q.name
  IN  /\ q.pc = "rename"
      /\ IF n \in DOMAIN tmp
         THEN final' = With(final, n, tmp[n]) /\ tmp' = Without(tmp, n)
         ELSE UNCHANGED <<final, tmp>>
      /\ ServeMade(r)
      /\ UNCHANGED <<config, full, wrote, now, crashes>>

-----------------------------------------------------------------------------
Tick ==
  /\ now < MaxClock /\ now' = now + 1
  /\ UNCHANGED <<ireq, config, mem, diskVars, crashes>>

(***************************************************************************)
(* The server is killed and started again: the memory is gone, the disk as *)
(* it was left.                                                            *)
(***************************************************************************)
Crash ==
  /\ crashes < MaxCrashes /\ crashes' = crashes + 1
  /\ ireq' = [r \in ImgReqs |-> IF ireq[r].pc \in {"idle", "answered"} THEN ireq[r]
                                ELSE [pc |-> "failed"]]
  /\ mem' = [h \in ImgHosts |-> EmptyMem]
  /\ UNCHANGED <<config, diskVars, now>>

ImageNext ==
  \/ \E r \in ImgReqs :
       \/ Arrive(r) \/ resolve_source(r) \/ fetch_remote(r) \/ Sniff(r) \/ Encoded(r)
       \/ CreateTmp(r) \/ FillTmp(r) \/ Rename(r)
  \/ Tick \/ Crash

-----------------------------------------------------------------------------
(***************************************************************************)
(* The bytes MemCache counts are those it holds, and both limits are kept, *)
(* however lookups, replacements by two misses of one key, reads from disk *)
(* and evictions (of an entry larger than the whole cache, too) mix.       *)
(***************************************************************************)
MemoryAccounted ==
  \A h \in ImgHosts :
    LET m == mem[h]
    IN  /\ m.bytes = Total(m.lru)
        /\ m.bytes <= MaxBytes /\ Len(m.lru) <= MaxEntries

(***************************************************************************)
(* cache::write publishes an image with one rename: no answer is made from *)
(* a file that is partly written, not even after the server was killed in  *)
(* the middle of writing it.  The exception is two requests that made the  *)
(* same variant in the same millisecond: they share the .tmp file.         *)
(***************************************************************************)
NoTornImage ==
  \A r \in ImgReqs : ireq[r].pc = "answered" => ireq[r].damage # "torn"

(***************************************************************************)
(* Vary: Accept.  What a client gets for a url depends on the url and on   *)
(* what it accepts, not on which cache answers: the early lookup in memory *)
(* serves the format that the full path would choose, if every configured  *)
(* format is one the pipeline can write.                                   *)
(***************************************************************************)
FormatIsNegotiated ==
  \A r \in ImgReqs :
    LET q == ireq[r]
    IN  q.pc = "answered" /\ q.fmt \in OutputFormats
          => \/ q.fmt = choose_output(Sources[q.url].format, q.accept, config.formats)
             \/ \E i \in DOMAIN config.formats : ~ from_mime(config.formats[i])
=============================================================================
