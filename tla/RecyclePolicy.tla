---------------------------- MODULE RecyclePolicy ----------------------------
(***************************************************************************)
(* When a pool retires a worker (src/pool/recycle.rs): the any-of          *)
(* composite of up to four policies that both pools build from the         *)
(* NEXIDE_REAP_* variables.  Ratios are percentages; a variable that is    *)
(* absent or does not parse is Unset.                                      *)
(***************************************************************************)
EXTENDS Integers

CONSTANTS
  HeapRatio,     \* NEXIDE_REAP_HEAP_RATIO
  RequestLimit,  \* NEXIDE_REAP_AFTER_REQUESTS
  HeapCap,       \* NEXIDE_REAP_HEAP_MB
  RssCap,        \* NEXIDE_REAP_RSS_MB
  HeapLimit,     \* the heap limit V8 reports
  HeapSizes,     \* used-heap sizes V8 may report
  RssSamples     \* what the process sampler may return

Unset == -1

Setting == Nat \cup {Unset}

ASSUME PolicyAssumption ==
  /\ HeapRatio \in Setting /\ RequestLimit \in Setting
  /\ HeapCap \in Setting /\ RssCap \in Setting
  /\ HeapLimit \in Nat /\ HeapSizes \subseteq Nat /\ RssSamples \subseteq Setting

WorkerHealth == [used : Nat, limit : Nat, requests_handled : Nat]

fresh == [used |-> 0, limit |-> 0, requests_handled |-> 0]

(***************************************************************************)
(* The four policies.  The sampler may have no value to offer.             *)
(***************************************************************************)
Clamp(ratio) == IF ratio > 100 THEN 100 ELSE ratio

HeapThreshold(ratio, h) == h.limit # 0 /\ h.used * 100 > Clamp(ratio) * h.limit

RequestCount(max, h) == h.requests_handled >= max

HeapBytes(max, h) == h.used > max

ProcessRss(max, rss) == rss # Unset /\ rss > max

(***************************************************************************)
(* build_default_recycle_policy_with: the ratio and the request count have *)
(* defaults, and 0 leaves a policy out.                                    *)
(***************************************************************************)
OrDefault(setting, default) == IF setting = Unset THEN default ELSE setting

should_recycle(h, rss) ==
  LET ratio == OrDefault(HeapRatio, 80)
      requests == OrDefault(RequestLimit, 50000)
  IN  \/ ratio > 0 /\ HeapThreshold(ratio, h)
      \/ requests > 0 /\ RequestCount(requests, h)
      \/ HeapCap > 0 /\ HeapBytes(HeapCap, h)
      \/ RssCap > 0 /\ ProcessRss(RssCap, rss)
=============================================================================
