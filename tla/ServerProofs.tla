---------------------------- MODULE ServerProofs ----------------------------
(***************************************************************************)
(* What holds of the server for every number of workers, every mailbox     *)
(* capacity, every disk and every environment: the bundle that is served   *)
(* is one build, the sizing keeps to the memory budget, a stop leaves no   *)
(* worker and no connection behind, and the accept loop drops a connection *)
(* only when it has to.                                                    *)
(***************************************************************************)
EXTENDS Server, FiniteSetTheorems, TLAPS

-----------------------------------------------------------------------------
(***************************************************************************)
(* Startup: the first existing candidate of one and of two, and what a     *)
(* settled layout is.                                                      *)
(***************************************************************************)
LEMMA FirstOfOne ==
  ASSUME NEW d, NEW role, Candidates(<<d>>, role) # {}
  PROVE  first_existing(<<d>>, role) = d
<1>1. Candidates(<<d>>, role) = {1}
  BY DEF Candidates
<1>2. \A i \in {1} : (\A j \in {1} : i <= j) => <<d>>[i] = d
  OBVIOUS
<1>3. \E i \in {1} : \A j \in {1} : i <= j
  OBVIOUS
<1> QED BY <1>1, <1>2, <1>3 DEF first_existing

(***************************************************************************)
(* The second candidate is taken only when the first does not exist.       *)
(***************************************************************************)
LEMMA FirstOfTwo ==
  ASSUME NEW d, NEW e, NEW role, Candidates(<<d, e>>, role) # {}
  PROVE  LET found == first_existing(<<d, e>>, role)
         IN  found = d \/ (found = e /\ ~ Exists(d, role))
<1> DEFINE C == Candidates(<<d, e>>, role)
           n == CHOOSE i \in C : \A j \in C : i <= j
<1>1. C \subseteq {1, 2} /\ (1 \in C <=> Exists(d, role))
  BY DEF Candidates
<1>2. \E i \in C : \A j \in C : i <= j
  <2>1. CASE 1 \in C
    BY <1>1, <2>1
  <2>2. CASE 1 \notin C
    BY <1>1, <2>2
  <2> QED BY <2>1, <2>2
<1>3. n \in C /\ \A j \in C : n <= j
  BY <1>2
<1>4. n = 1 \/ (n = 2 /\ ~ Exists(d, role))
  BY <1>1, <1>3
<1>5. first_existing(<<d, e>>, role) = <<d, e>>[n]
  BY DEF first_existing
<1> HIDE DEF n
<1> QED BY <1>4, <1>5

(***************************************************************************)
(* The serving shapes: the pages come from where the entrypoint is, or     *)
(* from the root when the entrypoint's own directory has none.             *)
(***************************************************************************)
Settled(cfg) ==
  /\ Exists(cfg.server_js, "server_js")
  /\ Exists(cfg.app_dir, "app_dir") /\ Exists(cfg.static, "static")
  /\ \/ cfg.app_dir = cfg.server_js
     \/ cfg.app_dir = "root" /\ ~ Exists(cfg.server_js, "app_dir")

LEMMA SettleOneBuild ==
  ASSUME NEW p, Settle(p), stage' = "resolved",
         p.app_dir = <<p.server_js>> \/ p.app_dir = <<p.server_js, "root">>
  PROVE  Settled(layout')
<1>1. /\ Exists(p.server_js, "server_js")
      /\ Candidates(p.app_dir, "app_dir") # {}
      /\ layout'.server_js = p.server_js
      /\ layout'.app_dir = first_existing(p.app_dir, "app_dir")
      /\ Exists(layout'.app_dir, "app_dir") /\ Exists(layout'.static, "static")
  BY DEF Settle, try_new
<1>2. CASE p.app_dir = <<p.server_js>>
  BY <1>1, <1>2, FirstOfOne DEF Settled
<1>3. CASE p.app_dir = <<p.server_js, "root">>
  BY <1>1, <1>3, FirstOfTwo DEF Settled
<1> QED BY <1>2, <1>3

LEMMA RunStartOneBuild ==
  ASSUME RunStart, stage' = "resolved"
  PROVE  Settled(layout')
<1>1. CASE resolve
  <2> DEFINE p == paths(detect)
  <2>1. p.app_dir = <<p.server_js>>
    <3>1. detect[1] \in {"flat", "nested", "project"}
      BY DEF detect
    <3> QED BY <3>1 DEF paths
  <2>2. Settle(p)
    BY <1>1 DEF resolve
  <2> QED BY <2>1, <2>2, SettleOneBuild
<1>2. ASSUME NEW d \in Children \cup {"root"}, from_entrypoint(d)
      PROVE  Settled(layout')
  <2> DEFINE p == [server_js |-> d, app_dir |-> alt(d), static |-> alt(d), public |-> alt(d)]
  <2>1. p.app_dir = <<p.server_js>> \/ p.app_dir = <<p.server_js, "root">>
    BY DEF alt
  <2>2. Settle(p)
    BY <1>2 DEF from_entrypoint
  <2> QED BY <2>1, <2>2, SettleOneBuild
<1> QED BY <1>1, <1>2 DEF RunStart

(***************************************************************************)
(* Sizing.  The pool that fits the budget, with one isolate to spare.      *)
(***************************************************************************)
LEMMA Quotient ==
  ASSUME NEW m \in Nat, NEW n \in Nat \ {0}
  PROVE  m \div n \in Nat /\ (m \div n) * n <= m
OBVIOUS

LEMMA PoolFits ==
  ASSUME NEW b \in Nat, NEW p \in Nat \ {0}, NEW cpus \in Nat \ {0},
         NEW n, n = AtMost(pool_size_from_memory_budget(b, p), cpus)
  PROVE  n \in Nat \ {0} /\ (n > 1 => (n + 1) * p <= b)
<1> DEFINE q == AtLeast(b - p, 0) \div p
<1>1. AtLeast(b - p, 0) \in Nat /\ (b >= p => AtLeast(b - p, 0) = b - p)
      /\ (b < p => AtLeast(b - p, 0) = 0)
  BY DEF AtLeast
<1>2. q \in Nat /\ q * p <= AtLeast(b - p, 0)
  BY <1>1, Quotient
<1>3. n = AtMost(AtLeast(q, 1), cpus)
  BY DEF pool_size_from_memory_budget, AtLeast
<1> HIDE DEF q
<1>4. n \in Nat \ {0} /\ (n > 1 => n <= q)
  BY <1>2, <1>3 DEF AtMost, AtLeast
<1>5. ASSUME n > 1 PROVE (n + 1) * p <= b
  <2>1. n <= q /\ q \in Nat \ {0}
    BY <1>2, <1>4, <1>5
  <2>2. n * p <= q * p
    BY <1>4, <2>1
  <2>3. q * p >= p
    BY <2>1
  <2>4. q * p \in Nat /\ n * p \in Nat /\ (n + 1) * p = n * p + p
    BY <1>4, <2>1
  <2>5. AtLeast(b - p, 0) = b - p /\ b >= p
    BY <1>1, <1>2, <2>3, <2>4
  <2> QED BY <1>2, <2>2, <2>4, <2>5
<1> QED BY <1>4, <1>5

LEMMA EnvNumbers ==
  ASSUME NEW raw \in EnvValue
  PROVE  mb_from_env(raw) \in (Nat \ {0}) \cup {Absent}
BY DEF EnvValue, mb_from_env, Absent, Garbage

LEMMA SizingHonours ==
  ASSUME ServeApp
  PROVE  BudgetHonoured'
<1> USE DEF Absent
<1>1. PICK p \in PoolSizes, b \in Budgets, i \in PerIsolate, g \in Cgroups, c \in Cpus,
           m \in {"single", "multi", "auto"} :
        LET env == EnvFor(p, b, i, g, c, m)
        IN  sizing' = [env |-> env, workers |-> WorkerCountFor(env),
                       cap |-> OldSpaceCap(cgroup_memory_limit_mb(g), WorkerCountFor(env))]
  BY DEF ServeApp
<1> DEFINE env == EnvFor(p, b, i, g, c, m)
           n == WorkerCountFor(env)
           B == Budget(env)
           P == PerIsolateMb(env)
<1>2. /\ p \in EnvValue /\ b \in EnvValue /\ i \in EnvValue
      /\ g \in Nat \cup {Absent} /\ c \in (Nat \ {0}) \cup {Absent}
  BY StartupAssumption
<1>3. /\ env.pool_size = p /\ env.budget = b /\ env.per_isolate = i
      /\ env.cgroup = g /\ env.cpus = c /\ env.mode = m
  BY DEF EnvFor
<1>4. B \in (Nat \ {0}) \cup {Absent}
  <2>1. cgroup_memory_limit_mb(g) \in (Nat \ {0}) \cup {Absent}
    <3>1. CASE g \in 1..(HOST_SCALE_THRESHOLD_MB - 1)
      <4>1. g \in Nat \ {0}
        <5>1. HOST_SCALE_THRESHOLD_MB \in Int
          BY DEF HOST_SCALE_THRESHOLD_MB
        <5> QED BY <3>1, <5>1
      <4> QED BY <3>1, <4>1 DEF cgroup_memory_limit_mb
    <3>2. CASE ~ (g \in 1..(HOST_SCALE_THRESHOLD_MB - 1))
      BY <3>2 DEF cgroup_memory_limit_mb
    <3> QED BY <3>1, <3>2
  <2> QED BY <1>2, <1>3, <2>1, EnvNumbers DEF Budget, OrElse
<1>5. P \in Nat \ {0}
  BY <1>2, <1>3, EnvNumbers DEF PerIsolateMb, OrElse, DEFAULT_HEAP_PER_ISOLATE_MB
<1>6. detected_pool_size(c) \in Nat \ {0}
  BY <1>2 DEF detected_pool_size, OrElse
<1>7. mb_from_env(p) # Absent => p \in Nat \ {0}
  BY <1>2 DEF mb_from_env, EnvValue, Garbage
<1>8. /\ default_pool_size(env) \in Nat \ {0}
      /\ mb_from_env(p) = Absent /\ B # Absent /\ default_pool_size(env) > 1
           => (default_pool_size(env) + 1) * P <= B
  <2> HIDE DEF B, P, env
  <2>1. CASE mb_from_env(p) # Absent
    BY <1>3, <1>7, <2>1 DEF default_pool_size
  <2>2. CASE mb_from_env(p) = Absent /\ B = Absent
    BY <1>3, <1>6, <2>2 DEF default_pool_size, B
  <2>3. CASE mb_from_env(p) = Absent /\ B # Absent
    <3>1. default_pool_size(env)
            = AtMost(pool_size_from_memory_budget(B, P), detected_pool_size(c))
      BY <1>3, <2>3 DEF default_pool_size, B, P
    <3>2. B \in Nat
      BY <1>4, <2>3
    <3> QED BY <1>5, <1>6, <3>1, <3>2, PoolFits
  <2> QED BY <2>1, <2>2, <2>3
<1>9. n \in Nat \ {0} /\ (n = 1 \/ n = default_pool_size(env))
  BY <1>8 DEF WorkerCountFor
<1>10. mb_from_env(p) = Absent /\ B # Absent /\ n > 1 => (n + 1) * P <= B
  BY <1>8, <1>9
<1>11. OldSpaceCap(cgroup_memory_limit_mb(g), n) # Absent
         => OldSpaceCap(cgroup_memory_limit_mb(g), n) >= MIN_OLD_SPACE_CAP_MB
  <2> DEFINE limit == cgroup_memory_limit_mb(g)
  <2>1. limit \in Nat \cup {Absent}
    BY <1>2 DEF cgroup_memory_limit_mb
  <2>2. CASE limit = Absent
    BY <2>2 DEF OldSpaceCap
  <2>3. CASE limit \in Nat
    <3>1. limit \div n \in Nat
      BY <1>9, <2>3, Quotient
    <3> DEFINE raw == AtLeast((limit \div n) - NON_V8_SAFETY_MB, 0)
    <3>2. raw \in Nat
      BY <3>1 DEF AtLeast, NON_V8_SAFETY_MB
    <3>3. raw \div 2 \in Nat
      BY <3>2, Quotient
    <3>4. AtMost(raw, AtLeast(HARD_OLD_SPACE_CAP_MB, raw \div 2)) \in Nat
      <4> HIDE DEF raw
      <4> QED BY <3>2, <3>3 DEF AtMost, AtLeast, HARD_OLD_SPACE_CAP_MB
    <3>5. OldSpaceCap(limit, n)
            = AtLeast(AtMost(raw, AtLeast(HARD_OLD_SPACE_CAP_MB, raw \div 2)),
                      MIN_OLD_SPACE_CAP_MB)
      BY <2>3 DEF OldSpaceCap
    <3> HIDE DEF raw, limit
    <3> QED BY <3>4, <3>5 DEF AtLeast, MIN_OLD_SPACE_CAP_MB, limit
  <2> QED BY <2>1, <2>2, <2>3
<1>12. /\ sizing'.env = env /\ sizing'.workers = n
       /\ sizing'.cap = OldSpaceCap(cgroup_memory_limit_mb(g), n)
  BY <1>1
<1> HIDE DEF env, n, B, P
<1> QED BY <1>3, <1>9, <1>10, <1>11, <1>12 DEF BudgetHonoured, B, P

-----------------------------------------------------------------------------
(***************************************************************************)
(* Lists: what stands in a mailbox after a send and after a receive, and   *)
(* what is left of the script after a step.                                *)
(***************************************************************************)
LEMMA AppendedItem ==
  ASSUME NEW S, NEW s \in Seq(S), NEW e \in S
  PROVE  /\ Append(s, e) \in Seq(S)
         /\ ToSet(Append(s, e)) = ToSet(s) \cup {e}
<1> DEFINE q == Append(s, e)
<1>1. /\ q \in Seq(S) /\ Len(s) \in Nat /\ q[Len(s) + 1] = e
      /\ DOMAIN s = 1..Len(s) /\ DOMAIN q = 1..(Len(s) + 1)
      /\ \A i \in 1..Len(s) : q[i] = s[i]
  OBVIOUS
<1> HIDE DEF q
<1>2. ToSet(q) \subseteq ToSet(s) \cup {e}
  <2>1. ASSUME NEW i \in DOMAIN q PROVE q[i] \in ToSet(s) \cup {e}
    <3>1. CASE i = Len(s) + 1
      BY <1>1, <3>1
    <3>2. CASE i # Len(s) + 1
      <4>1. i \in 1..Len(s)
        BY <1>1, <3>2
      <4> QED BY <1>1, <4>1 DEF ToSet
    <3> QED BY <3>1, <3>2
  <2> QED BY <2>1 DEF ToSet
<1>3. ToSet(s) \cup {e} \subseteq ToSet(q)
  <2>1. e \in ToSet(q)
    <3>1. Len(s) + 1 \in DOMAIN q
      BY <1>1
    <3> QED BY <1>1, <3>1 DEF ToSet
  <2>2. ASSUME NEW i \in DOMAIN s PROVE s[i] \in ToSet(q)
    <3>1. i \in DOMAIN q /\ q[i] = s[i]
      BY <1>1
    <3> QED BY <3>1 DEF ToSet
  <2> QED BY <2>1, <2>2 DEF ToSet
<1> QED BY <1>1, <1>2, <1>3 DEF q

LEMMA TailItems ==
  ASSUME NEW S, NEW s \in Seq(S), s # <<>>
  PROVE  /\ Tail(s) \in Seq(S) /\ Len(Tail(s)) = Len(s) - 1
         /\ Head(s) = s[1] /\ Head(s) \in S
         /\ Len(s) \in Nat \ {0} /\ DOMAIN s = 1..Len(s)
         /\ DOMAIN Tail(s) = 1..(Len(s) - 1)
         /\ \A i \in 1..(Len(s) - 1) : Tail(s)[i] = s[i + 1]
OBVIOUS

LEMMA HeadThenTail ==
  ASSUME NEW S, NEW s \in Seq(S), s # <<>>
  PROVE  /\ Tail(s) \in Seq(S) /\ Head(s) \in S
         /\ ToSet(s) = {Head(s)} \cup ToSet(Tail(s))
<1> DEFINE t == Tail(s)
<1>1. /\ t \in Seq(S) /\ Head(s) = s[1] /\ Head(s) \in S
      /\ Len(s) \in Nat \ {0} /\ DOMAIN s = 1..Len(s) /\ DOMAIN t = 1..(Len(s) - 1)
      /\ \A i \in 1..(Len(s) - 1) : t[i] = s[i + 1]
  BY TailItems
<1> HIDE DEF t
<1>2. ASSUME NEW i \in DOMAIN s PROVE s[i] \in {Head(s)} \cup ToSet(t)
  <2>1. CASE i = 1
    BY <1>1, <2>1
  <2>2. CASE i # 1
    <3>1. i - 1 \in DOMAIN t /\ t[i - 1] = s[i]
      BY <1>1, <2>2
    <3> QED BY <3>1 DEF ToSet
  <2> QED BY <2>1, <2>2
<1>3. ASSUME NEW i \in DOMAIN t PROVE t[i] \in ToSet(s)
  <2>1. i + 1 \in DOMAIN s /\ s[i + 1] = t[i]
    BY <1>1
  <2> QED BY <2>1 DEF ToSet
<1>4. Head(s) \in ToSet(s)
  <2>1. 1 \in DOMAIN s
    BY <1>1
  <2> QED BY <1>1, <2>1 DEF ToSet
<1> QED BY <1>1, <1>2, <1>3, <1>4 DEF ToSet, t

LEMMA NothingListed ==
  /\ ToSet(<<>>) = {}
  /\ \A S : \A s \in Seq(S) : ToSet(s) \subseteq S
<1>1. ASSUME NEW S, NEW s \in Seq(S), NEW i \in DOMAIN s PROVE s[i] \in S
  OBVIOUS
<1> QED BY <1>1 DEF ToSet

-----------------------------------------------------------------------------
(***************************************************************************)
(* The workers of one attempt, in the order of their indices: every one of *)
(* them has a place, and no two the same.                                  *)
(***************************************************************************)
LEMMA WorkersFinite ==
  ASSUME NEW g, NEW K \in SUBSET Of(g)
  PROVE  IsFiniteSet(K) /\ Cardinality(K) \in Nat
<1> DEFINE f == [k \in K |-> k[2]]
<1>1. IsFiniteSet(Indices)
  BY FleetAssumption, FS_Interval DEF Indices
<1>2. \A k \in K : k = <<g, k[2]>> /\ k[2] \in Indices
  BY DEF Of
<1>3. f \in [K -> Indices] /\ \A j, k \in K : f[j] = f[k] => j = k
  BY <1>2
<1>4. f \in Injection(K, Indices)
  BY <1>3 DEF Injection, IsInjective
<1>5. IsFiniteSet(K)
  BY <1>1, <1>4, FS_Injection
<1> QED BY <1>5, FS_CardinalityType

LEMMA PlacesDiffer ==
  ASSUME NEW g, NEW K \in SUBSET Of(g), NEW j \in K, NEW k \in K, j[2] < k[2]
  PROVE  Place(K, j) # Place(K, k)
<1> DEFINE A == {i \in K : i[2] <= j[2]}
           B == {i \in K : i[2] <= k[2]}
<1>1. \A i \in K : i[2] \in Int
  BY FleetAssumption DEF Of, Indices
<1>2. A \subseteq B /\ k \in B /\ k \notin A
  BY <1>1
<1>3. IsFiniteSet(B)
  BY WorkersFinite, FS_Subset
<1>4. Cardinality(A) # Cardinality(B)
  BY <1>2, <1>3, FS_Subset
<1> QED BY <1>4 DEF Place

LEMMA OrderedCovers ==
  ASSUME NEW g, NEW K \in SUBSET Of(g)
  PROVE  /\ Ordered(K) \in Seq(K)
         /\ Len(Ordered(K)) \in Nat /\ DOMAIN Ordered(K) = 1..Len(Ordered(K))
         /\ \A k \in K : \E i \in 1..Len(Ordered(K)) : Ordered(K)[i] = k
<1> DEFINE n == Cardinality(K)
           f == [k \in K |-> Place(K, k)]
<1>1. IsFiniteSet(K) /\ n \in Nat
  BY WorkersFinite
<1>2. ASSUME NEW k \in K PROVE Place(K, k) \in 1..n
  <2> DEFINE A == {j \in K : j[2] <= k[2]}
  <2>1. k[2] \in Int
    BY FleetAssumption DEF Of, Indices
  <2>2. k \in A /\ A \in SUBSET K
    BY <2>1
  <2>3. IsFiniteSet(A) /\ Cardinality(A) <= n
    BY <1>1, <2>2, FS_Subset
  <2>4. Cardinality(A) \in Nat /\ Cardinality(A) # 0
    BY <2>2, <2>3, FS_CardinalityType, FS_EmptySet
  <2> QED BY <1>1, <2>3, <2>4 DEF Place
<1>3. ASSUME NEW j \in K, NEW k \in K, Place(K, j) = Place(K, k) PROVE j = k
  <2>1. j = <<g, j[2]>> /\ k = <<g, k[2]>> /\ j[2] \in Int /\ k[2] \in Int
    BY FleetAssumption DEF Of, Indices
  <2>2. ~ (j[2] < k[2]) /\ ~ (k[2] < j[2])
    BY <1>3, PlacesDiffer
  <2>3. j[2] = k[2]
    BY <2>1, <2>2
  <2> QED BY <2>1, <2>3
<1>4. f \in Injection(K, 1..n)
  BY <1>2, <1>3 DEF Injection, IsInjective
<1>5. IsFiniteSet(1..n) /\ Cardinality(1..n) = n
  <2>1. IsFiniteSet(1..n) /\ Cardinality(1..n) = IF 1 > n THEN 0 ELSE n - 1 + 1
    BY <1>1, FS_Interval
  <2> QED BY <1>1, <2>1
<1>6. f \in Surjection(K, 1..n)
  BY <1>4, <1>5, FS_Injection
<1>7. \A i \in 1..n : \E k \in K : Place(K, k) = i
  BY <1>6 DEF Surjection
<1>8. \A i \in 1..n : Ordered(K)[i] \in K /\ Place(K, Ordered(K)[i]) = i
  BY <1>7 DEF Ordered
<1>9. Ordered(K) \in [1..n -> K]
  BY <1>8 DEF Ordered
<1>10. Ordered(K) \in Seq(K) /\ Len(Ordered(K)) = n /\ DOMAIN Ordered(K) = 1..n
  BY <1>1, <1>9
<1>11. ASSUME NEW k \in K PROVE Ordered(K)[Place(K, k)] = k
  BY <1>2, <1>3, <1>8
<1> QED BY <1>1, <1>2, <1>10, <1>11

(***************************************************************************)
(* Both ways of winding down join every worker they are given.             *)
(***************************************************************************)
ScriptStep == {"signal", "join"} \X FleetWorkers

LEMMA StepsCover ==
  ASSUME NEW g \in Attempts, NEW K \in SUBSET Of(g), NEW op \in {"signal", "join"}
  PROVE  /\ Steps(op, K) \in Seq(ScriptStep)
         /\ \A k \in K : \E i \in 1..Len(Steps(op, K)) : Steps(op, K)[i] = <<op, k>>
<1> DEFINE ks == Ordered(K)
           s == Steps(op, K)
<1>1. /\ ks \in Seq(K) /\ Len(ks) \in Nat /\ DOMAIN ks = 1..Len(ks)
      /\ \A k \in K : \E i \in 1..Len(ks) : ks[i] = k
  BY OrderedCovers
<1>2. K \subseteq FleetWorkers
  BY DEF Of, FleetWorkers
<1> HIDE DEF ks
<1>3. s = [i \in 1..Len(ks) |-> <<op, ks[i]>>]
  BY <1>1 DEF Steps, ks
<1>4. \A i \in 1..Len(ks) : ks[i] \in FleetWorkers
  BY <1>1, <1>2
<1>5. s \in [1..Len(ks) -> ScriptStep]
  BY <1>3, <1>4 DEF ScriptStep
<1>6. s \in Seq(ScriptStep) /\ Len(s) = Len(ks)
  BY <1>1, <1>5
<1>7. \A k \in K : \E i \in 1..Len(ks) : s[i] = <<op, k>>
  BY <1>1, <1>3
<1> QED BY <1>6, <1>7

LEMMA ShutdownJoins ==
  ASSUME NEW g \in Attempts, NEW K \in SUBSET Of(g)
  PROVE  /\ ShutdownWorkers(K) \in Seq(ScriptStep)
         /\ \A k \in K : \E i \in 1..Len(ShutdownWorkers(K)) :
              ShutdownWorkers(K)[i] = <<"join", k>>
<1> DEFINE a == Steps("signal", K)
           b == Steps("join", K)
<1>1. a \in Seq(ScriptStep) /\ b \in Seq(ScriptStep)
      /\ \A k \in K : \E i \in 1..Len(b) : b[i] = <<"join", k>>
  BY StepsCover
<1> HIDE DEF a, b
<1>2. /\ a \o b \in Seq(ScriptStep) /\ Len(a) \in Nat /\ Len(b) \in Nat
      /\ Len(a \o b) = Len(a) + Len(b)
      /\ \A i \in 1..Len(b) : (a \o b)[Len(a) + i] = b[i]
  BY <1>1
<1>3. \A i \in 1..Len(b) : Len(a) + i \in 1..Len(a \o b)
  BY <1>2
<1>4. \A k \in K : \E i \in 1..Len(a \o b) : (a \o b)[i] = <<"join", k>>
  BY <1>1, <1>2, <1>3
<1> QED BY <1>2, <1>4 DEF ShutdownWorkers, a, b

LEMMA DropJoins ==
  ASSUME NEW g \in Attempts, NEW K \in SUBSET Of(g)
  PROVE  /\ DropWorkers(K) \in Seq(ScriptStep)
         /\ \A k \in K : \E i \in 1..Len(DropWorkers(K)) : DropWorkers(K)[i] = <<"join", k>>
<1> DEFINE ks == Ordered(K)
           s == DropWorkers(K)
<1>1. /\ ks \in Seq(K) /\ Len(ks) \in Nat
      /\ \A k \in K : \E i \in 1..Len(ks) : ks[i] = k
  BY OrderedCovers
<1>2. K \subseteq FleetWorkers
  BY DEF Of, FleetWorkers
<1>3. s = [i \in 1..(2 * Len(ks)) |->
             <<IF i % 2 = 1 THEN "signal" ELSE "join", ks[(i + 1) \div 2]>>]
  BY DEF DropWorkers
<1> HIDE DEF ks, s
<1>4. \A i \in 1..(2 * Len(ks)) : (i + 1) \div 2 \in 1..Len(ks)
  BY <1>1
<1>5. \A i \in 1..Len(ks) : ks[i] \in FleetWorkers
  BY <1>1, <1>2
<1>6. s \in [1..(2 * Len(ks)) -> ScriptStep]
  BY <1>3, <1>4, <1>5 DEF ScriptStep
<1>7. s \in Seq(ScriptStep) /\ Len(s) = 2 * Len(ks)
  <2>1. 2 * Len(ks) \in Nat
    BY <1>1
  <2> QED BY <1>6, <2>1
<1>8. \A i \in 1..Len(ks) : /\ 2 * i \in 1..(2 * Len(ks)) /\ (2 * i) % 2 = 0
                            /\ (2 * i + 1) \div 2 = i
  BY <1>1
<1>9. \A i \in 1..Len(ks) : s[2 * i] = <<"join", ks[i]>>
  BY <1>3, <1>8
<1>10. \A k \in K : \E i \in 1..(2 * Len(ks)) : s[i] = <<"join", k>>
  BY <1>1, <1>8, <1>9
<1> QED BY <1>7, <1>10 DEF s
-----------------------------------------------------------------------------
(***************************************************************************)
(* The fleet: which attempts and ends go with which stage of the main      *)
(* task.  Nothing of the shared attempt exists while it is still to come,  *)
(* and of a failed reuseport attempt nothing is owned.                     *)
(***************************************************************************)
ToCome == main \in {"start", "reuse_boot", "reuse_serve", "shared_bind"} \/ fallback
PassedOver == main \in {"shared_bind", "shared_boot", "accepting"} \/ fallback

Stages ==
  /\ main # "winding" => script = <<>>
  /\ fallback => main = "winding"
  /\ outcome # "none" => main \in {"winding", "returned"} /\ ~ fallback
  /\ main = "start" => \A k \in FleetWorkers : task[k] = "none"
  /\ ToCome => \A k \in Of("shared") : task[k] = "none"
  /\ PassedOver => \A k \in Of("reuse") : task[k] \in {"none", "over"}
  /\ main = "accepting" => \A k \in Of("shared") : task[k] = "owned"

(***************************************************************************)
(* A thread exists once its boot task has started it and is booted before  *)
(* it is collected; only a listener of a worker's own can fail to bind.    *)
(***************************************************************************)
Booted ==
  \A k \in FleetWorkers :
    /\ task[k] \in {"none", "spawned"} => thread[k] = "none"
    /\ task[k] \in {"ready", "done", "owned"} => thread[k] \notin {"none", "booting"}
    /\ task[k] = "bind_failed" => k[1] = "reuse"

(***************************************************************************)
(* After a regular stop every worker that came up has ended or is still to *)
(* be joined.                                                              *)
(***************************************************************************)
Joining(k) == \E i \in 1..Len(script) : script[i] = <<"join", k>>

Winding ==
  outcome \in {"ok", "accept_error"} =>
    /\ \A k \in FleetWorkers : task[k] = "owned" => thread[k] = "gone" \/ Joining(k)
    /\ \A k \in Of("shared") : task[k] \in {"none", "owned"}

(***************************************************************************)
(* Where connections are: a queued one in a mailbox, whose worker is up; a *)
(* served one with a worker that still runs.                               *)
(***************************************************************************)
Mail(w) == ToSet(mbox[w])

Delivered ==
  /\ \A w \in Indices : Mail(w) # {} => thread[<<"shared", w>>] = "up"
  /\ \A w \in Indices : \A c \in Mail(w) : conn[c].state \notin {"new", "accepted"}
  /\ \A c \in Conns : conn[c].state = "queued" => \E w \in Indices : c \in Mail(w)
  /\ \A c \in Conns : conn[c].state = "served" =>
       conn[c].at \in FleetWorkers /\ thread[conn[c].at] \in {"up", "draining"}

(***************************************************************************)
(* What the accept loop holds: two candidates that differ, and once the    *)
(* primary has refused, a secondary that is full now was so then, for only *)
(* the loop itself fills a mailbox.                                        *)
(***************************************************************************)
Offered ==
  /\ \A w \in Indices : Len(mbox[w]) <= MailboxCapacity
  /\ offer.step # "none" /\ WorkerCount # 1 => offer.a # offer.b
  /\ offer.step = "secondary" =>
       /\ offer.a \in offer.full /\ offer.full \subseteq {offer.a, offer.b}
       /\ Full(offer.b) => offer.b \in offer.full

FleetInv ==
  /\ FleetTypeOK
  /\ Stages
  /\ Booted
  /\ Winding
  /\ Delivered
  /\ Offered

-----------------------------------------------------------------------------
(***************************************************************************)
(* The steps that run the fleet keep its types.                            *)
(***************************************************************************)
LEMMA Rotation ==
  ASSUME NEW a \in Indices, NEW n \in Nat
  PROVE  (a + n) % WorkerCount \in Indices
BY FleetAssumption DEF Indices

LEMMA NextWorker ==
  ASSUME NEW a \in Indices, WorkerCount # 1
  PROVE  (a + 1) % WorkerCount \in Indices /\ (a + 1) % WorkerCount # a
BY FleetAssumption DEF Indices

LEMMA PickedWorkers ==
  ASSUME FleetTypeOK
  PROVE  LET pick == PickCandidates(picker)
         IN  /\ pick[1] \in Indices /\ pick[2] \in Indices
             /\ WorkerCount # 1 => pick[1] # pick[2]
<1> DEFINE a == picker.a
           b == IF picker.b = a THEN (picker.b + 1) % WorkerCount ELSE picker.b
<1>1. a \in Indices /\ picker.b \in Indices
  BY DEF FleetTypeOK
<1>2. b \in Indices
  BY <1>1, Rotation
<1>3. WorkerCount # 1 => a # b
  BY <1>1, NextWorker
<1> QED BY <1>1, <1>2, <1>3 DEF PickCandidates

LEMMA FamilyIsFleet ==
  /\ \A g \in Attempts : Of(g) \subseteq FleetWorkers
  /\ \A k \in FleetWorkers : k[1] \in Attempts /\ k[2] \in Indices /\ k = <<k[1], k[2]>>
  /\ \A k \in FleetWorkers : \A g \in Attempts : k \in Of(g) <=> k[1] = g
  /\ \A w \in Indices : <<"shared", w>> \in Of("shared") /\ <<"reuse", w>> \in Of("reuse")
BY DEF Of, FleetWorkers, Attempts

LEMMA FleetInitially == FleetInit => FleetInv
<1> SUFFICES ASSUME FleetInit PROVE FleetInv
  OBVIOUS
<1>1. 0 \in Indices
  BY FleetAssumption DEF Indices
<1>2. FleetTypeOK
  <2>1. script \in Seq({"signal", "join"} \X FleetWorkers) /\ panics \in 0..MaxPanics
    BY FleetAssumption DEF FleetInit
  <2>2. mbox \in [Indices -> Seq(Conns)]
    BY DEF FleetInit
  <2>3. /\ picker \in [a : Indices, b : Indices]
        /\ offer \in [step : {"none", "pick", "primary", "secondary"}, a : Indices,
                      b : Indices, depth : Nat, full : SUBSET Indices]
    BY <1>1 DEF FleetInit, NoOffer
  <2>4. task \in [FleetWorkers -> Unfinished \cup
                    {"none", "done", "owned", "failed", "bind_failed", "over"}]
    BY DEF FleetInit
  <2> QED BY <2>1, <2>2, <2>3, <2>4 DEF FleetInit, FleetTypeOK
<1>3. Stages
  BY FamilyIsFleet DEF FleetInit, Stages, ToCome, PassedOver, Attempts
<1>4. Booted /\ Winding
  BY DEF FleetInit, Booted, Winding
<1>5. Delivered
  <2>1. \A w \in Indices : Mail(w) = {}
    BY NothingListed DEF FleetInit, Mail
  <2> QED BY <2>1 DEF FleetInit, Delivered
<1>6. Offered
  BY FleetAssumption DEF FleetInit, Offered, NoOffer
<1> QED BY <1>2, <1>3, <1>4, <1>5, <1>6 DEF FleetInv

(***************************************************************************)
(* A step that touches only the mailboxes and the connections.             *)
(***************************************************************************)
MailTypes ==
  /\ mbox \in [Indices -> Seq(Conns)]
  /\ conn \in [Conns -> [state : {"new", "accepted", "queued", "served", "closed", "dropped"},
                         at : FleetWorkers \cup {NoWorker}]]

LEMMA AbandonTypes ==
  ASSUME FleetTypeOK, NEW k \in FleetWorkers, NEW lost, Abandon(k, lost)
  PROVE  MailTypes'
<1>1. mbox' \in [Indices -> Seq(Conns)]
  BY FamilyIsFleet DEF FleetTypeOK, Abandon
<1>2. ASSUME NEW c \in Conns
      PROVE  conn'[c] \in [state : {"new", "accepted", "queued", "served", "closed", "dropped"},
                           at : FleetWorkers \cup {NoWorker}]
  BY DEF FleetTypeOK, Abandon
<1>3. conn' = [c \in Conns |-> conn'[c]]
  BY DEF Abandon
<1> QED BY <1>1, <1>2, <1>3 DEF MailTypes

(***************************************************************************)
(* A step of the accept loop.                                              *)
(***************************************************************************)
LoopTypes ==
  /\ picker \in [a : Indices, b : Indices]
  /\ offer \in [step : {"none", "pick", "primary", "secondary"}, a : Indices, b : Indices,
                depth : Nat, full : SUBSET Indices]

LEMMA NoOfferType ==
  NoOffer \in [step : {"none", "pick", "primary", "secondary"}, a : Indices, b : Indices,
               depth : Nat, full : SUBSET Indices]
<1>1. 0 \in Indices
  BY FleetAssumption DEF Indices
<1> QED BY <1>1 DEF NoOffer

LEMMA LoopKeepsTypes ==
  ASSUME FleetTypeOK, LoopStep
  PROVE  MailTypes' /\ LoopTypes'
<1> USE DEF FleetTypeOK
<1>1. CASE pick_worker
  <2>1. /\ offer' \in [step : {"none", "pick", "primary", "secondary"}, a : Indices,
                       b : Indices, depth : Nat, full : SUBSET Indices]
        /\ UNCHANGED <<mbox, conn, picker>>
    BY <1>1, NoOfferType DEF pick_worker
  <2> QED BY <2>1 DEF MailTypes, LoopTypes
<1>2. ASSUME NEW w \in Indices, NEW c \in Conns, Enqueue(w, c), UNCHANGED picker
      PROVE  MailTypes' /\ LoopTypes'
  <2>1. Append(mbox[w], c) \in Seq(Conns)
    BY AppendedItem
  <2> QED BY <1>2, <2>1, NoOfferType DEF Enqueue, MailTypes, LoopTypes
<1>3. ASSUME NEW c \in Conns, DropConn(c), UNCHANGED picker
      PROVE  MailTypes' /\ LoopTypes'
  BY <1>3, NoOfferType DEF DropConn, MailTypes, LoopTypes
<1>4. ASSUME FallBack, UNCHANGED picker PROVE MailTypes' /\ LoopTypes'
  <2>1. {w \in {offer.a, offer.b} : Full(w)} \in SUBSET Indices
    OBVIOUS
  <2>2. offer' \in [step : {"none", "pick", "primary", "secondary"}, a : Indices,
                    b : Indices, depth : Nat, full : SUBSET Indices]
    BY <1>4, <2>1 DEF FallBack
  <2> QED BY <1>4, <2>2 DEF FallBack, MailTypes, LoopTypes
<1>5. ASSUME NEW c \in Conns, dispatch_stream(c) PROVE MailTypes' /\ LoopTypes'
  <2>1. UNCHANGED picker /\ offer.a \in Indices /\ offer.b \in Indices
    BY <1>5 DEF dispatch_stream
  <2>2. Enqueue(offer.a, c) \/ Enqueue(offer.b, c) \/ DropConn(c) \/ FallBack
    BY <1>5 DEF dispatch_stream, TryPrimary, TrySecondary
  <2> QED BY <1>2, <1>3, <1>4, <2>1, <2>2
<1> QED BY <1>1, <1>5 DEF LoopStep

LEMMA AcceptTypes ==
  ASSUME FleetTypeOK, NEW c \in Conns, Accept(c)
  PROVE  MailTypes' /\ LoopTypes'
<1> DEFINE pick == PickCandidates(picker)
<1>1. pick[1] \in Indices /\ pick[2] \in Indices
  BY PickedWorkers
<1> HIDE DEF pick
<1>2. picker' \in [a : Indices, b : Indices]
  BY Rotation DEF Accept, PICKER_STRIDE, FleetTypeOK
<1>3. queue_depth(pick[1]) \in Nat
  BY <1>1 DEF queue_depth, FleetTypeOK
<1>4. offer' = [step |-> "pick", a |-> pick[1], b |-> pick[2],
                depth |-> queue_depth(pick[1]), full |-> {}]
  BY DEF Accept, pick
<1>5. MailTypes'
  BY DEF Accept, FleetTypeOK, MailTypes
<1> QED BY <1>1, <1>2, <1>3, <1>4, <1>5 DEF LoopTypes

LEMMA TakeTypes ==
  ASSUME FleetTypeOK, NEW w \in Indices, TakeStream(w)
  PROVE  MailTypes'
<1>1. mbox[w] \in Seq(Conns) /\ mbox[w] # <<>>
  BY DEF FleetTypeOK, TakeStream
<1>2. Tail(mbox[w]) \in Seq(Conns) /\ Head(mbox[w]) \in Conns
  BY <1>1, HeadThenTail
<1>3. <<"shared", w>> \in FleetWorkers
  BY FamilyIsFleet DEF Attempts
<1> QED BY <1>2, <1>3 DEF FleetTypeOK, TakeStream, MailTypes

(***************************************************************************)
(* A step that touches only the main task, the boot tasks and the signals. *)
(***************************************************************************)
MainTypes ==
  /\ main \in {"start", "reuse_boot", "reuse_serve", "shared_bind", "shared_boot",
               "accepting", "winding", "returned"}
  /\ script \in Seq(ScriptStep)
  /\ fallback \in BOOLEAN
  /\ outcome \in {"none", "ok", "worker_error", "bind_error", "accept_error"}
  /\ task \in [FleetWorkers -> Unfinished \cup
                 {"none", "done", "owned", "failed", "bind_failed", "over"}]
  /\ thread \in [FleetWorkers -> {"none", "booting", "up", "draining", "gone"}]
  /\ sig \in [FleetWorkers -> BOOLEAN]

LEMMA FailureTypes ==
  ASSUME FleetTypeOK, NEW k \in FleetWorkers, JoinFailed(k)
  PROVE  MainTypes'
<1> DEFINE g == k[1]
           held == {j \in Of(g) : task[j] = "done"}
           mine == {j \in Of(g) : task[j] = "owned"}
           a == DropWorkers(held)
           b == IF g = "reuse" THEN ShutdownWorkers(mine) ELSE DropWorkers(mine)
           again == task[k] = "bind_failed"
<1>1. g \in Attempts /\ held \in SUBSET Of(g) /\ mine \in SUBSET Of(g)
  BY FamilyIsFleet
<1>2. a \in Seq(ScriptStep) /\ b \in Seq(ScriptStep)
  BY <1>1, DropJoins, ShutdownJoins
<1>3. WindDown(a \o b, again, IF again THEN "none" ELSE "worker_error")
  BY DEF JoinFailed
<1> HIDE DEF a, b
<1>4. script' \in Seq(ScriptStep) /\ main' = "winding" /\ fallback' \in BOOLEAN
      /\ outcome' \in {"none", "worker_error"}
  BY <1>2, <1>3 DEF WindDown
<1>5. task' \in [FleetWorkers -> Unfinished \cup
                   {"none", "done", "owned", "failed", "bind_failed", "over"}]
  BY DEF JoinFailed, FleetTypeOK
<1>6. sig' \in [FleetWorkers -> BOOLEAN] /\ thread' = thread
  BY DEF JoinFailed, FleetTypeOK
<1> QED BY <1>4, <1>5, <1>6 DEF MainTypes, FleetTypeOK

LEMMA MainStepTypes ==
  ASSUME FleetTypeOK,
         MainStep \/ AcceptError \/ \E k \in FleetWorkers : Spawn(k) \/ BootWorker(k) \/ Collect(k)
  PROVE  MainTypes'
<1> USE DEF FleetTypeOK, MainTypes
<1>0. script \in Seq(ScriptStep)
  BY DEF ScriptStep
<1>1. ASSUME NEW g \in Attempts, Boot(g)
      PROVE  task' \in [FleetWorkers -> Unfinished \cup
                          {"none", "done", "owned", "failed", "bind_failed", "over"}]
  BY <1>1 DEF Boot, Unfinished
<1>2. CASE ServeWithWorkers
  BY <1>0, <1>1, <1>2 DEF ServeWithWorkers, Attempts
<1>3. CASE ServeWithSharedListener
  BY <1>0, <1>1, <1>3 DEF ServeWithSharedListener, Attempts
<1>4. ASSUME NEW g \in Attempts, NEW steps \in {ShutdownWorkers(Of(g)), DropWorkers(Of(g))},
             NEW result \in {"ok", "accept_error"}, WindDown(steps, FALSE, result),
             UNCHANGED <<task, thread, sig>>
      PROVE  MainTypes'
  <2>1. steps \in Seq(ScriptStep)
    BY <1>4, DropJoins, ShutdownJoins
  <2> QED BY <1>4, <2>1 DEF WindDown
<1>5. CASE StopAccepting
  BY <1>4, <1>5 DEF StopAccepting, Attempts
<1>6. CASE StopReuseport
  BY <1>4, <1>6 DEF StopReuseport, Attempts
<1>7. CASE AcceptError
  BY <1>0, <1>4, <1>7 DEF AcceptError, Attempts, mainVars
<1>8. CASE WindStep
  <2>1. Tail(script) \in Seq(ScriptStep) /\ Head(script) \in ScriptStep
    BY <1>0, <1>8, HeadThenTail DEF WindStep
  <2>2. sig' \in [FleetWorkers -> BOOLEAN]
    BY <1>8 DEF WindStep
  <2> QED BY <1>8, <2>1, <2>2 DEF WindStep
<1>9. CASE Return
  BY <1>0, <1>9 DEF Return
<1>10. ASSUME NEW k \in FleetWorkers, JoinNext(k) PROVE MainTypes'
  BY <1>0, <1>10 DEF JoinNext
<1>11. ASSUME NEW k \in FleetWorkers, JoinFailed(k) PROVE MainTypes'
  BY <1>11, FailureTypes
<1>12. ASSUME NEW k \in FleetWorkers, Spawn(k) PROVE MainTypes'
  BY <1>0, <1>12 DEF Spawn, mainVars, Unfinished
<1>13. ASSUME NEW k \in FleetWorkers, BootWorker(k) PROVE MainTypes'
  BY <1>0, <1>13 DEF BootWorker, mainVars, Unfinished
<1>14. ASSUME NEW k \in FleetWorkers, Collect(k) PROVE MainTypes'
  BY <1>0, <1>14 DEF Collect, mainVars, Unfinished
<1> QED
  BY <1>2, <1>3, <1>5, <1>6, <1>7, <1>8, <1>9, <1>10, <1>11, <1>12, <1>13, <1>14 DEF MainStep

LEMMA FleetTypesKept ==
  ASSUME FleetTypeOK, [FleetNext]_fleetVars
  PROVE  FleetTypeOK'
<1> USE DEF FleetTypeOK
<1>1. ASSUME MainTypes', UNCHANGED <<mbox, conn, loopVars, shutdown, panics>>
      PROVE  FleetTypeOK'
  BY <1>1 DEF MainTypes, ScriptStep, loopVars
<1>2. ASSUME MailTypes', UNCHANGED <<mainVars, task, sig>>,
             thread' \in [FleetWorkers -> {"none", "booting", "up", "draining", "gone"}],
             LoopTypes', shutdown' \in BOOLEAN, panics' \in 0..MaxPanics
      PROVE  FleetTypeOK'
  BY <1>2 DEF MailTypes, LoopTypes, mainVars
<1>0. UNCHANGED loopVars => LoopTypes'
  BY DEF LoopTypes, loopVars
<1>3. CASE MainStep
  <2>1. UNCHANGED <<mbox, conn, loopVars, shutdown, panics>>
    BY <1>3 DEF MainStep, ServeWithWorkers, ServeWithSharedListener, StopAccepting,
                StopReuseport, WindStep, Return, JoinNext, JoinFailed
  <2> QED BY <1>1, <1>3, <2>1, MainStepTypes
<1>4. CASE AcceptError
  BY <1>1, <1>4, MainStepTypes DEF AcceptError
<1>5. CASE SignalShutdown
  BY <1>5 DEF SignalShutdown, mainVars, loopVars
<1>6. ASSUME NEW k \in FleetWorkers, Spawn(k) \/ BootWorker(k) \/ Collect(k)
      PROVE  FleetTypeOK'
  <2>1. UNCHANGED <<mbox, conn, loopVars, shutdown, panics>>
    BY <1>6 DEF Spawn, BootWorker, Collect
  <2> QED BY <1>1, <1>6, <2>1, MainStepTypes
<1>7. ASSUME NEW k \in FleetWorkers, Drain(k) PROVE FleetTypeOK'
  BY <1>0, <1>2, <1>7, AbandonTypes DEF Drain
<1>8. ASSUME NEW k \in FleetWorkers, Exit(k) PROVE FleetTypeOK'
  BY <1>8 DEF Exit, mainVars, loopVars
<1>9. ASSUME NEW k \in FleetWorkers, Panic(k) PROVE FleetTypeOK'
  <2>1. panics' \in 0..MaxPanics
    BY <1>9, FleetAssumption DEF Panic
  <2> QED BY <1>0, <1>2, <1>9, <2>1, AbandonTypes DEF Panic
<1>10. ASSUME NEW w \in Indices, TakeStream(w) PROVE FleetTypeOK'
  <2>1. UNCHANGED <<mainVars, task, thread, sig, loopVars, shutdown, panics>>
    BY <1>10 DEF TakeStream
  <2> QED BY <1>0, <1>2, <1>10, <2>1, TakeTypes
<1>11. ASSUME NEW w \in Indices, NEW c \in Conns, KernelAccept(w, c) PROVE FleetTypeOK'
  <2>1. <<"reuse", w>> \in FleetWorkers
    BY FamilyIsFleet DEF Attempts
  <2> QED BY <1>0, <1>2, <1>11, <2>1 DEF KernelAccept, MailTypes
<1>12. ASSUME NEW c \in Conns, Accept(c) PROVE FleetTypeOK'
  BY <1>2, <1>12, AcceptTypes DEF Accept
<1>13. ASSUME NEW c \in Conns, CloseConn(c) PROVE FleetTypeOK'
  BY <1>13 DEF CloseConn, mainVars, loopVars
<1>14. CASE UNCHANGED fleetVars
  BY <1>14 DEF fleetVars, mainVars, loopVars
<1>15. CASE LoopStep
  <2>1. UNCHANGED <<mainVars, task, thread, sig, shutdown, panics>>
    BY <1>15 DEF LoopStep, pick_worker, dispatch_stream
  <2> QED BY <1>2, <1>15, <2>1, LoopKeepsTypes
<1> QED
  BY <1>15, <1>3, <1>4, <1>5, <1>6, <1>7, <1>8, <1>9, <1>10, <1>11, <1>12, <1>13, <1>14
  DEF FleetNext, WorkerStep

-----------------------------------------------------------------------------
(***************************************************************************)
(* The stages, the boot tasks and the script.  First the steps of one      *)
(* worker: they neither take a worker up nor give one away.                *)
(***************************************************************************)
WorkersInv == Stages /\ Booted /\ Winding

LEMMA OneWorker ==
  ASSUME FleetTypeOK, WorkersInv, UNCHANGED mainVars,
         NEW k \in FleetWorkers, NEW t, NEW r,
         task' = [task EXCEPT ![k] = t], thread' = [thread EXCEPT ![k] = r],
         \/ t = task[k]
         \/ /\ task[k] \notin {"none", "over", "owned"}
            /\ t \notin {"none", "spawned", "over", "owned"},
         t \in {"none", "spawned"} => r = "none",
         t \in {"ready", "done", "owned"} => r \notin {"none", "booting"},
         t = "bind_failed" => k[1] = "reuse",
         thread[k] = "gone" => r = "gone"
  PROVE  WorkersInv'
<1> USE DEF WorkersInv
<1>1. /\ task'[k] = t /\ thread'[k] = r
      /\ \A j \in FleetWorkers : j # k => task'[j] = task[j] /\ thread'[j] = thread[j]
  BY DEF FleetTypeOK
<1>2. \A j \in FleetWorkers :
        task'[j] # task[j] => /\ task[j] \notin {"none", "over", "owned"}
                              /\ task'[j] \notin {"none", "spawned", "over", "owned"}
  BY <1>1
<1>3. Stages'
  BY <1>2, FamilyIsFleet DEF Stages, ToCome, PassedOver, mainVars, Attempts
<1>4. Booted'
  BY <1>1 DEF Booted
<1>5. Winding'
  <2>1. \A j \in FleetWorkers : Joining(j)' = Joining(j)
    BY DEF Joining, mainVars
  <2>2. \A j \in FleetWorkers : thread[j] = "gone" => thread'[j] = "gone"
    BY <1>1
  <2> QED BY <1>2, <2>1, <2>2, FamilyIsFleet DEF Winding, mainVars, Attempts
<1> QED BY <1>3, <1>4, <1>5

LEMMA WorkerSteps ==
  ASSUME FleetTypeOK, WorkersInv, NEW k \in FleetWorkers, WorkerStep(k) \/ Panic(k)
  PROVE  WorkersInv'
<1> USE DEF FleetTypeOK
<1>0. Booted
  BY DEF WorkersInv
<1>1. CASE Spawn(k)
  <2>1. PICK bind \in bind_reuseport_listener(k[1]), started \in BOOLEAN :
          /\ task' = [task EXCEPT ![k] = CASE bind = "refused" -> "bind_failed"
                                           [] bind = "bound" /\ ~ started -> "failed"
                                           [] OTHER -> "waiting"]
          /\ thread' = [thread EXCEPT ![k] = IF bind = "bound" /\ started THEN "booting" ELSE @]
    BY <1>1 DEF Spawn
  <2>2. thread[k] = "none" /\ task[k] = "spawned" /\ UNCHANGED mainVars
    BY <1>0, <1>1 DEF Spawn, Booted
  <2>3. bind = "bound" \/ (bind = "refused" /\ k[1] = "reuse")
    BY DEF bind_reuseport_listener
  <2>4. PICK t \in {"bind_failed", "failed", "waiting"}, r \in {"none", "booting"} :
          /\ task' = [task EXCEPT ![k] = t] /\ thread' = [thread EXCEPT ![k] = r]
          /\ t = "bind_failed" => k[1] = "reuse"
    BY <2>1, <2>2, <2>3
  <2> QED BY <2>2, <2>4, OneWorker
<1>2. CASE BootWorker(k)
  <2>1. PICK r \in {"up", "gone"} :
          /\ thread' = [thread EXCEPT ![k] = r]
          /\ task' = [task EXCEPT ![k] = IF @ # "waiting" THEN @
                                         ELSE IF r = "up" THEN "ready" ELSE "failed"]
    BY <1>2 DEF BootWorker
  <2>2. /\ task[k] \notin {"none", "spawned", "ready", "done", "owned"}
        /\ thread[k] = "booting" /\ UNCHANGED mainVars
        /\ task[k] = "bind_failed" => k[1] = "reuse"
    BY <1>0, <1>2 DEF BootWorker, Booted
  <2>3. CASE task[k] = "waiting" /\ r = "up"
    <3>1. task' = [task EXCEPT ![k] = "ready"]
      BY <2>1, <2>3
    <3>2. thread' = [thread EXCEPT ![k] = r] /\ r \notin {"none", "booting"}
      BY <2>1
    <3>3. task[k] \notin {"none", "over", "owned"} /\ thread[k] # "gone"
      BY <2>2, <2>3
    <3> QED BY <2>2, <3>1, <3>2, <3>3, OneWorker
  <2>4. CASE task[k] = "waiting" /\ r = "gone"
    <3>1. task' = [task EXCEPT ![k] = "failed"]
      BY <2>1, <2>4
    <3>2. thread' = [thread EXCEPT ![k] = r] /\ r \notin {"none", "booting"}
      BY <2>1
    <3>3. task[k] \notin {"none", "over", "owned"} /\ thread[k] # "gone"
      BY <2>2, <2>4
    <3> QED BY <2>2, <3>1, <3>2, <3>3, OneWorker
  <2>5. CASE task[k] # "waiting"
    <3>1. task' = [task EXCEPT ![k] = task[k]]
      BY <2>1, <2>5
    <3> QED BY <2>1, <2>2, <2>5, <3>1, OneWorker
  <2> QED BY <2>3, <2>4, <2>5
<1>3. CASE Collect(k)
  <2>1. /\ task[k] = "ready" /\ task' = [task EXCEPT ![k] = "done"]
        /\ thread' = [thread EXCEPT ![k] = thread[k]] /\ UNCHANGED mainVars
    BY <1>3 DEF Collect
  <2> QED BY <1>0, <2>1, OneWorker DEF Booted
<1>4. CASE Drain(k) \/ Exit(k) \/ Panic(k)
  <2>1. PICK r \in {"draining", "gone"} : thread' = [thread EXCEPT ![k] = r]
    BY <1>4 DEF Drain, Exit, Panic
  <2>2. /\ thread[k] \in {"up", "draining"} /\ UNCHANGED mainVars
        /\ task' = [task EXCEPT ![k] = task[k]]
    BY <1>4 DEF Drain, Exit, Panic
  <2>3. task[k] \notin {"none", "spawned"} /\ (task[k] = "bind_failed" => k[1] = "reuse")
    BY <1>0, <2>2 DEF Booted
  <2> QED BY <2>1, <2>2, <2>3, OneWorker
<1> QED BY <1>1, <1>2, <1>3, <1>4 DEF WorkerStep

(***************************************************************************)
(* The steps of the main task: booting, failing, stopping.                 *)
(***************************************************************************)
LEMMA JoinStep ==
  ASSUME FleetTypeOK, WorkersInv, NEW k \in FleetWorkers, JoinNext(k)
  PROVE  WorkersInv'
<1> USE DEF WorkersInv
<1>1. /\ k[1] \in Attempts /\ k \in Of(k[1])
      /\ main = IF k[1] = "reuse" THEN "reuse_boot" ELSE "shared_boot"
  BY FamilyIsFleet DEF JoinNext, Booting
<1>2. /\ task[k] = "done" /\ task'[k] = "owned"
      /\ \A j \in FleetWorkers : j # k => task'[j] = task[j]
      /\ UNCHANGED <<script, fallback, outcome, thread>>
  BY DEF JoinNext, FleetTypeOK
<1>3. \/ main' = main
      \/ /\ \A j \in Of(k[1]) : task'[j] = "owned"
         /\ main' = IF k[1] = "reuse" THEN "reuse_serve" ELSE "accepting"
  BY DEF JoinNext
<1>4. outcome = "none" /\ ~ fallback
  BY <1>1 DEF Stages, FleetTypeOK
<1>5. Booted'
  BY <1>2 DEF Booted
<1>6. Winding'
  BY <1>2, <1>4 DEF Winding
<1>7. Stages'
  <2>1. CASE k[1] = "reuse"
    BY <1>1, <1>2, <1>3, <1>4, <2>1, FamilyIsFleet
    DEF Stages, ToCome, PassedOver, Attempts
  <2>2. CASE k[1] = "shared"
    BY <1>1, <1>2, <1>3, <1>4, <2>2, FamilyIsFleet
    DEF Stages, ToCome, PassedOver, Attempts
  <2> QED BY <1>1, <2>1, <2>2 DEF Attempts
<1> QED BY <1>5, <1>6, <1>7

LEMMA FailStep ==
  ASSUME FleetTypeOK, WorkersInv, NEW k \in FleetWorkers, JoinFailed(k)
  PROVE  WorkersInv'
<1> USE DEF WorkersInv
<1>1. /\ k[1] \in Attempts
      /\ main = IF k[1] = "reuse" THEN "reuse_boot" ELSE "shared_boot"
  BY FamilyIsFleet DEF JoinFailed, Booting
<1>2. /\ main' = "winding" /\ fallback' = (task[k] = "bind_failed")
      /\ outcome' = IF task[k] = "bind_failed" THEN "none" ELSE "worker_error"
      /\ thread' = thread
      /\ \A j \in FleetWorkers : task'[j] = IF j \in Of(k[1]) THEN "over" ELSE task[j]
  BY DEF JoinFailed, WindDown
<1>3. fallback' => k[1] = "reuse"
  BY <1>2 DEF Booted
<1>4. Booted'
  BY <1>2 DEF Booted
<1>5. Winding'
  BY <1>2 DEF Winding
<1>6. k[1] = "reuse" => \A j \in Of("shared") : task'[j] = "none"
  BY <1>1, <1>2, FamilyIsFleet DEF Stages, ToCome, Attempts
<1>7. k[1] = "reuse" => \A j \in Of("reuse") : task'[j] = "over"
  BY <1>2, FamilyIsFleet DEF Attempts
<1>8. Stages'
  BY <1>2, <1>3, <1>6, <1>7 DEF Stages, ToCome, PassedOver
<1> QED BY <1>4, <1>5, <1>8

LEMMA StopStep ==
  ASSUME FleetTypeOK, WorkersInv, UNCHANGED <<task, thread>>,
         NEW g \in Attempts, main = IF g = "reuse" THEN "reuse_serve" ELSE "accepting",
         NEW steps \in {ShutdownWorkers(Of(g)), DropWorkers(Of(g))},
         NEW result \in {"ok", "accept_error"}, WindDown(steps, FALSE, result)
  PROVE  WorkersInv'
<1> USE DEF WorkersInv
<1>1. main' = "winding" /\ script' = steps /\ fallback' = FALSE /\ outcome' = result
  BY DEF WindDown
<1>2. \A k \in Of(g) : Joining(k)'
  <2>1. \A k \in Of(g) : \E i \in 1..Len(steps) : steps[i] = <<"join", k>>
    <3>1. CASE steps = ShutdownWorkers(Of(g))
      BY <3>1, ShutdownJoins
    <3>2. CASE steps = DropWorkers(Of(g))
      BY <3>2, DropJoins
    <3> QED BY <3>1, <3>2
  <2> QED BY <1>1, <2>1 DEF Joining
<1>3. \A k \in FleetWorkers : task[k] = "owned" => k \in Of(g)
  <2>1. CASE g = "reuse"
    BY <2>1, FamilyIsFleet DEF Stages, ToCome, Attempts
  <2>2. CASE g = "shared"
    BY <2>2, FamilyIsFleet DEF Stages, PassedOver, Attempts
  <2> QED BY <2>1, <2>2 DEF Attempts
<1>4. \A k \in Of("shared") : task[k] \in {"none", "owned"}
  BY DEF Stages, ToCome, Attempts
<1>5. Winding'
  BY <1>2, <1>3, <1>4 DEF Winding
<1>6. Stages' /\ Booted'
  BY <1>1 DEF Stages, ToCome, PassedOver, Booted
<1> QED BY <1>5, <1>6

LEMMA WindingStep ==
  ASSUME FleetTypeOK, WorkersInv, WindStep
  PROVE  WorkersInv'
<1> USE DEF WorkersInv
<1>1. /\ main = "winding" /\ script # <<>> /\ script' = Tail(script)
      /\ UNCHANGED <<main, fallback, outcome, task, thread>>
      /\ Head(script)[1] = "join" => thread[Head(script)[2]] = "gone"
  BY DEF WindStep
<1>2. /\ Head(script) = script[1] /\ Len(script) \in Nat \ {0}
      /\ Len(script') = Len(script) - 1
      /\ \A i \in 1..(Len(script) - 1) : script'[i] = script[i + 1]
  <2>1. script \in Seq({"signal", "join"} \X FleetWorkers)
    BY DEF FleetTypeOK
  <2> QED BY <1>1, <2>1, TailItems
<1>3. ASSUME NEW k \in FleetWorkers, Joining(k), thread[k] # "gone" PROVE Joining(k)'
  <2>1. PICK i \in 1..Len(script) : script[i] = <<"join", k>>
    BY <1>3 DEF Joining
  <2>2. i # 1
    BY <1>1, <1>2, <1>3, <2>1
  <2>3. i - 1 \in 1..(Len(script) - 1) /\ i - 1 + 1 = i
    BY <1>2, <2>2
  <2>4. i - 1 \in 1..Len(script') /\ script'[i - 1] = <<"join", k>>
    BY <1>2, <2>1, <2>3
  <2> QED BY <2>4 DEF Joining
<1>4. Winding'
  BY <1>1, <1>3 DEF Winding
<1>5. Stages' /\ Booted'
  BY <1>1 DEF Stages, ToCome, PassedOver, Booted
<1> QED BY <1>4, <1>5

LEMMA WorkersKept ==
  ASSUME FleetTypeOK, WorkersInv, [FleetNext]_fleetVars
  PROVE  WorkersInv'
<1>1. CASE UNCHANGED <<mainVars, task, thread>>
  <2>1. \A k : Joining(k)' = Joining(k)
    BY <1>1 DEF Joining, mainVars
  <2> QED BY <1>1, <2>1 DEF WorkersInv, Stages, ToCome, PassedOver, Booted, Winding, mainVars
<1>2. CASE ServeWithWorkers
  <2>1. /\ main = "start" /\ UNCHANGED <<script, fallback, outcome, thread>>
        /\ script = <<>> /\ ~ fallback /\ outcome = "none"
        /\ \A k \in FleetWorkers : task[k] = "none" /\ thread[k] = "none"
    BY <1>2 DEF ServeWithWorkers, WorkersInv, Stages, Booted, FleetTypeOK
  <2>2. \/ main' = "shared_bind" /\ task' = task
        \/ /\ main' = "reuse_boot"
           /\ \A k \in FleetWorkers : task'[k] = IF k \in Of("reuse") THEN "spawned" ELSE task[k]
    BY <1>2 DEF ServeWithWorkers, Boot
  <2>3. \A k \in FleetWorkers : task'[k] \in {"none", "spawned"}
    BY <2>1, <2>2
  <2>4. Stages'
    BY <2>1, <2>2, FamilyIsFleet DEF Stages, ToCome, PassedOver, Attempts
  <2>5. Booted' /\ Winding'
    BY <2>1, <2>3 DEF Booted, Winding
  <2> QED BY <2>4, <2>5 DEF WorkersInv
<1>3. CASE ServeWithSharedListener
  <2>1. /\ main = "shared_bind" /\ UNCHANGED <<script, fallback, thread>>
        /\ script = <<>> /\ ~ fallback /\ outcome = "none"
        /\ \A k \in Of("shared") : task[k] = "none" /\ thread[k] = "none"
        /\ \A k \in Of("reuse") : task[k] \in {"none", "over"}
    BY <1>3, FamilyIsFleet
    DEF ServeWithSharedListener, WorkersInv, Stages, ToCome, PassedOver, Booted, FleetTypeOK,
        Attempts
  <2>2. \/ main' = "returned" /\ outcome' = "bind_error" /\ task' = task
        \/ /\ main' = "shared_boot" /\ outcome' = outcome
           /\ \A k \in FleetWorkers : task'[k] = IF k \in Of("shared") THEN "spawned" ELSE task[k]
    BY <1>3 DEF ServeWithSharedListener, Boot
  <2>3. \A k \in Of("reuse") : task'[k] = task[k]
    BY <2>2, FamilyIsFleet DEF Attempts
  <2>4. Stages'
    BY <2>1, <2>2, <2>3 DEF Stages, ToCome, PassedOver
  <2>5. Booted' /\ Winding'
    BY <2>1, <2>2, FamilyIsFleet DEF WorkersInv, Booted, Winding
  <2> QED BY <2>4, <2>5 DEF WorkersInv
<1>4. CASE StopAccepting
  BY <1>4, StopStep DEF StopAccepting, Attempts
<1>5. CASE StopReuseport
  BY <1>5, StopStep DEF StopReuseport, Attempts
<1>6. CASE AcceptError
  BY <1>1, <1>6, StopStep DEF AcceptError, Attempts
<1>7. CASE WindStep
  BY <1>7, WindingStep
<1>8. CASE Return
  <2>1. /\ main = "winding" /\ script = <<>> /\ fallback' = FALSE
        /\ main' = IF fallback THEN "shared_bind" ELSE "returned"
        /\ UNCHANGED <<script, outcome, task, thread>>
    BY <1>8 DEF Return
  <2>2. \A k : Joining(k)' = Joining(k)
    BY <2>1 DEF Joining
  <2>3. Stages'
    BY <2>1 DEF WorkersInv, Stages, ToCome, PassedOver
  <2>4. Booted' /\ Winding'
    BY <2>1, <2>2 DEF WorkersInv, Booted, Winding
  <2> QED BY <2>3, <2>4 DEF WorkersInv
<1>9. ASSUME NEW k \in FleetWorkers, JoinNext(k) \/ JoinFailed(k) PROVE WorkersInv'
  BY <1>9, JoinStep, FailStep
<1>10. ASSUME NEW k \in FleetWorkers, WorkerStep(k) \/ Panic(k) PROVE WorkersInv'
  BY <1>10, WorkerSteps
<1>11. CASE \/ SignalShutdown
            \/ \E w \in Indices : TakeStream(w) \/ \E c \in Conns : KernelAccept(w, c)
            \/ \E c \in Conns : Accept(c) \/ CloseConn(c)
            \/ LoopStep
  BY <1>1, <1>11 DEF SignalShutdown, TakeStream, KernelAccept, Accept, CloseConn, LoopStep,
                     pick_worker, dispatch_stream
<1>12. CASE UNCHANGED fleetVars
  BY <1>1, <1>12 DEF fleetVars, mainVars
<1> QED
  BY <1>2, <1>3, <1>4, <1>5, <1>6, <1>7, <1>8, <1>9, <1>10, <1>11, <1>12
  DEF FleetNext, MainStep

-----------------------------------------------------------------------------
(***************************************************************************)
(* The mailboxes and connections.  First the steps that leave both alone   *)
(* and end no thread that runs, then those with which a thread ends.       *)
(***************************************************************************)
LEMMA DeliveredStays ==
  ASSUME Delivered, UNCHANGED <<mbox, conn>>,
         \A k \in FleetWorkers : thread[k] \in {"up", "draining"} => thread'[k] = thread[k]
  PROVE  Delivered'
<1>1. \A w \in Indices : Mail(w)' = Mail(w)
  BY DEF Mail
<1>2. \A w \in Indices : <<"shared", w>> \in FleetWorkers
  BY FamilyIsFleet DEF Attempts
<1> QED BY <1>1, <1>2 DEF Delivered

LEMMA Abandoned ==
  ASSUME FleetTypeOK, Delivered, NEW k \in FleetWorkers, NEW lost, NEW r,
         Queued(k) \subseteq lost, Abandon(k, lost),
         thread' = [thread EXCEPT ![k] = r],
         r = "draining" \/ Served(k) \subseteq lost
  PROVE  Delivered'
<1>1. thread'[k] = r /\ \A j \in FleetWorkers : j # k => thread'[j] = thread[j]
  BY DEF FleetTypeOK
<1>2. \A c \in Conns : /\ conn'[c].state = IF c \in lost THEN "dropped" ELSE conn[c].state
                       /\ conn'[c].at = conn[c].at
  BY DEF Abandon, FleetTypeOK
<1>3. /\ k[1] \in Attempts /\ k[2] \in Indices /\ k = <<k[1], k[2]>>
      /\ \A w \in Indices : <<"shared", w>> \in FleetWorkers
  BY FamilyIsFleet DEF Attempts
<1>4. \A w \in Indices : Mail(w)' = IF k = <<"shared", w>> THEN {} ELSE Mail(w)
  <2>1. CASE k[1] = "shared"
    <3>1. mbox' = [mbox EXCEPT ![k[2]] = <<>>]
      BY <2>1 DEF Abandon
    <3>2. mbox'[k[2]] = <<>> /\ \A w \in Indices : w # k[2] => mbox'[w] = mbox[w]
      BY <1>3, <3>1 DEF FleetTypeOK
    <3>3. \A w \in Indices : k = <<"shared", w>> <=> w = k[2]
      BY <1>3, <2>1
    <3> QED BY <3>2, <3>3, NothingListed DEF Mail
  <2>2. CASE k[1] # "shared"
    <3>1. mbox' = mbox
      BY <2>2 DEF Abandon
    <3> QED BY <2>2, <3>1 DEF Mail
  <2> QED BY <2>1, <2>2
<1>5. \A w \in Indices : k = <<"shared", w>> => Mail(w) \subseteq lost
  BY DEF Queued, Mail
<1>6. \A w \in Indices : Mail(w) \subseteq Conns
  BY NothingListed DEF Mail, FleetTypeOK
<1>7. \A w \in Indices : Mail(w)' # {} => thread'[<<"shared", w>>] = "up"
  BY <1>1, <1>3, <1>4 DEF Delivered
<1>8. \A w \in Indices : \A c \in Mail(w)' : conn'[c].state \notin {"new", "accepted"}
  BY <1>2, <1>4, <1>6 DEF Delivered
<1>9. \A c \in Conns : conn'[c].state = "queued" => \E w \in Indices : c \in Mail(w)'
  <2> SUFFICES ASSUME NEW c \in Conns, conn'[c].state = "queued"
               PROVE  \E w \in Indices : c \in Mail(w)'
    OBVIOUS
  <2>1. c \notin lost /\ conn[c].state = "queued"
    BY <1>2
  <2>2. PICK w \in Indices : c \in Mail(w)
    BY <2>1 DEF Delivered
  <2>3. Mail(w)' = Mail(w)
    BY <1>4, <1>5, <2>1, <2>2
  <2> QED BY <2>2, <2>3
<1>10. ASSUME NEW c \in Conns, conn'[c].state = "served"
       PROVE  conn'[c].at \in FleetWorkers /\ thread'[conn'[c].at] \in {"up", "draining"}
  <2>1. c \notin lost /\ conn[c].state = "served"
    BY <1>2, <1>10
  <2>2. conn[c].at \in FleetWorkers /\ thread[conn[c].at] \in {"up", "draining"}
    BY <2>1 DEF Delivered
  <2>3. CASE conn[c].at # k
    BY <1>1, <1>2, <2>2, <2>3
  <2>4. CASE conn[c].at = k
    <3>1. conn[c] = [state |-> "served", at |-> k]
      BY <2>1, <2>4 DEF FleetTypeOK
    <3>2. c \in Served(k)
      BY <3>1 DEF Served
    <3> QED BY <1>1, <1>2, <2>1, <2>4, <3>2
  <2> QED BY <2>3, <2>4
<1> QED BY <1>7, <1>8, <1>9, <1>10 DEF Delivered

LEMMA ExitDelivered ==
  ASSUME FleetTypeOK, Delivered, NEW k \in FleetWorkers, Exit(k)
  PROVE  Delivered'
<1>1. /\ thread[k] = "draining" /\ UNCHANGED <<mbox, conn>>
      /\ \A j \in FleetWorkers : j # k => thread'[j] = thread[j]
  BY DEF Exit, FleetTypeOK
<1>2. \A w \in Indices : Mail(w)' = Mail(w) /\ <<"shared", w>> \in FleetWorkers
  BY <1>1, FamilyIsFleet DEF Mail, Attempts
<1>3. ASSUME NEW c \in Conns, conn[c].state = "served" PROVE conn[c].at # k
  <2>1. conn[c].at = k => conn[c] = [state |-> "served", at |-> k]
    BY <1>3 DEF FleetTypeOK
  <2> QED BY <2>1 DEF Exit, Served
<1> QED BY <1>1, <1>2, <1>3 DEF Delivered

(***************************************************************************)
(* The steps of one connection.                                            *)
(***************************************************************************)
LEMMA TakeDelivered ==
  ASSUME FleetTypeOK, Delivered, NEW w \in Indices, TakeStream(w)
  PROVE  Delivered'
<1> DEFINE k == <<"shared", w>>
           h == Head(mbox[w])
<1>1. /\ thread[k] = "up" /\ thread' = thread /\ k \in FleetWorkers
      /\ mbox' = [mbox EXCEPT ![w] = Tail(@)]
      /\ conn' = [conn EXCEPT ![h] = [state |-> "served", at |-> k]]
  BY FamilyIsFleet DEF TakeStream, Attempts
<1>2. mbox[w] \in Seq(Conns) /\ mbox[w] # <<>>
  BY DEF TakeStream, FleetTypeOK
<1>3. h \in Conns /\ ToSet(mbox[w]) = {h} \cup ToSet(Tail(mbox[w]))
  BY <1>2, HeadThenTail
<1>4. /\ Mail(w) = {h} \cup Mail(w)'
      /\ \A v \in Indices : v # w => Mail(v)' = Mail(v)
  BY <1>1, <1>3 DEF Mail, FleetTypeOK
<1>5. /\ conn'[h].state = "served" /\ conn'[h].at = k
      /\ \A c \in Conns : c # h => conn'[c] = conn[c]
  BY <1>1, <1>3 DEF FleetTypeOK
<1>6. \A v \in Indices : Mail(v) \subseteq Conns
  BY NothingListed DEF Mail, FleetTypeOK
<1> HIDE DEF h, k
<1>7. \A v \in Indices : Mail(v)' # {} => thread'[<<"shared", v>>] = "up"
  BY <1>1, <1>4 DEF Delivered
<1>8. \A v \in Indices : \A c \in Mail(v)' : conn'[c].state \notin {"new", "accepted"}
  <2> SUFFICES ASSUME NEW v \in Indices, NEW c \in Mail(v)'
               PROVE  conn'[c].state \notin {"new", "accepted"}
    OBVIOUS
  <2>1. c \in Mail(v) /\ c \in Conns
    BY <1>4, <1>6
  <2> QED BY <1>5, <2>1 DEF Delivered
<1>9. \A c \in Conns : conn'[c].state = "queued" => \E v \in Indices : c \in Mail(v)'
  <2> SUFFICES ASSUME NEW c \in Conns, conn'[c].state = "queued"
               PROVE  \E v \in Indices : c \in Mail(v)'
    OBVIOUS
  <2>1. c # h /\ conn[c].state = "queued"
    BY <1>5
  <2>2. PICK v \in Indices : c \in Mail(v)
    BY <2>1 DEF Delivered
  <2> QED BY <1>4, <2>1, <2>2
<1>10. \A c \in Conns : conn'[c].state = "served" =>
         conn'[c].at \in FleetWorkers /\ thread'[conn'[c].at] \in {"up", "draining"}
  BY <1>1, <1>5 DEF Delivered
<1> QED BY <1>7, <1>8, <1>9, <1>10 DEF Delivered

LEMMA KernelDelivered ==
  ASSUME FleetTypeOK, Delivered, NEW w \in Indices, NEW c \in Conns, KernelAccept(w, c)
  PROVE  Delivered'
<1> DEFINE k == <<"reuse", w>>
<1>0. k \in FleetWorkers
  BY FamilyIsFleet DEF Attempts
<1>1. /\ thread[k] = "up" /\ thread' = thread /\ mbox' = mbox /\ k \in FleetWorkers
      /\ conn'[c].state = "served" /\ conn'[c].at = k
      /\ \A d \in Conns : d # c => conn'[d] = conn[d]
  <2>1. conn' = [conn EXCEPT ![c] = [state |-> "served", at |-> k]]
    BY DEF KernelAccept
  <2>2. conn'[c] = [state |-> "served", at |-> k] /\ \A d \in Conns : d # c => conn'[d] = conn[d]
    BY <2>1 DEF FleetTypeOK
  <2> QED BY <1>0, <2>2 DEF KernelAccept
<1>2. \A v \in Indices : Mail(v)' = Mail(v) /\ Mail(v) \subseteq Conns
  BY <1>1, NothingListed DEF Mail, FleetTypeOK
<1> HIDE DEF k
<1>3. \A v \in Indices : Mail(v)' # {} => thread'[<<"shared", v>>] = "up"
  BY <1>1, <1>2 DEF Delivered
<1>6. \A v \in Indices : \A d \in Mail(v)' : conn'[d].state \notin {"new", "accepted"}
  <2> SUFFICES ASSUME NEW v \in Indices, NEW d \in Mail(v)'
               PROVE  conn'[d].state \notin {"new", "accepted"}
    OBVIOUS
  <2>1. d \in Mail(v) /\ d \in Conns
    BY <1>2
  <2>2. conn[d].state \notin {"new", "accepted"}
    BY <2>1 DEF Delivered
  <2>3. CASE d = c
    BY <1>1, <2>3
  <2>4. CASE d # c
    BY <1>1, <2>1, <2>2, <2>4
  <2> QED BY <2>3, <2>4
<1>4. \A d \in Conns : conn'[d].state = "queued" => \E v \in Indices : d \in Mail(v)'
  <2> SUFFICES ASSUME NEW d \in Conns, conn'[d].state = "queued"
               PROVE  \E v \in Indices : d \in Mail(v)'
    OBVIOUS
  <2>1. conn[d].state = "queued"
    BY <1>1
  <2> QED BY <1>2, <2>1 DEF Delivered
<1>5. \A d \in Conns : conn'[d].state = "served" =>
         conn'[d].at \in FleetWorkers /\ thread'[conn'[d].at] \in {"up", "draining"}
  BY <1>1 DEF Delivered
<1> QED BY <1>3, <1>4, <1>5, <1>6 DEF Delivered

LEMMA AcceptDelivered ==
  ASSUME FleetTypeOK, Delivered, NEW c \in Conns, Accept(c)
  PROVE  Delivered'
<1>1. /\ conn[c].state = "new" /\ conn'[c].state = "accepted" /\ UNCHANGED <<mbox, thread>>
      /\ \A d \in Conns : d # c => conn'[d] = conn[d]
  BY DEF Accept, FleetTypeOK
<1>2. \A v \in Indices : Mail(v)' = Mail(v) /\ Mail(v) \subseteq Conns
  BY <1>1, NothingListed DEF Mail, FleetTypeOK
<1> QED BY <1>1, <1>2 DEF Delivered

LEMMA DispatchDelivered ==
  ASSUME FleetTypeOK, WorkersInv, Delivered, NEW c \in Conns, dispatch_stream(c)
  PROVE  Delivered'
<1>1. offer.a \in Indices /\ offer.b \in Indices
  BY DEF FleetTypeOK
<1>2. \/ \E w \in Indices : try_send_stream(w) = "ok" /\ Enqueue(w, c)
      \/ DropConn(c)
      \/ FallBack
  BY <1>1 DEF dispatch_stream, TryPrimary, TrySecondary
<1>3. thread' = thread /\ main = "accepting" /\ conn[c].state = "accepted"
  BY DEF dispatch_stream, TryPrimary, TrySecondary, Dispatching
<1>4. \A v \in Indices : Mail(v) \subseteq Conns
  BY NothingListed DEF Mail, FleetTypeOK
<1>5. ASSUME NEW w \in Indices, try_send_stream(w) = "ok", Enqueue(w, c) PROVE Delivered'
  <2>1. thread[<<"shared", w>>] = "up"
    <3>1. thread[<<"shared", w>>] \in {"booting", "up"}
      BY <1>5 DEF try_send_stream, Closed
    <3>2. task[<<"shared", w>>] = "owned" /\ <<"shared", w>> \in FleetWorkers
      BY <1>3, FamilyIsFleet DEF WorkersInv, Stages, Attempts
    <3>3. thread[<<"shared", w>>] # "booting"
      BY <3>2 DEF WorkersInv, Booted
    <3> QED BY <3>1, <3>3
  <2>2. Mail(w)' = Mail(w) \cup {c}
    <3>1. mbox[w] \in Seq(Conns) /\ mbox'[w] = Append(mbox[w], c)
      BY <1>5 DEF Enqueue, FleetTypeOK
    <3>2. ToSet(Append(mbox[w], c)) = ToSet(mbox[w]) \cup {c}
      BY <3>1, AppendedItem
    <3> QED BY <3>1, <3>2 DEF Mail
  <2>3. \A v \in Indices : v # w => Mail(v)' = Mail(v)
    BY <1>5 DEF Enqueue, FleetTypeOK, Mail
  <2>4. conn'[c].state = "queued" /\ \A d \in Conns : d # c => conn'[d] = conn[d]
    BY <1>5 DEF Enqueue, FleetTypeOK
  <2> QED BY <1>3, <1>4, <2>1, <2>2, <2>3, <2>4 DEF Delivered
<1>6. CASE DropConn(c)
  <2>1. \A v \in Indices : Mail(v)' = Mail(v)
    BY <1>6 DEF DropConn, Mail
  <2>2. conn'[c].state = "dropped" /\ \A d \in Conns : d # c => conn'[d] = conn[d]
    BY <1>6 DEF DropConn, FleetTypeOK
  <2> QED BY <1>3, <1>4, <2>1, <2>2 DEF Delivered
<1>7. CASE FallBack
  BY <1>3, <1>7, DeliveredStays DEF FallBack
<1> QED BY <1>2, <1>5, <1>6, <1>7

LEMMA CloseDelivered ==
  ASSUME FleetTypeOK, Delivered, NEW c \in Conns, CloseConn(c)
  PROVE  Delivered'
<1>1. /\ thread' = thread /\ mbox' = mbox /\ conn'[c].state = "closed"
      /\ \A d \in Conns : d # c => conn'[d] = conn[d]
  BY DEF CloseConn, FleetTypeOK
<1>2. \A v \in Indices : Mail(v)' = Mail(v) /\ Mail(v) \subseteq Conns
  BY <1>1, NothingListed DEF Mail, FleetTypeOK
<1> QED BY <1>1, <1>2 DEF Delivered

LEMMA DeliveredKept ==
  ASSUME FleetTypeOK, WorkersInv, Delivered, [FleetNext]_fleetVars
  PROVE  Delivered'
<1>1. CASE UNCHANGED <<mbox, conn, thread>>
  BY <1>1, DeliveredStays
<1>2. CASE MainStep \/ AcceptError \/ SignalShutdown \/ UNCHANGED fleetVars
  BY <1>1, <1>2 DEF MainStep, ServeWithWorkers, ServeWithSharedListener, StopAccepting,
     StopReuseport, WindStep, Return, JoinNext, JoinFailed, AcceptError, SignalShutdown,
     fleetVars
<1>7. CASE LoopStep
  BY <1>1, <1>7, DispatchDelivered DEF LoopStep, pick_worker
<1>3. ASSUME NEW k \in FleetWorkers, Spawn(k) \/ BootWorker(k) \/ Collect(k) PROVE Delivered'
  <2>1. UNCHANGED <<mbox, conn>>
    BY <1>3 DEF Spawn, BootWorker, Collect
  <2>2. /\ \A j \in FleetWorkers : j # k => thread'[j] = thread[j]
        /\ thread'[k] = thread[k] \/ thread[k] \in {"none", "booting"}
    BY <1>3 DEF Spawn, BootWorker, Collect, FleetTypeOK, WorkersInv, Booted
  <2> QED BY <2>1, <2>2, DeliveredStays
<1>4. ASSUME NEW k \in FleetWorkers, Drain(k) PROVE Delivered'
  BY <1>4, Abandoned DEF Drain
<1>5. ASSUME NEW k \in FleetWorkers, Panic(k) PROVE Delivered'
  BY <1>5, Abandoned DEF Panic
<1>6. ASSUME NEW k \in FleetWorkers, Exit(k) PROVE Delivered'
  BY <1>6, ExitDelivered
<1> QED
  BY <1>2, <1>3, <1>4, <1>5, <1>6, <1>7, TakeDelivered, KernelDelivered, AcceptDelivered, CloseDelivered
  DEF FleetNext, WorkerStep

-----------------------------------------------------------------------------
(***************************************************************************)
(* The accept loop.  Nobody else fills a mailbox, so that what was not     *)
(* full when the primary refused has room for as long as the loop holds    *)
(* the connection.                                                         *)
(***************************************************************************)
NoFuller ==
  \A w \in Indices : mbox'[w] = mbox[w] \/ (~ Full(w)' /\ Len(mbox'[w]) <= MailboxCapacity)

LEMMA OfferedStays ==
  ASSUME FleetTypeOK, Offered, NoFuller, UNCHANGED offer
  PROVE  Offered'
<1>1. offer.b \in Indices
  BY DEF FleetTypeOK
<1>2. \A w \in Indices : Full(w)' => Full(w)
  BY DEF NoFuller, Full, queue_depth
<1>3. \A w \in Indices : Len(mbox'[w]) <= MailboxCapacity
  BY DEF NoFuller, Offered
<1>4. Full(offer.b)' => Full(offer.b)
  BY <1>1, <1>2 DEF Full, queue_depth
<1> QED BY <1>3, <1>4 DEF Offered

LEMMA AbandonedIsEmpty ==
  ASSUME FleetTypeOK, NEW k \in FleetWorkers, NEW lost, Abandon(k, lost)
  PROVE  NoFuller
<1>1. \A w \in Indices : mbox'[w] = mbox[w] \/ mbox'[w] = <<>>
  BY FamilyIsFleet DEF Abandon, FleetTypeOK
<1> QED BY <1>1, FleetAssumption DEF NoFuller, Full, queue_depth

LEMMA TakenIsShorter ==
  ASSUME FleetTypeOK, Offered, NEW w \in Indices, TakeStream(w)
  PROVE  NoFuller
<1>1. mbox[w] \in Seq(Conns) /\ mbox[w] # <<>> /\ mbox'[w] = Tail(mbox[w])
      /\ \A v \in Indices : v # w => mbox'[v] = mbox[v]
  BY DEF TakeStream, FleetTypeOK
<1>2. Len(mbox[w]) \in Nat /\ Len(mbox'[w]) = Len(mbox[w]) - 1
  BY <1>1, TailItems
<1>3. Len(mbox[w]) <= MailboxCapacity
  BY DEF Offered
<1>4. Len(mbox'[w]) # MailboxCapacity /\ Len(mbox'[w]) <= MailboxCapacity
  BY <1>2, <1>3, FleetAssumption
<1>5. ~ Full(w)' /\ Len(mbox'[w]) <= MailboxCapacity
  BY <1>4 DEF Full, queue_depth
<1> QED BY <1>1, <1>5 DEF NoFuller

LEMMA DispatchOffered ==
  ASSUME FleetTypeOK, Offered, NEW c \in Conns, dispatch_stream(c)
  PROVE  Offered'
<1>1. offer.a \in Indices /\ offer.b \in Indices
  BY DEF FleetTypeOK
<1>2. CASE \E w \in Indices : try_send_stream(w) = "ok" /\ Enqueue(w, c)
  <2>1. PICK w \in Indices : try_send_stream(w) = "ok" /\ Enqueue(w, c)
    BY <1>2
  <2>2. /\ mbox[w] \in Seq(Conns) /\ Len(mbox[w]) \in Nat
        /\ Len(mbox[w]) # MailboxCapacity /\ Len(mbox[w]) <= MailboxCapacity
    BY <2>1 DEF FleetTypeOK, try_send_stream, Full, queue_depth, Offered
  <2>3. /\ mbox'[w] = Append(mbox[w], c)
        /\ \A v \in Indices : v # w => mbox'[v] = mbox[v]
    BY <2>1 DEF Enqueue, FleetTypeOK
  <2>4. Len(mbox'[w]) = Len(mbox[w]) + 1
    BY <2>2, <2>3
  <2>5. \A v \in Indices : Len(mbox'[v]) <= MailboxCapacity
    BY <2>2, <2>3, <2>4, FleetAssumption DEF Offered
  <2>6. offer'.step = "none"
    BY <2>1 DEF Enqueue, NoOffer
  <2> QED BY <2>5, <2>6 DEF Offered
<1>3. CASE DropConn(c)
  BY <1>3 DEF DropConn, NoOffer, Offered
<1>4. CASE FallBack /\ try_send_stream(offer.a) = "full" /\ offer.step = "primary"
  <2>1. Full(offer.a)
    BY <1>4 DEF try_send_stream
  <2>2. /\ offer'.a = offer.a /\ offer'.b = offer.b /\ mbox' = mbox
        /\ offer'.full = {w \in {offer.a, offer.b} : Full(w)}
    BY <1>4 DEF FallBack, FleetTypeOK
  <2>3. Full(offer.b)' <=> Full(offer.b)
    BY <2>2 DEF Full, queue_depth
  <2>4. offer.b \in offer'.full <=> Full(offer.b)
    BY <2>2
  <2>5. offer.a \in offer'.full /\ offer'.full \subseteq {offer.a, offer.b}
    BY <2>1, <2>2
  <2>6. \A w \in Indices : Len(mbox'[w]) <= MailboxCapacity
    BY <2>2 DEF Offered
  <2> QED BY <1>4, <2>2, <2>3, <2>4, <2>5, <2>6 DEF Offered
<1> QED
  BY <1>1, <1>2, <1>3, <1>4 DEF dispatch_stream, TryPrimary, TrySecondary, Dispatching

LEMMA OfferedKept ==
  ASSUME FleetTypeOK, Offered, [FleetNext]_fleetVars
  PROVE  Offered'
<1>1. ASSUME mbox' = mbox, offer' = offer PROVE Offered'
  BY <1>1, OfferedStays DEF NoFuller
<1>2. CASE MainStep \/ AcceptError \/ SignalShutdown \/ UNCHANGED fleetVars
  BY <1>1, <1>2 DEF MainStep, ServeWithWorkers, ServeWithSharedListener, StopAccepting,
     StopReuseport, WindStep, Return, JoinNext, JoinFailed, AcceptError, SignalShutdown,
     fleetVars, loopVars
<1>3. ASSUME NEW k \in FleetWorkers, Spawn(k) \/ BootWorker(k) \/ Collect(k) \/ Exit(k)
      PROVE  Offered'
  BY <1>1, <1>3 DEF Spawn, BootWorker, Collect, Exit, loopVars
<1>4. ASSUME NEW k \in FleetWorkers, Drain(k) PROVE Offered'
  BY <1>4, AbandonedIsEmpty, OfferedStays DEF Drain, loopVars
<1>5. ASSUME NEW k \in FleetWorkers, Panic(k) PROVE Offered'
  BY <1>5, AbandonedIsEmpty, OfferedStays DEF Panic, loopVars
<1>6. ASSUME NEW w \in Indices, TakeStream(w) PROVE Offered'
  BY <1>6, TakenIsShorter, OfferedStays DEF TakeStream, loopVars
<1>7. ASSUME NEW w \in Indices, NEW c \in Conns, KernelAccept(w, c) PROVE Offered'
  BY <1>1, <1>7 DEF KernelAccept, loopVars
<1>8. ASSUME NEW c \in Conns, CloseConn(c) PROVE Offered'
  BY <1>1, <1>8 DEF CloseConn, loopVars
<1>9. ASSUME NEW c \in Conns, Accept(c) PROVE Offered'
  <2> DEFINE pick == PickCandidates(picker)
  <2>1. WorkerCount # 1 => pick[1] # pick[2]
    BY PickedWorkers
  <2> HIDE DEF pick
  <2>2. /\ mbox' = mbox
        /\ offer' = [step |-> "pick", a |-> pick[1], b |-> pick[2],
                     depth |-> queue_depth(pick[1]), full |-> {}]
    BY <1>9 DEF Accept, pick
  <2> QED BY <2>1, <2>2 DEF Offered
<1>10. CASE pick_worker
  <2>1. /\ mbox' = mbox /\ offer.step = "pick" /\ offer'.step = "primary"
        /\ \/ offer'.a = offer.a /\ offer'.b = offer.b
           \/ offer'.a = offer.b /\ offer'.b = offer.a
    BY <1>10 DEF pick_worker, Dispatching, NoOffer
  <2> QED BY <2>1 DEF Offered
<1> QED
  BY <1>2, <1>3, <1>4, <1>5, <1>6, <1>7, <1>8, <1>9, <1>10, DispatchOffered
  DEF FleetNext, WorkerStep, LoopStep

-----------------------------------------------------------------------------
(***************************************************************************)
(* The server as a whole.                                                  *)
(***************************************************************************)
LEMMA FleetStep ==
  ASSUME FleetInv, [FleetNext]_fleetVars
  PROVE  FleetInv'
<1>1. FleetTypeOK /\ WorkersInv /\ Delivered /\ Offered
  BY DEF FleetInv, WorkersInv
<1>2. FleetTypeOK' /\ WorkersInv' /\ Delivered' /\ Offered'
  BY <1>1, FleetTypesKept, WorkersKept, DeliveredKept, OfferedKept
<1> QED BY <1>2 DEF FleetInv, WorkersInv

LEMMA ServerIsFleet ==
  ASSUME [ServerNext]_serverVars
  PROVE  [FleetNext]_fleetVars
BY DEF ServerNext, ServeFleet, Serving, serverVars

(***************************************************************************)
(* The invariant of the fleet, from which the rest follows.                *)
(***************************************************************************)
THEOREM FleetInvariance == ServerSpec => []FleetInv
<1>1. ServerInit => FleetInv
  BY FleetInitially DEF ServerInit
<1>2. FleetInv /\ [ServerNext]_serverVars => FleetInv'
  BY FleetStep, ServerIsFleet
<1> QED BY <1>1, <1>2, PTL DEF ServerSpec

(***************************************************************************)
(* serve_with_workers returns from a regular stop only when every worker   *)
(* it brought up has ended, with no connection queued or being served by   *)
(* one of them: each has been joined, a mailbox belongs to a worker that   *)
(* is up, and a connection that is served to one that still runs.          *)
(***************************************************************************)
THEOREM StopDrains == ServerSpec => []ReturnMeansDrained
<1>1. FleetInv => ReturnMeansDrained
  <2> SUFFICES ASSUME FleetInv, main = "returned", outcome \in {"ok", "accept_error"}
               PROVE  /\ \A k \in FleetWorkers : task[k] = "owned" => thread[k] = "gone"
                      /\ \A c \in Conns :
                           /\ conn[c].state # "queued"
                           /\ conn[c].state = "served" => task[conn[c].at] # "owned"
    BY DEF ReturnMeansDrained
  <2>1. \A k \in FleetWorkers : ~ Joining(k)
    BY DEF FleetInv, Stages, Joining
  <2>2. \A k \in FleetWorkers : task[k] = "owned" => thread[k] = "gone"
    BY <2>1 DEF FleetInv, Winding
  <2>3. ASSUME NEW w \in Indices PROVE Mail(w) = {}
    <3>1. <<"shared", w>> \in Of("shared") /\ <<"shared", w>> \in FleetWorkers
      BY FamilyIsFleet DEF Attempts
    <3>2. thread[<<"shared", w>>] \in {"none", "gone"}
      BY <2>2, <3>1 DEF FleetInv, Winding, Booted
    <3> QED BY <3>2 DEF FleetInv, Delivered
  <2>4. \A c \in Conns : conn[c].state # "queued"
    BY <2>3 DEF FleetInv, Delivered
  <2>5. \A c \in Conns : conn[c].state = "served" => task[conn[c].at] # "owned"
    BY <2>2 DEF FleetInv, Delivered
  <2> QED BY <2>2, <2>4, <2>5
<1> QED BY <1>1, FleetInvariance, PTL

(***************************************************************************)
(* When a connection the accept loop holds is dropped: only by the loop,   *)
(* and then for want of room.                                              *)
(***************************************************************************)
TwoFull ==
  \/ Closed(offer.a) \/ Closed(offer.b)
  \/ Cardinality(offer.full) = 2
  \/ WorkerCount = 1

LEMMA DroppedInHand ==
  ASSUME FleetInv, [FleetNext]_fleetVars, NEW c \in Conns,
         conn[c].state = "accepted", conn'[c].state = "dropped"
  PROVE  dispatch_stream(c)
<1>1. FleetTypeOK /\ Delivered
  BY DEF FleetInv
<1>2. ASSUME NEW k \in FleetWorkers, NEW lost \in {Queued(k), Queued(k) \cup Served(k)},
             Abandon(k, lost)
      PROVE  FALSE
  <2>1. c \in lost
    BY <1>2, <1>1 DEF Abandon, FleetTypeOK
  <2>2. c \notin Served(k)
    BY DEF Served
  <2>3. c \notin Queued(k)
    BY <1>1, FamilyIsFleet DEF Queued, Delivered, Mail
  <2> QED BY <2>1, <2>2, <2>3
<1>3. ASSUME NEW k \in FleetWorkers, Drain(k) \/ Panic(k) PROVE FALSE
  BY <1>2, <1>3 DEF Drain, Panic
<1>4. ASSUME NEW w \in Indices, TakeStream(w) PROVE FALSE
  BY <1>1, <1>4 DEF TakeStream, FleetTypeOK
<1>5. ASSUME NEW w \in Indices, NEW d \in Conns, KernelAccept(w, d) PROVE FALSE
  BY <1>1, <1>5 DEF KernelAccept, FleetTypeOK
<1>6. ASSUME NEW d \in Conns, CloseConn(d) \/ Accept(d) PROVE FALSE
  BY <1>1, <1>6 DEF CloseConn, Accept, FleetTypeOK
<1>7. ASSUME conn' = conn PROVE FALSE
  BY <1>7
<1>8. ASSUME NEW k \in FleetWorkers, WorkerStep(k) PROVE FALSE
  BY <1>3, <1>7, <1>8 DEF WorkerStep, Spawn, BootWorker, Collect, Exit
<1>9. ASSUME MainStep \/ AcceptError \/ SignalShutdown \/ pick_worker \/ UNCHANGED fleetVars
      PROVE  FALSE
  BY <1>7, <1>9 DEF MainStep, ServeWithWorkers, ServeWithSharedListener, StopAccepting,
     StopReuseport, WindStep, Return, JoinNext, JoinFailed, AcceptError, SignalShutdown,
     pick_worker, fleetVars
<1>10. PICK d \in Conns : dispatch_stream(d)
  BY <1>3, <1>4, <1>5, <1>6, <1>8, <1>9 DEF FleetNext, LoopStep
<1>11. Enqueue(offer.a, d) \/ Enqueue(offer.b, d) \/ DropConn(d) \/ FallBack
  BY <1>10 DEF dispatch_stream, TryPrimary, TrySecondary
<1>12. d = c
  BY <1>1, <1>11 DEF Enqueue, DropConn, FallBack, FleetTypeOK
<1> QED BY <1>10, <1>12

LEMMA DropIsForced ==
  ASSUME FleetInv, NEW c \in Conns, dispatch_stream(c), conn'[c].state = "dropped"
  PROVE  TwoFull
<1>1. FleetTypeOK /\ Offered
  BY DEF FleetInv
<1>2. ASSUME Enqueue(offer.a, c) \/ Enqueue(offer.b, c) PROVE FALSE
  BY <1>1, <1>2 DEF Enqueue, FleetTypeOK
<1>3. ASSUME FallBack, conn[c].state = "accepted" PROVE FALSE
  BY <1>3 DEF FallBack
<1>4. CASE TryPrimary(c)
  <2>1. try_send_stream(offer.a) = "closed"
    BY <1>2, <1>3, <1>4 DEF TryPrimary
  <2> QED BY <2>1 DEF try_send_stream, TwoFull
<1>5. CASE TrySecondary(c)
  <2>1. offer.step = "secondary" /\ try_send_stream(offer.b) # "ok"
    BY <1>2, <1>5 DEF TrySecondary, Dispatching
  <2>2. Closed(offer.b) \/ Full(offer.b)
    BY <2>1 DEF try_send_stream
  <2>3. CASE Full(offer.b) /\ WorkerCount # 1
    <3>1. offer.full = {offer.a, offer.b} /\ offer.a # offer.b
      BY <1>1, <2>1, <2>3 DEF Offered
    <3>2. /\ IsFiniteSet({offer.a}) /\ Cardinality({offer.a}) = 1
          /\ offer.b \notin {offer.a} /\ {offer.a} \cup {offer.b} = offer.full
      BY <3>1, FS_Singleton
    <3>3. Cardinality({offer.a} \cup {offer.b}) = Cardinality({offer.a}) + 1
      BY <3>2, FS_AddElement
    <3> QED BY <3>2, <3>3 DEF TwoFull
  <2> QED BY <2>2, <2>3 DEF TwoFull
<1> QED BY <1>4, <1>5 DEF dispatch_stream

(***************************************************************************)
(* The accept loop turns a connection away only when a candidate has died  *)
(* or when, at the instant the primary refused it, the mailboxes of two    *)
(* workers were full: the candidates of more than one worker always        *)
(* differ, and while the loop holds a connection no mailbox fills up.      *)
(***************************************************************************)
THEOREM DropsUnderOverload == ServerSpec => DropNeedsTwoFull
<1>1. FleetInv /\ [ServerNext]_serverVars =>
        [\A c \in Conns :
           conn[c].state = "accepted" /\ conn'[c].state = "dropped" => TwoFull]_fleetVars
  <2> SUFFICES ASSUME FleetInv, [ServerNext]_serverVars, NEW c \in Conns,
                      conn[c].state = "accepted", conn'[c].state = "dropped"
               PROVE  TwoFull
    OBVIOUS
  <2>1. dispatch_stream(c)
    BY ServerIsFleet, DroppedInHand
  <2> QED BY <2>1, DropIsForced
<1> QED BY <1>1, FleetInvariance, PTL DEF ServerSpec, DropNeedsTwoFull, TwoFull

(***************************************************************************)
(* What is served is one build, whatever is on disk.                       *)
(***************************************************************************)
THEOREM ServesOneBuild == ServerSpec => []OneBuild
<1>1. ServerInit => OneBuild
  BY DEF ServerInit, StartupInit, OneBuild
<1>2. OneBuild /\ [ServerNext]_serverVars => OneBuild'
  <2> SUFFICES ASSUME OneBuild, [ServerNext]_serverVars, stage' = "resolved"
               PROVE  OneBuild'
    BY DEF OneBuild
  <2>1. CASE RunStart
    <3>1. disk' = disk
      BY <2>1 DEF RunStart
    <3>2. Settled(layout')
      BY <2>1, RunStartOneBuild
    <3> QED BY <3>1, <3>2 DEF Settled, OneBuild, Exists
  <2>2. CASE UNCHANGED startupVars
    BY <2>2 DEF startupVars, OneBuild, Exists
  <2> QED
    BY <2>1, <2>2 DEF ServerNext, StartupNext, Delegate, ServeApp, ServeFleet, Serving,
       serverVars
<1> QED BY <1>1, <1>2, PTL DEF ServerSpec

(***************************************************************************)
(* The sizing leaves room for the isolate a recycle adds, whatever the     *)
(* environment says, and V8 boots within the heap it is given.             *)
(***************************************************************************)
THEOREM SizingFits == ServerSpec => []BudgetHonoured
<1>1. ServerInit => BudgetHonoured
  BY DEF ServerInit, StartupInit, BudgetHonoured
<1>2. BudgetHonoured /\ [ServerNext]_serverVars => BudgetHonoured'
  <2> SUFFICES ASSUME BudgetHonoured, [ServerNext]_serverVars PROVE BudgetHonoured'
    OBVIOUS
  <2>1. CASE ServeApp
    BY <2>1, SizingHonours
  <2>2. CASE RunStart \/ Delegate
    <3>1. stage' # "sized"
      BY <2>2 DEF RunStart, Delegate, resolve, from_entrypoint, Settle
    <3> QED BY <3>1 DEF BudgetHonoured
  <2>3. CASE ServeFleet
    BY <2>3 DEF ServeFleet, BudgetHonoured
  <2>4. CASE UNCHANGED startupVars
    BY <2>4 DEF startupVars, BudgetHonoured
  <2> QED BY <2>1, <2>2, <2>3, <2>4 DEF ServerNext, StartupNext, Serving, serverVars, fleetVars
<1> QED BY <1>1, <1>2, PTL DEF ServerSpec
=============================================================================
